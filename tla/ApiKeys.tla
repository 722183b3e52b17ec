------------------------------ MODULE ApiKeys ------------------------------
(***************************************************************************)
(* API keys: authentication, the storage quota, the count of used bytes,   *)
(* the audit log, and the command-line tools that mint, disable, enable    *)
(* and purge keys while requests are running.                              *)
(*                                                                         *)
(* Every database call is a transaction of its own.  A request reads its   *)
(* key once, when it is authenticated (require_api_key), and uses what it  *)
(* read until it ends: the quota is tested against that reading, and the   *)
(* bytes are added to the row that is there when the file is stored.       *)
(*                                                                         *)
(* The rate limiter may refuse any request here.  Bytes on disk are the    *)
(* subject of BlobLifecycle, and a file row is only its uploader and size. *)
(***************************************************************************)
EXTENDS Naturals, FiniteSets

CONSTANTS
  Keys,
  Requests,
  Tools,      \* runs of scripts/keys.py at the same time
  Size,       \* Size[r]: the bytes that r uploads
  Limited,    \* the keys that are minted with a quota
  Quota,      \* Quota[k], for k \in Limited
  Workers,    \* how many requests can be past their last await at once
  NoKey

ASSUME KeysAssumption ==
  /\ Limited \subseteq Keys
  /\ Size \in [Requests -> Nat \ {0}]
  /\ Quota \in [Limited -> Nat]
  /\ Workers \in Nat \ {0}
  /\ NoKey \notin Keys

VARIABLES
  row,     \* row[k]: the state of k in api_keys; a key_id is never used twice
  used,    \* used[k]: used_bytes
  audit,   \* audit[k]: the requests whose audit_log entry names k
  pc,      \* pc[r]: how far the handler of r has come
  key,     \* key[r]: principal.key_id
  seen,    \* seen[r]: principal.used_bytes
  purging  \* purging[t]: the key that tool t has found without history

vars == <<row, used, audit, pc, key, seen, purging>>

\* Past the last await of upload_file: the worker runs nothing else.
Running == {"accepted", "inserted", "charged"}

\* Authenticated, and not finished.
InFlight == {"authed"} \cup Running

TypeOK ==
  /\ row \in [Keys -> {"unminted", "enabled", "disabled", "purged"}]
  /\ used \in [Keys -> Nat]
  /\ audit \in [Keys -> SUBSET Requests]
  /\ pc \in [Requests -> {"new", "refused", "failed", "done"} \cup InFlight]
  /\ key \in [Requests -> Keys \cup {NoKey}]
  /\ seen \in [Requests -> Nat]
  /\ purging \in [Tools -> Keys \cup {NoKey}]

Init ==
  /\ row = [k \in Keys |-> "unminted"]
  /\ used = [k \in Keys |-> 0]
  /\ audit = [k \in Keys |-> {}]
  /\ pc = [r \in Requests |-> "new"]
  /\ key = [r \in Requests |-> NoKey]
  /\ seen = [r \in Requests |-> 0]
  /\ purging = [t \in Tools |-> NoKey]

-----------------------------------------------------------------------------
(* Requests *)

HasKeyRow(k) == row[k] \in {"enabled", "disabled"}

Goto(r, place) == pc' = [pc EXCEPT ![r] = place]

\* lookup_api_key finds the key enabled, and the rate limiter has a token.
Authenticate(r, k) ==
  /\ pc[r] = "new"
  /\ row[k] = "enabled"
  /\ Goto(r, "authed")
  /\ key' = [key EXCEPT ![r] = k]
  /\ seen' = [seen EXCEPT ![r] = used[k]]
  /\ UNCHANGED <<row, used, audit, purging>>

\* 401: no such key, or it is disabled.  429: the rate limiter has no token.
Reject(r) ==
  /\ pc[r] = "new"
  /\ Goto(r, "refused")
  /\ UNCHANGED <<row, used, audit, key, seen, purging>>

\* A bug: the upload itself is not counted.
UsedWithinQuota(r) == key[r] \in Limited => seen[r] <= Quota[key[r]]

\* enforce_quota, on what the request read when it was authenticated.
WithinQuota(r) == key[r] \in Limited => seen[r] + Size[r] <= Quota[key[r]]

\* The bytes have arrived, after any number of awaits, and enforce_quota lets
\* them pass.
Accept(r) ==
  /\ pc[r] = "authed"
  /\ Cardinality({q \in Requests : pc[q] \in Running}) < Workers
  /\ WithinQuota(r)
  /\ Goto(r, "accepted")
  /\ UNCHANGED <<row, used, audit, key, seen, purging>>

\* 413, from enforce_quota.
OverQuota(r) ==
  /\ pc[r] = "authed"
  /\ ~WithinQuota(r)
  /\ Goto(r, "refused")
  /\ UNCHANGED <<row, used, audit, key, seen, purging>>

\* insert_file commits a row with this key as its uploader.
Insert(r) ==
  /\ pc[r] = "accepted"
  /\ Goto(r, "inserted")
  /\ UNCHANGED <<row, used, audit, key, seen, purging>>

\* A bug: used_bytes is computed from what the request read at its start.
ChargeFromPrincipal(r) ==
  /\ pc[r] = "inserted"
  /\ Goto(r, "charged")
  /\ used' = [used EXCEPT ![key[r]] = IF HasKeyRow(key[r]) THEN seen[r] + Size[r] ELSE @]
  /\ UNCHANGED <<row, audit, key, seen, purging>>

\* add_used_bytes adds in SQL, to whatever the row holds now; the UPDATE
\* matches nothing if the key has been purged.
Charge(r) ==
  /\ pc[r] = "inserted"
  /\ Goto(r, "charged")
  /\ used' = [used EXCEPT ![key[r]] = IF HasKeyRow(key[r]) THEN @ + Size[r] ELSE @]
  /\ UNCHANGED <<row, audit, key, seen, purging>>

\* db.log: at the end of an upload, or of a request that only reads or deletes
\* (create_link, delete_file).  audit_log has no foreign key.
Log(r) ==
  /\ pc[r] \in {"authed", "charged"}
  /\ Goto(r, "done")
  /\ audit' = [audit EXCEPT ![key[r]] = @ \cup {r}]
  /\ UNCHANGED <<row, used, key, seen, purging>>

\* A request that logs nothing (get_image_link, get_file_meta, list_files,
\* stats), or any that raises, or whose worker dies.
End(r) ==
  /\ pc[r] \in InFlight
  /\ Goto(r, "failed")
  /\ UNCHANGED <<row, used, audit, key, seen, purging>>

-----------------------------------------------------------------------------
(* scripts/mintkey.py and scripts/keys.py *)

Mint(k) ==
  /\ row[k] = "unminted"
  /\ row' = [row EXCEPT ![k] = "enabled"]
  /\ UNCHANGED <<used, audit, pc, key, seen, purging>>

\* `disable` and `enable`: set_key_enabled, which changes no missing row.
SetEnabled(k, to) ==
  /\ HasKeyRow(k)
  /\ row' = [row EXCEPT ![k] = to]
  /\ UNCHANGED <<used, audit, pc, key, seen, purging>>

\* `purge` first counts the audit rows, to say why it keeps a key that has any.
FindUnused(t, k) ==
  /\ purging[t] = NoKey
  /\ audit[k] = {}
  /\ purging' = [purging EXCEPT ![t] = k]
  /\ UNCHANGED <<row, used, audit, pc, key, seen>>

\* A bug: the DELETE trusts the count made before it.
PurgeCounted(t) ==
  LET k == purging[t] IN
  /\ k # NoKey
  /\ purging' = [purging EXCEPT ![t] = NoKey]
  /\ row' = [row EXCEPT ![k] = IF HasKeyRow(k) THEN "purged" ELSE @]
  /\ used' = [used EXCEPT ![k] = IF HasKeyRow(k) THEN 0 ELSE @]
  /\ UNCHANGED <<audit, pc, key, seen>>

\* delete_unused_key: the DELETE has NOT EXISTS (... audit_log ...) in it.
Purge(t) ==
  LET k == purging[t]
      removed == k # NoKey /\ HasKeyRow(k) /\ audit[k] = {}
  IN
  /\ k # NoKey
  /\ purging' = [purging EXCEPT ![t] = NoKey]
  /\ row' = IF removed THEN [row EXCEPT ![k] = "purged"] ELSE row
  /\ used' = IF removed THEN [used EXCEPT ![k] = 0] ELSE used
  /\ UNCHANGED <<audit, pc, key, seen>>

-----------------------------------------------------------------------------

Request(r) ==
  \/ \E k \in Keys : Authenticate(r, k)
  \/ Reject(r)
  \/ Accept(r)
  \/ OverQuota(r)
  \/ Insert(r)
  \/ Charge(r)
  \/ Log(r)
  \/ End(r)

Tool(t) == \/ \E k \in Keys : FindUnused(t, k)
           \/ Purge(t)

Next ==
  \/ \E r \in Requests : Request(r)
  \/ \E t \in Tools : Tool(t)
  \/ \E k \in Keys : Mint(k) \/ \E to \in {"enabled", "disabled"} : SetEnabled(k, to)

Spec == Init /\ [][Next]_vars

=============================================================================
