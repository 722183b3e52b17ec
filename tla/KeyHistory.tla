----------------------------- MODULE KeyHistory -----------------------------
(***************************************************************************)
(* ApiKeys with history variables, which remember which requests ran at    *)
(* the same time as a charge or a purge of their key.  They say by how     *)
(* much a key can exceed its quota, and which audit entries can lose the   *)
(* key they name.                                                          *)
(***************************************************************************)
EXTENDS ApiKeys, FiniteSetsExt

VARIABLES
  raced,    \* requests in flight as another request charged the same key
  excess,   \* excess[k]: the bytes charged to k by requests in raced
  severed,  \* requests in flight as their key was purged
  stored,   \* requests that have inserted a file row
  uncharged \* those of them that ended before they added its bytes

hvars == <<vars, raced, excess, severed, stored, uncharged>>

\* The bytes of r are added to used_bytes in this step.
Charges(r) == pc[r] = "inserted" /\ pc'[r] = "charged" /\ HasKeyRow(key[r])

Purges(k) == row[k] # "purged" /\ row'[k] = "purged"

Remember ==
  /\ raced' = raced \cup
       {q \in Requests : pc[q] \in InFlight
                           /\ \E r \in Requests \ {q} : key[r] = key[q] /\ Charges(r)}
  /\ excess' = [k \in Keys |->
       IF \E r \in raced : key[r] = k /\ Charges(r)
       THEN excess[k] + (used'[k] - used[k])
       ELSE excess[k]]
  /\ severed' = severed \cup {q \in Requests : pc[q] \in InFlight /\ Purges(key[q])}
  /\ stored' = stored \cup {r \in Requests : pc'[r] = "inserted"}
  /\ uncharged' = uncharged \cup {r \in Requests : pc[r] = "inserted" /\ pc'[r] = "failed"}

HInit ==
  /\ Init
  /\ raced = {}
  /\ excess = [k \in Keys |-> 0]
  /\ severed = {}
  /\ stored = {}
  /\ uncharged = {}

HNext == Next /\ Remember

HSpec == HInit /\ [][HNext]_hvars

HTypeOK ==
  /\ TypeOK
  /\ raced \subseteq Requests
  /\ excess \in [Keys -> Nat]
  /\ severed \subseteq Requests
  /\ stored \subseteq Requests
  /\ uncharged \subseteq Requests

-----------------------------------------------------------------------------

(***************************************************************************)
(* A key exceeds its quota by no more than the bytes of uploads that were  *)
(* in flight as another upload of the key was charged: uploads that do not *)
(* overlap keep the quota exactly, whatever fails or is purged, though the *)
(* test uses a reading of used_bytes from the start of the request.        *)
(***************************************************************************)
OnlyRacesExceed == \A k \in Limited : used[k] <= Quota[k] + excess[k]

TotalSize(S) == MapThenSumSet(LAMBDA r : Size[r], S)

\* The uploads whose bytes were added to used_bytes of k.
Charged(k) == {r \in stored \ uncharged : key[r] = k /\ pc[r] # "inserted"}

(***************************************************************************)
(* used_bytes is the sum of the files stored under the key, but for those  *)
(* whose request is about to add its bytes, or ended before it did: no     *)
(* charge is lost or counted twice as requests of one key overlap.         *)
(***************************************************************************)
UsedAccountsForFiles ==
  \A k \in Keys : HasKeyRow(k) => used[k] = TotalSize(Charged(k))

(***************************************************************************)
(* An audit entry resolves to its key, so that history stays attributable, *)
(* unless the request was in flight when its key was purged: purge refuses *)
(* a key with history, but sees no request that has not logged yet.        *)
(***************************************************************************)
HistoryResolves ==
  \A k \in Keys : row[k] = "purged" => audit[k] \subseteq severed

-----------------------------------------------------------------------------
(* Why: the facts every step keeps *)

\* A request that nothing raced has an up-to-date reading of used_bytes.
FreshUnlessRaced ==
  \A r \in Requests :
    pc[r] \in {"authed", "accepted", "inserted"} /\ r \notin raced /\ row[key[r]] # "purged"
      => seen[r] = used[key[r]]

AcceptedFit ==
  \A r \in Requests : pc[r] \in {"accepted", "inserted"} => WithinQuota(r)

\* Whoever may still log or charge has a key; if it is gone, it was cut off.
InFlightHaveKeys ==
  \A r \in Requests : pc[r] \in InFlight =>
    /\ key[r] \in Keys
    /\ row[key[r]] # "unminted"
    /\ row[key[r]] = "purged" => r \in severed

IInv ==
  /\ HTypeOK
  /\ InFlightHaveKeys
  /\ AcceptedFit
  /\ FreshUnlessRaced
  /\ OnlyRacesExceed
  /\ HistoryResolves

\* What a request has stored and has not failed to charge yet.
StoredOnInsert ==
  \A r \in Requests :
    /\ pc[r] \in {"inserted", "charged"} => r \in stored \ uncharged
    /\ pc[r] \in {"new", "authed", "accepted"} => r \notin stored
    /\ r \in uncharged => pc[r] = "failed"
    /\ r \in stored => key[r] \in Keys /\ row[key[r]] # "unminted"

\* UsedAccountsForFiles, of keys that are still to be minted as well.
UsedIsSum ==
  \A k \in Keys :
    /\ IsFiniteSet(Charged(k))
    /\ row[k] # "purged" => used[k] = TotalSize(Charged(k))

CountInv ==
  /\ StoredOnInsert
  /\ UsedIsSum
=============================================================================
