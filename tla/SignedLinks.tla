----------------------------- MODULE SignedLinks -----------------------------
(***************************************************************************)
(* Signed download links (app/signing.py, app/urls.py), from the upload or *)
(* the request that issues one to the answers of GET /d/ at every worker   *)
(* (app/routers/access.py), in front of the antivirus gate.                *)
(*                                                                         *)
(* A link carries its expiry, and a signature by the key of the worker     *)
(* that issued it: the SECRET_KEY of the host, or, when there is none, one *)
(* that each process makes for itself.  The clock is the host's; it ticks, *)
(* and is stepped forward and back by NTP.  HMAC is ideal: a signature     *)
(* holds under the key that made it and no other.                          *)
(***************************************************************************)
EXTENDS ScanGate, Integers

CONSTANTS
  Workers,
  Secrets,      \* the keys there are; bounds the restarts without SECRET_KEY
  Slots,        \* the links there can be
  Requested,    \* the ttls that requests ask for, NoTtl for none
  NoTtl, DefaultTtl, MaxTtl, ClockSkew,
  NoLink, Nobody,
  MaxReal,      \* bounds the time that passes,
  MaxDrift,     \* how far the clock is stepped away from it,
  MaxBoots      \* and the restarts of each worker

ASSUMPTION LinksAssumption ==
  /\ NoTtl \notin Int /\ Requested \subseteq Int \cup {NoTtl}
  /\ DefaultTtl \in Nat \ {0} /\ MaxTtl \in Nat \ {0}
  /\ ClockSkew \in Nat
  /\ MaxReal \in Nat /\ MaxDrift \in Nat /\ MaxBoots \in Nat
  /\ Nobody \notin Workers
  /\ NoLink \notin [file: Files, exp: Int, key: Secrets, ttl: Nat,
                    by: Workers, boot: Nat, clock: Int, real: Nat]

VARIABLES
  now,        \* int(time.time())
  real,       \* the time that has really passed
  fixed,      \* whether SECRET_KEY is set
  secret,     \* settings.secret_key of each worker
  spent,      \* the keys that were ever in use
  boot,       \* how often each worker was started again
  row,        \* the row of each file: "none", "live" or "deleted"
  uploader,   \* the worker that has inserted f and not answered yet
  links,      \* the link in each slot
  ended       \* the final refusal that a link was answered, or "none"

linkVars == <<now, real, fixed, secret, spent, boot, row, uploader, links, ended>>
vars == <<linkVars, gateVars>>

-----------------------------------------------------------------------------

Link == [file: Files, exp: Int, key: Secrets, ttl: Nat,
         by: Workers, boot: Nat, clock: Int, real: Nat]

\* ... ClampedTtl without its upper bound.
ClampedBelow(requested) ==
  IF requested = NoTtl THEN DefaultTtl ELSE IF requested < 1 THEN 1 ELSE requested

\* clamp_ttl.  The default is taken as it is.
ClampedTtl(requested) ==
  IF requested = NoTtl THEN DefaultTtl
  ELSE IF requested < 1 THEN 1
  ELSE IF requested > MaxTtl THEN MaxTtl ELSE requested

\* ... Expired without the skew.
ExpiredWithoutSkew(l) == l.exp < now

\* verify
Expired(l) == l.exp < now - ClockSkew

Genuine(w, l) == l.key = secret[w]

\* What GET /d/ answers, in the order of its checks.
Code(w, l) ==
  IF Expired(l) THEN "gone"
  ELSE IF ~Genuine(w, l) THEN "forged"
  ELSE IF row[l.file] # "live" THEN "absent"
  ELSE IF status[l.file] = "infected" THEN "infected"
  ELSE IF status[l.file] \notin Servable THEN "notyet"
  ELSE "ok"

\* After these the link is never served again.
Final == {"gone", "absent", "infected"}

-----------------------------------------------------------------------------

Init ==
  /\ GateInit
  /\ now = MaxDrift /\ real = 0
  /\ fixed \in BOOLEAN
  /\ secret \in [Workers -> Secrets]
  /\ \A v, w \in Workers : v # w => (secret[v] = secret[w]) = fixed
  /\ spent = {secret[w] : w \in Workers}
  /\ boot = [w \in Workers |-> 0]
  /\ row = [f \in Files |-> "none"]
  /\ uploader = [f \in Files |-> Nobody]
  /\ links = [i \in Slots |-> NoLink]
  /\ ended = [i \in Slots |-> "none"]

\* ... Insert of known content, bringing the deleted row back.
InsertRevives(w, f) ==
  /\ \/ row[f] = "none" /\ Admit(f)
     \/ row[f] = "deleted" /\ UNCHANGED gateVars
  /\ row' = [row EXCEPT ![f] = "live"]
  /\ uploader' = [uploader EXCEPT ![f] = w]
  /\ UNCHANGED <<now, real, fixed, secret, spent, boot, links, ended>>

\* upload_file inserts the row.
Insert(w, f) ==
  /\ row[f] = "none"
  /\ Admit(f)
  /\ row' = [row EXCEPT ![f] = "live"]
  /\ uploader' = [uploader EXCEPT ![f] = w]
  /\ UNCHANGED <<now, real, fixed, secret, spent, boot, links, ended>>

\* The request or a sweep writes a verdict, as the gate allows.
Judge(f) == Decide(f) /\ UNCHANGED linkVars

\* build_download_url
Build(w, f, requested) ==
  /\ \E i \in Slots :
       /\ links[i] = NoLink
       /\ links' = [links EXCEPT ![i] =
            [file |-> f, exp |-> now + ClampedTtl(requested), key |-> secret[w],
             ttl |-> ClampedTtl(requested), by |-> w, boot |-> boot[w],
             clock |-> now, real |-> real]]
  /\ UNCHANGED <<now, real, fixed, secret, spent, boot, row, ended, gateVars>>

\* upload_file answers: it does not look at the row again.
AnswerUpload(w, f, requested) ==
  /\ uploader[f] = w
  /\ uploader' = [uploader EXCEPT ![f] = Nobody]
  /\ Build(w, f, requested)

CreateLink(w, f, requested) ==
  /\ row[f] = "live"
  /\ Build(w, f, requested)
  /\ UNCHANGED uploader

\* delete_file, or the sweep when the retention has ended.
Delete(f) ==
  /\ row[f] = "live"
  /\ row' = [row EXCEPT ![f] = "deleted"]
  /\ UNCHANGED <<now, real, fixed, secret, spent, boot, uploader, links, ended, gateVars>>

\* GET /d/ with the link of slot i.
Download(w, i) ==
  /\ links[i] # NoLink
  /\ LET code == Code(w, links[i]) IN
       /\ ended' = [ended EXCEPT ![i] =
            IF code \in Final /\ @ \in {"none", "gone"} THEN code ELSE @]
       /\ IF code = "ok" THEN Give(links[i].file) ELSE UNCHANGED gateVars
  /\ UNCHANGED <<now, real, fixed, secret, spent, boot, row, uploader, links>>

\* ... Restart, making a key although there is one.
RestartForgets(w) ==
  /\ boot[w] < MaxBoots
  /\ boot' = [boot EXCEPT ![w] = @ + 1]
  /\ \E k \in Secrets \ spent :
       secret' = [secret EXCEPT ![w] = k] /\ spent' = spent \cup {k}
  /\ uploader' = [f \in Files |-> IF uploader[f] = w THEN Nobody ELSE uploader[f]]
  /\ UNCHANGED <<now, real, fixed, row, links, ended, gateVars>>

\* get_settings in a process that replaces worker w.
Restart(w) ==
  /\ boot[w] < MaxBoots
  /\ boot' = [boot EXCEPT ![w] = @ + 1]
  /\ \/ fixed /\ UNCHANGED <<secret, spent>>
     \/ /\ ~fixed
        /\ \E k \in Secrets \ spent :
             secret' = [secret EXCEPT ![w] = k] /\ spent' = spent \cup {k}
  /\ uploader' = [f \in Files |-> IF uploader[f] = w THEN Nobody ELSE uploader[f]]
  /\ UNCHANGED <<now, real, fixed, row, links, ended, gateVars>>

Tick ==
  /\ real < MaxReal
  /\ real' = real + 1 /\ now' = now + 1
  /\ UNCHANGED <<fixed, secret, spent, boot, row, uploader, links, ended, gateVars>>

\* The clock is set.  Back, it makes expired links good again.
StepClock ==
  /\ now' \in real .. real + 2 * MaxDrift
  /\ ended' = [i \in Slots |-> IF now' < now /\ ended[i] = "gone" THEN "none" ELSE ended[i]]
  /\ UNCHANGED <<real, fixed, secret, spent, boot, row, uploader, links, gateVars>>

Next ==
  \/ \E w \in Workers, f \in Files : Insert(w, f)
  \/ \E f \in Files : Judge(f) \/ Delete(f)
  \/ \E w \in Workers, f \in Files, t \in Requested :
       AnswerUpload(w, f, t) \/ CreateLink(w, f, t)
  \/ \E w \in Workers, i \in Slots : Download(w, i)
  \/ \E w \in Workers : Restart(w)
  \/ Tick
  \/ StepClock

Spec == Init /\ [][Next]_vars

-----------------------------------------------------------------------------

Issued == {links[i] : i \in Slots} \ {NoLink}

\* By how much the clock was stepped forward, in all, since l was issued.
SteppedSince(l) == (now - real) - (l.clock - l.real)

TypeOK ==
  /\ status \in [Files -> {"none", "pending", "skipped", "clean", "infected", "error"}]
  /\ given \subseteq Files
  /\ now \in Int /\ real \in Nat
  /\ fixed \in BOOLEAN
  /\ secret \in [Workers -> Secrets]
  /\ spent \subseteq Secrets
  /\ boot \in [Workers -> Nat]
  /\ row \in [Files -> {"none", "live", "deleted"}]
  /\ uploader \in [Files -> Workers \cup {Nobody}]
  /\ links \in [Slots -> Link \cup {NoLink}]
  /\ ended \in [Slots -> Final \cup {"none"}]

(***************************************************************************)
(* The expires_in that a client was answered is kept: at no worker is its  *)
(* link called expired before that much time has passed, as long as the    *)
(* clock was not stepped forward by more than the skew in all.             *)
(***************************************************************************)
LivesItsTtl ==
  \A w \in Workers : \A l \in Issued :
    Code(w, l) = "gone" /\ SteppedSince(l) <= ClockSkew => real > l.real + l.ttl

(***************************************************************************)
(* And no longer: whatever ttl was asked for, the link is dead at every    *)
(* worker once the largest ttl and the skew have passed, and as much as    *)
(* the clock was stepped back.                                             *)
(***************************************************************************)
DeadAfterLongestTtl ==
  \A w \in Workers : \A l \in Issued : \A longest \in {MaxTtl, DefaultTtl} :
    /\ longest >= MaxTtl /\ longest >= DefaultTtl
    /\ real > l.real + longest + ClockSkew - SteppedSince(l)
    => Code(w, l) = "gone"

(***************************************************************************)
(* 410, 404 and the 403 of an infected file are final, as their comments   *)
(* tell clients: a link that was answered one of them is served by no      *)
(* worker from then on, after a restart, a verdict or another upload; only *)
(* a clock that is stepped back revives a link that had expired.           *)
(***************************************************************************)
RefusalIsFinal ==
  \A w \in Workers, i \in Slots :
    ended[i] # "none" => Code(w, links[i]) # "ok"

(***************************************************************************)
(* A link of ours is taken for forged only when there is no SECRET_KEY,    *)
(* and then only by another process than the one that issued it: another   *)
(* worker, or the same one restarted.                                      *)
(***************************************************************************)
ForgedOnlyElsewhere ==
  \A w \in Workers : \A l \in Issued :
    Code(w, l) = "forged" => ~fixed /\ (w # l.by \/ boot[w] # l.boot)

\* The keys in use are known, and the same for all if and only if given.
KeysKnown ==
  /\ \A w \in Workers : secret[w] \in spent
  /\ fixed => \A v, w \in Workers : secret[v] = secret[w]

\* A link has the key of its process, and of every one if there is one key.
LinkKeys ==
  \A l \in Issued :
    /\ l.boot <= boot[l.by]
    /\ fixed \/ boot[l.by] = l.boot => l.key = secret[l.by]
    /\ l.exp = l.clock + l.ttl
    /\ l.ttl <= MaxTtl \/ l.ttl <= DefaultTtl

\* What a link was refused for still holds.
RefusalHolds ==
  \A i \in Slots :
    /\ ended[i] # "none" => links[i] # NoLink
    /\ ended[i] = "gone" => Expired(links[i])
    /\ ended[i] = "absent" => row[links[i].file] = "deleted"
    /\ ended[i] = "infected" => status[links[i].file] = "infected"

\* A file of a link, or of an upload, has a row.
LinkedHasRow ==
  /\ \A l \in Issued : row[l.file] # "none"
  /\ \A f \in Files : uploader[f] # Nobody => row[f] # "none"
  /\ \A f \in Files : (row[f] = "none") = (status[f] = "none")

IInv == TypeOK /\ KeysKnown /\ LinkKeys /\ RefusalHolds /\ LinkedHasRow
=============================================================================
