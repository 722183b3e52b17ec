-------------------------- MODULE SignedLinksProofs --------------------------
(***************************************************************************)
(* The properties of SignedLinks for any files, workers, keys, links, ttls *)
(* and skew, and any clock.                                                *)
(***************************************************************************)
EXTENDS SignedLinks, TLAPS

\* The ttl of an answer is a positive one, within one of the two limits.
LEMMA TtlClamped ==
  ASSUME NEW t \in Requested
  PROVE  /\ ClampedTtl(t) \in Nat
         /\ ClampedTtl(t) <= MaxTtl \/ ClampedTtl(t) <= DefaultTtl
BY LinksAssumption DEF ClampedTtl

LEMMA InitIInv == Init => IInv
<1> SUFFICES ASSUME Init PROVE IInv
    OBVIOUS
<1> USE DEF Init, GateInit
<1>1. Issued = {}
      BY DEF Issued
<1>2. TypeOK
  <2>1. now \in Int /\ real \in Nat
        BY LinksAssumption
  <2>2. spent \subseteq Secrets
        OBVIOUS
  <2> QED BY <2>1, <2>2 DEF TypeOK, Final
<1>3. KeysKnown
      BY DEF KeysKnown
<1>4. LinkKeys
      BY <1>1 DEF LinkKeys
<1>5. RefusalHolds
      BY DEF RefusalHolds
<1>6. LinkedHasRow
      BY <1>1 DEF LinkedHasRow
<1> QED BY <1>2, <1>3, <1>4, <1>5, <1>6 DEF IInv

\* What a step may do to the links there are: all but Build leave them alone.
LEMMA BuildKeeps ==
  ASSUME IInv, NEW w \in Workers, NEW f \in Files, NEW t \in Requested,
         Build(w, f, t), row[f] # "none",
         uploader' \in [Files -> Workers \cup {Nobody}],
         \A g \in Files : uploader'[g] # Nobody => uploader[g] # Nobody
  PROVE  IInv'
<1> PICK i \in Slots :
      /\ links[i] = NoLink
      /\ links' = [links EXCEPT ![i] =
           [file |-> f, exp |-> now + ClampedTtl(t), key |-> secret[w],
            ttl |-> ClampedTtl(t), by |-> w, boot |-> boot[w],
            clock |-> now, real |-> real]]
    BY DEF Build
<1> DEFINE new == [file |-> f, exp |-> now + ClampedTtl(t), key |-> secret[w],
                   ttl |-> ClampedTtl(t), by |-> w, boot |-> boot[w],
                   clock |-> now, real |-> real]
<1>1. UNCHANGED <<now, real, fixed, secret, spent, boot, row, ended, status, given>>
      BY DEF Build, gateVars
<1>2. /\ ClampedTtl(t) \in Nat
      /\ ClampedTtl(t) <= MaxTtl \/ ClampedTtl(t) <= DefaultTtl
      BY TtlClamped
<1>3. new \in Link
      BY <1>2 DEF IInv, TypeOK, Link
<1>4. new # NoLink
      BY <1>3, LinksAssumption DEF Link
<1>5. links' \in [Slots -> Link \cup {NoLink}] /\ links' = [links EXCEPT ![i] = new]
      BY <1>3 DEF IInv, TypeOK
<1>6. Issued' \subseteq Issued \cup {new}
      BY <1>5 DEF Issued, IInv, TypeOK
<1>7. TypeOK'
      BY <1>1, <1>5 DEF IInv, TypeOK
<1>8. KeysKnown'
      BY <1>1 DEF IInv, KeysKnown
<1>9. LinkKeys'
  <2> SUFFICES ASSUME NEW l \in Issued'
               PROVE  /\ l.boot <= boot[l.by]
                      /\ fixed \/ boot[l.by] = l.boot => l.key = secret[l.by]
                      /\ l.exp = l.clock + l.ttl
                      /\ l.ttl <= MaxTtl \/ l.ttl <= DefaultTtl
      BY <1>1 DEF LinkKeys
  <2>1. CASE l \in Issued
        BY <2>1 DEF IInv, LinkKeys
  <2>2. CASE l = new
        BY <2>2, <1>2 DEF IInv, TypeOK
  <2> QED BY <1>6, <2>1, <2>2
<1>10. RefusalHolds'
  <2>1. ended[i] = "none"
        BY DEF IInv, RefusalHolds
  <2> QED BY <2>1, <1>1, <1>5 DEF IInv, RefusalHolds, TypeOK, Expired
<1>11. LinkedHasRow'
  <2>1. \A l \in Issued' : row[l.file] # "none"
        BY <1>6 DEF IInv, LinkedHasRow
  <2> QED BY <2>1, <1>1 DEF IInv, LinkedHasRow
<1> QED BY <1>7, <1>8, <1>9, <1>10, <1>11 DEF IInv

LEMMA InsertKeeps ==
  ASSUME IInv, NEW w \in Workers, NEW f \in Files, Insert(w, f)
  PROVE  IInv'
<1>1. UNCHANGED <<now, real, fixed, secret, spent, boot, links, ended, given>>
      BY DEF Insert, Admit
<1>2. PICK v \in {"pending", "skipped"} : status' = [status EXCEPT ![f] = v]
      BY DEF Insert, Admit
<1>3. /\ row[f] = "none" /\ status[f] = "none"
      /\ row' = [row EXCEPT ![f] = "live"]
      /\ uploader' = [uploader EXCEPT ![f] = w]
      BY DEF Insert, Admit
<1>4. Issued' = Issued
      BY <1>1 DEF Issued
<1>5. TypeOK'
      BY <1>1, <1>2, <1>3 DEF IInv, TypeOK
<1>6. KeysKnown' /\ LinkKeys'
      BY <1>1, <1>4 DEF IInv, KeysKnown, LinkKeys
<1>7. RefusalHolds'
      BY <1>1, <1>2, <1>3 DEF IInv, TypeOK, RefusalHolds, Expired
<1>8. LinkedHasRow'
  <2>1. \A l \in Issued' : row'[l.file] # "none"
        BY <1>3, <1>4 DEF IInv, TypeOK, LinkedHasRow
  <2>2. \A g \in Files : uploader'[g] # Nobody => row'[g] # "none"
        BY <1>3 DEF IInv, TypeOK, LinkedHasRow
  <2>3. \A g \in Files : (row'[g] = "none") = (status'[g] = "none")
        BY <1>2, <1>3 DEF IInv, TypeOK, LinkedHasRow
  <2> QED BY <2>1, <2>2, <2>3 DEF LinkedHasRow
<1> QED BY <1>5, <1>6, <1>7, <1>8 DEF IInv

LEMMA JudgeKeeps ==
  ASSUME IInv, NEW f \in Files, Judge(f)
  PROVE  IInv'
<1>1. UNCHANGED <<now, real, fixed, secret, spent, boot, row, uploader, links, ended, given>>
      BY DEF Judge, Decide, linkVars
<1>2. PICK v \in Answers(f) \cup {"error", "skipped"} : status' = [status EXCEPT ![f] = v]
      BY DEF Judge, Decide
<1>3. status[f] = "pending" /\ v \in {"clean", "infected", "error", "skipped"}
      BY <1>2 DEF Judge, Decide, Answers, Truth
<1>4. Issued' = Issued
      BY <1>1 DEF Issued
<1>5. TypeOK'
      BY <1>1, <1>2, <1>3 DEF IInv, TypeOK
<1>6. KeysKnown' /\ LinkKeys'
      BY <1>1, <1>4 DEF IInv, KeysKnown, LinkKeys
<1>7. RefusalHolds'
      BY <1>1, <1>2, <1>3 DEF IInv, TypeOK, RefusalHolds, Expired
<1>8. LinkedHasRow'
      BY <1>1, <1>2, <1>3, <1>4 DEF IInv, TypeOK, LinkedHasRow
<1> QED BY <1>5, <1>6, <1>7, <1>8 DEF IInv

LEMMA DeleteKeeps ==
  ASSUME IInv, NEW f \in Files, Delete(f)
  PROVE  IInv'
<1>1. /\ UNCHANGED <<now, real, fixed, secret, spent, boot, uploader, links, ended, status, given>>
      /\ row[f] = "live" /\ row' = [row EXCEPT ![f] = "deleted"]
      BY DEF Delete, gateVars
<1>2. Issued' = Issued
      BY <1>1 DEF Issued
<1>3. TypeOK'
      BY <1>1 DEF IInv, TypeOK
<1>4. KeysKnown' /\ LinkKeys'
      BY <1>1, <1>2 DEF IInv, KeysKnown, LinkKeys
<1>5. RefusalHolds'
  <2> SUFFICES ASSUME NEW i \in Slots
               PROVE  /\ ended[i] # "none" => links[i] # NoLink
                      /\ ended[i] = "gone" => Expired(links[i])
                      /\ ended[i] = "absent" => row'[links[i].file] = "deleted"
                      /\ ended[i] = "infected" => status[links[i].file] = "infected"
      BY <1>1 DEF RefusalHolds, Expired
  <2>1. ended[i] = "absent" => links[i].file \in Files
        BY DEF IInv, TypeOK, RefusalHolds, Link
  <2> QED BY <1>1, <2>1 DEF IInv, TypeOK, RefusalHolds
<1>6. LinkedHasRow'
  <2>1. \A g \in Files : row'[g] = "none" <=> row[g] = "none"
        BY <1>1 DEF IInv, TypeOK
  <2>2. \A l \in Issued : l.file \in Files
        BY DEF IInv, TypeOK, Issued, Link
  <2> QED BY <1>1, <1>2, <2>1, <2>2 DEF IInv, LinkedHasRow
<1> QED BY <1>3, <1>4, <1>5, <1>6 DEF IInv

\* An answer records a refusal that holds.
LEMMA DownloadKeeps ==
  ASSUME IInv, NEW w \in Workers, NEW i \in Slots, Download(w, i)
  PROVE  IInv'
<1> DEFINE code == Code(w, links[i])
<1>1. /\ UNCHANGED <<now, real, fixed, secret, spent, boot, row, uploader, links>>
      /\ links[i] # NoLink
      /\ ended' = [ended EXCEPT ![i] =
           IF code \in Final /\ ended[i] \in {"none", "gone"} THEN code ELSE ended[i]]
      BY DEF Download
<1>2. UNCHANGED status /\ given' \subseteq given \cup {links[i].file}
      BY DEF Download, Give, gateVars
<1>3. links[i] \in Link /\ links[i].file \in Files
      BY <1>1 DEF IInv, TypeOK, Link
<1>4. Issued' = Issued
      BY <1>1 DEF Issued
<1>5. /\ code = "gone" => Expired(links[i])
      /\ code = "absent" => row[links[i].file] # "live"
      /\ code = "infected" => status[links[i].file] = "infected"
      BY DEF Code
<1>6. row[links[i].file] \in {"live", "deleted"}
      BY <1>1, <1>3 DEF IInv, TypeOK, LinkedHasRow, Issued
<1>7. TypeOK'
  <2>1. ended' \in [Slots -> Final \cup {"none"}]
        BY <1>1 DEF IInv, TypeOK
  <2>2. given' \subseteq Files
        BY <1>2, <1>3 DEF IInv, TypeOK
  <2> QED BY <1>1, <1>2, <2>1, <2>2 DEF IInv, TypeOK
<1>8. KeysKnown' /\ LinkKeys'
      BY <1>1, <1>4 DEF IInv, KeysKnown, LinkKeys
<1>9. RefusalHolds'
  <2> SUFFICES ASSUME NEW j \in Slots
               PROVE  /\ ended'[j] # "none" => links[j] # NoLink
                      /\ ended'[j] = "gone" => Expired(links[j])
                      /\ ended'[j] = "absent" => row[links[j].file] = "deleted"
                      /\ ended'[j] = "infected" => status[links[j].file] = "infected"
      BY <1>1, <1>2 DEF RefusalHolds, Expired
  <2>1. CASE j # i \/ ended'[j] = ended[j]
        BY <2>1, <1>1 DEF IInv, TypeOK, RefusalHolds
  <2>2. CASE j = i /\ ended'[j] = code
        BY <2>2, <1>1, <1>5, <1>6
  <2>3. j # i \/ ended'[j] = ended[j] \/ ended'[j] = code
        BY <1>1 DEF IInv, TypeOK
  <2> HIDE DEF code
  <2> QED BY <2>1, <2>2, <2>3
<1>10. LinkedHasRow'
      BY <1>1, <1>2, <1>4 DEF IInv, LinkedHasRow
<1> QED BY <1>7, <1>8, <1>9, <1>10 DEF IInv

\* A new process has the key of the host, or one of its own.
LEMMA RestartKeeps ==
  ASSUME IInv, NEW w \in Workers, Restart(w)
  PROVE  IInv'
<1>1. /\ UNCHANGED <<now, real, fixed, row, links, ended, status, given>>
      /\ boot' = [boot EXCEPT ![w] = boot[w] + 1]
      /\ uploader' = [f \in Files |-> IF uploader[f] = w THEN Nobody ELSE uploader[f]]
      BY DEF Restart, gateVars
<1>2. \/ fixed /\ UNCHANGED <<secret, spent>>
      \/ /\ ~fixed
         /\ \E k \in Secrets \ spent :
              secret' = [secret EXCEPT ![w] = k] /\ spent' = spent \cup {k}
      BY DEF Restart
<1>3. Issued' = Issued
      BY <1>1 DEF Issued
<1>4. /\ secret' \in [Workers -> Secrets] /\ spent' \subseteq Secrets
      /\ \A v \in Workers : v # w => secret'[v] = secret[v]
      BY <1>2 DEF IInv, TypeOK
<1>5. TypeOK'
  <2>1. boot' \in [Workers -> Nat]
        BY <1>1 DEF IInv, TypeOK
  <2>2. uploader' \in [Files -> Workers \cup {Nobody}]
        BY <1>1 DEF IInv, TypeOK
  <2> QED BY <1>1, <1>4, <2>1, <2>2 DEF IInv, TypeOK
<1>6. KeysKnown'
      BY <1>1, <1>2 DEF IInv, TypeOK, KeysKnown
<1>7. LinkKeys'
  <2> SUFFICES ASSUME NEW l \in Issued
               PROVE  /\ l.boot <= boot'[l.by]
                      /\ fixed \/ boot'[l.by] = l.boot => l.key = secret'[l.by]
                      /\ l.exp = l.clock + l.ttl
                      /\ l.ttl <= MaxTtl \/ l.ttl <= DefaultTtl
      BY <1>1, <1>3 DEF LinkKeys
  <2>1. l.by \in Workers /\ l.boot \in Nat
        BY DEF IInv, TypeOK, Issued, Link
  <2>2. l.by = w => boot'[l.by] = boot[l.by] + 1
        BY <1>1 DEF IInv, TypeOK
  <2>3. l.by # w => boot'[l.by] = boot[l.by] /\ secret'[l.by] = secret[l.by]
        BY <2>1, <1>1, <1>4 DEF IInv, TypeOK
  <2>4. boot[l.by] \in Nat
        BY <2>1 DEF IInv, TypeOK
  <2>5. fixed => secret' = secret
        BY <1>2
  <2> QED BY <2>1, <2>2, <2>3, <2>4, <2>5 DEF IInv, LinkKeys
<1>8. RefusalHolds'
      BY <1>1 DEF IInv, RefusalHolds, Expired
<1>9. LinkedHasRow'
      BY <1>1, <1>3 DEF IInv, TypeOK, LinkedHasRow
<1> QED BY <1>5, <1>6, <1>7, <1>8, <1>9 DEF IInv

\* Time passes: what has expired stays expired, unless the clock goes back.
LEMMA ClockKeeps ==
  ASSUME IInv, Tick \/ StepClock
  PROVE  IInv'
<1>1. UNCHANGED <<fixed, secret, spent, boot, row, uploader, links, status, given>>
      BY DEF Tick, StepClock, gateVars
<1>2. now' \in Int /\ real' \in Nat
      BY LinksAssumption DEF Tick, StepClock, IInv, TypeOK
<1>3. \A i \in Slots :
        ended'[i] \in {"none", ended[i]} /\ (ended'[i] = "gone" => now <= now')
      BY <1>2 DEF Tick, StepClock, IInv, TypeOK
<1>4. ended' \in [Slots -> Final \cup {"none"}]
      BY DEF Tick, StepClock, IInv, TypeOK
<1>5. Issued' = Issued
      BY <1>1 DEF Issued
<1>6. TypeOK'
      BY <1>1, <1>2, <1>4 DEF IInv, TypeOK
<1>7. KeysKnown' /\ LinkKeys'
      BY <1>1, <1>5 DEF IInv, KeysKnown, LinkKeys
<1>8. RefusalHolds'
  <2> SUFFICES ASSUME NEW i \in Slots
               PROVE  /\ ended'[i] # "none" => links[i] # NoLink
                      /\ ended'[i] = "gone" => Expired(links[i])'
                      /\ ended'[i] = "absent" => row[links[i].file] = "deleted"
                      /\ ended'[i] = "infected" => status[links[i].file] = "infected"
      BY <1>1 DEF RefusalHolds
  <2>1. ended'[i] = "gone" => Expired(links[i])'
    <3> HAVE ended'[i] = "gone"
    <3>1. ended[i] = "gone" /\ now <= now'
          BY <1>3
    <3>2. links[i] \in Link /\ links[i].exp < now - ClockSkew
          BY <3>1 DEF IInv, TypeOK, RefusalHolds, Expired
    <3>3. links[i].exp \in Int
          BY <3>2 DEF Link
    <3> QED BY <1>1, <1>2, <3>1, <3>2, <3>3, LinksAssumption DEF Expired, IInv, TypeOK
  <2> QED BY <1>3, <2>1 DEF IInv, RefusalHolds
<1>9. LinkedHasRow'
      BY <1>1, <1>5 DEF IInv, LinkedHasRow
<1> QED BY <1>6, <1>7, <1>8, <1>9 DEF IInv

LEMMA StepIInv == IInv /\ [Next]_vars => IInv'
<1> SUFFICES ASSUME IInv, [Next]_vars PROVE IInv'
    OBVIOUS
<1>1. ASSUME NEW w \in Workers, NEW f \in Files, Insert(w, f) PROVE IInv'
      BY <1>1, InsertKeeps
<1>2. ASSUME NEW f \in Files, Judge(f) PROVE IInv'
      BY <1>2, JudgeKeeps
<1>3. ASSUME NEW f \in Files, Delete(f) PROVE IInv'
      BY <1>3, DeleteKeeps
<1>4. ASSUME NEW w \in Workers, NEW f \in Files, NEW t \in Requested, AnswerUpload(w, f, t)
      PROVE  IInv'
  <2>1. Build(w, f, t) /\ uploader[f] = w /\ uploader' = [uploader EXCEPT ![f] = Nobody]
        BY <1>4 DEF AnswerUpload
  <2>2. row[f] # "none"
        BY <2>1, LinksAssumption DEF IInv, LinkedHasRow
  <2>3. /\ uploader' \in [Files -> Workers \cup {Nobody}]
        /\ \A g \in Files : uploader'[g] # Nobody => uploader[g] # Nobody
        BY <2>1 DEF IInv, TypeOK
  <2> QED BY <2>1, <2>2, <2>3, BuildKeeps
<1>5. ASSUME NEW w \in Workers, NEW f \in Files, NEW t \in Requested, CreateLink(w, f, t)
      PROVE  IInv'
      BY <1>5, BuildKeeps DEF CreateLink, IInv, TypeOK
<1>6. ASSUME NEW w \in Workers, NEW i \in Slots, Download(w, i) PROVE IInv'
      BY <1>6, DownloadKeeps
<1>7. ASSUME NEW w \in Workers, Restart(w) PROVE IInv'
      BY <1>7, RestartKeeps
<1>8. CASE Tick \/ StepClock
      BY <1>8, ClockKeeps
<1>9. CASE UNCHANGED vars
  <2> USE <1>9 DEF vars, linkVars, gateVars
  <2>1. Issued' = Issued
        BY DEF Issued
  <2>2. TypeOK' /\ KeysKnown'
        BY DEF IInv, TypeOK, KeysKnown
  <2>3. LinkKeys' /\ LinkedHasRow'
        BY <2>1 DEF IInv, LinkKeys, LinkedHasRow
  <2>4. RefusalHolds'
        BY DEF IInv, RefusalHolds, Expired
  <2> QED BY <2>2, <2>3, <2>4 DEF IInv
<1> QED BY <1>1, <1>2, <1>3, <1>4, <1>5, <1>6, <1>7, <1>8, <1>9 DEF Next

(***************************************************************************)
(* The inductive invariant: keys, links, rows and refusals fit together,   *)
(* whatever is uploaded, issued, deleted, restarted, and done to the clock.*)
(***************************************************************************)
THEOREM Invariance == Spec => []IInv
<1> QED BY InitIInv, StepIInv, PTL DEF Spec

(***************************************************************************)
(* No link is called expired before its ttl has passed, for any clock that *)
(* was not stepped forward by more than the skew.                          *)
(***************************************************************************)
THEOREM TtlIsKept == Spec => []LivesItsTtl
<1>1. IInv => LivesItsTtl
  <2> SUFFICES ASSUME IInv, NEW w \in Workers, NEW l \in Issued,
                      Code(w, l) = "gone", SteppedSince(l) <= ClockSkew
               PROVE  real > l.real + l.ttl
      BY DEF LivesItsTtl
  <2>1. l \in Link /\ l.exp = l.clock + l.ttl
        BY DEF IInv, TypeOK, Issued, LinkKeys
  <2>2. l.exp < now - ClockSkew
        BY DEF Code, Expired
  <2> QED BY <2>1, <2>2, LinksAssumption DEF SteppedSince, Link, IInv, TypeOK
<1> QED BY Invariance, <1>1, PTL

(***************************************************************************)
(* No link outlives the longest ttl, whatever was asked for.               *)
(***************************************************************************)
THEOREM TtlIsBounded == Spec => []DeadAfterLongestTtl
<1>1. IInv => DeadAfterLongestTtl
  <2> SUFFICES ASSUME IInv, NEW w \in Workers, NEW l \in Issued,
                      NEW longest \in {MaxTtl, DefaultTtl},
                      longest >= MaxTtl, longest >= DefaultTtl,
                      real > l.real + longest + ClockSkew - SteppedSince(l)
               PROVE  Code(w, l) = "gone"
      BY DEF DeadAfterLongestTtl
  <2>1. /\ l \in Link /\ l.exp = l.clock + l.ttl
        /\ l.ttl <= MaxTtl \/ l.ttl <= DefaultTtl
        BY DEF IInv, TypeOK, Issued, LinkKeys
  <2>2. l.ttl <= longest
        BY <2>1, LinksAssumption DEF Link
  <2>3. l.exp < now - ClockSkew
        BY <2>1, <2>2, LinksAssumption DEF SteppedSince, Link, IInv, TypeOK
  <2> QED BY <2>3 DEF Code, Expired
<1> QED BY Invariance, <1>1, PTL

(***************************************************************************)
(* After a final refusal a link is served by no worker, ever.              *)
(***************************************************************************)
THEOREM RefusalsAreFinal == Spec => []RefusalIsFinal
<1>1. IInv => RefusalIsFinal
  <2> SUFFICES ASSUME IInv, NEW w \in Workers, NEW i \in Slots, ended[i] # "none"
               PROVE  Code(w, links[i]) # "ok"
      BY DEF RefusalIsFinal
  <2>1. \/ Expired(links[i])
        \/ row[links[i].file] = "deleted"
        \/ status[links[i].file] = "infected"
        BY DEF IInv, TypeOK, RefusalHolds, Final
  <2> QED BY <2>1 DEF Code
<1> QED BY Invariance, <1>1, PTL

(***************************************************************************)
(* Only another process without a SECRET_KEY takes a link of ours for      *)
(* forged.                                                                 *)
(***************************************************************************)
THEOREM OursIsNotForged == Spec => []ForgedOnlyElsewhere
<1>1. IInv => ForgedOnlyElsewhere
  <2> SUFFICES ASSUME IInv, NEW w \in Workers, NEW l \in Issued, Code(w, l) = "forged"
               PROVE  ~fixed /\ (w # l.by \/ boot[w] # l.boot)
      BY DEF ForgedOnlyElsewhere
  <2>1. l.key # secret[w]
        BY DEF Code, Genuine
  <2>2. l.by \in Workers
        BY DEF IInv, TypeOK, Issued, Link
  <2> QED BY <2>1, <2>2 DEF IInv, LinkKeys, KeysKnown
<1> QED BY Invariance, <1>1, PTL
=============================================================================
