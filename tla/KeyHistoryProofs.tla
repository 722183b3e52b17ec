-------------------------- MODULE KeyHistoryProofs --------------------------
(***************************************************************************)
(* IInv is inductive: proofs for any keys, requests, sizes and quotas.     *)
(***************************************************************************)
EXTENDS KeyHistory, FiniteSetTheorems, TLAPS

USE KeysAssumption

-----------------------------------------------------------------------------

\* A step that charges nothing and purges nothing is remembered by its files
\* alone.
LEMMA QuietRemember ==
  ASSUME HTypeOK, Remember,
         \A r \in Requests : ~Charges(r),
         \A q \in Requests : pc[q] \in InFlight => ~Purges(key[q])
  PROVE  /\ raced' = raced
         /\ excess' = excess
         /\ severed' = severed
         /\ stored' \subseteq Requests
         /\ uncharged' \subseteq Requests
<1>1. raced' = raced
  BY Zenon DEF Remember
<1>2. severed' = severed
  BY Zenon DEF Remember
<1>3. excess' = [k \in Keys |-> excess[k]]
  BY SMT DEF Remember, HTypeOK
<1>4. excess' = excess
  BY <1>3 DEF HTypeOK
<1>5. /\ stored' \subseteq Requests
      /\ uncharged' \subseteq Requests
  BY DEF Remember, HTypeOK
<1>6. QED
  BY <1>1, <1>2, <1>4, <1>5

\* What a charge leaves behind: everybody else in flight with the key is raced,
\* and the bytes are excess if its own request was.
LEMMA ChargeRemember ==
  ASSUME HTypeOK, InFlightHaveKeys, Remember, NEW r \in Requests, Charge(r)
  PROVE  /\ key[r] \in Keys
         /\ severed' = severed
         /\ stored' \subseteq Requests
         /\ uncharged' \subseteq Requests
         /\ raced \subseteq raced'
         /\ raced' \subseteq Requests
         /\ HasKeyRow(key[r]) =>
              \A q \in Requests \ {r} :
                pc[q] \in InFlight /\ key[q] = key[r] => q \in raced'
         /\ excess' = IF r \in raced /\ HasKeyRow(key[r])
                      THEN [excess EXCEPT ![key[r]] = @ + Size[r]]
                      ELSE excess
<1>1. key[r] \in Keys /\ pc[r] = "inserted"
  BY DEF Charge, InFlightHaveKeys, InFlight, Running
<1>2. \A q \in Requests : Charges(q) <=> q = r /\ HasKeyRow(key[r])
  BY <1>1 DEF Charges, Charge, Goto, HTypeOK, TypeOK, InFlight, Running
<1>3. \A k \in Keys : ~Purges(k)
  BY DEF Purges, Charge
<1>4. severed' = severed
  <2>1. \A q \in Requests : pc[q] \in InFlight => ~Purges(key[q])
    BY <1>3 DEF InFlightHaveKeys
  <2>2. QED
    BY <2>1, Zenon DEF Remember
<1>5. /\ stored' \subseteq Requests
      /\ uncharged' \subseteq Requests
      /\ raced \subseteq raced'
      /\ raced' \subseteq Requests
  BY DEF Remember, HTypeOK
<1>6. HasKeyRow(key[r]) =>
        \A q \in Requests \ {r} :
          pc[q] \in InFlight /\ key[q] = key[r] => q \in raced'
  BY <1>2, Zenon DEF Remember
<1>7. excess' = [k \in Keys |->
        IF r \in raced /\ HasKeyRow(key[r]) /\ k = key[r]
        THEN excess[k] + (used'[k] - used[k]) ELSE excess[k]]
  <2>1. \A k \in Keys : (\E q \in raced : key[q] = k /\ Charges(q))
                          <=> r \in raced /\ HasKeyRow(key[r]) /\ k = key[r]
    BY <1>2 DEF HTypeOK
  <2>2. QED
    BY <2>1 DEF Remember
<1>8. HasKeyRow(key[r]) => used'[key[r]] - used[key[r]] = Size[r]
  BY <1>1 DEF Charge, HTypeOK, TypeOK
<1>9. excess' = IF r \in raced /\ HasKeyRow(key[r])
                THEN [excess EXCEPT ![key[r]] = @ + Size[r]]
                ELSE excess
  BY <1>1, <1>7, <1>8 DEF HTypeOK
<1>10. QED
  BY <1>1, <1>4, <1>5, <1>6, <1>9, Zenon

\* A purge cuts off every request in flight with the key.
LEMMA PurgeRemember ==
  ASSUME HTypeOK, InFlightHaveKeys, Remember, NEW t \in Tools, Purge(t)
  PROVE  /\ raced' = raced
         /\ excess' = excess
         /\ severed \subseteq severed'
         /\ severed' \subseteq Requests
         /\ stored' \subseteq Requests
         /\ uncharged' \subseteq Requests
         /\ \A q \in Requests : pc[q] \in InFlight /\ row'[key[q]] = "purged"
                                 => q \in severed'
<1>1. \A r \in Requests : ~Charges(r)
  BY DEF Charges, Purge
<1>2. raced' = raced
  BY <1>1, Zenon DEF Remember
<1>3. excess' = [k \in Keys |-> excess[k]]
  BY <1>1, SMT DEF Remember, HTypeOK
<1>4. excess' = excess
  BY <1>3 DEF HTypeOK
<1>5. /\ severed \subseteq severed'
      /\ severed' \subseteq Requests
      /\ stored' \subseteq Requests
      /\ uncharged' \subseteq Requests
  BY DEF Remember, HTypeOK
<1>6. ASSUME NEW q \in Requests, pc[q] \in InFlight, row'[key[q]] = "purged"
      PROVE  q \in severed'
  <2>1. CASE row[key[q]] = "purged"
    BY <2>1, <1>5, <1>6 DEF InFlightHaveKeys
  <2>2. CASE Purges(key[q])
    BY <2>2, <1>6 DEF Remember
  <2>3. QED
    BY <2>1, <2>2, <1>6 DEF Purges
<1>7. QED
  BY <1>2, <1>4, <1>5, <1>6

-----------------------------------------------------------------------------

LEMMA ChargeKeepsInv ==
  ASSUME IInv, Remember, NEW r \in Requests, Charge(r)
  PROVE  IInv'
<1>1. HTypeOK /\ InFlightHaveKeys /\ TypeOK
  BY DEF IInv, HTypeOK
<1> DEFINE k == key[r]
           charged == HasKeyRow(k)
<1>2. /\ k \in Keys
      /\ severed' = severed
      /\ stored' \subseteq Requests
      /\ uncharged' \subseteq Requests
      /\ raced \subseteq raced'
      /\ raced' \subseteq Requests
      /\ charged => \A q \in Requests \ {r} :
                      pc[q] \in InFlight /\ key[q] = k => q \in raced'
      /\ excess' = IF r \in raced /\ charged
                   THEN [excess EXCEPT ![k] = @ + Size[r]] ELSE excess
  BY <1>1, ChargeRemember, Zenon
<1>3. /\ used' = [used EXCEPT ![k] = IF charged THEN used[k] + Size[r] ELSE used[k]]
      /\ pc' = [pc EXCEPT ![r] = "charged"]
      /\ pc[r] = "inserted"
      /\ UNCHANGED <<row, audit, key, seen, purging>>
  BY DEF Charge, Goto
<1>4. Size[r] \in Nat /\ used[k] \in Nat /\ excess[k] \in Nat
  BY <1>1, <1>2 DEF HTypeOK, TypeOK
<1>5. TypeOK'
  BY <1>1, <1>2, <1>3, <1>4 DEF TypeOK, InFlight, Running
<1>6. excess' \in [Keys -> Nat]
  BY <1>1, <1>2, <1>4 DEF HTypeOK
<1>7. HTypeOK'
  BY <1>1, <1>2, <1>5, <1>6 DEF HTypeOK
<1>8. InFlightHaveKeys'
  BY <1>1, <1>2, <1>3 DEF InFlightHaveKeys, InFlight, Running, TypeOK
<1>9. AcceptedFit'
  BY <1>1, <1>3 DEF IInv, AcceptedFit, WithinQuota, TypeOK
<1>10. FreshUnlessRaced'
  <2> SUFFICES ASSUME NEW q \in Requests, pc'[q] \in {"authed", "accepted", "inserted"},
                      q \notin raced', row'[key'[q]] # "purged"
               PROVE  seen'[q] = used'[key'[q]]
    BY DEF FreshUnlessRaced
  <2>1. q # r /\ pc[q] = pc'[q] /\ key'[q] = key[q] /\ seen'[q] = seen[q]
    BY <1>1, <1>3 DEF TypeOK
  <2>2. pc[q] \in InFlight /\ key[q] \in Keys
    BY <1>1, <2>1 DEF InFlightHaveKeys, InFlight, Running
  <2>3. seen[q] = used[key[q]]
    BY <1>2, <1>3, <2>1 DEF IInv, FreshUnlessRaced
  <2>4. ~(charged /\ key[q] = k)
    BY <1>2, <2>1, <2>2
  <2>5. used'[key[q]] = used[key[q]]
    BY <1>1, <1>3, <2>2, <2>4 DEF TypeOK
  <2>6. QED
    BY <2>1, <2>3, <2>5
<1>11. OnlyRacesExceed'
  <2> SUFFICES ASSUME NEW l \in Limited
               PROVE  used'[l] <= Quota[l] + excess'[l]
    BY DEF OnlyRacesExceed
  <2>1. /\ l \in Keys /\ Quota[l] \in Nat
        /\ used[l] \in Nat /\ excess[l] \in Nat
        /\ used[l] <= Quota[l] + excess[l]
    BY <1>1 DEF IInv, OnlyRacesExceed, HTypeOK, TypeOK
  <2>2. CASE ~charged \/ l # k
    BY <1>1, <1>2, <1>3, <2>1, <2>2 DEF HTypeOK, TypeOK
  <2>3. CASE charged /\ l = k /\ r \in raced
    BY <1>1, <1>2, <1>3, <1>4, <2>1, <2>3 DEF HTypeOK, TypeOK
  <2>4. CASE charged /\ l = k /\ r \notin raced
    <3>1. seen[r] = used[k]
      BY <1>3, <2>4 DEF IInv, FreshUnlessRaced, HasKeyRow
    <3>2. seen[r] + Size[r] <= Quota[k]
      BY <1>3, <2>4 DEF IInv, AcceptedFit, WithinQuota
    <3>3. used'[l] = used[k] + Size[r] /\ excess'[l] = excess[l]
      BY <1>1, <1>2, <1>3, <2>4 DEF TypeOK
    <3>4. QED
      BY <1>4, <2>1, <2>4, <3>1, <3>2, <3>3
  <2>5. QED
    BY <2>2, <2>3, <2>4
<1>12. HistoryResolves'
  BY <1>2, <1>3 DEF IInv, HistoryResolves
<1>13. QED
  BY <1>7, <1>8, <1>9, <1>10, <1>11, <1>12 DEF IInv

LEMMA PurgeKeepsInv ==
  ASSUME IInv, Remember, NEW t \in Tools, Purge(t)
  PROVE  IInv'
<1>1. HTypeOK /\ InFlightHaveKeys /\ TypeOK
  BY DEF IInv, HTypeOK
<1>2. /\ raced' = raced
      /\ excess' = excess
      /\ severed \subseteq severed'
      /\ severed' \subseteq Requests
      /\ stored' \subseteq Requests
      /\ uncharged' \subseteq Requests
      /\ \A q \in Requests : pc[q] \in InFlight /\ row'[key[q]] = "purged"
                              => q \in severed'
  BY <1>1, PurgeRemember, Zenon
<1> DEFINE k == purging[t]
<1>3. k \in Keys
  BY <1>1 DEF Purge, TypeOK
<1>4. /\ UNCHANGED <<audit, pc, key, seen>>
      /\ purging' = [purging EXCEPT ![t] = NoKey]
      /\ \/ UNCHANGED <<row, used>>
         \/ /\ audit[k] = {}
            /\ row' = [row EXCEPT ![k] = "purged"]
            /\ used' = [used EXCEPT ![k] = 0]
  BY DEF Purge
<1>5. HTypeOK'
  BY <1>1, <1>2, <1>3, <1>4 DEF HTypeOK, TypeOK
<1>6. InFlightHaveKeys'
  BY <1>1, <1>2, <1>3, <1>4 DEF InFlightHaveKeys, TypeOK
<1>7. AcceptedFit'
  BY <1>4 DEF IInv, AcceptedFit, WithinQuota
<1>8. FreshUnlessRaced'
  BY <1>1, <1>2, <1>3, <1>4 DEF IInv, FreshUnlessRaced, InFlightHaveKeys, InFlight, Running, TypeOK
<1>9. OnlyRacesExceed'
  BY <1>1, <1>2, <1>3, <1>4 DEF IInv, OnlyRacesExceed, HTypeOK, TypeOK
<1>10. HistoryResolves'
  BY <1>1, <1>2, <1>3, <1>4 DEF IInv, HistoryResolves, TypeOK
<1>11. QED
  BY <1>5, <1>6, <1>7, <1>8, <1>9, <1>10 DEF IInv

-----------------------------------------------------------------------------

\* The steps that neither charge nor purge.
Quiet ==
  \/ \E r \in Requests :
       \/ \E k \in Keys : Authenticate(r, k)
       \/ Reject(r) \/ Accept(r) \/ OverQuota(r) \/ Insert(r) \/ Log(r) \/ End(r)
  \/ \E t \in Tools, k \in Keys : FindUnused(t, k)
  \/ \E k \in Keys : Mint(k) \/ \E to \in {"enabled", "disabled"} : SetEnabled(k, to)

\* How such a step can move a request.
Moves(r) ==
  \/ /\ \/ pc'[r] = pc[r]
        \/ pc[r] \in {"new", "authed"} /\ pc'[r] = "refused"
        \/ pc[r] \in InFlight /\ pc'[r] = "failed"
        \/ pc[r] \in {"authed", "charged"} /\ pc'[r] = "done"
     /\ key'[r] = key[r] /\ seen'[r] = seen[r]
  \/ /\ pc[r] = "new" /\ pc'[r] = "authed" /\ key'[r] \in Keys
     /\ seen'[r] = used[key'[r]] /\ row[key'[r]] = "enabled"
  \/ /\ pc[r] = "authed" /\ pc'[r] = "accepted" /\ WithinQuota(r)
     /\ key'[r] = key[r] /\ seen'[r] = seen[r]
  \/ /\ pc[r] = "accepted" /\ pc'[r] = "inserted"
     /\ key'[r] = key[r] /\ seen'[r] = seen[r]

QuietEffect ==
  /\ TypeOK'
  /\ used' = used
  /\ \A r \in Requests : Moves(r)
  /\ \A k \in Keys : /\ row'[k] = "purged" <=> row[k] = "purged"
                     /\ row'[k] = "unminted" => row[k] = "unminted"
  /\ \A k \in Keys : \A r \in audit'[k] :
        r \in audit[k] \/ (pc[r] \in InFlight /\ key[r] = k)

LEMMA QuietSteps ==
  ASSUME TypeOK, InFlightHaveKeys, Quiet
  PROVE  QuietEffect
<1> USE DEF QuietEffect, Moves, TypeOK, InFlight, Running, Goto
<1>1. ASSUME NEW r \in Requests, NEW k \in Keys, Authenticate(r, k) PROVE QuietEffect
  BY <1>1 DEF Authenticate
<1>2. ASSUME NEW r \in Requests, Reject(r) PROVE QuietEffect
  BY <1>2 DEF Reject
<1>3. ASSUME NEW r \in Requests, Accept(r) PROVE QuietEffect
  BY <1>3 DEF Accept
<1>4. ASSUME NEW r \in Requests, OverQuota(r) PROVE QuietEffect
  BY <1>4 DEF OverQuota
<1>5. ASSUME NEW r \in Requests, Insert(r) PROVE QuietEffect
  BY <1>5 DEF Insert
<1>6. ASSUME NEW r \in Requests, Log(r) PROVE QuietEffect
  <2>1. key[r] \in Keys /\ pc[r] \in InFlight
    BY <1>6 DEF Log, InFlightHaveKeys
  <2>2. QED
    BY <1>6, <2>1 DEF Log
<1>7. ASSUME NEW r \in Requests, End(r) PROVE QuietEffect
  BY <1>7 DEF End
<1>8. ASSUME NEW t \in Tools, NEW k \in Keys, FindUnused(t, k) PROVE QuietEffect
  BY <1>8 DEF FindUnused
<1>9. ASSUME NEW k \in Keys, Mint(k) PROVE QuietEffect
  BY <1>9 DEF Mint
<1>10. ASSUME NEW k \in Keys, NEW to \in {"enabled", "disabled"}, SetEnabled(k, to)
       PROVE  QuietEffect
  BY <1>10 DEF SetEnabled, HasKeyRow
<1>11. QED
  BY <1>1, <1>2, <1>3, <1>4, <1>5, <1>6, <1>7, <1>8, <1>9, <1>10 DEF Quiet

LEMMA QuietKeepsInv ==
  ASSUME IInv, Remember, Quiet
  PROVE  IInv'
<1>1. HTypeOK /\ InFlightHaveKeys /\ TypeOK
  BY DEF IInv, HTypeOK
<1>2. QuietEffect
  BY <1>1, QuietSteps
<1>3. \A r \in Requests : ~Charges(r)
  BY <1>2 DEF QuietEffect, Moves, Charges
<1>4. \A q \in Requests : pc[q] \in InFlight => ~Purges(key[q])
  BY <1>1, <1>2 DEF QuietEffect, Purges, InFlightHaveKeys
<1>5. /\ raced' = raced
      /\ excess' = excess
      /\ severed' = severed
      /\ stored' \subseteq Requests
      /\ uncharged' \subseteq Requests
  BY <1>1, <1>3, <1>4, QuietRemember, Zenon
<1>6. HTypeOK'
  BY <1>1, <1>2, <1>5 DEF HTypeOK, QuietEffect
<1>7. InFlightHaveKeys'
  <2> SUFFICES ASSUME NEW r \in Requests, pc'[r] \in InFlight
               PROVE  /\ key'[r] \in Keys
                      /\ row'[key'[r]] # "unminted"
                      /\ row'[key'[r]] = "purged" => r \in severed'
    BY DEF InFlightHaveKeys
  <2>1. CASE pc[r] \in InFlight /\ key'[r] = key[r]
    BY <1>1, <1>2, <1>5, <2>1 DEF InFlightHaveKeys, QuietEffect
  <2>2. CASE key'[r] \in Keys /\ row[key'[r]] = "enabled"
    BY <1>2, <2>2 DEF QuietEffect
  <2>3. QED
    BY <1>2, <2>1, <2>2 DEF QuietEffect, Moves, InFlight, Running
<1>8. AcceptedFit'
  BY <1>2 DEF IInv, AcceptedFit, WithinQuota, QuietEffect, Moves
<1>9. FreshUnlessRaced'
  <2> SUFFICES ASSUME NEW r \in Requests, pc'[r] \in {"authed", "accepted", "inserted"},
                      r \notin raced', row'[key'[r]] # "purged"
               PROVE  seen'[r] = used'[key'[r]]
    BY DEF FreshUnlessRaced
  <2>1. CASE /\ pc[r] \in {"authed", "accepted", "inserted"}
             /\ key'[r] = key[r] /\ seen'[r] = seen[r]
    <3>1. key[r] \in Keys
      BY <1>1, <2>1 DEF InFlightHaveKeys, InFlight, Running
    <3>2. row[key[r]] # "purged"
      BY <1>2, <2>1, <3>1 DEF QuietEffect
    <3>3. QED
      BY <1>2, <1>5, <2>1, <3>2 DEF IInv, FreshUnlessRaced, QuietEffect
  <2>2. CASE seen'[r] = used[key'[r]]
    BY <1>2, <2>2 DEF QuietEffect
  <2>3. QED
    BY <1>2, <2>1, <2>2 DEF QuietEffect, Moves
<1>10. OnlyRacesExceed'
  BY <1>2, <1>5 DEF IInv, OnlyRacesExceed, QuietEffect
<1>11. HistoryResolves'
  BY <1>1, <1>2, <1>5 DEF IInv, HistoryResolves, InFlightHaveKeys, QuietEffect, TypeOK
<1>12. QED
  BY <1>6, <1>7, <1>8, <1>9, <1>10, <1>11 DEF IInv

-----------------------------------------------------------------------------

LEMMA InitInv == HInit => IInv
BY DEF HInit, Init, IInv, HTypeOK, TypeOK, InFlightHaveKeys, AcceptedFit,
       FreshUnlessRaced, OnlyRacesExceed, HistoryResolves, InFlight, Running

LEMMA StepInv == IInv /\ [HNext]_hvars => IInv'
<1> SUFFICES ASSUME IInv, [HNext]_hvars PROVE IInv'
  OBVIOUS
<1>1. CASE HNext
  <2>1. Remember /\ Next
    BY <1>1 DEF HNext
  <2>2. ASSUME NEW r \in Requests, Charge(r) PROVE IInv'
    BY <2>1, <2>2, ChargeKeepsInv
  <2>3. ASSUME NEW t \in Tools, Purge(t) PROVE IInv'
    BY <2>1, <2>3, PurgeKeepsInv
  <2>4. CASE Quiet
    BY <2>1, <2>4, QuietKeepsInv
  <2>5. QED
    BY <2>1, <2>2, <2>3, <2>4, Zenon DEF Next, Request, Tool, Quiet
<1>2. CASE UNCHANGED hvars
  BY <1>2 DEF hvars, vars, IInv, HTypeOK, TypeOK, InFlightHaveKeys, AcceptedFit, WithinQuota,
              FreshUnlessRaced, OnlyRacesExceed, HistoryResolves
<1>3. QED
  BY <1>1, <1>2

(***************************************************************************)
(* The inductive invariant of requests and tools: types, that a request in *)
(* flight has a key or was cut off by its purge, and that its reading of   *)
(* used_bytes is right unless another upload was charged since.            *)
(***************************************************************************)
THEOREM Invariance == HSpec => []IInv
<1>1. QED
  BY InitInv, StepInv, PTL DEF HSpec

(***************************************************************************)
(* The quota of enforce_quota is exceeded only by uploads that overlap.    *)
(***************************************************************************)
THEOREM QuotaUnlessRaced == HSpec => []OnlyRacesExceed
<1>1. IInv => OnlyRacesExceed
  BY DEF IInv
<1>2. QED
  BY <1>1, Invariance, PTL

(***************************************************************************)
(* delete_unused_key leaves no entry of audit_log without its key, but for *)
(* those that requests in flight make after it.                            *)
(***************************************************************************)
THEOREM HistoryAttributable == HSpec => []HistoryResolves
<1>1. IInv => HistoryResolves
  BY DEF IInv
<1>2. QED
  BY <1>1, Invariance, PTL

-----------------------------------------------------------------------------
(* The sum of used_bytes *)

\* The bytes of the files of S: pairs of a request and a position.
BytesOf(S) == UNION {{r} \X (1..Size[r]) : r \in S}

\* The bytes of one file are as many as its size.
LEMMA BytesOfOne ==
  ASSUME NEW r \in Requests
  PROVE  IsFiniteSet({r} \X (1..Size[r])) /\ Cardinality({r} \X (1..Size[r])) = Size[r]
<1>1. Size[r] \in Nat /\ Size[r] > 0
  OBVIOUS
<1>2. IsFiniteSet(1..Size[r]) /\ Cardinality(1..Size[r]) = Size[r]
  BY <1>1, FS_Interval
<1>3. IsFiniteSet({r}) /\ Cardinality({r}) = 1
  BY FS_Singleton
<1>4. /\ IsFiniteSet({r} \X (1..Size[r]))
      /\ Cardinality({r} \X (1..Size[r])) = 1 * Size[r]
  <2>1. Cardinality({r} \X (1..Size[r])) = Cardinality({r}) * Cardinality(1..Size[r])
    BY <1>2, <1>3, FS_Product, Zenon
  <2>2. QED
    BY <1>2, <1>3, <2>1, FS_Product
<1>5. QED
  BY <1>1, <1>4

\* Finitely many files have finitely many bytes.
LEMMA BytesFinite ==
  ASSUME NEW S \in SUBSET Requests, IsFiniteSet(S)
  PROVE  IsFiniteSet(BytesOf(S))
<1> DEFINE bytes == [r \in S |-> {r} \X (1..Size[r])]
           image == {bytes[r] : r \in S}
<1>1. IsFiniteSet(image)
  <2>1. bytes \in Surjection(S, image)
    BY DEF Surjection
  <2>2. QED
    BY <2>1, FS_Surjection
<1>3. \A b \in image : IsFiniteSet(b)
  BY BytesOfOne
<1>4. BytesOf(S) = UNION image
  BY DEF BytesOf
<1>5. QED
  BY <1>1, <1>3, <1>4, FS_UNION

\* One file more adds its size.
LEMMA BytesAdd ==
  ASSUME NEW S \in SUBSET Requests, IsFiniteSet(S), NEW r \in Requests \ S
  PROVE  Cardinality(BytesOf(S \cup {r})) = Size[r] + Cardinality(BytesOf(S))
<1> DEFINE b == {r} \X (1..Size[r])
<1>1. IsFiniteSet(b) /\ Cardinality(b) = Size[r]
  BY BytesOfOne
<1>2. BytesOf(S \cup {r}) = BytesOf(S) \cup b
  BY DEF BytesOf
<1>3. BytesOf(S) \cap b = {}
  BY DEF BytesOf
<1> HIDE DEF b
<1>4. IsFiniteSet(BytesOf(S))
  BY BytesFinite
<1>5. Cardinality(BytesOf(S) \cup b)
        = Cardinality(BytesOf(S)) + Cardinality(b) - Cardinality({})
  BY <1>1, <1>3, <1>4, FS_Union, Zenon
<1>6. Cardinality(BytesOf(S)) \in Nat /\ Size[r] \in Nat /\ Cardinality({}) = 0
  BY <1>4, FS_CardinalityType, FS_EmptySet
<1>7. Cardinality(BytesOf(S) \cup b) = Size[r] + Cardinality(BytesOf(S))
  BY <1>1, <1>5, <1>6
<1>8. QED
  BY <1>2, <1>7, Zenon

\* The sum of the sizes, which TotalSize takes one after the other in some
\* order, is the number of bytes, which has no order.  The function that the
\* recursion defines exists, since the count satisfies its equation; and it is
\* the count, since there is no least set on which the two differ.
LEMMA SumIsBytes ==
  ASSUME NEW S \in SUBSET Requests, IsFiniteSet(S)
  PROVE  TotalSize(S) = Cardinality(BytesOf(S))
<1> DEFINE Pick(s) == CHOOSE x \in s : TRUE
           Fold(g) == [s \in SUBSET S |->
                         IF s = {} THEN 0 ELSE Size[Pick(s)] + g[s \ {Pick(s)}]]
           iter == CHOOSE g : g = Fold(g)
           count == [s \in SUBSET S |-> Cardinality(BytesOf(s))]
<1>1. TotalSize(S) = iter[S]
  BY Zenon DEF TotalSize, MapThenSumSet, MapThenFoldSet
<1>2. \A s \in SUBSET S : IsFiniteSet(s)
  BY FS_Subset
<1>3. \A s \in SUBSET S : s # {} => Pick(s) \in s
  OBVIOUS
<1> HIDE DEF Pick
<1>4. count = Fold(count)
  <2>1. ASSUME NEW s \in SUBSET S, s # {}
        PROVE  count[s] = Size[Pick(s)] + count[s \ {Pick(s)}]
    <3>1. (s \ {Pick(s)}) \cup {Pick(s)} = s
      BY <1>3, <2>1
    <3>2. IsFiniteSet(s \ {Pick(s)}) /\ Pick(s) \in Requests \ (s \ {Pick(s)})
      BY <1>2, <1>3, <2>1
    <3>3. Cardinality(BytesOf(s)) = Size[Pick(s)] + Cardinality(BytesOf(s \ {Pick(s)}))
      BY <3>1, <3>2, BytesAdd
    <3>4. QED
      BY <3>3
  <2>2. count[{}] = 0
    <3>1. BytesOf({}) = {}
      BY DEF BytesOf
    <3>2. QED
      BY <3>1, FS_EmptySet
  <2>3. QED
    BY <2>1, <2>2
<1>5. iter = Fold(iter)
  <2>1. \E g : g = Fold(g)
    BY <1>4
  <2> HIDE DEF Fold
  <2>2. QED
    BY <2>1, Zenon
<1> HIDE DEF iter, count
<1>6. \A s \in SUBSET S : iter[s] = count[s]
  <2> DEFINE wrong == {s \in SUBSET S : iter[s] # count[s]}
             R == StrictSubsetOrdering(S)
  <2> SUFFICES ASSUME wrong # {} PROVE FALSE
    OBVIOUS
  <2>1. IsWellFoundedOn(R, SUBSET S)
    BY FS_StrictSubsetOrderingWellFounded, FS_FiniteSubsetsOfFinite
  <2>2. PICK s \in wrong : \A t \in wrong : <<t, s>> \notin R
    BY <2>1, WFMin
  <2>3. CASE s = {}
    BY <1>4, <1>5, <2>3
  <2>4. CASE s # {}
    <3> DEFINE t == s \ {Pick(s)}
    <3>1. t \in SUBSET S /\ t \subseteq s /\ t # s
      BY <1>3, <2>4
    <3>2. <<t, s>> \in R
      BY <3>1 DEF StrictSubsetOrdering
    <3>3. iter[t] = count[t]
      BY <2>2, <3>1, <3>2
    <3>4. iter[s] = Size[Pick(s)] + iter[t] /\ count[s] = Size[Pick(s)] + count[t]
      BY <1>4, <1>5, <2>4
    <3>5. QED
      BY <2>2, <3>3, <3>4
  <2>5. QED
    BY <2>3, <2>4
<1>7. QED
  BY <1>1, <1>6 DEF count

\* The sum of nothing, and of one request more.
LEMMA SumEmpty == TotalSize({}) = 0
<1>1. BytesOf({}) = {}
  BY DEF BytesOf
<1>2. IsFiniteSet({}) /\ Cardinality({}) = 0
  BY FS_EmptySet
<1>3. TotalSize({}) = Cardinality(BytesOf({}))
  BY <1>2, SumIsBytes
<1>4. QED
  BY <1>1, <1>2, <1>3

LEMMA SumAdd ==
  ASSUME NEW S \in SUBSET Requests, IsFiniteSet(S), NEW r \in Requests \ S
  PROVE  /\ IsFiniteSet(S \cup {r})
         /\ TotalSize(S \cup {r}) = TotalSize(S) + Size[r]
<1>1. IsFiniteSet(S \cup {r}) /\ S \cup {r} \in SUBSET Requests
  BY FS_AddElement
<1>2. TotalSize(S \cup {r}) = Cardinality(BytesOf(S \cup {r}))
  BY <1>1, SumIsBytes
<1>3. TotalSize(S) = Cardinality(BytesOf(S))
  BY SumIsBytes
<1>4. Cardinality(BytesOf(S)) \in Nat /\ Size[r] \in Nat
  BY BytesFinite, FS_CardinalityType
<1>5. Cardinality(BytesOf(S \cup {r})) = Size[r] + Cardinality(BytesOf(S))
  BY BytesAdd
<1> HIDE DEF BytesOf
<1>6. QED
  BY <1>1, <1>2, <1>3, <1>4, <1>5

-----------------------------------------------------------------------------

LEMMA InitCount == HInit => CountInv
<1> SUFFICES ASSUME HInit PROVE CountInv
  OBVIOUS
<1>1. StoredOnInsert
  BY DEF HInit, Init, StoredOnInsert
<1>2. \A k \in Keys : Charged(k) = {} /\ used[k] = 0
  BY DEF HInit, Init, Charged
<1>3. UsedIsSum
  BY <1>2, SumEmpty, FS_EmptySet DEF UsedIsSum
<1>4. QED
  BY <1>1, <1>3 DEF CountInv

\* A step that charges nobody leaves every sum as it is.
LEMMA SameSums ==
  ASSUME UsedIsSum,
         \A k \in Keys : Charged(k)' = Charged(k),
         \A k \in Keys : row'[k] # "purged" => row[k] # "purged" /\ used'[k] = used[k]
  PROVE  UsedIsSum'
BY Zenon DEF UsedIsSum

\* Each step keeps the count.
LEMMA CountStep == ASSUME IInv, CountInv, [HNext]_hvars PROVE CountInv'
<1> DEFINE Goal == CountInv'
<1> SUFFICES Goal
  OBVIOUS
<1>0. /\ TypeOK /\ HTypeOK /\ InFlightHaveKeys /\ StoredOnInsert /\ UsedIsSum
  BY DEF IInv, HTypeOK, CountInv
<1>r. HNext => /\ stored' = stored \cup {r \in Requests : pc'[r] = "inserted"}
               /\ uncharged' = uncharged \cup
                    {r \in Requests : pc[r] = "inserted" /\ pc'[r] = "failed"}
  BY DEF HNext, Remember
<1>1. ASSUME NEW r \in Requests, Charge(r), HNext PROVE Goal
  <2> DEFINE k == key[r]
  <2>1. /\ pc[r] = "inserted" /\ pc' = [pc EXCEPT ![r] = "charged"]
        /\ used' = [used EXCEPT ![k] = IF HasKeyRow(k) THEN @ + Size[r] ELSE @]
        /\ UNCHANGED <<row, key>>
    BY <1>1 DEF Charge, Goto
  <2>2. k \in Keys /\ row[k] # "unminted"
    BY <1>0, <2>1 DEF InFlightHaveKeys, InFlight, Running
  <2>3. StoredOnInsert'
    BY <1>0, <1>r, <1>1, <2>1 DEF StoredOnInsert, TypeOK, HTypeOK
  <2>4. r \notin Charged(k) /\ Charged(k)' = Charged(k) \cup {r}
    BY <1>0, <1>r, <1>1, <2>1 DEF Charged, StoredOnInsert, TypeOK, HTypeOK
  <2>5. \A l \in Keys \ {k} : Charged(l)' = Charged(l)
    BY <1>0, <1>r, <1>1, <2>1 DEF Charged, StoredOnInsert, TypeOK, HTypeOK
  <2>6. Charged(k) \in SUBSET Requests /\ IsFiniteSet(Charged(k))
    BY <1>0, <2>2 DEF Charged, HTypeOK, UsedIsSum
  <2>7. /\ IsFiniteSet(Charged(k)')
        /\ TotalSize(Charged(k)') = TotalSize(Charged(k)) + Size[r]
    BY <2>4, <2>6, SumAdd
  <2>8. row[k] # "purged" => used'[k] = used[k] + Size[r]
    BY <1>0, <2>1, <2>2 DEF HasKeyRow, TypeOK
  <2>9. ASSUME NEW l \in Keys
        PROVE  /\ IsFiniteSet(Charged(l)')
               /\ row'[l] # "purged" => used'[l] = TotalSize(Charged(l)')
    <3>1. CASE l = k
      BY <1>0, <2>1, <2>2, <2>7, <2>8, <3>1 DEF UsedIsSum
    <3>2. CASE l # k
      <4>1. used'[l] = used[l] /\ row'[l] = row[l] /\ Charged(l)' = Charged(l)
        BY <1>0, <2>1, <2>2, <2>5, <3>2 DEF TypeOK
      <4>2. QED
        BY <1>0, <4>1 DEF UsedIsSum
    <3>3. QED
      BY <3>1, <3>2
  <2>10. QED
    BY <2>3, <2>9 DEF CountInv, UsedIsSum
<1>2. ASSUME NEW t \in Tools, Purge(t), HNext PROVE Goal
  <2>1. /\ UNCHANGED <<pc, key>>
        /\ \A k \in Keys : /\ row'[k] # "purged" => row[k] # "purged" /\ used'[k] = used[k]
                           /\ row[k] # "unminted" => row'[k] # "unminted"
    BY <1>0, <1>2 DEF Purge, TypeOK
  <2>2. stored' = stored /\ uncharged' = uncharged
    BY <1>0, <1>r, <1>2, <2>1 DEF StoredOnInsert, HTypeOK
  <2>3. StoredOnInsert'
    BY <1>0, <2>1, <2>2 DEF StoredOnInsert
  <2>4. \A k \in Keys : Charged(k)' = Charged(k)
    BY <2>1, <2>2 DEF Charged
  <2>5. QED
    BY <1>0, <2>1, <2>3, <2>4, SameSums DEF CountInv
<1>3. ASSUME Quiet, HNext PROVE Goal
  <2>1. QuietEffect
    BY <1>0, <1>3, QuietSteps
  <2>2. /\ TypeOK' /\ used' = used
        /\ \A r \in Requests : Moves(r)
        /\ \A k \in Keys : /\ row'[k] = "purged" <=> row[k] = "purged"
                           /\ row'[k] = "unminted" => row[k] = "unminted"
    BY <2>1 DEF QuietEffect
  <2>3. ASSUME NEW r \in Requests
        PROVE  /\ r \in stored' <=> r \in stored \/ pc'[r] = "inserted"
               /\ r \in uncharged' <=> \/ r \in uncharged
                                       \/ pc[r] = "inserted" /\ pc'[r] = "failed"
    BY <1>3, <1>r
  <2>4. ASSUME NEW r \in Requests
        PROVE  /\ pc'[r] \in {"inserted", "charged"} => r \in stored' \ uncharged'
               /\ pc'[r] \in {"new", "authed", "accepted"} => r \notin stored'
               /\ r \in uncharged' => pc'[r] = "failed"
               /\ r \in stored' => key'[r] \in Keys /\ row'[key'[r]] # "unminted"
    <3>1. Moves(r)
      BY <2>2
    <3>2. QED
      BY <1>0, <2>2, <2>3, <3>1 DEF Moves, StoredOnInsert, InFlightHaveKeys, InFlight, Running, TypeOK
  <2>5. StoredOnInsert'
    BY <2>4 DEF StoredOnInsert
  <2>6. ASSUME NEW k \in Keys PROVE Charged(k)' = Charged(k)
    <3>1. stored \subseteq Requests /\ stored' \subseteq Requests
      BY <1>0, <1>3, <1>r DEF HTypeOK
    <3>2. ASSUME NEW r \in Requests
          PROVE  r \in Charged(k)' <=> r \in Charged(k)
      <4>1. Moves(r)
        BY <2>2
      <4>2. QED
        BY <1>0, <2>3, <4>1 DEF Charged, Moves, StoredOnInsert, InFlight, Running
    <3>3. QED
      BY <3>1, <3>2 DEF Charged
  <2>7. QED
    BY <1>0, <2>2, <2>5, <2>6, SameSums DEF CountInv
<1>4. CASE UNCHANGED hvars
  <2>1. UNCHANGED <<row, used, pc, key, stored, uncharged>>
    BY <1>4 DEF hvars, vars
  <2>2. StoredOnInsert' /\ \A k \in Keys : Charged(k)' = Charged(k)
    BY <1>0, <2>1 DEF StoredOnInsert, Charged
  <2>3. QED
    BY <1>0, <2>1, <2>2, SameSums DEF CountInv
<1>5. QED
  <2>1. CASE HNext
    <3>1. Next
      BY <2>1 DEF HNext
    <3>2. QED
      BY <1>1, <1>2, <1>3, <2>1, <3>1, Zenon DEF Next, Request, Tool, Quiet
  <2>2. QED
    BY <1>4, <2>1

(***************************************************************************)
(* used_bytes of a key is the sum of the sizes of its stored files, but    *)
(* for those not charged yet or never (add_used_bytes in upload_file).     *)
(***************************************************************************)
THEOREM NoChargeLost == HSpec => []UsedAccountsForFiles
<1>1. CountInv => UsedAccountsForFiles
  BY DEF CountInv, UsedIsSum, UsedAccountsForFiles, HasKeyRow
<1>2. HSpec => []CountInv
  <2>1. CountInv /\ IInv /\ [HNext]_hvars => CountInv'
    BY CountStep
  <2>2. QED
    BY <2>1, InitCount, Invariance, PTL DEF HSpec
<1>3. QED
  BY <1>1, <1>2, PTL
=============================================================================
