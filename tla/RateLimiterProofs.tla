-------------------------- MODULE RateLimiterProofs --------------------------
(***************************************************************************)
(* The lazily refilled bucket is the one refilled at every tick, and what  *)
(* follows for the requests that pass and for those that wait: proofs for  *)
(* any workers, keys, limits and length of a minute.                       *)
(***************************************************************************)
EXTENDS RateHistory, TLAPS

USE LimitsAssumption

\* A bucket belongs to a key with a limit, and holds a token at least.
LEMMA Limits ==
  ASSUME NEW b \in Buckets
  PROVE  /\ b[1] \in Workers /\ b[2] \in Keys
         /\ Limit(b[2]) \in Nat /\ Limit(b[2]) >= 1
         /\ Burst(b) \in Nat /\ Burst(b) >= Minute
         /\ Burst(b) = Minute * Limit(b[2])
<1>1. b[1] \in Workers /\ b[2] \in Keys
  BY DEF Buckets
<1>2. Limit(b[2]) \in Nat /\ Limit(b[2]) >= 1
  BY <1>1 DEF Limit
<1>3. Burst(b) = Limit(b[2]) * Minute
  BY DEF Burst
<1> DEFINE n == Limit(b[2])
<1>4. n \in Nat /\ n >= 1 => n * Minute \in Nat /\ n * Minute >= Minute /\ n * Minute = Minute * n
  OBVIOUS
<1>5. QED
  BY <1>1, <1>2, <1>3, <1>4

\* What a look at a bucket finds.
LEMMA RefilledType ==
  ASSUME TypeOK, LookedBefore, NEW b \in Buckets
  PROVE  Refilled(b) \in Nat /\ Refilled(b) <= Burst(b)
<1>1. /\ tokens[b] \in Nat /\ updated[b] \in Nat /\ now \in Nat /\ updated[b] <= now
  BY DEF TypeOK, LookedBefore
<1> DEFINE n == Limit(b[2])
           gap == now - updated[b]
<1>2. n \in Nat /\ gap \in Nat
  BY <1>1, Limits
<1>3. tokens[b] + gap * n \in Nat
  BY <1>1, <1>2
<1> HIDE DEF n, gap
<1>4. Refilled(b) = IF b \in known /\ tokens[b] + gap * n <= Burst(b)
                      THEN tokens[b] + gap * n ELSE Burst(b)
  BY DEF Refilled, n, gap
<1>5. QED
  BY <1>3, <1>4, Limits

\* What a look leaves behind.
LEMMA StoreEffect ==
  ASSUME TypeOK, LookedBefore, NEW b \in Buckets, NEW n \in Nat, n <= Burst(b), Store(b, n)
  PROVE  /\ TypeOK' /\ LookedBefore'
         /\ Refilled(b)' = n
         /\ \A c \in Buckets \ {b} : Refilled(c)' = Refilled(c)
<1>1. /\ known' = known \cup {b} /\ now' = now
      /\ tokens' \in [Buckets -> Nat] /\ updated' \in [Buckets -> 0..Horizon]
      /\ tokens'[b] = n /\ updated'[b] = now
      /\ \A c \in Buckets \ {b} : tokens'[c] = tokens[c] /\ updated'[c] = updated[c]
  BY DEF Store, TypeOK
<1>2. TypeOK'
  BY <1>1 DEF TypeOK
<1>3. LookedBefore'
  <2> SUFFICES ASSUME NEW c \in Buckets PROVE updated'[c] <= now'
    BY DEF LookedBefore
  <2>1. CASE c = b
    BY <1>1, <2>1 DEF TypeOK
  <2>2. CASE c # b
    BY <1>1, <2>2 DEF LookedBefore
  <2>3. QED
    BY <2>1, <2>2
<1>4. Refilled(b)' = n
  <2>1. n + (now - now) * Limit(b[2]) = n
    BY Limits DEF TypeOK
  <2>2. Burst(b)' = Burst(b) /\ Limit(b[2])' = Limit(b[2])
    BY DEF Burst, Limit
  <2>3. QED
    BY <1>1, <2>1, <2>2 DEF Refilled
<1>5. \A c \in Buckets \ {b} : Refilled(c)' = Refilled(c)
  BY <1>1 DEF Refilled, Burst, Limit
<1>6. QED
  BY <1>2, <1>3, <1>4, <1>5

LEMMA RestartEffect ==
  ASSUME TypeOK, LookedBefore, NEW w \in Workers, Restart(w)
  PROVE  /\ TypeOK' /\ LookedBefore'
         /\ \A b \in Buckets : Refilled(b)' = IF b[1] = w THEN Burst(b) ELSE Refilled(b)
<1>1. /\ known' = {b \in known : b[1] # w} /\ now' = now
      /\ tokens' \in [Buckets -> Nat] /\ updated' \in [Buckets -> 0..Horizon]
      /\ \A b \in Buckets : /\ b[1] = w => b \notin known' /\ updated'[b] = 0
                            /\ b[1] # w => /\ b \in known' <=> b \in known
                                           /\ tokens'[b] = tokens[b] /\ updated'[b] = updated[b]
  BY DEF Restart, TypeOK
<1>2. TypeOK'
  BY <1>1 DEF TypeOK
<1>3. LookedBefore'
  BY <1>1 DEF LookedBefore, TypeOK
<1>4. \A b \in Buckets : Refilled(b)' = IF b[1] = w THEN Burst(b) ELSE Refilled(b)
  BY <1>1 DEF Refilled, Burst, Limit
<1>5. QED
  BY <1>2, <1>3, <1>4

LEMMA TickEffect ==
  ASSUME TypeOK, LookedBefore, Tick
  PROVE  /\ TypeOK' /\ LookedBefore'
         /\ \A b \in Buckets :
              Refilled(b)' = IF Refilled(b) + Limit(b[2]) <= Burst(b)
                               THEN Refilled(b) + Limit(b[2]) ELSE Burst(b)
<1>1. now \in Nat /\ now' = now + 1 /\ now' \in 0..Horizon /\ UNCHANGED <<known, tokens, updated>>
  BY DEF Tick, TypeOK
<1>2. TypeOK'
  BY <1>1 DEF TypeOK
<1>3. LookedBefore'
  BY <1>1 DEF LookedBefore, TypeOK
<1>4. ASSUME NEW b \in Buckets
      PROVE  Refilled(b)' = IF Refilled(b) + Limit(b[2]) <= Burst(b)
                              THEN Refilled(b) + Limit(b[2]) ELSE Burst(b)
  <2> DEFINE n == Limit(b[2])
             gap == now - updated[b]
             sum == tokens[b] + gap * n
  <2>1. /\ tokens[b] \in Nat /\ gap \in Nat /\ n \in Nat /\ n >= 1 /\ Burst(b) \in Nat
    BY <1>1, Limits DEF TypeOK, LookedBefore
  <2>2. gap' = gap + 1
    BY <1>1 DEF TypeOK
  <2>3. gap * n \in Nat /\ (gap + 1) * n = gap * n + n
    BY <2>1
  <2>4. sum \in Nat /\ sum' = sum + n
    <3>1. sum' = tokens[b] + gap' * n
      BY <1>1 DEF Limit
    <3> HIDE DEF n, gap
    <3>2. QED
      BY <2>1, <2>2, <2>3, <3>1
  <2>5. Refilled(b) = IF b \in known /\ sum <= Burst(b) THEN sum ELSE Burst(b)
    BY DEF Refilled
  <2>6. Refilled(b)' = IF b \in known /\ sum' <= Burst(b) THEN sum' ELSE Burst(b)
    BY <1>1 DEF Refilled, Burst, Limit
  <2> HIDE DEF n, gap, sum
  <2>7. Refilled(b)' = IF Refilled(b) + n <= Burst(b) THEN Refilled(b) + n ELSE Burst(b)
    BY <2>1, <2>4, <2>5, <2>6
  <2>8. QED
    BY <2>7 DEF n
<1>5. QED
  BY <1>2, <1>3, <1>4

-----------------------------------------------------------------------------
(* The refinement *)

Sane == TypeOK /\ LookedBefore

LEMMA SaneInit == Init => Sane
BY DEF Init, Sane, TypeOK, LookedBefore

LEMMA SaneNext == Sane /\ [Next]_vars => Sane'
<1> SUFFICES ASSUME Sane, [Next]_vars PROVE Sane'
  OBVIOUS
<1>1. TypeOK /\ LookedBefore
  BY DEF Sane
<1>2. ASSUME NEW b \in Buckets, Pass(b) \/ Refuse(b) PROVE Sane'
  <2>1. Refilled(b) \in Nat /\ Refilled(b) <= Burst(b) /\ Burst(b) \in Nat
    BY <1>1, RefilledType, Limits
  <2>2. CASE Pass(b)
    <3>1. Refilled(b) - Minute \in Nat /\ Refilled(b) - Minute <= Burst(b)
      BY <2>1, <2>2 DEF Pass, Allowed
    <3>2. QED
      BY <1>1, <2>2, <3>1, StoreEffect DEF Pass, Sane
  <2>3. CASE Refuse(b)
    BY <1>1, <2>1, <2>3, StoreEffect DEF Refuse, Sane
  <2>4. QED
    BY <1>2, <2>2, <2>3
<1>3. ASSUME NEW w \in Workers, Restart(w) PROVE Sane'
  BY <1>1, <1>3, RestartEffect DEF Sane
<1>4. CASE Tick
  BY <1>1, <1>4, TickEffect DEF Sane
<1>5. CASE UNCHANGED vars
  BY <1>1, <1>5 DEF Sane, TypeOK, LookedBefore, vars
<1>6. QED
  BY <1>2, <1>3, <1>4, <1>5 DEF Next

Level == [b \in Buckets |-> Refilled(b)]

LEMMA BucketInitially == Init => Bucket!BucketInit
BY DEF Init, Bucket!BucketInit, Refilled, Burst

LEMMA BucketSteps == Sane /\ [Next]_vars => [Bucket!BucketNext]_Level
<1> SUFFICES ASSUME Sane, [Next]_vars PROVE Bucket!BucketNext \/ Level' = Level
  BY DEF Level
<1>1. TypeOK /\ LookedBefore
  BY DEF Sane
<1>2. ASSUME NEW b \in Buckets, Pass(b) PROVE Bucket!BucketNext
  <2>1. Refilled(b) \in Nat /\ Refilled(b) <= Burst(b) /\ Burst(b) \in Nat
    BY <1>1, RefilledType, Limits
  <2>2. /\ Refilled(b) >= Minute
        /\ Refilled(b) - Minute \in Nat /\ Refilled(b) - Minute <= Burst(b)
    BY <1>2, <2>1 DEF Pass, Allowed
  <2>3. /\ Refilled(b)' = Refilled(b) - Minute
        /\ \A c \in Buckets \ {b} : Refilled(c)' = Refilled(c)
    BY <1>1, <1>2, <2>2, StoreEffect DEF Pass
  <2>4. Level[b] >= Minute
    BY <2>2 DEF Level
  <2>5. Level' = [Level EXCEPT ![b] = Level[b] - Minute]
    BY <2>3 DEF Level
  <2>6. Bucket!Take(b)
    BY <2>4, <2>5 DEF Bucket!Take, Level
  <2>7. QED
    BY <2>6 DEF Bucket!BucketNext
<1>3. ASSUME NEW b \in Buckets, Refuse(b) PROVE Level' = Level
  <2>1. Refilled(b) \in Nat /\ Refilled(b) <= Burst(b)
    BY <1>1, RefilledType
  <2>2. /\ Refilled(b)' = Refilled(b)
        /\ \A c \in Buckets \ {b} : Refilled(c)' = Refilled(c)
    BY <1>1, <1>3, <2>1, StoreEffect DEF Refuse
  <2>3. QED
    BY <2>2 DEF Level
<1>4. ASSUME NEW w \in Workers, Restart(w) PROVE Bucket!BucketNext
  <2>1. \A b \in Buckets : Refilled(b)' = IF b[1] = w THEN Burst(b) ELSE Refilled(b)
    BY <1>1, <1>4, RestartEffect
  <2>2. Bucket!Renew(w)
    BY <2>1 DEF Bucket!Renew
  <2>3. QED
    BY <2>2 DEF Bucket!BucketNext
<1>5. CASE Tick
  <2>1. \A b \in Buckets : Refilled(b)' = IF Refilled(b) + Limit(b[2]) <= Burst(b)
                                            THEN Refilled(b) + Limit(b[2]) ELSE Burst(b)
    BY <1>1, <1>5, TickEffect
  <2>2. Bucket!Refill
    BY <2>1 DEF Bucket!Refill
  <2>3. QED
    BY <2>2 DEF Bucket!BucketNext
<1>6. CASE UNCHANGED vars
  BY <1>6 DEF vars, Level, Refilled, Burst, Limit
<1>7. QED
  BY <1>2, <1>3, <1>4, <1>5, <1>6 DEF Next

(***************************************************************************)
(* The limiter implements the token bucket: what RateLimiter.check finds,  *)
(* however rarely it looks, is what a bucket refilled at every tick holds. *)
(***************************************************************************)
THEOREM LimiterImplementsBucket == Spec => ImplementsBucket
<1>1. Init => Sane
  BY SaneInit
<1>2. Sane /\ [Next]_vars => Sane'
  BY SaneNext
<1>3. Init => Bucket!BucketInit
  BY BucketInitially
<1>4. Sane /\ [Next]_vars => [Bucket!BucketNext]_Level
  BY BucketSteps
<1>5. QED
  BY <1>1, <1>2, <1>3, <1>4, PTL DEF Spec, ImplementsBucket, Bucket!BucketSpec, Level

-----------------------------------------------------------------------------
(* The history *)

LEMMA InitInv == HInit => IInv
<1> SUFFICES ASSUME HInit PROVE IInv
  OBVIOUS
<1>1. Sane
  BY SaneInit DEF HInit
<1>2. HTypeOK
  BY <1>1 DEF HInit, HTypeOK, Sane
<1>3. ASSUME NEW b \in Buckets
      PROVE  /\ count[b] * Minute + Refilled(b) <= Burst(b) + elapsed * Limit(b[2])
             /\ waited[b] * Limit(b[2]) <= Refilled(b)
  <2>1. Refilled(b) = Burst(b)
    BY DEF HInit, Init, Refilled
  <2>2. count[b] = 0 /\ elapsed = 0 /\ waited[b] = 0
    BY DEF HInit
  <2>3. QED
    BY <2>1, <2>2, Limits
<1>4. QED
  BY <1>1, <1>2, <1>3 DEF IInv, Sane, Conserved, Credited

\* Both conjuncts carry over for a bucket that nothing happens to.
LEMMA StepInv ==
  ASSUME HTypeOK', LookedBefore',
         \A b \in Buckets :
           /\ count'[b] * Minute + Refilled(b)' <= Burst(b) + elapsed' * Limit(b[2])
           /\ waited'[b] * Limit(b[2]) <= Refilled(b)'
  PROVE  IInv'
BY DEF IInv, Conserved, Credited, Burst, Limit

LEMMA PassKeepsInv ==
  ASSUME IInv, NEW b \in Buckets, HPass(b)
  PROVE  IInv'
<1>1. HTypeOK /\ TypeOK /\ LookedBefore /\ Conserved /\ Credited
  BY DEF IInv, HTypeOK
<1>2. Refilled(b) \in Nat /\ Refilled(b) <= Burst(b) /\ Burst(b) \in Nat
  BY <1>1, RefilledType, Limits
<1>3. Refilled(b) - Minute \in Nat /\ Refilled(b) - Minute <= Burst(b)
  BY <1>2 DEF HPass, Pass, Allowed
<1>4. /\ TypeOK' /\ LookedBefore'
      /\ Refilled(b)' = Refilled(b) - Minute
      /\ \A c \in Buckets \ {b} : Refilled(c)' = Refilled(c)
  BY <1>1, <1>3, StoreEffect DEF HPass, Pass
<1>5. /\ count' \in [Buckets -> Nat] /\ waited' \in [Buckets -> 0..Minute]
      /\ count'[b] = count[b] + 1 /\ waited'[b] = 0 /\ elapsed' = elapsed
      /\ \A c \in Buckets \ {b} : count'[c] = count[c] /\ waited'[c] = waited[c]
  BY <1>1 DEF HPass, HTypeOK
<1>6. HTypeOK'
  BY <1>1, <1>4, <1>5 DEF HTypeOK
<1>7. ASSUME NEW c \in Buckets
      PROVE  /\ count'[c] * Minute + Refilled(c)' <= Burst(c) + elapsed' * Limit(c[2])
             /\ waited'[c] * Limit(c[2]) <= Refilled(c)'
  <2>1. CASE c = b
    <3>1. count[b] * Minute + Refilled(b) <= Burst(b) + elapsed * Limit(b[2])
      BY <1>1 DEF Conserved
    <3>2. count[b] \in Nat /\ elapsed \in Nat /\ Limit(b[2]) \in Nat
      BY <1>1, Limits DEF HTypeOK
    <3>3. (count[b] + 1) * Minute = count[b] * Minute + Minute /\ count[b] * Minute \in Nat
      BY <3>2
    <3>4. 0 * Limit(b[2]) = 0 /\ elapsed * Limit(b[2]) \in Nat
      BY <3>2
    <3>5. count'[b] * Minute + Refilled(b)' <= Burst(b) + elapsed' * Limit(b[2])
      BY <1>2, <1>4, <1>5, <3>1, <3>3, <3>4
    <3>6. waited'[b] * Limit(b[2]) <= Refilled(b)'
      BY <1>3, <1>4, <1>5, <3>4
    <3>7. QED
      BY <2>1, <3>5, <3>6
  <2>2. CASE c # b
    BY <1>1, <1>4, <1>5, <2>2 DEF Conserved, Credited
  <2>3. QED
    BY <2>1, <2>2
<1>8. QED
  BY <1>4, <1>6, <1>7, StepInv

LEMMA RefuseKeepsInv ==
  ASSUME IInv, NEW b \in Buckets, HRefuse(b)
  PROVE  IInv'
<1>1. HTypeOK /\ TypeOK /\ LookedBefore /\ Conserved /\ Credited
  BY DEF IInv, HTypeOK
<1>2. Refilled(b) \in Nat /\ Refilled(b) <= Burst(b)
  BY <1>1, RefilledType
<1>3. TypeOK' /\ LookedBefore' /\ \A c \in Buckets : Refilled(c)' = Refilled(c)
  BY <1>1, <1>2, StoreEffect DEF HRefuse, Refuse
<1>4. UNCHANGED <<count, elapsed, waited>>
  BY DEF HRefuse
<1>5. HTypeOK'
  BY <1>1, <1>3, <1>4 DEF HTypeOK
<1>6. QED
  BY <1>1, <1>3, <1>4, <1>5, StepInv DEF Conserved, Credited

LEMMA RestartKeepsInv ==
  ASSUME IInv, NEW w \in Workers, HRestart(w)
  PROVE  IInv'
<1>1. HTypeOK /\ TypeOK /\ LookedBefore /\ Conserved /\ Credited
  BY DEF IInv, HTypeOK
<1>2. /\ TypeOK' /\ LookedBefore'
      /\ \A b \in Buckets : Refilled(b)' = IF b[1] = w THEN Burst(b) ELSE Refilled(b)
  BY <1>1, RestartEffect DEF HRestart
<1>3. HTypeOK'
  BY <1>1, <1>2 DEF HRestart, HTypeOK
<1>4. ASSUME NEW b \in Buckets
      PROVE  /\ count'[b] * Minute + Refilled(b)' <= Burst(b) + elapsed' * Limit(b[2])
             /\ waited'[b] * Limit(b[2]) <= Refilled(b)'
  <2>1. elapsed' = elapsed /\ elapsed \in Nat /\ Limit(b[2]) \in Nat /\ Burst(b) \in Nat
    BY <1>1, Limits DEF HRestart, HTypeOK
  <2>2. CASE b[1] = w
    <3>1. count'[b] = 0 /\ waited'[b] = 0 /\ Refilled(b)' = Burst(b)
      BY <1>2, <2>2 DEF HRestart
    <3>2. elapsed * Limit(b[2]) \in Nat /\ 0 * Limit(b[2]) = 0 /\ 0 * Minute = 0
      BY <2>1
    <3>3. QED
      BY <2>1, <3>1, <3>2
  <2>3. CASE b[1] # w
    <3>1. count'[b] = count[b] /\ waited'[b] = waited[b] /\ Refilled(b)' = Refilled(b)
      BY <1>2, <2>3 DEF HRestart
    <3>2. QED
      BY <1>1, <2>1, <3>1 DEF Conserved, Credited
  <2>4. QED
    BY <2>2, <2>3
<1>5. QED
  BY <1>2, <1>3, <1>4, StepInv

LEMMA TickKeepsInv ==
  ASSUME IInv, HTick
  PROVE  IInv'
<1>1. HTypeOK /\ TypeOK /\ LookedBefore /\ Conserved /\ Credited
  BY DEF IInv, HTypeOK
<1>2. /\ TypeOK' /\ LookedBefore'
      /\ \A b \in Buckets :
           Refilled(b)' = IF Refilled(b) + Limit(b[2]) <= Burst(b)
                            THEN Refilled(b) + Limit(b[2]) ELSE Burst(b)
  BY <1>1, TickEffect DEF HTick
<1>3. HTypeOK'
  BY <1>1, <1>2 DEF HTick, HTypeOK
<1>4. ASSUME NEW b \in Buckets
      PROVE  /\ count'[b] * Minute + Refilled(b)' <= Burst(b) + elapsed' * Limit(b[2])
             /\ waited'[b] * Limit(b[2]) <= Refilled(b)'
  <2> DEFINE n == Limit(b[2])
             r == Refilled(b)
             t == waited[b]
  <2>1. /\ n \in Nat /\ n >= 1 /\ Burst(b) \in Nat /\ Burst(b) = Minute * n
        /\ r \in Nat /\ r <= Burst(b) /\ elapsed \in Nat /\ t \in 0..Minute
        /\ count[b] \in Nat
    BY <1>1, Limits, RefilledType DEF HTypeOK
  <2>2. /\ count[b] * Minute + r <= Burst(b) + elapsed * n
        /\ t * n <= r
    BY <1>1 DEF Conserved, Credited
  <2>3. /\ count'[b] = count[b] /\ elapsed' = elapsed + 1
        /\ waited'[b] = IF t < Minute THEN t + 1 ELSE Minute
    BY DEF HTick
  <2>4. Refilled(b)' = IF r + n <= Burst(b) THEN r + n ELSE Burst(b)
    BY <1>2
  <2> HIDE DEF n, r, t
  <2>5. elapsed * n \in Nat /\ (elapsed + 1) * n = elapsed * n + n /\ count[b] * Minute \in Nat
    BY <2>1
  <2>6. count'[b] * Minute + Refilled(b)' <= Burst(b) + elapsed' * n
    BY <2>1, <2>2, <2>3, <2>4, <2>5
  <2>7. waited'[b] * n <= Refilled(b)'
    <3>1. CASE t < Minute
      <4>1. (t + 1) * n = t * n + n /\ t * n \in Nat /\ (t + 1) * n <= Minute * n
        BY <2>1, <3>1
      <4>2. QED
        BY <2>1, <2>2, <2>3, <2>4, <3>1, <4>1
    <3>2. CASE t = Minute
      BY <2>1, <2>2, <2>3, <2>4, <3>2
    <3>3. QED
      BY <2>1, <3>1, <3>2
  <2>8. QED
    BY <2>6, <2>7 DEF n
<1>5. QED
  BY <1>2, <1>3, <1>4, StepInv

LEMMA WatchKeepsInv ==
  ASSUME IInv, Watch
  PROVE  IInv'
<1>1. HTypeOK /\ TypeOK /\ LookedBefore /\ Conserved /\ Credited
  BY DEF IInv, HTypeOK
<1>2. TypeOK' /\ LookedBefore' /\ \A b \in Buckets : Refilled(b)' = Refilled(b)
  BY <1>1 DEF Watch, vars, TypeOK, LookedBefore, Refilled, Burst, Limit
<1>3. HTypeOK'
  BY <1>1, <1>2 DEF Watch, HTypeOK
<1>4. ASSUME NEW b \in Buckets
      PROVE  /\ count'[b] * Minute + Refilled(b)' <= Burst(b) + elapsed' * Limit(b[2])
             /\ waited'[b] * Limit(b[2]) <= Refilled(b)'
  <2>1. /\ Refilled(b) \in Nat /\ Refilled(b) <= Burst(b) /\ Burst(b) \in Nat
        /\ Limit(b[2]) \in Nat
    BY <1>1, RefilledType, Limits
  <2>2. count'[b] = 0 /\ elapsed' = 0 /\ waited'[b] = waited[b]
    BY DEF Watch
  <2>3. QED
    BY <1>1, <1>2, <2>1, <2>2 DEF Credited
<1>5. QED
  BY <1>2, <1>3, <1>4, StepInv

(***************************************************************************)
(* What has passed at a bucket and what is left of it came from its first  *)
(* fill and from the ticks, and the ticks since the last pass are in it.   *)
(***************************************************************************)
THEOREM Invariance == HSpec => []IInv
<1>1. ASSUME IInv, [HNext]_hvars PROVE IInv'
  <2>1. CASE UNCHANGED hvars
    BY <1>1, <2>1 DEF hvars, vars, IInv, HTypeOK, TypeOK, LookedBefore, Conserved, Credited,
                      Refilled, Burst, Limit
  <2>2. QED
    BY <1>1, <2>1, PassKeepsInv, RefuseKeepsInv, RestartKeepsInv, TickKeepsInv, WatchKeepsInv
       DEF HNext
<1>2. QED
  BY <1>1, InitInv, PTL DEF HSpec

(***************************************************************************)
(* In any interval a worker lets a key pass at most a minute's worth of    *)
(* requests and what the interval adds (check's min(burst, ...)).          *)
(***************************************************************************)
THEOREM PassesBounded == HSpec => []WindowBound
<1>1. IInv => WindowBound
  <2> SUFFICES ASSUME IInv, NEW b \in Buckets
               PROVE  count[b] * Minute <= Burst(b) + elapsed * Limit(b[2])
    BY DEF WindowBound
  <2>1. Refilled(b) \in Nat /\ Burst(b) \in Nat /\ Limit(b[2]) \in Nat
    BY RefilledType, Limits DEF IInv, HTypeOK
  <2>2. count[b] * Minute \in Nat /\ elapsed * Limit(b[2]) \in Nat
    BY <2>1 DEF IInv, HTypeOK
  <2>3. count[b] * Minute + Refilled(b) <= Burst(b) + elapsed * Limit(b[2])
    BY DEF IInv, Conserved
  <2>4. QED
    BY <2>1, <2>2, <2>3
<1>2. QED
  BY <1>1, Invariance, PTL

(***************************************************************************)
(* A key that has had nothing pass for a minute is let in, so the          *)
(* Retry-After of a 429 is long enough, also for a key whose limit is 0.   *)
(***************************************************************************)
THEOREM WaitingIsEnough == HSpec => []RetryAfterSuffices
<1>1. IInv => RetryAfterSuffices
  <2> SUFFICES ASSUME IInv, NEW b \in Buckets, waited[b] >= Minute PROVE Refilled(b) >= Minute
    BY DEF RetryAfterSuffices, Allowed
  <2>1. waited[b] = Minute
    BY DEF IInv, HTypeOK
  <2>2. waited[b] * Limit(b[2]) <= Refilled(b)
    BY DEF IInv, Credited
  <2>3. Refilled(b) \in Nat
    BY RefilledType DEF IInv, HTypeOK
  <2>4. QED
    BY <2>1, <2>2, <2>3, Limits
<1>2. QED
  BY <1>1, Invariance, PTL
=============================================================================
