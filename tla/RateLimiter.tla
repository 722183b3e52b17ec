----------------------------- MODULE RateLimiter -----------------------------
(***************************************************************************)
(* The rate limiter of app/auth.py: a dictionary of token buckets in each  *)
(* worker process, refilled when a request looks at them and not before.   *)
(*                                                                         *)
(* Time is counted in ticks and a minute has Minute of them, so a limit of *)
(* n requests per minute is worth n parts a tick, where a token has Minute *)
(* parts: the float arithmetic of the code without its rounding.  A check  *)
(* holds the lock of its worker, and is one step.                          *)
(***************************************************************************)
EXTENDS Naturals

CONSTANTS
  Workers,    \* the uvicorn worker processes
  Keys,       \* the API keys that pass lookup_api_key
  RowLimit,   \* RowLimit[k]: rate_limit of the row of k; NULL is 0, as for `or`
  Default,    \* RATE_LIMIT_PER_MIN
  Minute,     \* ticks per minute
  Horizon     \* bound: the clock stops here

ASSUME LimitsAssumption ==
  /\ RowLimit \in [Keys -> Nat]
  /\ Default \in Nat \ {0}
  /\ Minute \in Nat \ {0}
  /\ Horizon \in Nat

VARIABLES
  now,       \* time.monotonic
  known,     \* the buckets that exist, as pairs of a worker and a key
  tokens,    \* tokens[b]: the parts in bucket b when it was last looked at
  updated    \* updated[b]: when that was

vars == <<now, known, tokens, updated>>

Buckets == Workers \X Keys

\* ... Limit without its `or`: a limit of 0 lets nothing pass.
LimitOfRow(k) == RowLimit[k]

\* row["rate_limit"] or settings.rate_limit_per_min
Limit(k) == IF RowLimit[k] = 0 THEN Default ELSE RowLimit[k]

Burst(b) == Limit(b[2]) * Minute

\* ... Refilled without its min.
RefilledUncapped(b) ==
  IF b \in known THEN tokens[b] + (now - updated[b]) * Limit(b[2]) ELSE Burst(b)

\* What check finds in the bucket, once refilled; a new bucket is full.
Refilled(b) ==
  LET sum == tokens[b] + (now - updated[b]) * Limit(b[2])
  IN  IF b \in known /\ sum <= Burst(b) THEN sum ELSE Burst(b)

Allowed(b) == Refilled(b) >= Minute

TypeOK ==
  /\ now \in 0..Horizon
  /\ known \subseteq Buckets
  /\ tokens \in [Buckets -> Nat]
  /\ updated \in [Buckets -> 0..Horizon]

Init ==
  /\ now = 0
  /\ known = {}
  /\ tokens = [b \in Buckets |-> 0]
  /\ updated = [b \in Buckets |-> 0]

\* check leaves n parts in the bucket, as of now.
Store(b, n) ==
  /\ known' = known \cup {b}
  /\ tokens' = [tokens EXCEPT ![b] = n]
  /\ updated' = [updated EXCEPT ![b] = now]
  /\ UNCHANGED now

\* The request passes.
Pass(b) ==
  /\ Allowed(b)
  /\ Store(b, Refilled(b) - Minute)

\* ... Refuse that keeps the time and forgets the refill.
RefuseUncredited(b) ==
  /\ ~ Allowed(b)
  /\ Store(b, tokens[b])

\* The answer is 429; the refill is kept.
Refuse(b) ==
  /\ ~ Allowed(b)
  /\ Store(b, Refilled(b))

\* A worker starts again, with an empty dictionary.
Restart(w) ==
  /\ known' = {b \in known : b[1] # w}
  /\ tokens' = [b \in Buckets |-> IF b[1] = w THEN 0 ELSE tokens[b]]
  /\ updated' = [b \in Buckets |-> IF b[1] = w THEN 0 ELSE updated[b]]
  /\ UNCHANGED now

Tick ==
  /\ now < Horizon
  /\ now' = now + 1
  /\ UNCHANGED <<known, tokens, updated>>

Next ==
  \/ \E b \in Buckets : Pass(b) \/ Refuse(b)
  \/ \E w \in Workers : Restart(w)
  \/ Tick

Spec == Init /\ [][Next]_vars

-----------------------------------------------------------------------------

Bucket == INSTANCE TokenBucket WITH
  Holders <- Workers,
  HeldBy <- [w \in Workers |-> {b \in Buckets : b[1] = w}],
  Cost <- Minute,
  Worth <- [b \in Buckets |-> Limit(b[2])],
  Capacity <- [b \in Buckets |-> Burst(b)],
  level <- [b \in Buckets |-> Refilled(b)]

\* Looked at now and then, and by requests that pass or are refused, a bucket
\* holds at any time what one refilled at every tick would hold: no refill is
\* lost, counted twice or kept beyond a minute's worth (RateLimiter.check).
ImplementsBucket == Bucket!BucketSpec
=============================================================================
