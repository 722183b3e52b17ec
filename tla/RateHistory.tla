----------------------------- MODULE RateHistory -----------------------------
(***************************************************************************)
(* The rate limiter under observation: the requests that pass from some    *)
(* moment on, and how long each key has been waiting.                      *)
(***************************************************************************)
EXTENDS RateLimiter

VARIABLES
  count,     \* count[b]: requests that passed since the observation began, or
             \* since the worker of b started if that is later
  elapsed,   \* the ticks since the observation began
  waited     \* waited[b]: the ticks since a request last passed, or since the
             \* worker of b started, counted up to Minute

hvars == <<vars, count, elapsed, waited>>

HInit ==
  /\ Init
  /\ count = [b \in Buckets |-> 0]
  /\ elapsed = 0
  /\ waited = [b \in Buckets |-> 0]

HPass(b) ==
  /\ Pass(b)
  /\ count' = [count EXCEPT ![b] = count[b] + 1]
  /\ waited' = [waited EXCEPT ![b] = 0]
  /\ UNCHANGED elapsed

HRefuse(b) ==
  /\ Refuse(b)
  /\ UNCHANGED <<count, elapsed, waited>>

HRestart(w) ==
  /\ Restart(w)
  /\ count' = [b \in Buckets |-> IF b[1] = w THEN 0 ELSE count[b]]
  /\ waited' = [b \in Buckets |-> IF b[1] = w THEN 0 ELSE waited[b]]
  /\ UNCHANGED elapsed

HTick ==
  /\ Tick
  /\ elapsed' = elapsed + 1
  /\ waited' = [b \in Buckets |-> IF waited[b] < Minute THEN waited[b] + 1 ELSE Minute]
  /\ UNCHANGED count

\* The observation begins, at any time and any number of times.
Watch ==
  /\ count' = [b \in Buckets |-> 0]
  /\ elapsed' = 0
  /\ UNCHANGED <<vars, waited>>

HNext ==
  \/ \E b \in Buckets : HPass(b) \/ HRefuse(b)
  \/ \E w \in Workers : HRestart(w)
  \/ HTick
  \/ Watch

HSpec == HInit /\ [][HNext]_hvars

-----------------------------------------------------------------------------

\* In any interval a worker that does not start again lets a key pass a minute's
\* worth of requests and what the interval is worth on top, and no more: twice
\* the limit in a minute, from a bucket that was full (min(burst, ...) in check).
WindowBound ==
  \A b \in Buckets : count[b] * Minute <= Burst(b) + elapsed * Limit(b[2])

\* A key that no request has passed with for a minute is not refused, however
\* often it was refused meanwhile, and whatever its row says: the Retry-After of
\* the 429 is honest (require_api_key).
RetryAfterSuffices ==
  \A b \in Buckets : waited[b] >= Minute => Allowed(b)

-----------------------------------------------------------------------------
(* Why: what is left of a bucket, and what has gone from it *)

HTypeOK ==
  /\ TypeOK
  /\ count \in [Buckets -> Nat]
  /\ elapsed \in Nat
  /\ waited \in [Buckets -> 0..Minute]

\* No bucket was looked at in the future.
LookedBefore == \A b \in Buckets : updated[b] <= now

\* What has passed and what is left came from the first fill and from the ticks.
Conserved ==
  \A b \in Buckets :
    count[b] * Minute + Refilled(b) <= Burst(b) + elapsed * Limit(b[2])

\* The ticks since the last pass are all in the bucket.
Credited == \A b \in Buckets : waited[b] * Limit(b[2]) <= Refilled(b)

IInv ==
  /\ HTypeOK
  /\ LookedBefore
  /\ Conserved
  /\ Credited
=============================================================================
