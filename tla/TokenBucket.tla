----------------------------- MODULE TokenBucket -----------------------------
(***************************************************************************)
(* What a token bucket promises: it starts full, every tick of the clock   *)
(* adds to it what a tick is worth until it is full again, and a request   *)
(* that passes takes one token.  Nothing else changes it, but that the     *)
(* process that holds it may start again with a full one.                  *)
(***************************************************************************)
EXTENDS Naturals

CONSTANTS
  Buckets,      \* one for each key at each process
  Holders,      \* the processes
  HeldBy,       \* HeldBy[h]: the buckets of process h
  Cost,         \* the parts of a token
  Worth,        \* Worth[b]: the parts a tick adds to bucket b
  Capacity      \* Capacity[b]: the parts in bucket b when it is full

VARIABLE level  \* level[b]: the parts in bucket b

BucketInit == level = Capacity

\* A request passes.
Take(b) ==
  /\ level[b] >= Cost
  /\ level' = [level EXCEPT ![b] = level[b] - Cost]

\* A tick of the clock.
Refill ==
  level' = [b \in Buckets |-> IF level[b] + Worth[b] <= Capacity[b]
                                THEN level[b] + Worth[b] ELSE Capacity[b]]

\* A process starts again.
Renew(h) ==
  level' = [b \in Buckets |-> IF b \in HeldBy[h] THEN Capacity[b] ELSE level[b]]

BucketNext ==
  \/ \E b \in Buckets : Take(b)
  \/ Refill
  \/ \E h \in Holders : Renew(h)

BucketSpec == BucketInit /\ [][BucketNext]_level
=============================================================================
