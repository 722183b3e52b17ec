--------------------------- MODULE MCKeyHistory ---------------------------
(* Instances of ApiKeys with its history for TLC. *)
EXTENDS KeyHistory, TLC

CONSTANTS k1, k2, r1, r2, r3

MCSize == (r1 :> 1) @@ (r2 :> 2) @@ (r3 :> 2)
MCQuota == k1 :> 3
=============================================================================
