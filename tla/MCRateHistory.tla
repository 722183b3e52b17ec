---------------------------- MODULE MCRateHistory ----------------------------
(* RateHistory on small sets, for TLC. *)
EXTENDS RateHistory, TLC

CONSTANTS w1, w2, k1, k2

\* k1 has a limit of its own, k2 none.
MCRowLimit == (k1 :> 1) @@ (k2 :> 0)
=============================================================================
