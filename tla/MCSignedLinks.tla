---------------------------- MODULE MCSignedLinks ----------------------------
(* SignedLinks on small sets, for TLC. *)
EXTENDS SignedLinks, TLC

\* A ttl below the range, one inside, one above, and none.
MCRequested == {-3, 2, 9, NoTtl}

\* Only safety is checked, and no property names an element of these.
Symmetry == Permutations(Workers) \cup Permutations(Secrets)
=============================================================================
