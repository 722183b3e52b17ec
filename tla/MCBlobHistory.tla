---------------------------- MODULE MCBlobHistory ----------------------------
(* BlobHistory on small sets, for TLC. *)
EXTENDS BlobHistory, TLC

CONSTANTS h1, h2

MCThumbable == {h1}

\* h1 has a thumbnail and h2 has none, so only the files are interchangeable.
Symmetry == Permutations(Files) \cup Permutations(Sweepers)
=============================================================================
