--------------------------- MODULE MCStoreReaders ---------------------------
(* StoreReaders on small sets, for TLC. *)
EXTENDS StoreReaders, TLC

CONSTANT h1

MCThumbable == {h1}

Symmetry == Permutations(Files) \cup Permutations(Sweepers)
=============================================================================
