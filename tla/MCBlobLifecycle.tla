--------------------------- MODULE MCBlobLifecycle ---------------------------
(* BlobLifecycle on small sets, for TLC. *)
EXTENDS BlobLifecycle, TLC

CONSTANTS h1, h2

MCThumbable == {h1}
=============================================================================
