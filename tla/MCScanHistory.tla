--------------------------- MODULE MCScanHistory ---------------------------
(* Instances of the antivirus queue with its history for TLC. *)
EXTENDS ScanHistory

CONSTANTS f1, f2, w1, s1

\* What a scan may say of f1 is all that it may say of any file.
MCMalware == {f1, f2}
MCOkNamed == {f1}
=============================================================================
