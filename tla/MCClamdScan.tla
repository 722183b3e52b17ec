---------------------------- MODULE MCClamdScan ----------------------------
(* ClamdScan on small files, for TLC: an empty file, one of two chunks, one
   beyond the daemon's limit, and malware of one and of two chunks. *)
EXTENDS ClamdScan, TLC

CONSTANTS empty, plain, huge, worm, trojan

MCSize == (empty :> 0) @@ (plain :> 2) @@ (huge :> 3) @@ (worm :> 1) @@ (trojan :> 2)

\* The name of the trojan has an "ok" in it, as in Facebook.
MCName == [f \in Files |-> IF f = trojan THEN <<"other", "OK", "other">> ELSE <<"other">>]
=============================================================================
