------------------------------ MODULE ScanGate ------------------------------
(***************************************************************************)
(* What the antivirus gate promises of each file, whatever the requests,   *)
(* the sweeps and the scanner do: a file gets at most one verdict, for     *)
(* ever; a verdict of the scanner is one that it may give on that file;    *)
(* and its bytes are given out only under a verdict that allows it.        *)
(***************************************************************************)
CONSTANTS
  Files,
  Malware,  \* the files the scanner has a signature for
  OkNamed   \* those among them whose signature's name has an "ok" in it

VARIABLES
  status,   \* scan_status of each row, "none" before there is a row
  given     \* the files whose bytes were ever given out

gateVars == <<status, given>>

Servable == {"clean", "skipped"}

Truth(f) == IF f \in Malware THEN "infected" ELSE "clean"

\* What a scan of f may say, when it says anything: the truth, or "clean" when
\* clamd's reply is cut off just after the "ok" (ClamdScan, TruthUnlessTorn).
Answers(f) == {Truth(f)} \cup (IF f \in OkNamed THEN {"clean"} ELSE {})

GateInit ==
  /\ status = [f \in Files |-> "none"]
  /\ given = {}

Admit(f) ==
  /\ status[f] = "none"
  /\ \E v \in {"pending", "skipped"} : status' = [status EXCEPT ![f] = v]
  /\ UNCHANGED given

Decide(f) ==
  /\ status[f] = "pending"
  /\ \E v \in Answers(f) \cup {"error", "skipped"} : status' = [status EXCEPT ![f] = v]
  /\ UNCHANGED given

Give(f) ==
  /\ status[f] \in Servable
  /\ given' = given \cup {f}
  /\ UNCHANGED status

GateNext == \E f \in Files : Admit(f) \/ Decide(f) \/ Give(f)

GateSpec == GateInit /\ [][GateNext]_gateVars
=============================================================================
