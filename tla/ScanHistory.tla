---------------------------- MODULE ScanHistory ----------------------------
(***************************************************************************)
(* The antivirus queue with a record of what happened, to say exactly when *)
(* the queue does what its comments rule out: a sweep takes a request's    *)
(* verdict away, or fails a file that nobody scanned, or malware is given  *)
(* out though there is a scanner.                                          *)
(***************************************************************************)
EXTENDS ScanQueue

VARIABLES
  slow,    \* the uploads still scanning when their row was PickupGrace old
  asked,   \* the files some request or sweep has scanned
  late,    \* the sweeps whose batch is out of date: the clock went on since it
           \* was taken, or the pickup raised
  missed   \* the pending and skipped files that a failed probe may have let
           \* through: inserted by a worker whose probe had failed, or as old as
           \* PickupGrace when that of a sweep did

hvars == <<vars, slow, asked, late, missed>>

HTypeOK ==
  /\ TypeOK
  /\ slow \subseteq Files
  /\ asked \subseteq Files
  /\ late \subseteq Sweepers
  /\ missed \subseteq Files

HInit == Init /\ slow = {} /\ asked = {} /\ late = {} /\ missed = {}

Scanning == {"inserted", "scanned"}

\* The pickup of sweep s ends in this step, other than by PickupEnds.
CutShort(s) ==
  /\ sw[s].pc \in {"probe", "skip", "scan", "apply"}
  /\ sw'[s].pc = "stale"
  /\ sw[s].pc \in {"probe", "apply"} \/ sw[s].todo # {} \/ sw[s].full

ProbeFails(s) == sw[s].pc = "probe" /\ sw'[s].pc = "skip"

Remember ==
  /\ slow' = slow \cup {f \in Files : up'[f] \in Scanning /\ age'[f] >= PickupGrace}
  /\ asked' = asked
       \cup {f \in Files : up[f] = "inserted" /\ up'[f] = "scanned"}
       \cup {f \in Files : \E s \in Sweepers : sw'[s].pc = "apply" /\ sw'[s].cur = f}
  /\ late' = {s \in Sweepers :
                /\ sw[s].pc # "idle"
                /\ sw'[s].pc # "idle"
                /\ \/ s \in late
                   \/ \E f \in Files : age'[f] > age[f]
                   \/ CutShort(s)}
  /\ missed' =
       {f \in Files :
          /\ status'[f] \in {"pending", "skipped"}
          /\ \/ f \in missed
             \/ \E w \in Workers : scanner[w] = "off" /\ Insert(f, w)
             \/ /\ status[f] = "pending" /\ age[f] >= PickupGrace
                /\ \E s \in Sweepers : ProbeFails(s)}

HNext == Next /\ Remember

HSpec == HInit /\ [][HNext]_hvars

\* With the fairness of ScanQueue, which says why it is justified.
FairHSpec == HSpec /\ Fairness /\ SweepsEnd

-----------------------------------------------------------------------------

\* Malware is given out for one of two reasons: some scan of it was answered, and
\* the answer may have been cut off after an "ok" in its signature's name; or it
\* was never resolved by a scan, because of a failed probe: the one its worker
\* made at its start and keeps, or that of a sweep which came when the row was
\* PickupGrace old already.  A ScanError, a dead request, a slow sweep or the
\* backstop never lets it out (get_scanner, resolve_pending, scan_and_apply and
\* release_stale_pending, with the gate of access.py).
MalwareHasCause ==
  \A f \in given \cap Malware :
    \/ status[f] = "clean" /\ f \in OkNamed \cap asked
    \/ status[f] = "skipped" /\ f \in missed

\* The verdict a request obtained is the one its row gets, unless it took
\* PickupGrace to obtain it: until then the pickup leaves its row alone
\* (SCAN_PICKUP_GRACE, _pickup_candidates).
FastVerdictStands ==
  \A f \in Files : up[f] \in {"applied", "done"} /\ verdict[f] # "none" /\ f \notin slow
                     => status[f] = verdict[f]

\* A file nobody scanned is failed only by a sweep whose batch is out of date:
\* one that was not full, and is not late, held every row old enough to fail
\* (the saturation test of resolve_pending with step 0b of run_once).
OnlyLateSweepsFailUnasked ==
  [][\A f \in Files : status[f] = "pending" /\ status'[f] = "error" /\ f \notin asked =>
       \E s \in late : sw[s].pc = "release" /\ f \in sw[s].todo]_hvars

-----------------------------------------------------------------------------
(* Why: the facts every step keeps *)

AgeOfPending == \A f \in Files : status[f] # "pending" => age[f] = 0

\* The rows a sweep is about to write.
Held(s) == sw[s].todo \cup (IF sw[s].pc = "apply" THEN {sw[s].cur} ELSE {})

HeldAreOld ==
  \A s \in Sweepers : \A f \in Held(s) :
    /\ status[f] # "none"
    /\ status[f] = "pending" => age[f] >= PickupGrace

RequestsAreYoung ==
  \A f \in Files \ slow : up[f] \in Scanning => status[f] = "pending" /\ age[f] < PickupGrace

ScannedAreAsked ==
  /\ \A f \in Files : up[f] = "scanned" => f \in asked
  /\ \A s \in Sweepers : sw[s].pc = "apply" => sw[s].cur \in asked

\* A batch that is up to date and was not full leaves out no row old enough to fail.
BatchCovers ==
  \A s \in Sweepers :
    /\ sw[s].pc \in {"idle", "stale"} => sw[s].todo = {} /\ ~ sw[s].full
    /\ s \notin late /\ sw[s].pc \notin {"idle", "release"} /\ ~ sw[s].full =>
         \A f \in Queued : age[f] >= PendingGrace => f \in asked \cup sw[s].todo
    /\ s \notin late /\ sw[s].pc = "release" => sw[s].todo \subseteq asked

\* A scanner's verdict comes from a scan.
VerdictsWereAsked ==
  \A f \in Files : status[f] \in {"clean", "infected"} => f \in asked

\* What is released unscanned, and what is about to be, a failed probe has missed.
SkippedWereMissed ==
  /\ \A f \in Files : status[f] = "skipped" => f \in missed
  /\ \A s \in Sweepers : sw[s].pc = "skip" =>
       \A f \in sw[s].todo : status[f] = "pending" => f \in missed

HInv ==
  /\ HTypeOK
  /\ IInv
  /\ AgeOfPending
  /\ HeldAreOld
  /\ RequestsAreYoung
  /\ FastVerdictStands
  /\ ScannedAreAsked
  /\ BatchCovers
  /\ VerdictsWereAsked
  /\ SkippedWereMissed
=============================================================================
