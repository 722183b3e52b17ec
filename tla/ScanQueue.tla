------------------------------ MODULE ScanQueue ------------------------------
(***************************************************************************)
(* The antivirus queue: upload requests that insert a row as `pending` and *)
(* then scan it themselves, the sweep that scans what they left behind and *)
(* releases what it cannot resolve, and downloads that pass the gate.      *)
(*                                                                         *)
(* A process decides once whether there is a scanner: a worker when it     *)
(* starts (main.lifespan), a sweep when it first needs one.  A scan is a   *)
(* conversation with another process and takes time; each read or write of *)
(* the row is a transaction of its own.                                    *)
(***************************************************************************)
EXTENDS Naturals, FiniteSets

CONSTANTS
  Files,         \* file ids; each is given out by one upload
  Malware,       \* the files the scanner has a signature for
  OkNamed,       \* those whose signature's name has an "ok" in it
  Workers,       \* the uvicorn worker processes
  Sweepers,      \* the sweeps that may run at one time
  Configured,    \* whether AV_BACKEND names a scanner
  PickupGrace,   \* SCAN_PICKUP_GRACE, in ticks
  PendingGrace,  \* AV_PENDING_GRACE, in ticks
  Limit,         \* SCAN_PICKUP_BATCH
  ReleaseLimit,  \* the 1000 of release_stale_pending
  MayFail,       \* whether a worker or a sweep may die, or a request raise
  MayRaise       \* whether the pickup of a sweep may raise

ASSUME ConstantsOK ==
  /\ OkNamed \subseteq Malware
  /\ Malware \subseteq Files
  /\ Configured \in BOOLEAN
  /\ PickupGrace \in Nat
  /\ PendingGrace \in Nat \ {0}
  /\ PickupGrace <= PendingGrace
  /\ Limit \in Nat \ {0}
  /\ ReleaseLimit \in Nat \ {0}
  /\ MayFail \in BOOLEAN
  /\ MayRaise \in BOOLEAN

VARIABLES
  status,     \* status[f]: scan_status of the row of f, "none" before the insert
  age,        \* age[f]: ticks its row has been pending, since created_at
  deleted,    \* the files whose row is soft-deleted
  scanner,    \* scanner[w]: what worker w found when it started
  up,         \* up[f]: where the upload of f has got to
  worker,     \* worker[f]: the worker that serves it, while one does
  verdict,    \* verdict[f]: what the request's own scan returned
  response,   \* response[f]: the scan_status the client was told
  sw,         \* sw[s]: where sweep s has got to, and its local variables
  passed,     \* the files some download has found servable
  given       \* the files whose bytes were ever given out

vars == <<status, age, deleted, scanner, up, worker, verdict, response,
          sw, passed, given>>
rowVars == <<status, age, deleted>>
upVars == <<up, worker, verdict, response>>
gateVars == <<passed, given>>

-----------------------------------------------------------------------------

Gate == INSTANCE ScanGate WITH status <- status, given <- given

Verdicts == {"clean", "infected", "error", "skipped"}
Statuses == {"none", "pending"} \cup Verdicts

\* A request that has inserted its row and not responded: its worker is busy.
Busy == {"inserted", "scanned", "applied"}
UploadState == {"idle", "done", "failed"} \cup Busy

SweepPC == {"idle", "probe", "skip", "scan", "apply", "stale", "release"}

SweepState ==
  [pc : SweepPC,
   todo : SUBSET Files,                 \* rows still to be handled
   cur : Files \cup {"none"},           \* the row being scanned
   verdict : Verdicts \cup {"none"},    \* what its scan returned
   full : BOOLEAN]                      \* whether the batch was filled

IdleSweep ==
  [pc |-> "idle", todo |-> {}, cur |-> "none", verdict |-> "none", full |-> FALSE]

TypeOK ==
  /\ status \in [Files -> Statuses]
  /\ age \in [Files -> 0..PendingGrace]
  /\ deleted \subseteq Files
  /\ scanner \in [Workers -> {"down", "on", "off"}]
  /\ up \in [Files -> UploadState]
  /\ worker \in [Files -> Workers \cup {"none"}]
  /\ verdict \in [Files -> Verdicts \cup {"none"}]
  /\ response \in [Files -> Statuses]
  /\ sw \in [Sweepers -> SweepState]
  /\ passed \subseteq Files
  /\ given \subseteq Files

Init ==
  /\ status = [f \in Files |-> "none"]
  /\ age = [f \in Files |-> 0]
  /\ deleted = {}
  /\ scanner = [w \in Workers |-> "down"]
  /\ up = [f \in Files |-> "idle"]
  /\ worker = [f \in Files |-> "none"]
  /\ verdict = [f \in Files |-> "none"]
  /\ response = [f \in Files |-> "none"]
  /\ sw = [s \in Sweepers |-> IdleSweep]
  /\ passed = {}
  /\ given = {}

-----------------------------------------------------------------------------
(* The scanner and the row.  A definition whose comment starts with "..." is *)
(* a slip in the one it names: what the properties below are there to catch. *)

\* ... ScanOutcomes with a ScanError that leaves the file as it is.
ErrorStaysPending(f) == {"pending"} \cup Gate!Answers(f)

\* ... ScanOutcomes with a ScanError that is taken for scanning being disabled.
ErrorIsSkipped(f) == {"skipped"} \cup Gate!Answers(f)

\* ... SetScanResult without `AND scan_status = 'pending'`.
WriteAnyRow(f, v) ==
  /\ status' = [status EXCEPT ![f] = v]
  /\ age' = [age EXCEPT ![f] = 0]

\* build_scanner: a configured scanner that does not answer is no scanner, and
\* one that does may be taken for one that does not (available, in ClamdScan).
ProbeOutcomes == {"off"} \cup (IF Configured THEN {"on"} ELSE {})

\* scan_and_apply: a ScanError is the verdict "error"; it may always happen (a
\* missing blob, a timeout, a scanner that is gone, for now or for ever).  An
\* answer need not be the truth.
ScanOutcomes(f) == {"error"} \cup Gate!Answers(f)

\* set_scan_result: only a row that is still pending is written.
SetScanResult(f, v) ==
  /\ status' = IF status[f] = "pending" THEN [status EXCEPT ![f] = v] ELSE status
  /\ age' = [age EXCEPT ![f] = 0]

\* pending_scan_ids(n): the n oldest; rows of one age in any order.
Queued == {f \in Files : status[f] = "pending" /\ f \notin deleted}

Oldest(n) ==
  {B \in SUBSET Queued :
     /\ \/ Cardinality(B) = n
        \/ B = Queued /\ Cardinality(B) < n
     /\ \A b \in B, q \in Queued \ B : age[b] >= age[q]}

-----------------------------------------------------------------------------
(* Workers and uploads *)

Boot(w) ==
  /\ scanner[w] = "down"
  /\ \E found \in ProbeOutcomes : scanner' = [scanner EXCEPT ![w] = found]
  /\ UNCHANGED <<rowVars, upVars, sw, gateVars>>

\* insert_file with initial_status(); only a pending row is scanned.
Insert(f, w) ==
  /\ up[f] = "idle"
  /\ scanner[w] # "down"
  /\ \A g \in Files : worker[g] # w
  /\ IF scanner[w] = "on"
       THEN /\ status' = [status EXCEPT ![f] = "pending"]
            /\ up' = [up EXCEPT ![f] = "inserted"]
            /\ worker' = [worker EXCEPT ![f] = w]
            /\ UNCHANGED response
       ELSE /\ status' = [status EXCEPT ![f] = "skipped"]
            /\ up' = [up EXCEPT ![f] = "done"]
            /\ response' = [response EXCEPT ![f] = "skipped"]
            /\ UNCHANGED worker
  /\ UNCHANGED <<age, deleted, scanner, verdict, sw, gateVars>>

\* scan_blob in the request.
Scan(f) ==
  /\ up[f] = "inserted"
  /\ up' = [up EXCEPT ![f] = "scanned"]
  /\ \E v \in ScanOutcomes(f) : verdict' = [verdict EXCEPT ![f] = v]
  /\ UNCHANGED <<rowVars, scanner, worker, response, sw, gateVars>>

\* apply_result in the request.
Apply(f) ==
  /\ up[f] = "scanned"
  /\ up' = [up EXCEPT ![f] = "applied"]
  /\ SetScanResult(f, verdict[f])
  /\ UNCHANGED <<deleted, scanner, worker, verdict, response, sw, gateVars>>

\* ... Respond with the verdict of its own scan.
RespondWithVerdict(f) ==
  /\ up[f] = "applied"
  /\ up' = [up EXCEPT ![f] = "done"]
  /\ response' = [response EXCEPT ![f] = verdict[f]]
  /\ worker' = [worker EXCEPT ![f] = "none"]
  /\ UNCHANGED <<rowVars, scanner, verdict, sw, gateVars>>

\* The request reads its row again and responds with what it finds.
Respond(f) ==
  /\ up[f] = "applied"
  /\ up' = [up EXCEPT ![f] = "done"]
  /\ response' = [response EXCEPT ![f] = status[f]]
  /\ worker' = [worker EXCEPT ![f] = "none"]
  /\ UNCHANGED <<rowVars, scanner, verdict, sw, gateVars>>

\* The requests in R end without a response; their rows stay as they are.
Abandon(R) ==
  /\ up' = [f \in Files |-> IF f \in R THEN "failed" ELSE up[f]]
  /\ worker' = [f \in Files |-> IF f \in R THEN "none" ELSE worker[f]]
  /\ verdict' = [f \in Files |-> IF f \in R THEN "none" ELSE verdict[f]]
  /\ UNCHANGED response

\* An exception that is no ScanError ends the request.
Raise(f) ==
  /\ MayFail
  /\ up[f] \in Busy
  /\ Abandon({f})
  /\ UNCHANGED <<rowVars, scanner, sw, gateVars>>

\* A worker dies, with the request it serves; systemd starts it again.
WorkerDies(w) ==
  /\ MayFail
  /\ scanner[w] # "down"
  /\ scanner' = [scanner EXCEPT ![w] = "down"]
  /\ Abandon({f \in Files : worker[f] = w /\ up[f] \in Busy})
  /\ UNCHANGED <<rowVars, sw, gateVars>>

-----------------------------------------------------------------------------
(* Downloads, deletions and time *)

\* The gate of download and serve_image, on a row read before.
CheckGate(f) ==
  /\ status[f] \in Gate!Servable
  /\ f \notin deleted
  /\ passed' = passed \cup {f}
  /\ UNCHANGED <<rowVars, scanner, upVars, sw, given>>

Send(f) ==
  /\ f \in passed
  /\ given' = given \cup {f}
  /\ UNCHANGED <<rowVars, scanner, upVars, sw, passed>>

Delete(f) ==
  /\ status[f] # "none"
  /\ f \notin deleted
  /\ deleted' = deleted \cup {f}
  /\ UNCHANGED <<status, age, scanner, upVars, sw, gateVars>>

Tick ==
  /\ age' = [f \in Files |-> IF status[f] = "pending" /\ age[f] < PendingGrace
                               THEN age[f] + 1 ELSE age[f]]
  /\ UNCHANGED <<status, deleted, scanner, upVars, sw, gateVars>>

-----------------------------------------------------------------------------
(* The sweep, steps 0a and 0b *)

\* The pickup of a sweep takes the rows in C and notes whether they fill its batch.
TakeBatch(s, C, isFull) ==
  /\ sw' = [sw EXCEPT ![s] =
              [IdleSweep EXCEPT !.pc = "probe", !.todo = C, !.full = isFull]]
  /\ UNCHANGED <<rowVars, scanner, upVars, gateVars>>

\* ... Pickup with min_age_seconds left at 0.
PickupAnyAge(s) ==
  /\ sw[s].pc = "idle"
  /\ \E B \in Oldest(Limit) : TakeBatch(s, B, Cardinality(B) >= Limit)

\* ... Pickup with a batch that is full only beyond its limit.
PickupNeverFull(s) ==
  /\ sw[s].pc = "idle"
  /\ \E B \in Oldest(Limit) :
       LET candidates == {f \in B : age[f] >= PickupGrace}
       IN  TakeBatch(s, candidates, Cardinality(candidates) > Limit)

\* _pickup_candidates and the saturation test of resolve_pending.
Pickup(s) ==
  /\ sw[s].pc = "idle"
  /\ \E B \in Oldest(Limit) :
       LET candidates == {f \in B : age[f] >= PickupGrace}
       IN  TakeBatch(s, candidates, Cardinality(candidates) >= Limit)

\* scanning_enabled() in a new process.
ProbeScanner(s) ==
  /\ sw[s].pc = "probe"
  /\ \E found \in ProbeOutcomes :
       sw' = [sw EXCEPT ![s].pc = IF found = "on" THEN "scan" ELSE "skip"]
  /\ UNCHANGED <<rowVars, scanner, upVars, gateVars>>

\* With no scanner, the candidates become servable.
SkipOne(s, f) ==
  /\ sw[s].pc = "skip"
  /\ f \in sw[s].todo
  /\ sw' = [sw EXCEPT ![s].todo = sw[s].todo \ {f}]
  /\ SetScanResult(f, "skipped")
  /\ UNCHANGED <<deleted, scanner, upVars, gateVars>>

ScanOne(s, f) ==
  /\ sw[s].pc = "scan"
  /\ f \in sw[s].todo
  /\ \E v \in ScanOutcomes(f) :
       sw' = [sw EXCEPT ![s] = [sw[s] EXCEPT !.pc = "apply", !.cur = f, !.verdict = v,
                                             !.todo = sw[s].todo \ {f}]]
  /\ UNCHANGED <<rowVars, scanner, upVars, gateVars>>

ApplyOne(s) ==
  /\ sw[s].pc = "apply"
  /\ SetScanResult(sw[s].cur, sw[s].verdict)
  /\ sw' = [sw EXCEPT ![s] = [sw[s] EXCEPT !.pc = "scan", !.cur = "none", !.verdict = "none"]]
  /\ UNCHANGED <<deleted, scanner, upVars, gateVars>>

\* A filled batch says nothing about the rest, so the release is left out.
PickupEnds(s) ==
  /\ sw[s].pc \in {"skip", "scan"}
  /\ sw[s].todo = {}
  /\ sw' = [sw EXCEPT ![s] = IF sw[s].full THEN IdleSweep
                             ELSE [IdleSweep EXCEPT !.pc = "stale"]]
  /\ UNCHANGED <<rowVars, scanner, upVars, gateVars>>

\* ... PickupRaises without the catch-all around 0a.
SweepRaises(s) ==
  /\ MayRaise
  /\ sw[s].pc \in {"probe", "skip", "scan", "apply"}
  /\ sw' = [sw EXCEPT ![s] = IdleSweep]
  /\ UNCHANGED <<rowVars, scanner, upVars, gateVars>>

\* An exception in 0a is logged, and 0b runs.
PickupRaises(s) ==
  /\ MayRaise
  /\ sw[s].pc \in {"probe", "skip", "scan", "apply"}
  /\ sw' = [sw EXCEPT ![s] = [IdleSweep EXCEPT !.pc = "stale"]]
  /\ UNCHANGED <<rowVars, scanner, upVars, gateVars>>

\* release_stale_pending: the cutoff and the ids, then one row at a time.
FindStale(s) ==
  /\ sw[s].pc = "stale"
  /\ \E B \in Oldest(ReleaseLimit) :
       sw' = [sw EXCEPT ![s] =
                [IdleSweep EXCEPT !.pc = "release",
                                  !.todo = {f \in B : age[f] >= PendingGrace}]]
  /\ UNCHANGED <<rowVars, scanner, upVars, gateVars>>

ReleaseOne(s, f) ==
  /\ sw[s].pc = "release"
  /\ f \in sw[s].todo
  /\ sw' = [sw EXCEPT ![s].todo = sw[s].todo \ {f}]
  /\ SetScanResult(f, "error")
  /\ UNCHANGED <<deleted, scanner, upVars, gateVars>>

ReleaseEnds(s) ==
  /\ sw[s].pc = "release"
  /\ sw[s].todo = {}
  /\ sw' = [sw EXCEPT ![s] = IdleSweep]
  /\ UNCHANGED <<rowVars, scanner, upVars, gateVars>>

SweepDies(s) ==
  /\ MayFail
  /\ sw[s].pc # "idle"
  /\ sw' = [sw EXCEPT ![s] = IdleSweep]
  /\ UNCHANGED <<rowVars, scanner, upVars, gateVars>>

-----------------------------------------------------------------------------

SweepStep(s) ==
  \/ Pickup(s)
  \/ ProbeScanner(s)
  \/ \E f \in Files : SkipOne(s, f) \/ ScanOne(s, f) \/ ReleaseOne(s, f)
  \/ ApplyOne(s)
  \/ PickupEnds(s)
  \/ FindStale(s)
  \/ ReleaseEnds(s)

Upload(f) ==
  \/ \E w \in Workers : Insert(f, w)
  \/ Scan(f)
  \/ Apply(f)
  \/ Respond(f)
  \/ Raise(f)

Next ==
  \/ \E w \in Workers : Boot(w) \/ WorkerDies(w)
  \/ \E f \in Files : Upload(f) \/ CheckGate(f) \/ Send(f) \/ Delete(f)
  \/ \E s \in Sweepers : SweepStep(s) \/ PickupRaises(s) \/ SweepDies(s)
  \/ Tick

Spec == Init /\ [][Next]_vars

\* cron starts sweep after sweep, and each step of one returns or raises; time
\* passes.  Nothing is assumed of requests, of workers or of the scanner.
Fairness ==
  /\ WF_vars(Tick)
  /\ \A s \in Sweepers : WF_vars(SweepStep(s))

\* From some time on no sweep dies (a step to the idle state is another action's).
SweepsEnd ==
  <>[][\A s \in Sweepers :
         SweepDies(s) => PickupEnds(s) \/ ReleaseEnds(s) \/ PickupRaises(s)]_vars

FairSpec == Spec /\ Fairness /\ SweepsEnd

-----------------------------------------------------------------------------
(* What the queue promises *)

\* Every behaviour of the queue is one of the gate: a row leaves `pending` once
\* and for ever, with what the scanner may say or without a verdict, and bytes
\* are given out only after a status that allows it (set_scan_result, download).
ImplementsGate == Gate!GateSpec

\* The status a client was told is the status of the row from then on, also when
\* a sweep has resolved the row under the request (files.py, the second get_file).
ResponseStands == \A f \in Files : up[f] = "done" => response[f] = status[f]

\* A live row does not stay pending for ever, though every request may die, every
\* pickup may raise and the scanner may never answer (steps 0a and 0b of run_once).
PendingResolved ==
  \A f \in Files : (status[f] = "pending" /\ f \notin deleted)
                     ~> (status[f] # "pending" \/ f \in deleted)

-----------------------------------------------------------------------------
(* Why: the facts every step keeps *)

UploadsOwnRows == \A f \in Files : up[f] = "idle" <=> status[f] = "none"

AnsweredStatus ==
  \A f \in Files :
    status[f] \in {"none", "pending", "error", "skipped"} \cup Gate!Answers(f)

AnsweredVerdicts ==
  \A f \in Files : /\ verdict[f] \in {"none", "error"} \cup Gate!Answers(f)
                   /\ up[f] = "scanned" => verdict[f] # "none"
                   /\ up[f] \in {"idle", "inserted"} => verdict[f] = "none"

AnsweredScans ==
  \A s \in Sweepers : sw[s].pc = "apply" =>
    /\ sw[s].cur \in Files
    /\ sw[s].verdict \in {"error"} \cup Gate!Answers(sw[s].cur)

ResolvedBeforeResponse ==
  \A f \in Files : up[f] \in {"applied", "done"} => status[f] # "pending"

GatePassed == \A f \in passed \cup given : status[f] \in Gate!Servable

IInv ==
  /\ TypeOK
  /\ UploadsOwnRows
  /\ AnsweredStatus
  /\ AnsweredVerdicts
  /\ AnsweredScans
  /\ ResolvedBeforeResponse
  /\ GatePassed
  /\ ResponseStands

=============================================================================
