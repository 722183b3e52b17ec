-------------------------- MODULE ScanQueueProofs --------------------------
(***************************************************************************)
(* Proofs about ScanQueue and its history, for any sets of files, workers  *)
(* and sweeps, any batch limits and grace periods.                         *)
(***************************************************************************)
EXTENDS ScanHistory, TLAPS

(***************************************************************************)
(* An answer of the scanner is a verdict, true or not.                     *)
(***************************************************************************)
LEMMA AnswersAreVerdicts == \A f \in Files : Gate!Answers(f) \subseteq {"clean", "infected"}
  BY DEF Gate!Answers, Gate!Truth

(***************************************************************************)
(* The initial state satisfies the inductive invariant.                    *)
(***************************************************************************)
LEMMA InitIInv == Init => IInv
  <1> SUFFICES ASSUME Init PROVE IInv
    OBVIOUS
  <1> USE ConstantsOK DEF Init
  <1>1. TypeOK
    BY DEF TypeOK, SweepState, SweepPC, IdleSweep, Statuses, UploadState
  <1>2. UploadsOwnRows /\ AnsweredStatus /\ AnsweredVerdicts /\ AnsweredScans
    BY DEF UploadsOwnRows, AnsweredStatus, AnsweredVerdicts, AnsweredScans, IdleSweep
  <1>3. ResolvedBeforeResponse /\ GatePassed /\ ResponseStands
    BY DEF ResolvedBeforeResponse, GatePassed, ResponseStands
  <1> QED
    BY <1>1, <1>2, <1>3 DEF IInv

(***************************************************************************)
(* What each step of a sweep does to the sweep's local variables, field by *)
(* field; no other sweep is touched.                                       *)
(***************************************************************************)
Effect(s, pc, todo, cur, v, full) ==
  /\ sw'[s].pc = pc
  /\ sw'[s].todo = todo
  /\ sw'[s].cur = cur
  /\ sw'[s].verdict = v
  /\ sw'[s].full = full
  /\ \A t \in Sweepers \ {s} : sw'[t] = sw[t]
  /\ sw' \in [Sweepers -> SweepState]

LEMMA TakeEffect ==
  ASSUME TypeOK, NEW s \in Sweepers, NEW C \in SUBSET Files, NEW b \in BOOLEAN,
         TakeBatch(s, C, b)
  PROVE  Effect(s, "probe", C, "none", "none", b)
  <1> DEFINE next == [IdleSweep EXCEPT !.pc = "probe", !.todo = C, !.full = b]
  <1>1. /\ next \in SweepState
        /\ next.pc = "probe" /\ next.todo = C /\ next.cur = "none" /\ next.verdict = "none"
        /\ next.full = b
    BY DEF IdleSweep, SweepState, SweepPC
  <1>2. sw' = [sw EXCEPT ![s] = next]
    BY DEF TakeBatch
  <1> HIDE DEF next
  <1> QED
    BY <1>1, <1>2 DEF Effect, TypeOK

LEMMA PickupEffect ==
  ASSUME TypeOK, NEW s \in Sweepers, Pickup(s)
  PROVE  \E C \in SUBSET Files, b \in BOOLEAN :
           /\ Effect(s, "probe", C, "none", "none", b)
           /\ \A f \in C : status[f] = "pending" /\ age[f] >= PickupGrace
           /\ ~ b => \A f \in Queued : age[f] >= PickupGrace => f \in C
  <1> DEFINE Eligible(B) == {f \in B : age[f] >= PickupGrace}
             full(B) == Cardinality(Eligible(B)) >= Limit
  <1>1. PICK B \in Oldest(Limit) : TakeBatch(s, Eligible(B), full(B))
    BY DEF Pickup
  <1>2. B \subseteq Files /\ \A f \in B : status[f] = "pending"
    BY DEF Oldest, Queued
  <1>3. full(B) \in BOOLEAN
    OBVIOUS
  <1>4. Eligible(B) \in SUBSET Files
    BY <1>2
  <1>5. Effect(s, "probe", Eligible(B), "none", "none", full(B))
    <2> HIDE DEF Eligible, full
    <2> QED
      BY <1>1, <1>3, <1>4, TakeEffect
  <1>6. ASSUME ~ full(B), NEW f \in Queued, age[f] >= PickupGrace
        PROVE  f \in Eligible(B)
    <2> SUFFICES ASSUME f \notin B PROVE FALSE
      BY <1>6
    <2>1. \A b \in B : age[b] >= age[f]
      BY DEF Oldest
    <2>2. \A b \in B : age[b] >= PickupGrace
      BY <2>1, <1>2, <1>6, ConstantsOK DEF TypeOK, Queued
    <2>3. Eligible(B) = B
      BY <2>2
    <2>4. B # Queued
      BY <1>6
    <2>5. Cardinality(B) = Limit
      BY <2>4 DEF Oldest
    <2> QED
      BY <2>3, <2>5, <1>6, ConstantsOK
  <1> QED
    BY <1>2, <1>3, <1>4, <1>5, <1>6

LEMMA SweepEffects ==
  ASSUME TypeOK, NEW s \in Sweepers
  PROVE  /\ ProbeScanner(s) =>
              \E pc \in {"scan", "skip"} : Effect(s, pc, sw[s].todo, sw[s].cur, sw[s].verdict, sw[s].full)
         /\ \A f \in Files : SkipOne(s, f) \/ ReleaseOne(s, f) =>
              Effect(s, sw[s].pc, sw[s].todo \ {f}, sw[s].cur, sw[s].verdict, sw[s].full)
         /\ \A f \in Files : ScanOne(s, f) =>
              \E v \in ScanOutcomes(f) : Effect(s, "apply", sw[s].todo \ {f}, f, v, sw[s].full)
         /\ ApplyOne(s) => Effect(s, "scan", sw[s].todo, "none", "none", sw[s].full)
         /\ PickupEnds(s) \/ PickupRaises(s) =>
              \E pc \in {"idle", "stale"} : Effect(s, pc, {}, "none", "none", FALSE)
         /\ FindStale(s) =>
              \E B \in SUBSET Queued :
                 Effect(s, "release", {f \in B : age[f] >= PendingGrace}, "none", "none", FALSE)
         /\ ReleaseEnds(s) \/ SweepDies(s) => Effect(s, "idle", {}, "none", "none", FALSE)
  <1> USE DEF TypeOK, Effect
  <1>1. ASSUME ProbeScanner(s)
        PROVE  \E pc \in {"scan", "skip"} :
                 Effect(s, pc, sw[s].todo, sw[s].cur, sw[s].verdict, sw[s].full)
    <2>1. PICK found \in ProbeOutcomes :
            sw' = [sw EXCEPT ![s].pc = IF found = "on" THEN "scan" ELSE "skip"]
      BY <1>1 DEF ProbeScanner
    <2>2. PICK pc \in {"scan", "skip"} : pc = IF found = "on" THEN "scan" ELSE "skip"
      OBVIOUS
    <2> QED
      BY <2>1, <2>2 DEF SweepState, SweepPC
  <1>2. ASSUME NEW f \in Files, SkipOne(s, f) \/ ReleaseOne(s, f)
        PROVE  Effect(s, sw[s].pc, sw[s].todo \ {f}, sw[s].cur, sw[s].verdict, sw[s].full)
    BY <1>2 DEF SkipOne, ReleaseOne, SweepState
  <1>3. ASSUME NEW f \in Files, ScanOne(s, f)
        PROVE  \E v \in ScanOutcomes(f) : Effect(s, "apply", sw[s].todo \ {f}, f, v, sw[s].full)
    <2> DEFINE next(v) == [sw[s] EXCEPT !.pc = "apply", !.cur = f, !.verdict = v,
                                        !.todo = sw[s].todo \ {f}]
    <2>1. PICK v \in ScanOutcomes(f) : sw' = [sw EXCEPT ![s] = next(v)]
      BY <1>3 DEF ScanOne
    <2>2. v \in Verdicts
      BY AnswersAreVerdicts DEF ScanOutcomes, Verdicts
    <2>3. /\ next(v) \in SweepState
          /\ next(v).pc = "apply" /\ next(v).todo = sw[s].todo \ {f}
          /\ next(v).cur = f /\ next(v).verdict = v
          /\ next(v).full = sw[s].full
      BY <2>2 DEF SweepState, SweepPC
    <2> HIDE DEF next
    <2> QED
      BY <2>1, <2>3
  <1>4. ASSUME ApplyOne(s) PROVE Effect(s, "scan", sw[s].todo, "none", "none", sw[s].full)
    <2> DEFINE next == [sw[s] EXCEPT !.pc = "scan", !.cur = "none", !.verdict = "none"]
    <2>1. sw' = [sw EXCEPT ![s] = next]
      BY <1>4 DEF ApplyOne
    <2>2. /\ next \in SweepState
          /\ next.pc = "scan" /\ next.todo = sw[s].todo
          /\ next.cur = "none" /\ next.verdict = "none" /\ next.full = sw[s].full
      BY DEF SweepState, SweepPC
    <2> HIDE DEF next
    <2> QED
      BY <2>1, <2>2
  <1>5. ASSUME PickupEnds(s) \/ PickupRaises(s)
        PROVE  \E pc \in {"idle", "stale"} : Effect(s, pc, {}, "none", "none", FALSE)
    <2>1. PICK pc \in {"idle", "stale"} : sw' = [sw EXCEPT ![s] = [IdleSweep EXCEPT !.pc = pc]]
      BY <1>5 DEF PickupEnds, PickupRaises, IdleSweep
    <2>2. [IdleSweep EXCEPT !.pc = pc] \in SweepState
      BY DEF IdleSweep, SweepState, SweepPC
    <2> QED
      BY <2>1, <2>2 DEF IdleSweep
  <1>6. ASSUME FindStale(s)
        PROVE  \E B \in SUBSET Queued :
                 Effect(s, "release", {f \in B : age[f] >= PendingGrace}, "none", "none", FALSE)
    <2> DEFINE stale(B) == {f \in B : age[f] >= PendingGrace}
               next(B) == [IdleSweep EXCEPT !.pc = "release", !.todo = stale(B)]
    <2>1. PICK B \in Oldest(ReleaseLimit) : sw' = [sw EXCEPT ![s] = next(B)]
      BY <1>6 DEF FindStale
    <2>2. B \in SUBSET Queued /\ stale(B) \in SUBSET Files
      BY DEF Oldest, Queued
    <2> HIDE DEF stale
    <2>3. /\ next(B) \in SweepState
          /\ next(B).pc = "release" /\ next(B).todo = stale(B)
          /\ next(B).cur = "none" /\ next(B).verdict = "none" /\ next(B).full = FALSE
      BY <2>2 DEF IdleSweep, SweepState, SweepPC
    <2> HIDE DEF next
    <2>4. Effect(s, "release", stale(B), "none", "none", FALSE)
      BY <2>1, <2>3
    <2> QED
      BY <2>2, <2>4 DEF stale
  <1>7. ASSUME ReleaseEnds(s) \/ SweepDies(s) PROVE Effect(s, "idle", {}, "none", "none", FALSE)
    <2>1. /\ IdleSweep \in SweepState
          /\ IdleSweep.pc = "idle" /\ IdleSweep.todo = {}
          /\ IdleSweep.cur = "none" /\ IdleSweep.verdict = "none"
          /\ IdleSweep.full = FALSE
      BY DEF IdleSweep, SweepState, SweepPC
    <2>2. sw' = [sw EXCEPT ![s] = IdleSweep]
      BY <1>7 DEF ReleaseEnds, SweepDies
    <2> QED
      BY <2>1, <2>2
  <1> QED
    BY <1>1, <1>2, <1>3, <1>4, <1>5, <1>6, <1>7

SweepMove(s) == SweepStep(s) \/ PickupRaises(s) \/ SweepDies(s)

(***************************************************************************)
(* All that a step of a sweep does to anything but its own variables: it   *)
(* writes at most one row, which it held, with what a scan of it may say   *)
(* or without a verdict.                                                   *)
(***************************************************************************)
LEMMA SweepRows ==
  ASSUME TypeOK, AnsweredScans, NEW s \in Sweepers, SweepMove(s)
  PROVE  /\ UNCHANGED <<deleted, scanner, upVars, gateVars>>
         /\ \/ UNCHANGED <<status, age>>
            \/ \E f \in Files \cap Held(s) :
                 \E v \in {"error", "skipped"} \cup Gate!Answers(f) : SetScanResult(f, v)
  <1>1. CASE Pickup(s)
    BY <1>1 DEF Pickup, TakeBatch, rowVars
  <1>2. CASE ProbeScanner(s) \/ PickupEnds(s) \/ PickupRaises(s) \/ FindStale(s)
               \/ ReleaseEnds(s) \/ SweepDies(s)
    BY <1>2 DEF ProbeScanner, PickupEnds, PickupRaises, FindStale, ReleaseEnds, SweepDies,
                rowVars
  <1>3. ASSUME NEW f \in Files, ScanOne(s, f)
        PROVE  UNCHANGED <<rowVars, scanner, upVars, gateVars>>
    BY <1>3 DEF ScanOne
  <1>4. ASSUME NEW f \in Files, SkipOne(s, f) \/ ReleaseOne(s, f)
        PROVE  /\ f \in Held(s)
               /\ \E v \in {"error", "skipped"} \cup Gate!Answers(f) : SetScanResult(f, v)
               /\ UNCHANGED <<deleted, scanner, upVars, gateVars>>
    BY <1>4 DEF SkipOne, ReleaseOne, Held
  <1>5. CASE ApplyOne(s)
    <2>1. /\ sw[s].pc = "apply"
          /\ SetScanResult(sw[s].cur, sw[s].verdict)
          /\ UNCHANGED <<deleted, scanner, upVars, gateVars>>
      BY <1>5 DEF ApplyOne
    <2>2. /\ sw[s].cur \in Files \cap Held(s)
          /\ sw[s].verdict \in {"error"} \cup Gate!Answers(sw[s].cur)
      BY <2>1 DEF AnsweredScans, Held
    <2> QED
      BY <2>1, <2>2
  <1> QED
    BY <1>1, <1>2, <1>3, <1>4, <1>5 DEF SweepMove, SweepStep, rowVars

(***************************************************************************)
(* Each step of a sweep keeps the facts about its own variables.           *)
(***************************************************************************)
LEMMA SweepScans ==
  ASSUME TypeOK, AnsweredScans, NEW s \in Sweepers, SweepMove(s)
  PROVE  /\ sw' \in [Sweepers -> SweepState]
         /\ \A t \in Sweepers \ {s} : sw'[t] = sw[t]
         /\ AnsweredScans'
  <1> DEFINE Goal == /\ sw' \in [Sweepers -> SweepState]
                     /\ \A t \in Sweepers \ {s} : sw'[t] = sw[t]
                     /\ AnsweredScans'
  <1> SUFFICES Goal
    OBVIOUS
  <1> USE DEF AnsweredScans
  <1>1. CASE Pickup(s)
    <2>1. PICK C \in SUBSET Files, b \in BOOLEAN : Effect(s, "probe", C, "none", "none", b)
      BY <1>1, PickupEffect
    <2> QED
      BY <2>1 DEF Effect
  <1>2. CASE ProbeScanner(s)
    <2>1. PICK pc \in {"scan", "skip"} : Effect(s, pc, sw[s].todo, sw[s].cur, sw[s].verdict, sw[s].full)
      BY <1>2, SweepEffects
    <2> QED
      BY <2>1 DEF Effect
  <1>3. ASSUME NEW f \in Files, SkipOne(s, f) \/ ReleaseOne(s, f) PROVE Goal
    <2>1. Effect(s, sw[s].pc, sw[s].todo \ {f}, sw[s].cur, sw[s].verdict, sw[s].full)
      BY <1>3, SweepEffects
    <2> QED
      BY <2>1 DEF Effect
  <1>4. ASSUME NEW f \in Files, ScanOne(s, f) PROVE Goal
    <2>1. PICK v \in ScanOutcomes(f) : Effect(s, "apply", sw[s].todo \ {f}, f, v, sw[s].full)
      BY <1>4, SweepEffects
    <2>2. v \in {"error"} \cup Gate!Answers(f)
      BY DEF ScanOutcomes
    <2> QED
      BY <2>1, <2>2 DEF Effect
  <1>5. CASE ApplyOne(s)
    <2>1. Effect(s, "scan", sw[s].todo, "none", "none", sw[s].full)
      BY <1>5, SweepEffects
    <2> QED
      BY <2>1 DEF Effect
  <1>6. CASE PickupEnds(s) \/ PickupRaises(s)
    <2>1. PICK pc \in {"idle", "stale"} : Effect(s, pc, {}, "none", "none", FALSE)
      BY <1>6, SweepEffects
    <2> QED
      BY <2>1 DEF Effect
  <1>7. CASE FindStale(s)
    <2>1. PICK B \in SUBSET Queued :
            Effect(s, "release", {f \in B : age[f] >= PendingGrace}, "none", "none", FALSE)
      BY <1>7, SweepEffects
    <2> QED
      BY <2>1 DEF Effect
  <1>8. CASE ReleaseEnds(s) \/ SweepDies(s)
    <2>1. Effect(s, "idle", {}, "none", "none", FALSE)
      BY <1>8, SweepEffects
    <2> QED
      BY <2>1 DEF Effect
  <1> QED
    BY <1>1, <1>2, <1>3, <1>4, <1>5, <1>6, <1>7, <1>8 DEF SweepMove, SweepStep

(***************************************************************************)
(* Every step keeps the inductive invariant: first the requests, downloads *)
(* and the clock, then the sweeps.                                         *)
(***************************************************************************)
LEMMA IInvStep == ASSUME IInv, Next PROVE IInv'
  <1> DEFINE Rows == /\ UploadsOwnRows /\ AnsweredStatus /\ AnsweredVerdicts
                     /\ ResolvedBeforeResponse /\ GatePassed /\ ResponseStands
  <1> USE ConstantsOK
      DEF IInv, TypeOK, UploadsOwnRows, AnsweredStatus, AnsweredVerdicts, AnsweredScans,
          ResolvedBeforeResponse, GatePassed, ResponseStands, rowVars, upVars, gateVars
  <1>1. ASSUME NEW w \in Workers, Boot(w) PROVE IInv'
    BY <1>1 DEF Boot, ProbeOutcomes
  <1>2. ASSUME NEW f \in Files, NEW w \in Workers, Insert(f, w) PROVE IInv'
    <2>1. TypeOK'
      BY <1>2 DEF Insert, Statuses, Verdicts, UploadState, Busy
    <2>2. Rows' /\ AnsweredScans'
      BY <1>2 DEF Insert, Gate!Servable
    <2> QED
      BY <2>1, <2>2
  <1>3. ASSUME NEW f \in Files, Scan(f) PROVE IInv'
    <2>1. PICK v \in ScanOutcomes(f) : verdict' = [verdict EXCEPT ![f] = v]
      BY <1>3 DEF Scan
    <2>2. v \in {"error"} \cup Gate!Answers(f) /\ v \in Verdicts /\ v # "none"
      BY AnswersAreVerdicts DEF ScanOutcomes, Verdicts
    <2>3. TypeOK'
      BY <1>3, <2>1, <2>2 DEF Scan, UploadState, Busy
    <2>4. Rows' /\ AnsweredScans'
      BY <1>3, <2>1, <2>2 DEF Scan
    <2> QED
      BY <2>3, <2>4
  <1>4. ASSUME NEW f \in Files, Apply(f) PROVE IInv'
    <2>1. verdict[f] \in {"error"} \cup Gate!Answers(f) /\ verdict[f] \in Verdicts
      BY <1>4, AnswersAreVerdicts DEF Apply, Verdicts
    <2>2. TypeOK'
      BY <1>4, <2>1 DEF Apply, SetScanResult, UploadState, Busy, Statuses
    <2>3. Rows' /\ AnsweredScans'
      BY <1>4, <2>1, AnswersAreVerdicts DEF Apply, SetScanResult, Gate!Servable
    <2> QED
      BY <2>2, <2>3
  <1>5. ASSUME NEW f \in Files, Respond(f) PROVE IInv'
    BY <1>5 DEF Respond, UploadState, Busy
  <1>6. ASSUME NEW R \in SUBSET Files, Abandon(R), \A f \in R : up[f] # "idle",
               UNCHANGED <<rowVars, sw, gateVars>>,
               scanner' \in [Workers -> {"down", "on", "off"}]
        PROVE  IInv'
    BY <1>6 DEF Abandon, UploadState
  <1>7. ASSUME NEW f \in Files, Raise(f) PROVE IInv'
    BY <1>6, <1>7 DEF Raise, Busy
  <1>8. ASSUME NEW w \in Workers, WorkerDies(w) PROVE IInv'
    <2> DEFINE R == {f \in Files : worker[f] = w /\ up[f] \in Busy}
    <2>1. R \in SUBSET Files /\ \A f \in R : up[f] # "idle"
      BY DEF Busy
    <2>2. Abandon(R) /\ UNCHANGED <<rowVars, sw, gateVars>>
      BY <1>8 DEF WorkerDies
    <2>3. scanner' \in [Workers -> {"down", "on", "off"}]
      BY <1>8 DEF WorkerDies
    <2> HIDE DEF R
    <2> QED
      BY <2>1, <2>2, <2>3, <1>6
  <1>9. ASSUME NEW f \in Files, CheckGate(f) \/ Send(f) PROVE IInv'
    BY <1>9 DEF CheckGate, Send
  <1>10. ASSUME NEW f \in Files, Delete(f) PROVE IInv'
    BY <1>10 DEF Delete
  <1>11. CASE Tick
    <2>1. age' \in [Files -> 0..PendingGrace]
      BY <1>11 DEF Tick
    <2> QED
      BY <1>11, <2>1 DEF Tick
  <1>12. ASSUME NEW s \in Sweepers, SweepMove(s) PROVE IInv'
    <2>1. sw' \in [Sweepers -> SweepState] /\ AnsweredScans'
      BY <1>12, SweepScans
    <2>2. UNCHANGED <<deleted, scanner, upVars, gateVars>>
      BY <1>12, SweepRows
    <2>3. CASE UNCHANGED <<status, age>>
      BY <2>1, <2>2, <2>3
    <2>4. ASSUME NEW f \in Files, NEW v \in {"error", "skipped"} \cup Gate!Answers(f),
                 SetScanResult(f, v)
          PROVE  IInv'
      <3>1. v \in Verdicts /\ v # "pending" /\ v # "none"
        BY AnswersAreVerdicts DEF Verdicts
      <3>2. TypeOK'
        BY <2>1, <2>2, <2>4, <3>1 DEF SetScanResult, Statuses
      <3>3. Rows'
        BY <2>2, <2>4, <3>1 DEF SetScanResult, Gate!Servable
      <3> QED
        BY <2>1, <3>2, <3>3
    <2> QED
      BY <1>12, <2>3, <2>4, SweepRows
  <1> QED
    BY <1>1, <1>2, <1>3, <1>4, <1>5, <1>7, <1>8, <1>9, <1>10, <1>11, <1>12
    DEF Next, Upload, SweepMove

(***************************************************************************)
(* A step that changes nothing.                                            *)
(***************************************************************************)
LEMMA Stutter == ASSUME IInv, UNCHANGED vars PROVE IInv'
  BY DEF vars, IInv, TypeOK, UploadsOwnRows, AnsweredStatus, AnsweredVerdicts, AnsweredScans,
         ResolvedBeforeResponse, GatePassed, ResponseStands

(***************************************************************************)
(* The inductive invariant, for every number of files, workers and sweeps. *)
(***************************************************************************)
THEOREM Invariance == Spec => []IInv
  <1>1. IInv /\ [Next]_vars => IInv'
    BY IInvStep, Stutter
  <1> QED
    BY InitIInv, <1>1, PTL DEF Spec

(***************************************************************************)
(* The status a client was told is the one the row keeps, though sweeps    *)
(* race with the request (files.upload_file, db.set_scan_result).          *)
(***************************************************************************)
THEOREM ResponseIsFinal == Spec => []ResponseStands
  <1>1. IInv => ResponseStands
    BY DEF IInv
  <1> QED
    BY <1>1, Invariance, PTL

(***************************************************************************)
(* The queue implements the gate: whatever requests, sweeps, downloads and *)
(* the scanner do, each row is decided once, with what a scan may say of   *)
(* it or without a verdict, and gates its bytes.                           *)
(***************************************************************************)
THEOREM QueueImplementsGate == Spec => ImplementsGate
  <1>1. Init => Gate!GateInit
    BY DEF Init, Gate!GateInit
  <1>2. ASSUME IInv, Next PROVE [Gate!GateNext]_(Gate!gateVars)
    <2> USE <1>2 DEF IInv, TypeOK, rowVars, upVars, gateVars, Gate!gateVars
    <2>1. ASSUME UNCHANGED <<status, given>> PROVE [Gate!GateNext]_(Gate!gateVars)
      BY <2>1
    <2>2. ASSUME NEW f \in Files, NEW w \in Workers, Insert(f, w)
          PROVE  Gate!Admit(f)
      BY <2>2 DEF Insert, UploadsOwnRows, Gate!Admit
    <2>3. ASSUME NEW f \in Files, NEW v \in {"error", "skipped"} \cup Gate!Answers(f),
                 SetScanResult(f, v), UNCHANGED given
          PROVE  Gate!Decide(f) \/ UNCHANGED <<status, given>>
      BY <2>3 DEF SetScanResult, Gate!Decide
    <2>4. ASSUME NEW f \in Files, Apply(f)
          PROVE  Gate!Decide(f) \/ UNCHANGED <<status, given>>
      <3>1. verdict[f] \in {"error"} \cup Gate!Answers(f)
        BY <2>4 DEF Apply, AnsweredVerdicts
      <3> QED
        BY <2>3, <2>4, <3>1 DEF Apply
    <2>5. ASSUME NEW f \in Files, Send(f) PROVE Gate!Give(f)
      BY <2>5 DEF Send, GatePassed, Gate!Give
    <2>6. ASSUME NEW s \in Sweepers, SweepMove(s)
          PROVE  [Gate!GateNext]_(Gate!gateVars)
      BY <2>1, <2>3, <2>6, SweepRows DEF Gate!GateNext
    <2>7. ASSUME NEW f \in Files,
                 Scan(f) \/ Respond(f) \/ Raise(f) \/ CheckGate(f) \/ Delete(f)
          PROVE  UNCHANGED <<status, given>>
      BY <2>7 DEF Scan, Respond, Raise, CheckGate, Delete
    <2>8. ASSUME NEW w \in Workers, Boot(w) \/ WorkerDies(w)
          PROVE  UNCHANGED <<status, given>>
      BY <2>8 DEF Boot, WorkerDies
    <2>9. Tick => UNCHANGED <<status, given>>
      BY DEF Tick
    <2> QED
      BY <2>1, <2>2, <2>4, <2>5, <2>6, <2>7, <2>8, <2>9
      DEF Next, Upload, SweepMove, Gate!GateNext
  <1>3. UNCHANGED vars => UNCHANGED Gate!gateVars
    BY DEF vars, Gate!gateVars
  <1>4. IInv /\ [Next]_vars => [Gate!GateNext]_(Gate!gateVars)
    BY <1>2, <1>3
  <1> QED
    BY <1>1, <1>4, Invariance, PTL DEF Spec, ImplementsGate, Gate!GateSpec

(***************************************************************************)
(* The history: each step of it is a step of the queue, so what holds of   *)
(* the queue holds here.                                                   *)
(***************************************************************************)
LEMMA HistoryRefines == HSpec => Spec
  <1>1. HInit => Init
    BY DEF HInit
  <1>2. [HNext]_hvars => [Next]_vars
    BY DEF HNext, hvars
  <1> QED
    BY <1>1, <1>2, PTL DEF HSpec, Spec

LEMMA HeldStep ==
  ASSUME IInv, AgeOfPending, HeldAreOld, NEW s \in Sweepers, SweepMove(s)
  PROVE  HeldAreOld'
  <1> USE ConstantsOK DEF IInv, TypeOK, AnsweredScans
  <1> DEFINE Old(f) == status[f] # "none" /\ (status[f] = "pending" => age[f] >= PickupGrace)
  <1>1. \A f \in Files : Old(f) => Old(f)'
    <2>1. CASE UNCHANGED <<status, age>>
      BY <2>1
    <2>2. ASSUME NEW g \in Files, NEW v \in {"error", "skipped"} \cup Gate!Answers(g),
                 SetScanResult(g, v)
          PROVE  \A f \in Files : Old(f) => Old(f)'
      BY <2>2, AnswersAreVerdicts DEF SetScanResult
    <2> QED
      BY <2>1, <2>2, SweepRows
  <1>2. \A t \in Sweepers : Held(t) \subseteq Files
    BY DEF Held, SweepState
  <1>3. \A f \in Held(s)' : Old(f) /\ f \in Files
    <2>1. CASE Pickup(s)
      <3>1. PICK C \in SUBSET Files, b \in BOOLEAN :
              /\ Effect(s, "probe", C, "none", "none", b)
              /\ \A f \in C : status[f] = "pending" /\ age[f] >= PickupGrace
        BY <2>1, PickupEffect
      <3> QED
        BY <3>1 DEF Effect, Held
    <2>2. CASE ProbeScanner(s)
      <3>1. PICK pc \in {"scan", "skip"} : Effect(s, pc, sw[s].todo, sw[s].cur, sw[s].verdict, sw[s].full)
        BY <2>2, SweepEffects
      <3> QED
        BY <3>1, <1>2 DEF Effect, Held, HeldAreOld
    <2>3. ASSUME NEW g \in Files, SkipOne(s, g) \/ ReleaseOne(s, g)
          PROVE  \A f \in Held(s)' : Old(f) /\ f \in Files
      <3>1. Effect(s, sw[s].pc, sw[s].todo \ {g}, sw[s].cur, sw[s].verdict, sw[s].full)
        BY <2>3, SweepEffects
      <3> QED
        BY <3>1, <1>2 DEF Effect, Held, HeldAreOld
    <2>4. ASSUME NEW g \in Files, ScanOne(s, g)
          PROVE  \A f \in Held(s)' : Old(f) /\ f \in Files
      <3>1. PICK v \in ScanOutcomes(g) : Effect(s, "apply", sw[s].todo \ {g}, g, v, sw[s].full)
        BY <2>4, SweepEffects
      <3>2. g \in sw[s].todo
        BY <2>4 DEF ScanOne
      <3> QED
        BY <3>1, <3>2, <1>2 DEF Effect, Held, HeldAreOld
    <2>5. CASE ApplyOne(s)
      <3>1. Effect(s, "scan", sw[s].todo, "none", "none", sw[s].full)
        BY <2>5, SweepEffects
      <3> QED
        BY <3>1, <1>2 DEF Effect, Held, HeldAreOld
    <2>6. CASE PickupEnds(s) \/ PickupRaises(s) \/ ReleaseEnds(s) \/ SweepDies(s)
      <3>1. \E pc \in {"idle", "stale"} : Effect(s, pc, {}, "none", "none", FALSE)
        BY <2>6, SweepEffects
      <3> QED
        BY <3>1 DEF Effect, Held
    <2>7. CASE FindStale(s)
      <3>1. PICK B \in SUBSET Queued :
              Effect(s, "release", {f \in B : age[f] >= PendingGrace}, "none", "none", FALSE)
        BY <2>7, SweepEffects
      <3> QED
        BY <3>1 DEF Effect, Held, Queued
    <2> QED
      BY <2>1, <2>2, <2>3, <2>4, <2>5, <2>6, <2>7 DEF SweepMove, SweepStep
  <1>4. \A t \in Sweepers \ {s} : Held(t)' = Held(t)
    BY SweepScans DEF Held
  <1> QED
    BY <1>1, <1>2, <1>3, <1>4 DEF HeldAreOld

(***************************************************************************)
(* Each step keeps the facts about the ages of rows.                       *)
(***************************************************************************)
LEMMA AgeStep ==
  ASSUME IInv, HTypeOK, AgeOfPending, HeldAreOld, RequestsAreYoung, FastVerdictStands, HNext
  PROVE  (AgeOfPending /\ HeldAreOld /\ RequestsAreYoung /\ FastVerdictStands)'
  <1> DEFINE Mine == AgeOfPending /\ RequestsAreYoung /\ FastVerdictStands
             Goal == Mine' /\ HeldAreOld'
  <1> SUFFICES Goal
    OBVIOUS
  <1> USE ConstantsOK
      DEF IInv, TypeOK, HTypeOK, UploadsOwnRows, AnsweredVerdicts, AgeOfPending, Scanning,
          RequestsAreYoung, FastVerdictStands, rowVars, upVars, gateVars
  <1>0. /\ Next
        /\ slow \subseteq slow'
        /\ \A f \in Files : up'[f] \in Scanning /\ age'[f] >= PickupGrace => f \in slow'
    BY DEF HNext, Remember
  <1>1. ASSUME UNCHANGED <<status, age, up, sw, verdict>> PROVE Goal
    <2>1. Mine'
      BY <1>0, <1>1
    <2> QED
      BY <1>1, <2>1 DEF HeldAreOld, Held
  <1>2. ASSUME NEW f \in Files, NEW w \in Workers, Insert(f, w) PROVE Goal
    <2>1. /\ status[f] = "none" /\ age[f] = 0 /\ UNCHANGED <<age, verdict, sw>>
          /\ \/ status' = [status EXCEPT ![f] = "pending"] /\ up' = [up EXCEPT ![f] = "inserted"]
             \/ status' = [status EXCEPT ![f] = "skipped"] /\ up' = [up EXCEPT ![f] = "done"]
      BY <1>2 DEF Insert
    <2>2. verdict[f] = "none"
      BY <1>2 DEF Insert
    <2>3. AgeOfPending' /\ RequestsAreYoung'
      BY <1>0, <2>1
    <2>4. FastVerdictStands'
      BY <1>0, <2>1, <2>2
    <2>5. HeldAreOld'
      <3>1. \A s \in Sweepers : Held(s)' = Held(s) /\ f \notin Held(s)
        BY <2>1 DEF Held, HeldAreOld
      <3>2. \A s \in Sweepers : Held(s) \subseteq Files
        BY DEF Held, AnsweredScans, SweepState
      <3> QED
        BY <2>1, <3>1, <3>2 DEF HeldAreOld
    <2> QED
      BY <2>3, <2>4, <2>5
  <1>3. ASSUME NEW f \in Files, Scan(f) PROVE Goal
    <2>1. Mine'
      BY <1>0, <1>3 DEF Scan
    <2> QED
      BY <1>3, <2>1 DEF Scan, HeldAreOld, Held
  <1>4. ASSUME NEW f \in Files, Apply(f) PROVE Goal
    <2>1. verdict[f] # "pending"
      BY <1>4, AnswersAreVerdicts DEF Apply
    <2>2. Mine'
      BY <1>0, <1>4, <2>1 DEF Apply, SetScanResult
    <2>3. HeldAreOld'
      BY <1>4, <2>1 DEF Apply, SetScanResult, HeldAreOld, Held
    <2> QED
      BY <2>2, <2>3
  <1>5. ASSUME NEW f \in Files, Respond(f) PROVE Goal
    <2>1. Mine'
      BY <1>0, <1>5 DEF Respond
    <2> QED
      BY <1>5, <2>1 DEF Respond, HeldAreOld, Held
  <1>6. ASSUME NEW R \in SUBSET Files, Abandon(R), UNCHANGED <<status, age, sw>> PROVE Goal
    <2>1. Mine'
      BY <1>0, <1>6 DEF Abandon
    <2> QED
      BY <1>6, <2>1 DEF HeldAreOld, Held
  <1>7. ASSUME NEW f \in Files, Raise(f) PROVE Goal
    BY <1>6, <1>7 DEF Raise
  <1>8. ASSUME NEW w \in Workers, WorkerDies(w) PROVE Goal
    BY <1>6, <1>8 DEF WorkerDies
  <1>9. CASE Tick
    <2>1. \A f \in Files : /\ age[f] <= age'[f]
                           /\ status[f] # "pending" => age'[f] = age[f]
                           /\ age[f] \in Nat /\ age'[f] \in Nat
      BY <1>9 DEF Tick
    <2>2. UNCHANGED <<status, up, verdict, sw>>
      BY <1>9 DEF Tick
    <2>3. AgeOfPending' /\ FastVerdictStands'
      BY <1>0, <2>1, <2>2
    <2>4. RequestsAreYoung'
      BY <1>0, <2>1, <2>2
    <2>5. HeldAreOld'
      <3>1. \A s \in Sweepers : Held(s)' = Held(s) /\ Held(s) \subseteq Files
        BY <2>2 DEF Held, AnsweredScans, SweepState
      <3> QED
        BY <2>1, <2>2, <3>1 DEF HeldAreOld
    <2> QED
      BY <2>3, <2>4, <2>5
  <1>10. ASSUME NEW s \in Sweepers, SweepMove(s) PROVE Goal
    <2>1. HeldAreOld'
      BY <1>10, HeldStep
    <2>2. UNCHANGED <<up, verdict>>
      BY <1>10, SweepRows
    <2>3. CASE UNCHANGED <<status, age>>
      BY <1>0, <2>1, <2>2, <2>3
    <2>4. ASSUME NEW f \in Files \cap Held(s), NEW v \in {"error", "skipped"} \cup Gate!Answers(f),
                 SetScanResult(f, v)
          PROVE  Mine'
      <3>1. v # "pending"
        BY AnswersAreVerdicts
      <3>2. up[f] \in Scanning => f \in slow
        BY DEF HeldAreOld
      <3>3. AgeOfPending'
        BY <2>4, <3>1 DEF SetScanResult
      <3>4. RequestsAreYoung'
        BY <1>0, <2>2, <2>4, <3>2 DEF SetScanResult
      <3>5. FastVerdictStands'
        BY <1>0, <2>2, <2>4 DEF SetScanResult, Verdicts
      <3> QED
        BY <3>3, <3>4, <3>5
    <2> QED
      BY <1>10, <2>1, <2>3, <2>4, SweepRows
  <1>11. ASSUME NEW w \in Workers, Boot(w) PROVE Goal
    BY <1>1, <1>11 DEF Boot
  <1>12. ASSUME NEW f \in Files, CheckGate(f) \/ Send(f) \/ Delete(f) PROVE Goal
    BY <1>1, <1>12 DEF CheckGate, Send, Delete
  <1> QED
    BY <1>0, <1>2, <1>3, <1>4, <1>5, <1>7, <1>8, <1>9, <1>10, <1>11, <1>12
    DEF Next, Upload, SweepMove

(***************************************************************************)
(* What each step adds to the history.                                     *)
(***************************************************************************)
LEMMA HistoryTypes == ASSUME HTypeOK, HNext, TypeOK' PROVE HTypeOK'
  BY DEF HTypeOK, HNext, Remember

LEMMA AskedStep ==
  ASSUME IInv, HTypeOK, ScannedAreAsked, HNext
  PROVE  ScannedAreAsked'
  <1> USE DEF IInv, TypeOK, AnsweredScans, HTypeOK, ScannedAreAsked, rowVars, upVars, gateVars
  <1>1. /\ Next
        /\ asked \subseteq asked'
        /\ \A f \in Files : up[f] = "inserted" /\ up'[f] = "scanned" => f \in asked'
        /\ \A s \in Sweepers : sw'[s].pc = "apply" /\ sw'[s].cur \in Files
                                 => sw'[s].cur \in asked'
    BY DEF HNext, Remember
  <1>2. \A f \in Files : up'[f] = "scanned" => up[f] \in {"inserted", "scanned"}
    <2>1. ASSUME NEW f \in Files,
                 \/ Scan(f) \/ Apply(f) \/ Respond(f) \/ CheckGate(f) \/ Send(f) \/ Delete(f)
                 \/ \E w \in Workers : Insert(f, w)
          PROVE  \A g \in Files : up'[g] = "scanned" => up[g] \in {"inserted", "scanned"}
      BY <2>1 DEF Scan, Apply, Respond, CheckGate, Send, Delete, Insert
    <2>2. ASSUME NEW R \in SUBSET Files, Abandon(R)
          PROVE  \A g \in Files : up'[g] = "scanned" => up[g] \in {"inserted", "scanned"}
      BY <2>2 DEF Abandon
    <2>3. ASSUME NEW f \in Files, Raise(f) PROVE \E R \in SUBSET Files : Abandon(R)
      BY <2>3 DEF Raise
    <2>4. ASSUME NEW w \in Workers, WorkerDies(w) PROVE \E R \in SUBSET Files : Abandon(R)
      BY <2>4 DEF WorkerDies
    <2>5. ASSUME NEW w \in Workers, Boot(w) PROVE UNCHANGED up
      BY <2>5 DEF Boot
    <2>6. Tick => UNCHANGED up
      BY DEF Tick
    <2>7. ASSUME NEW s \in Sweepers, SweepMove(s) PROVE UNCHANGED up
      BY <2>7, SweepRows
    <2> QED
      BY <1>1, <2>1, <2>2, <2>3, <2>4, <2>5, <2>6, <2>7 DEF Next, Upload, SweepMove
  <1>3. AnsweredScans'
    BY <1>1, IInvStep DEF IInv
  <1> QED
    BY <1>1, <1>2, <1>3

(***************************************************************************)
(* Each step of a sweep keeps the facts about its batch.  The set Due is   *)
(* what a pass of the backstop would fail now.                             *)
(***************************************************************************)
Due == {f \in Queued : age[f] >= PendingGrace}

Covers(s) ==
  /\ sw[s].pc \in {"idle", "stale"} => sw[s].todo = {} /\ ~ sw[s].full
  /\ s \notin late /\ sw[s].pc \notin {"idle", "release"} /\ ~ sw[s].full =>
       Due \subseteq asked \cup sw[s].todo
  /\ s \notin late /\ sw[s].pc = "release" => sw[s].todo \subseteq asked

LEMMA BatchCoversIsCovers == BatchCovers <=> \A s \in Sweepers : Covers(s)
  BY DEF BatchCovers, Covers, Due

LEMMA CoversSweep ==
  ASSUME IInv, HTypeOK, ScannedAreAsked', NEW s \in Sweepers, Covers(s), SweepMove(s), HNext
  PROVE  Covers(s)'
  <1> USE ConstantsOK DEF IInv, TypeOK, HTypeOK
  <1>1. Due' \subseteq Due
    <2>1. UNCHANGED deleted
      BY SweepRows
    <2>2. CASE UNCHANGED <<status, age>>
      BY <2>1, <2>2 DEF Due, Queued
    <2>3. ASSUME NEW f \in Files, NEW v \in {"error", "skipped"} \cup Gate!Answers(f),
                 SetScanResult(f, v)
          PROVE  Due' \subseteq Due
      BY <2>1, <2>3, AnswersAreVerdicts DEF Due, Queued, SetScanResult
    <2> QED
      BY <2>2, <2>3, SweepRows
  <1>2. asked \subseteq asked'
    BY DEF HNext, Remember
  <1>3. /\ sw[s].pc # "idle" /\ sw'[s].pc # "idle" /\ s \in late => s \in late'
        /\ CutShort(s) => s \in late'
    BY DEF HNext, Remember, CutShort
  <1>4. CASE Pickup(s)
    <2>1. PICK C \in SUBSET Files, b \in BOOLEAN :
            /\ Effect(s, "probe", C, "none", "none", b)
            /\ ~ b => \A f \in Queued : age[f] >= PickupGrace => f \in C
      BY <1>4, PickupEffect
    <2>2. ~ b => Due \subseteq C
      BY <2>1 DEF Due, Queued
    <2> QED
      BY <1>1, <2>1, <2>2 DEF Effect, Covers
  <1>5. CASE ProbeScanner(s)
    <2>1. PICK pc \in {"scan", "skip"} :
            Effect(s, pc, sw[s].todo, sw[s].cur, sw[s].verdict, sw[s].full)
      BY <1>5, SweepEffects
    <2>2. sw[s].pc = "probe"
      BY <1>5 DEF ProbeScanner
    <2> QED
      BY <1>1, <1>2, <1>3, <2>1, <2>2 DEF Effect, Covers
  <1>6. ASSUME NEW g \in Files, SkipOne(s, g) \/ ReleaseOne(s, g)
        PROVE  Covers(s)'
    <2>1. Effect(s, sw[s].pc, sw[s].todo \ {g}, sw[s].cur, sw[s].verdict, sw[s].full)
      BY <1>6, SweepEffects
    <2>2. sw[s].pc \in {"skip", "release"}
      BY <1>6 DEF SkipOne, ReleaseOne
    <2>3. g \notin Due'
      BY <1>6 DEF SkipOne, ReleaseOne, SetScanResult, Due, Queued
    <2> QED
      BY <1>1, <1>2, <1>3, <2>1, <2>2, <2>3 DEF Effect, Covers
  <1>7. ASSUME NEW g \in Files, ScanOne(s, g) PROVE Covers(s)'
    <2>1. PICK v \in ScanOutcomes(g) : Effect(s, "apply", sw[s].todo \ {g}, g, v, sw[s].full)
      BY <1>7, SweepEffects
    <2>2. sw[s].pc = "scan"
      BY <1>7 DEF ScanOne
    <2>3. g \in asked'
      BY <2>1 DEF Effect, ScannedAreAsked
    <2> QED
      BY <1>1, <1>2, <1>3, <2>1, <2>2, <2>3 DEF Effect, Covers
  <1>8. CASE ApplyOne(s)
    <2>1. Effect(s, "scan", sw[s].todo, "none", "none", sw[s].full)
      BY <1>8, SweepEffects
    <2>2. sw[s].pc = "apply"
      BY <1>8 DEF ApplyOne
    <2> QED
      BY <1>1, <1>2, <1>3, <2>1, <2>2 DEF Effect, Covers
  <1>9. CASE PickupEnds(s) \/ PickupRaises(s)
    <2>1. PICK pc \in {"idle", "stale"} : Effect(s, pc, {}, "none", "none", FALSE)
      BY <1>9, SweepEffects
    <2>2. CASE CutShort(s)
      BY <1>3, <2>1, <2>2 DEF Effect, Covers
    <2>3. CASE ~ CutShort(s) /\ pc = "stale"
      <3>1. /\ sw[s].pc \in {"skip", "scan"}
            /\ sw[s].todo = {}
            /\ ~ sw[s].full
        BY <1>9, <2>1, <2>3 DEF CutShort, PickupEnds, PickupRaises, Effect
      <3> QED
        BY <1>1, <1>2, <1>3, <2>1, <2>3, <3>1 DEF Effect, Covers
    <2>4. CASE pc = "idle"
      BY <2>1, <2>4 DEF Effect, Covers
    <2> QED
      BY <2>2, <2>3, <2>4
  <1>10. CASE FindStale(s)
    <2>1. PICK B \in SUBSET Queued :
            Effect(s, "release", {f \in B : age[f] >= PendingGrace}, "none", "none", FALSE)
      BY <1>10, SweepEffects
    <2>2. sw[s].pc = "stale"
      BY <1>10 DEF FindStale
    <2>3. {f \in B : age[f] >= PendingGrace} \subseteq Due
      BY DEF Due
    <2> QED
      BY <1>2, <1>3, <2>1, <2>2, <2>3 DEF Effect, Covers
  <1>11. CASE ReleaseEnds(s) \/ SweepDies(s)
    <2>1. Effect(s, "idle", {}, "none", "none", FALSE)
      BY <1>11, SweepEffects
    <2> QED
      BY <2>1 DEF Effect, Covers
  <1> QED
    BY <1>4, <1>5, <1>6, <1>7, <1>8, <1>9, <1>10, <1>11 DEF SweepMove, SweepStep

LEMMA CoversFrame ==
  ASSUME NEW t \in Sweepers, sw'[t] = sw[t], Due' \subseteq Due, HNext, Covers(t)
  PROVE  Covers(t)'
  <1>1. asked \subseteq asked'
    BY DEF HNext, Remember
  <1>2. t \in late /\ sw[t].pc # "idle" => t \in late'
    BY DEF HNext, Remember
  <1> QED
    BY <1>1, <1>2 DEF Covers

(***************************************************************************)
(* Only the clock makes rows due.                                          *)
(***************************************************************************)
LEMMA DueShrinks ==
  ASSUME IInv, AgeOfPending, Next
  PROVE  Due' \subseteq Due \/ (Tick /\ \E f \in Files : age'[f] > age[f])
  <1> USE ConstantsOK
      DEF IInv, TypeOK, UploadsOwnRows, AgeOfPending, Due, Queued, rowVars
  <1>1. ASSUME NEW f \in Files, NEW w \in Workers, Insert(f, w) PROVE Due' \subseteq Due
    <2>1. /\ status[f] = "none" /\ age[f] = 0 /\ UNCHANGED <<age, deleted>>
          /\ \E v \in {"pending", "skipped"} : status' = [status EXCEPT ![f] = v]
      BY <1>1 DEF Insert
    <2> QED
      BY <2>1
  <1>2. ASSUME NEW f \in Files, NEW v \in Verdicts, SetScanResult(f, v), UNCHANGED deleted
        PROVE  Due' \subseteq Due
    BY <1>2 DEF SetScanResult, Verdicts
  <1>3. ASSUME NEW f \in Files, Apply(f) PROVE Due' \subseteq Due
    <2>1. verdict[f] \in Verdicts
      BY <1>3, AnswersAreVerdicts DEF Apply, AnsweredVerdicts, Verdicts
    <2> QED
      BY <1>2, <1>3, <2>1 DEF Apply
  <1>4. ASSUME NEW f \in Files,
               Scan(f) \/ Respond(f) \/ Raise(f) \/ CheckGate(f) \/ Send(f)
        PROVE  UNCHANGED <<status, age, deleted>>
    BY <1>4 DEF Scan, Respond, Raise, CheckGate, Send
  <1>5. ASSUME NEW f \in Files, Delete(f) PROVE Due' \subseteq Due
    BY <1>5 DEF Delete
  <1>6. ASSUME NEW w \in Workers, Boot(w) \/ WorkerDies(w)
        PROVE  UNCHANGED <<status, age, deleted>>
    BY <1>6 DEF Boot, WorkerDies
  <1>7. ASSUME Tick, \A f \in Files : ~ (age'[f] > age[f]) PROVE Due' \subseteq Due
    BY <1>7 DEF Tick
  <1>8. ASSUME NEW s \in Sweepers, SweepMove(s) PROVE Due' \subseteq Due
    <2>1. UNCHANGED deleted
      BY <1>8, SweepRows
    <2>2. ASSUME NEW f \in Files, NEW v \in {"error", "skipped"} \cup Gate!Answers(f),
                 SetScanResult(f, v)
          PROVE  Due' \subseteq Due
      BY <1>2, <2>1, <2>2, AnswersAreVerdicts DEF Verdicts
    <2> QED
      BY <1>8, <2>1, <2>2, SweepRows
  <1>9. UNCHANGED <<status, age, deleted>> => Due' \subseteq Due
    OBVIOUS
  <1> QED
    BY <1>1, <1>3, <1>4, <1>5, <1>6, <1>7, <1>8, <1>9 DEF Next, Upload, SweepMove

LEMMA BatchStep ==
  ASSUME IInv, HTypeOK, AgeOfPending, ScannedAreAsked', BatchCovers, HNext
  PROVE  BatchCovers'
  <1> USE DEF IInv, TypeOK, HTypeOK
  <1>1. \A t \in Sweepers : Covers(t)
    BY BatchCoversIsCovers
  <1>2. SUFFICES \A t \in Sweepers : Covers(t)'
    BY DEF BatchCovers, Covers, Due
  <1>3. ASSUME NEW s \in Sweepers, SweepMove(s) PROVE \A t \in Sweepers : Covers(t)'
    <2>1. Covers(s)'
      BY <1>1, <1>3, CoversSweep
    <2>2. \A t \in Sweepers \ {s} : sw'[t] = sw[t]
      BY <1>3, SweepScans
    <2>3. Due' \subseteq Due
      <3>1. UNCHANGED <<status, age>> \/ \E f \in Files : age'[f] = 0
        BY <1>3, SweepRows DEF SetScanResult
      <3>2. \A f \in Files : ~ (age'[f] > age[f])
        BY <1>3, SweepRows DEF SetScanResult
      <3> QED
        BY <3>2, DueShrinks DEF HNext
    <2> QED
      BY <1>1, <2>1, <2>2, <2>3, CoversFrame
  <1>4. CASE UNCHANGED sw
    <2>1. CASE Due' \subseteq Due
      BY <1>1, <1>4, <2>1, CoversFrame
    <2>2. CASE \E f \in Files : age'[f] > age[f]
      <3>1. \A t \in Sweepers : sw[t].pc # "idle" => t \in late'
        BY <1>4, <2>2 DEF HNext, Remember
      <3> QED
        BY <1>1, <1>4, <3>1 DEF Covers
    <2> QED
      BY <2>1, <2>2, DueShrinks DEF HNext
  <1>5. UNCHANGED sw \/ \E s \in Sweepers : SweepMove(s)
    <2>1. ASSUME NEW f \in Files, Upload(f) \/ CheckGate(f) \/ Send(f) \/ Delete(f)
          PROVE  UNCHANGED sw
      BY <2>1 DEF Upload, Insert, Scan, Apply, Respond, Raise, CheckGate, Send, Delete
    <2>2. ASSUME NEW w \in Workers, Boot(w) \/ WorkerDies(w) PROVE UNCHANGED sw
      BY <2>2 DEF Boot, WorkerDies
    <2>3. Tick => UNCHANGED sw
      BY DEF Tick
    <2> QED
      BY <2>1, <2>2, <2>3 DEF HNext, Next, SweepMove
  <1> QED
    BY <1>3, <1>4, <1>5

(***************************************************************************)
(* Each step keeps the causes: a verdict of the scanner is that of a scan, *)
(* and a row is skipped only after a failed probe.                         *)
(***************************************************************************)
Caused(f) ==
  /\ status[f] \in {"clean", "infected"} => f \in asked
  /\ status[f] = "skipped" => f \in missed

Spared(s) == sw[s].pc = "skip" => \A f \in sw[s].todo : status[f] = "pending" => f \in missed

LEMMA CausesAre ==
  VerdictsWereAsked /\ SkippedWereMissed
    <=> (\A f \in Files : Caused(f)) /\ (\A s \in Sweepers : Spared(s))
  BY DEF VerdictsWereAsked, SkippedWereMissed, Caused, Spared

LEMMA CausesStep ==
  ASSUME IInv, HTypeOK, HeldAreOld, ScannedAreAsked, VerdictsWereAsked, SkippedWereMissed, HNext
  PROVE  (VerdictsWereAsked /\ SkippedWereMissed)'
  <1> DEFINE Rows == \A f \in Files : Caused(f)
             Sweeps == \A s \in Sweepers : Spared(s)
  <1> USE DEF IInv, TypeOK, HTypeOK, rowVars, upVars, gateVars
  <1>1. Rows /\ Sweeps
    BY CausesAre
  <1>2. SUFFICES Rows' /\ Sweeps'
    BY CausesAre, PTL
  <1>3. /\ Next
        /\ asked \subseteq asked'
        /\ \A f \in missed : status'[f] \in {"pending", "skipped"} => f \in missed'
        /\ \A f \in Files, s \in Sweepers :
             status[f] = "pending" /\ age[f] >= PickupGrace /\ status'[f] = "pending"
               /\ ProbeFails(s) => f \in missed'
    BY DEF HNext, Remember
  <1>4. ASSUME status' = status PROVE Rows'
    BY <1>1, <1>3, <1>4 DEF Caused
  <1>5. ASSUME NEW t \in Sweepers, sw'[t] = sw[t],
               \A f \in Files : status'[f] = "pending" => status[f] \in {"none", "pending"}
        PROVE  Spared(t)'
    BY <1>1, <1>3, <1>5 DEF Spared, HeldAreOld, Held, SweepState
  <1>6. ASSUME NEW f \in Files, NEW w \in Workers, Insert(f, w) PROVE Rows' /\ Sweeps'
    <2>1. UNCHANGED sw
      BY <1>6 DEF Insert
    <2>2. \/ status' = [status EXCEPT ![f] = "pending"]
          \/ scanner[w] = "off" /\ status' = [status EXCEPT ![f] = "skipped"]
      BY <1>6 DEF Insert
    <2>3. status'[f] = "skipped" => f \in missed'
      BY <1>6, <2>2 DEF HNext, Remember
    <2>4. status[f] = "none"
      BY <1>6 DEF Insert, UploadsOwnRows
    <2>5. Rows'
      BY <1>1, <1>3, <2>2, <2>3 DEF Caused
    <2>6. Sweeps'
      BY <1>5, <2>1, <2>2, <2>4
    <2> QED
      BY <2>5, <2>6
  <1>7. ASSUME NEW f \in Files, Apply(f) PROVE Rows' /\ Sweeps'
    <2>1. UNCHANGED sw /\ f \in asked /\ verdict[f] \in {"error", "clean", "infected"}
      BY <1>7, AnswersAreVerdicts DEF Apply, ScannedAreAsked, AnsweredVerdicts
    <2>2. Rows'
      BY <1>1, <1>3, <1>7, <2>1 DEF Apply, SetScanResult, Caused
    <2>3. Sweeps'
      BY <1>5, <1>7, <2>1 DEF Apply, SetScanResult
    <2> QED
      BY <2>2, <2>3
  <1>8. ASSUME UNCHANGED <<status, sw>> PROVE Rows' /\ Sweeps'
    BY <1>4, <1>5, <1>8
  <1>9. ASSUME NEW s \in Sweepers, SweepMove(s) PROVE Rows' /\ Sweeps'
    <2>1. \A t \in Sweepers \ {s} : sw'[t] = sw[t]
      BY <1>9, SweepScans
    <2>2. \A f \in Files : status'[f] = "pending" => status[f] = "pending"
      BY <1>9, SweepRows, AnswersAreVerdicts DEF SetScanResult
    <2>3. SUFFICES Rows' /\ Spared(s)'
      BY <1>5, <2>1, <2>2
    <2>4. CASE Pickup(s)
      <3>1. status' = status /\ \E C \in SUBSET Files, b \in BOOLEAN :
              Effect(s, "probe", C, "none", "none", b)
        BY <2>4, PickupEffect DEF Pickup, TakeBatch
      <3> QED
        BY <1>4, <3>1 DEF Effect, Spared
    <2>5. CASE ProbeScanner(s)
      <3>1. status' = status /\ sw[s].pc = "probe"
        BY <2>5 DEF ProbeScanner
      <3>2. PICK pc \in {"scan", "skip"} :
              Effect(s, pc, sw[s].todo, sw[s].cur, sw[s].verdict, sw[s].full)
        BY <2>5, SweepEffects
      <3>3. \A f \in sw[s].todo : f \in Files /\ (status[f] = "pending" => age[f] >= PickupGrace)
        BY DEF HeldAreOld, Held, SweepState
      <3>4. pc = "skip" => ProbeFails(s)
        BY <3>1, <3>2 DEF Effect, ProbeFails
      <3> QED
        BY <1>3, <1>4, <3>1, <3>2, <3>3, <3>4 DEF Effect, Spared
    <2>6. ASSUME NEW f \in Files, SkipOne(s, f) \/ ReleaseOne(s, f)
          PROVE  Rows' /\ Spared(s)'
      <3>1. Effect(s, sw[s].pc, sw[s].todo \ {f}, sw[s].cur, sw[s].verdict, sw[s].full)
        BY <2>6, SweepEffects
      <3>2. \/ SetScanResult(f, "error")
            \/ SetScanResult(f, "skipped") /\ sw[s].pc = "skip" /\ f \in sw[s].todo
        BY <2>6 DEF SkipOne, ReleaseOne
      <3>3. status[f] = "pending" /\ status'[f] = "skipped" => f \in missed
        BY <1>1, <3>2 DEF SetScanResult, Spared
      <3>4. Rows'
        BY <1>1, <1>3, <3>2, <3>3 DEF SetScanResult, Caused
      <3>5. Spared(s)'
        BY <1>1, <1>3, <2>2, <3>1 DEF Effect, Spared, SweepState
      <3> QED
        BY <3>4, <3>5
    <2>7. ASSUME NEW f \in Files, ScanOne(s, f) PROVE Rows' /\ Spared(s)'
      <3>1. PICK v \in ScanOutcomes(f) : Effect(s, "apply", sw[s].todo \ {f}, f, v, sw[s].full)
        BY <2>7, SweepEffects
      <3>2. status' = status
        BY <2>7 DEF ScanOne
      <3> QED
        BY <1>4, <3>1, <3>2 DEF Effect, Spared
    <2>8. CASE ApplyOne(s)
      <3>1. Effect(s, "scan", sw[s].todo, "none", "none", sw[s].full)
        BY <2>8, SweepEffects
      <3>2. sw[s].pc = "apply" /\ SetScanResult(sw[s].cur, sw[s].verdict)
        BY <2>8 DEF ApplyOne
      <3>3. /\ sw[s].cur \in Files \cap asked
            /\ sw[s].verdict \in {"error", "clean", "infected"}
        BY <3>2, AnswersAreVerdicts DEF AnsweredScans, ScannedAreAsked
      <3>4. Rows'
        BY <1>1, <1>3, <3>2, <3>3 DEF SetScanResult, Caused
      <3> QED
        BY <3>1, <3>4 DEF Effect, Spared
    <2>9. CASE PickupEnds(s) \/ PickupRaises(s) \/ ReleaseEnds(s) \/ SweepDies(s)
      <3>1. \E pc \in {"idle", "stale"} : Effect(s, pc, {}, "none", "none", FALSE)
        BY <2>9, SweepEffects
      <3>2. status' = status
        BY <2>9 DEF PickupEnds, PickupRaises, ReleaseEnds, SweepDies
      <3> QED
        BY <1>4, <3>1, <3>2 DEF Effect, Spared
    <2>10. CASE FindStale(s)
      <3>1. \E B \in SUBSET Queued :
              Effect(s, "release", {f \in B : age[f] >= PendingGrace}, "none", "none", FALSE)
        BY <2>10, SweepEffects
      <3>2. status' = status
        BY <2>10 DEF FindStale
      <3> QED
        BY <1>4, <3>1, <3>2 DEF Effect, Spared
    <2> QED
      BY <1>9, <2>4, <2>5, <2>6, <2>7, <2>8, <2>9, <2>10 DEF SweepMove, SweepStep
  <1>10. ASSUME NEW f \in Files,
                \/ Scan(f) \/ Respond(f) \/ Raise(f) \/ CheckGate(f) \/ Send(f) \/ Delete(f)
         PROVE  UNCHANGED <<status, sw>>
    BY <1>10 DEF Scan, Respond, Raise, CheckGate, Send, Delete
  <1>11. ASSUME NEW w \in Workers, Boot(w) \/ WorkerDies(w) PROVE UNCHANGED <<status, sw>>
    BY <1>11 DEF Boot, WorkerDies
  <1>12. Tick => UNCHANGED <<status, sw>>
    BY DEF Tick
  <1> QED
    BY <1>3, <1>6, <1>7, <1>8, <1>9, <1>10, <1>11, <1>12 DEF Next, Upload, SweepMove

(***************************************************************************)
(* The inductive invariant of the queue with its history.                  *)
(***************************************************************************)
THEOREM HistoryInvariance == HSpec => []HInv
  <1>1. HInit => HInv
    <2> SUFFICES ASSUME HInit PROVE HInv
      OBVIOUS
    <2>1. IInv
      BY InitIInv DEF HInit
    <2>2. HTypeOK /\ AgeOfPending /\ RequestsAreYoung /\ FastVerdictStands
      BY <2>1 DEF HInit, Init, HTypeOK, IInv, AgeOfPending, RequestsAreYoung,
                  FastVerdictStands, Scanning
    <2>3. HeldAreOld
      BY DEF HInit, Init, HeldAreOld, Held, IdleSweep
    <2>4. ScannedAreAsked /\ BatchCovers
      BY DEF HInit, Init, ScannedAreAsked, BatchCovers, IdleSweep
    <2>5. VerdictsWereAsked /\ SkippedWereMissed
      BY DEF HInit, Init, VerdictsWereAsked, SkippedWereMissed, IdleSweep
    <2> QED
      BY <2>1, <2>2, <2>3, <2>4, <2>5 DEF HInv
  <1>2. ASSUME HInv, HNext PROVE HInv'
    <2>1. IInv'
      BY <1>2, IInvStep DEF HInv, HNext
    <2>2. HTypeOK'
      BY <1>2, <2>1, HistoryTypes DEF HInv, IInv
    <2>3. (AgeOfPending /\ HeldAreOld /\ RequestsAreYoung /\ FastVerdictStands)'
      BY <1>2, AgeStep DEF HInv
    <2>4. ScannedAreAsked'
      BY <1>2, AskedStep DEF HInv
    <2>5. BatchCovers'
      BY <1>2, <2>4, BatchStep DEF HInv
    <2>6. (VerdictsWereAsked /\ SkippedWereMissed)'
      BY <1>2, CausesStep DEF HInv
    <2> QED
      BY <2>1, <2>2, <2>3, <2>4, <2>5, <2>6 DEF HInv
  <1>3. ASSUME HInv, UNCHANGED hvars PROVE HInv'
    <2>1. IInv'
      BY <1>3, Stutter DEF HInv, hvars
    <2>2. UNCHANGED <<status, age, deleted, up, verdict, sw, slow, asked, late, missed>>
      BY <1>3 DEF hvars, vars
    <2>3. HTypeOK'
      BY <1>3, <2>1, <2>2 DEF HInv, HTypeOK, IInv
    <2>4. (AgeOfPending /\ HeldAreOld /\ RequestsAreYoung /\ FastVerdictStands)'
      BY <1>3, <2>2 DEF HInv, AgeOfPending, HeldAreOld, Held, RequestsAreYoung,
                        FastVerdictStands
    <2>5. (ScannedAreAsked /\ BatchCovers)'
      BY <1>3, <2>2 DEF HInv, ScannedAreAsked, BatchCovers, Queued
    <2>6. (VerdictsWereAsked /\ SkippedWereMissed)'
      BY <1>3, <2>2 DEF HInv, VerdictsWereAsked, SkippedWereMissed
    <2> QED
      BY <2>1, <2>3, <2>4, <2>5, <2>6 DEF HInv
  <1>4. HInv /\ [HNext]_hvars => HInv'
    BY <1>2, <1>3
  <1> QED
    BY <1>1, <1>4, PTL DEF HSpec

(***************************************************************************)
(* Malware is given out only after an answer that may have been cut off in *)
(* its signature's name, or because a failed probe let it through          *)
(* (scanner.scan_path, get_scanner, resolve_pending, access.download).     *)
(***************************************************************************)
THEOREM MalwareExplained == HSpec => []MalwareHasCause
  <1>1. ASSUME HInv, NEW f \in given \cap Malware
        PROVE  \/ status[f] = "clean" /\ f \in OkNamed \cap asked
               \/ status[f] = "skipped" /\ f \in missed
    <2> USE DEF HInv, IInv
    <2>1. f \in Files /\ status[f] \in {"clean", "skipped"}
      BY <1>1 DEF TypeOK, GatePassed, Gate!Servable
    <2>2. status[f] = "clean" => f \in OkNamed
      BY <1>1, <2>1 DEF AnsweredStatus, Gate!Answers, Gate!Truth
    <2> QED
      BY <1>1, <2>1, <2>2 DEF VerdictsWereAsked, SkippedWereMissed
  <1>2. HInv => MalwareHasCause
    BY <1>1 DEF MalwareHasCause
  <1> QED
    BY <1>2, HistoryInvariance, PTL

(***************************************************************************)
(* The pickup takes no verdict away from a request that obtained it before *)
(* its row was PickupGrace old (cleanup.SCAN_PICKUP_GRACE).                *)
(***************************************************************************)
THEOREM FastScansStand == HSpec => []FastVerdictStands
  <1>1. HInv => FastVerdictStands
    BY DEF HInv
  <1> QED
    BY <1>1, HistoryInvariance, PTL

(***************************************************************************)
(* The backstop fails a file nobody scanned only in a sweep whose batch is *)
(* out of date (scanservice.resolve_pending, cleanup.run_once step 0b).    *)
(***************************************************************************)
THEOREM UnaskedFailOnlyLate == HSpec => OnlyLateSweepsFailUnasked
  <1> DEFINE Failed(f) == status[f] = "pending" /\ status'[f] = "error" /\ f \notin asked
             Excused(f) == \E s \in late : sw[s].pc = "release" /\ f \in sw[s].todo
             A == \A f \in Files : Failed(f) => Excused(f)
  <1>1. ASSUME HInv, HNext, NEW f \in Files, Failed(f) PROVE Excused(f)
    <2> USE <1>1 DEF HInv, HTypeOK, IInv, TypeOK, rowVars
    <2>1. \/ \E w \in Workers : Insert(f, w)
          \/ Apply(f)
          \/ \E s \in Sweepers : SweepMove(s)
      <3>1. ASSUME NEW g \in Files, g # f, Upload(g) PROVE status'[f] = status[f]
        BY <3>1 DEF Upload, Insert, Scan, Apply, SetScanResult, Respond, Raise
      <3>2. ASSUME NEW g \in Files,
                   \/ Scan(g) \/ Respond(g) \/ Raise(g) \/ CheckGate(g) \/ Send(g)
                   \/ Delete(g)
            PROVE  UNCHANGED status
        BY <3>2 DEF Scan, Respond, Raise, CheckGate, Send, Delete
      <3>3. ASSUME NEW w \in Workers, Boot(w) \/ WorkerDies(w) PROVE UNCHANGED status
        BY <3>3 DEF Boot, WorkerDies
      <3>4. Tick => UNCHANGED status
        BY DEF Tick
      <3> QED
        BY <3>1, <3>2, <3>3, <3>4 DEF HNext, Next, Upload, SweepMove
    <2>2. ASSUME NEW w \in Workers, Insert(f, w) PROVE FALSE
      BY <2>2 DEF Insert, UploadsOwnRows
    <2>3. CASE Apply(f)
      BY <2>3 DEF Apply, ScannedAreAsked
    <2>4. ASSUME NEW s \in Sweepers, SweepMove(s) PROVE Excused(f)
      <3>1. CASE \E g \in Files : ReleaseOne(s, g)
        <4>1. sw[s].pc = "release" /\ f \in sw[s].todo
          BY <3>1 DEF ReleaseOne, SetScanResult
        <4> QED
          BY <4>1 DEF BatchCovers
      <3>2. CASE ApplyOne(s)
        <4>1. sw[s].pc = "apply" /\ sw[s].cur = f
          BY <3>2 DEF ApplyOne, SetScanResult
        <4> QED
          BY <4>1 DEF ScannedAreAsked
      <3>3. CASE \E g \in Files : SkipOne(s, g)
        BY <3>3 DEF SkipOne, SetScanResult
      <3>4. CASE \/ Pickup(s) \/ ProbeScanner(s) \/ PickupEnds(s) \/ PickupRaises(s)
                 \/ FindStale(s) \/ ReleaseEnds(s) \/ SweepDies(s)
                 \/ \E g \in Files : ScanOne(s, g)
        BY <3>4 DEF Pickup, TakeBatch, ProbeScanner, PickupEnds, PickupRaises, FindStale,
                    ReleaseEnds, SweepDies, ScanOne
      <3> QED
        BY <2>4, <3>1, <3>2, <3>3, <3>4 DEF SweepMove, SweepStep
    <2> QED
      BY <2>1, <2>2, <2>3, <2>4
  <1>2. ASSUME HInv, HNext PROVE A
    BY <1>1, <1>2
  <1>3. HInv /\ [HNext]_hvars => [A]_hvars
    BY <1>2
  <1> QED
    BY <1>3, HistoryInvariance, PTL DEF HSpec, OnlyLateSweepsFailUnasked
=============================================================================
