------------------------ MODULE WorkflowEngine_proofs ------------------------
(***************************************************************************)
(* Proofs about WorkflowEngine, for every definition of steps, every batch *)
(* limit and any number of recoveries.                                     *)
(***************************************************************************)
EXTENDS WorkflowEngine, FiniteSetTheorems, TLAPS

USE DEF States, Outcomes

\* Where the call is says what the workflow, the runtime and the batch can be:
\* a call in progress is of a RUNNING workflow, results are collected under a
\* runtime that was RUNNING when they were claimed, and a step unblocks its
\* dependents by its result, or by a failure it is excused for.
CallInv ==
    /\ state # "PENDING"
    /\ pc # "idle" => wfStatus = "RUNNING"
    /\ pc \in {"exec", "record"} => state \in {"RUNNING", "PAUSING", "CANCELLING"}
    /\ pc = "exec" => batch # {}
    /\ pc \notin {"exec", "record"} => batch = {}
    /\ wfStatus \in {"RUNNING", "PAUSED"} => inFlight = batch
    /\ satisfied \subseteq completed \cup skipped \cup (failed \cap ContinueOnError)

\* A checkpoint is the ledger of an earlier moment.
SavedInv ==
    saved # NoCheckpoint =>
        /\ saved.state # "PENDING"
        /\ saved.completed \cap (saved.failed \cup saved.cancelled \cup saved.skipped) = {}
        /\ saved.failed \cap (saved.cancelled \cup saved.skipped) = {}
        /\ saved.cancelled \cap saved.skipped = {}

\* Until the first recovery, what is marked as running is the batch, the
\* runtime ends no earlier than the queue or the workflow does, and the loop is
\* left with an empty queue or a failure.
FirstLifeInv ==
    recoveries = 0 =>
        /\ wfStatus \in {"RUNNING", "PAUSED"} => running = batch
        /\ state = "CANCELLED" => pending = {}
        /\ wfStatus # "FAILED" => state # "FAILED"
        /\ state = "COMPLETED" => wfStatus = "COMPLETED"
        /\ wfStatus = "COMPLETED" =>
              state = "COMPLETED" /\ pending = {} /\ failed = {}
        /\ pc = "after" => pending = {} \/ failed # {}

IInv ==
    /\ TypeOK
    /\ Ledger
    /\ CallInv
    /\ SavedInv
    /\ FirstLifeInv
-----------------------------------------------------------------------------

\* A checkpoint of the current state has the type of a checkpoint and is one.
LEMMA SnapshotType ==
    ASSUME TypeOK, NEW st \in States, NEW run \in SUBSET Steps, NEW can \in SUBSET Steps
    PROVE  Snapshot(st, run, can) \in Checkpoints /\ Snapshot(st, run, can) # NoCheckpoint
<1>1. Snapshot(st, run, can) \in Checkpoints
  BY DEF TypeOK, RtTypeOK, Snapshot, Checkpoints
<1>2. Snapshot(st, run, can).state # NoCheckpoint.state
  BY DEF Snapshot, NoCheckpoint
<1> QED BY <1>1, <1>2

\* Every action keeps the values in their types (engine.py, checkpoint.py and
\* recovery.py).
LEMMA TypeStep == TypeOK /\ [Next]_vars => TypeOK'
<1> SUFFICES ASSUME TypeOK, [Next]_vars PROVE TypeOK'
  OBVIOUS
<1>a. saved \in Checkpoints => saved.state \in States /\ saved.running \in SUBSET Steps
        /\ saved.completed \in SUBSET Steps /\ saved.failed \in SUBSET Steps
        /\ saved.cancelled \in SUBSET Steps /\ saved.skipped \in SUBSET Steps
  BY DEF Checkpoints
<1> USE DEF TypeOK, RtTypeOK
<1>1. CASE Pause \/ Resume \/ Cancel
  BY <1>1 DEF Pause, Resume, Cancel, PauseRequest, ResumeRequest, CancelRequest,
              CancelTarget, RequestTransition, Legal, queueVars, recordVars, engineVars
<1>2. CASE EnginePause
  BY <1>2, SnapshotType DEF EnginePause, queueVars, recordVars
<1>3. CASE EngineCancel
  <2>1. state' \in States /\ cancelled' \in SUBSET Steps /\ running \in SUBSET Steps
    BY <1>3 DEF EngineCancel, Waiting
  <2> QED BY <1>3, <2>1, SnapshotType DEF EngineCancel, Waiting
<1>4. CASE TakeCheckpoint
  BY <1>4, SnapshotType DEF TakeCheckpoint, rtVars
<1>5. CASE Call
  BY <1>5 DEF Call, queueVars, recordVars
<1>6. CASE CancelAtTop
  <2>1. state' \in States /\ cancelled' \in SUBSET Steps /\ running \in SUBSET Steps
    BY <1>6 DEF CancelAtTop, Waiting, CancelSettled
  <2> QED BY <1>6, <2>1, SnapshotType DEF CancelAtTop, Waiting, WfCancelled
<1>7. CASE HoldAtTop
  BY <1>7, SnapshotType DEF HoldAtTop, Prepared, WfPaused, queueVars, recordVars
<1>8. CASE BlockedAtTop \/ BatchRaises
  BY <1>8 DEF BlockedAtTop, BatchRaises, Raise, Prepared, queueVars, recordVars
<1>9. CASE ClaimBatch
  BY <1>9 DEF ClaimBatch, Prepared, Ready, recordVars
<1>10. CASE BatchEnds \/ RecordEnd \/ LoopEnds
  BY <1>10 DEF BatchEnds, RecordEnd, LoopEnds, rtVars
<1>11. CASE AfterCancelled
  <2>1. state' \in States /\ cancelled' \in SUBSET Steps /\ running \in SUBSET Steps
        /\ pending' \in SUBSET Steps
    BY <1>11 DEF AfterCancelled, Waiting
  <2> QED BY <1>11, <2>1, SnapshotType DEF AfterCancelled, WfCancelled
<1>12. CASE AfterPaused
  BY <1>12, SnapshotType DEF AfterPaused, WfPaused, queueVars, recordVars
<1>13. CASE AfterEnded
  BY <1>13 DEF AfterEnded, Prepared, Waiting
<1>14. ASSUME NEW s \in Steps, RecordDone(s) \/ RecordFailed(s) PROVE TypeOK'
  BY <1>14 DEF RecordDone, RecordFailed, Take, NextResult, Raise
<1>15. ASSUME NEW s \in Steps, NEW o \in Outcomes, Execute(s, o) PROVE TypeOK'
  BY <1>15 DEF Execute, rtVars
<1>16. CASE Recover
  <2>1. saved \in Checkpoints
    BY <1>16 DEF Recover
  <2>2. recoveries' \in 0..MaxRecoveries
    BY <1>16, EngineAssumption DEF Recover
  <2> QED
    BY <1>16, <1>a, <2>1, <2>2 DEF Recover, RestoredSatisfied, RestoredTerminal
<1>17. CASE UNCHANGED vars
  BY <1>17 DEF vars
<1> QED
  BY <1>1, <1>2, <1>3, <1>4, <1>5, <1>6, <1>7, <1>8, <1>9, <1>10, <1>11, <1>12,
     <1>13, <1>14, <1>15, <1>16, <1>17
     DEF Next, Request, Loop, Handler

\* The variables of a workflow execution always have their types, whatever
\* checkpoint it was recovered from.
THEOREM TypeCorrect == Spec => []TypeOK
<1>1. Init => TypeOK
  BY EngineAssumption DEF Init, TypeOK, RtTypeOK
<1> QED
  BY <1>1, TypeStep, PTL DEF Spec

-----------------------------------------------------------------------------

Inv == Ledger /\ CallInv /\ SavedInv /\ FirstLifeInv

\* A claimed batch is not empty: a batch limit is positive, and something is
\* ready.
LEMMA BatchNotEmpty ==
    ASSUME TypeOK, NEW b, IsBatch(b), Ready # {}
    PROVE  b # {}
<1>1. IsFiniteSet(Ready)
  BY WorkflowAssumption, FS_Subset DEF TypeOK, RtTypeOK, Ready
<1>2. Cardinality(Ready) \in Nat \ {0}
  BY <1>1, FS_CardinalityType, FS_EmptySet
<1>3. Cardinality(b) # 0
  BY <1>2, EngineAssumption DEF IsBatch
<1> QED BY <1>3, FS_EmptySet

\* Each request, each step of the loop and a recovery keep the queue, the
\* records, the batch and the checkpoint consistent with one another.
LEMMA InvStep == IInv /\ [Next]_vars => IInv'
<1> SUFFICES ASSUME IInv, [Next]_vars PROVE Inv'
  BY TypeStep DEF IInv, Inv
<1> USE DEF Inv, IInv, TypeOK, RtTypeOK, Ledger, OneOutcome, Terminal, CallInv,
            FirstLifeInv, Waiting
<1>0. saved' = saved => SavedInv'
  BY DEF SavedInv
<1>1. CASE Pause \/ Resume \/ Cancel
  BY <1>0, <1>1 DEF Pause, Resume, Cancel, PauseRequest, ResumeRequest, CancelRequest,
     CancelTarget, RequestTransition, MayRequest, Legal, queueVars, recordVars, engineVars
<1>2. CASE EnginePause
  BY <1>2 DEF EnginePause, MayRequest, Legal, queueVars, recordVars, SavedInv, Snapshot
<1>3. CASE EngineCancel
  BY <1>3 DEF EngineCancel, CancelTarget, MayRequest, Legal, SavedInv, Snapshot
<1>4. CASE TakeCheckpoint
  BY <1>4 DEF TakeCheckpoint, MayRequest, rtVars, SavedInv, Snapshot
<1>5. CASE Call
  BY <1>0, <1>5 DEF Call, queueVars, recordVars
<1>6. CASE CancelAtTop
  BY <1>6 DEF CancelAtTop, CancelSettled, WfCancelled, SavedInv, Snapshot
<1>7. CASE HoldAtTop
  BY <1>0, <1>7 DEF HoldAtTop, Prepared, MayDispatch, WfPaused, queueVars, recordVars,
     SavedInv, Snapshot
<1>8. CASE BlockedAtTop \/ BatchRaises
  BY <1>0, <1>8 DEF BlockedAtTop, BatchRaises, Raise, Prepared, MayDispatch,
     queueVars, recordVars
<1>9. CASE ClaimBatch
  <2>1. PICK b \in SUBSET Ready :
          IsBatch(b) /\ inFlight' = inFlight \cup b /\ running' = running \cup b /\ batch' = b
    BY <1>9 DEF ClaimBatch
  <2>2. b # {} /\ b \subseteq pending \ inFlight
    BY <1>9, <2>1, BatchNotEmpty DEF ClaimBatch, Ready
  <2> QED
    BY <1>0, <1>9, <2>1, <2>2 DEF ClaimBatch, Prepared, MayDispatch, recordVars
<1>10. CASE BatchEnds \/ RecordEnd \/ LoopEnds
  BY <1>0, <1>10 DEF BatchEnds, RecordEnd, LoopEnds, rtVars
<1>11. CASE AfterCancelled
  BY <1>11 DEF AfterCancelled, CancelSettled, WfCancelled, SavedInv, Snapshot
<1>12. CASE AfterPaused
  BY <1>12 DEF AfterPaused, Prepared, WfPaused, queueVars, recordVars, SavedInv, Snapshot
<1>13. CASE AfterEnded
  BY <1>0, <1>13 DEF AfterEnded, Prepared, CancelSettled
<1>14. ASSUME NEW s \in Steps, RecordDone(s) PROVE Inv'
  BY <1>0, <1>14 DEF RecordDone, Take, NextResult, FirstOf
<1>15. ASSUME NEW s \in Steps, RecordFailed(s) PROVE Inv'
  BY <1>0, <1>15 DEF RecordFailed, Take, NextResult, Raise, Excused, FirstOf
<1>16. ASSUME NEW s \in Steps, NEW o \in Outcomes, Execute(s, o) PROVE Inv'
  BY <1>0, <1>16 DEF Execute, rtVars
<1>17. CASE Recover
  <2>1. recoveries' # 0
    BY <1>17, EngineAssumption DEF Recover
  <2>2. saved \in Checkpoints
    BY <1>17 DEF Recover
  <2> QED
    BY <1>0, <1>17, <2>1, <2>2
       DEF Recover, RestoredSatisfied, RestoredTerminal, SavedInv, Checkpoints
<1>18. CASE UNCHANGED vars
  BY <1>0, <1>18 DEF vars
<1> QED
  BY <1>1, <1>2, <1>3, <1>4, <1>5, <1>6, <1>7, <1>8, <1>9, <1>10, <1>11, <1>12,
     <1>13, <1>14, <1>15, <1>16, <1>17, <1>18
     DEF Next, Request, Loop, Handler

\* The inductive invariant holds of every reachable state.
LEMMA Invariant == Spec => []IInv
<1>1. Init => IInv
  BY EngineAssumption
     DEF Init, IInv, TypeOK, RtTypeOK, Ledger, OneOutcome, Terminal, CallInv,
         SavedInv, FirstLifeInv
<1> QED
  BY <1>1, InvStep, PTL DEF Spec

-----------------------------------------------------------------------------

\* No step is lost or counted twice, across recoveries from any checkpoint
\* (restore_runtime, mark_complete, mark_terminal, cancel_waiting).
THEOREM LedgerHolds == Spec => []Ledger
<1>1. IInv => Ledger
  BY DEF IInv
<1> QED
  BY <1>1, Invariant, PTL

\* A workflow that was never recovered and is COMPLETED has an empty queue and
\* no failure (the endings of _execute_runtime).
THEOREM CompletedIsDrainedHolds == Spec => []CompletedIsDrained
<1>1. IInv => CompletedIsDrained
  BY DEF IInv, FirstLifeInv, CompletedIsDrained
<1> QED
  BY <1>1, Invariant, PTL

\* Only the claim of a batch puts steps in flight, and leaves the records alone.
LEMMA OnlyClaims ==
    ASSUME TypeOK, [Next]_vars, ~ClaimBatch
    PROVE  inFlight' \subseteq inFlight
BY DEF TypeOK, RtTypeOK, Next, vars, Request, Loop, Handler, Pause, Resume, Cancel,
     PauseRequest, ResumeRequest, CancelRequest, RequestTransition, EnginePause,
     EngineCancel, TakeCheckpoint, engineVars, queueVars, rtVars, Call, CancelAtTop,
     HoldAtTop, BlockedAtTop, BatchRaises, BatchEnds, RecordEnd, LoopEnds,
     AfterCancelled, AfterPaused, AfterEnded, RecordDone, RecordFailed, Take,
     Execute, Recover

\* What a checkpoint records as terminal is never claimed after recovering
\* from it: a claim is for steps of the queue without an outcome only.
THEOREM NoRepeatHolds == Spec => NoRepeat
<1>1. IInv /\ [Next]_vars =>
        [(inFlight' \ inFlight) \cap (Terminal \cup Terminal') = {}]_vars
  <2> SUFFICES ASSUME IInv, ClaimBatch
               PROVE  (inFlight' \ inFlight) \cap (Terminal \cup Terminal') = {}
    BY OnlyClaims DEF IInv
  <2>1. inFlight' \ inFlight \subseteq pending /\ Terminal' = Terminal
    BY DEF ClaimBatch, Ready, Terminal, recordVars
  <2>2. pending \cap Terminal = {}
    BY DEF IInv, Ledger
  <2> QED BY <2>1, <2>2
<1> QED
  BY <1>1, Invariant, PTL DEF Spec, NoRepeat

\* When a call of a workflow that was never recovered returns, the workflow's
\* status and the runtime's state agree, but for a request left open by a
\* batch that raises.
THEOREM StatusAgreesHolds == Spec => StatusAgrees
<1> DEFINE Agree ==
      (pc # "idle" /\ pc' = "idle" /\ recoveries' = 0) =>
         \/ wfStatus' = state'
         \/ wfStatus' = "FAILED" /\ state' \in {"PAUSING", "CANCELLING"}
<1>1. IInv /\ [Next]_vars => [Agree]_vars
  <2> SUFFICES ASSUME IInv, Next, pc # "idle", pc' = "idle", recoveries' = 0
               PROVE  \/ wfStatus' = state'
                      \/ wfStatus' = "FAILED" /\ state' \in {"PAUSING", "CANCELLING"}
    OBVIOUS
  <2> USE DEF IInv, TypeOK, RtTypeOK, Ledger, CallInv, FirstLifeInv
  <2>1. CASE CancelAtTop \/ HoldAtTop \/ BlockedAtTop
    BY <2>1 DEF CancelAtTop, HoldAtTop, BlockedAtTop, Raise, CancelSettled, WfCancelled,
         Prepared, MayDispatch, WfPaused
  <2>2. CASE BatchRaises
    BY <2>2 DEF BatchRaises, Raise
  <2>3. CASE AfterCancelled \/ AfterPaused
    BY <2>3 DEF AfterCancelled, AfterPaused, WfCancelled, WfPaused
  <2>4. CASE AfterEnded
    BY <2>4 DEF AfterEnded, Prepared, CancelSettled
  <2>5. ASSUME NEW s \in Steps, RecordDone(s) \/ RecordFailed(s)
        PROVE  \/ wfStatus' = state'
               \/ wfStatus' = "FAILED" /\ state' \in {"PAUSING", "CANCELLING"}
    BY <2>5 DEF RecordDone, RecordFailed, Take, NextResult, Raise
  <2>6. ~Recover
    BY EngineAssumption DEF Recover
  <2>7. ~(Request \/ Call \/ ClaimBatch \/ LoopEnds \/ BatchEnds \/ RecordEnd \/ Handler)
    BY DEF Request, Pause, Resume, Cancel, EnginePause, EngineCancel, TakeCheckpoint,
         engineVars, Call, ClaimBatch, LoopEnds, BatchEnds, RecordEnd, Handler, Execute
  <2> QED BY <2>1, <2>2, <2>3, <2>4, <2>5, <2>6, <2>7 DEF Next, Loop
<1> QED
  BY <1>1, Invariant, PTL DEF Spec, StatusAgrees

-----------------------------------------------------------------------------
(* The refinement.                                                          *)

\* What the abstract status of a step is, given the ledger.
LEMMA StatusValue ==
    ASSUME IInv, NEW s \in Steps
    PROVE  /\ StepStatus[s] = "started" <=> s \in inFlight
           /\ StepStatus[s] = "waiting" <=> s \in Waiting
           /\ StepStatus[s] \in {"completed", "skipped"} <=> s \in completed \cup skipped
           /\ StepStatus[s] = "failed" <=> s \in failed
BY DEF StepStatus, IInv, Ledger, Terminal, OneOutcome, Waiting

\* A step that leaves the checkpoint alone leaves the abstract record alone.
LEMMA KeptStays == saved' = saved => Kept' = Kept
BY DEF Kept

\* A checkpoint is the abstract record of the state it leaves.
LEMMA KeptRecords ==
    ASSUME TypeOK, IInv', saved' = Snapshot(state', running, cancelled'),
           completed' = completed, failed' = failed, skipped' = skipped
    PROVE  Kept' = {Promise!Record(Gate', StepStatus')}
<1>1. running \in SUBSET Steps /\ cancelled' \in SUBSET Steps /\ state' \in States
  BY DEF IInv, TypeOK, RtTypeOK
<1>2. saved' # NoCheckpoint
  BY <1>1, SnapshotType
<1>3. /\ saved'.state = state' /\ saved'.completed = completed'
      /\ saved'.skipped = skipped' /\ saved'.failed = failed'
      /\ saved'.cancelled = cancelled'
  BY DEF Snapshot
<1> DEFINE K == [s \in Steps |->
               CASE s \in completed' -> "completed"
                 [] s \in skipped'   -> "skipped"
                 [] s \in failed'    -> "failed"
                 [] s \in cancelled' -> "cancelled"
                 [] OTHER            -> "waiting"]
<1>4. Kept' = {[gate |-> GateOf(state'), status |-> K]}
  BY <1>2, <1>3 DEF Kept
<1>5. K = [s \in Steps |-> IF StepStatus'[s] = "started" THEN "waiting" ELSE StepStatus'[s]]
  <2>1. ASSUME NEW s \in Steps
        PROVE  K[s] = IF StepStatus'[s] = "started" THEN "waiting" ELSE StepStatus'[s]
    <3>1. /\ completed' \cap (failed' \cup cancelled' \cup skipped') = {}
          /\ failed' \cap (cancelled' \cup skipped') = {}
          /\ cancelled' \cap skipped' = {}
          /\ inFlight' \cap (completed' \cup skipped' \cup failed' \cup cancelled') = {}
      BY DEF IInv, Ledger, OneOutcome, Terminal
    <3> QED BY <3>1 DEF StepStatus
  <2> QED BY <2>1
<1> HIDE DEF K
<1> QED BY <1>4, <1>5 DEF Promise!Record, Gate

\* What is recorded, if anything, is the state the step leaves.
LEMMA ProgressStep ==
    ASSUME [Promise!Next]_<<Gate, StepStatus>>,
           Kept' = Kept \/ Kept' = {Promise!Record(Gate', StepStatus')}
    PROVE  Promise!Progress
BY DEF Promise!Progress, Promise!promiseVars

\* A step of the driver that records nothing of a step moves the gate.
LEMMA GateMoves ==
    ASSUME StepStatus' = StepStatus, Gate = "ended" => Gate' = Gate
    PROVE  [Promise!Next]_<<Gate, StepStatus>>
<1>1. CASE Gate = "ended"
  BY <1>1
<1>2. CASE Gate # "ended"
  <2>1. Gate' \in {"open", "closed", "ended"}
    BY DEF Gate, GateOf
  <2> QED BY <1>2, <2>1 DEF Promise!Next, Promise!MoveGate
<1> QED BY <1>1, <1>2

\* Steps that are neither settled nor under way can be cancelled.
LEMMA CancelCancels ==
    ASSUME IInv, NEW W \in SUBSET Waiting, cancelled' = cancelled \cup W,
           completed' = completed, skipped' = skipped, failed' = failed,
           inFlight' = inFlight, Gate' \in {"closed", "ended"},
           Gate = "ended" => Gate' = "ended"
    PROVE  [Promise!Next]_<<Gate, StepStatus>>
<1>1. \A s \in W : StepStatus[s] = "waiting"
  BY StatusValue DEF IInv, TypeOK, RtTypeOK, Waiting
<1>2. StepStatus' = [s \in Steps |-> IF s \in W THEN "cancelled" ELSE StepStatus[s]]
  BY DEF StepStatus, IInv, Ledger, Waiting, Terminal
<1>3. W \in SUBSET Steps
  BY DEF IInv, TypeOK, RtTypeOK, Waiting
<1>4. Promise!CancelSteps(W)
  BY <1>1, <1>2 DEF Promise!CancelSteps
<1> QED BY <1>3, <1>4 DEF Promise!Next

\* The claim of a batch starts its steps, through an open gate, with nothing
\* else under way.
LEMMA ClaimStarts ==
    ASSUME IInv, ClaimBatch
    PROVE  \E b \in SUBSET Steps : Promise!Start(b)
<1> USE DEF IInv, TypeOK, RtTypeOK
<1>1. PICK b \in SUBSET Ready : IsBatch(b) /\ inFlight' = inFlight \cup b
  BY DEF ClaimBatch
<1>2. Gate = "open" /\ Gate' = Gate
  BY DEF ClaimBatch, MayDispatch, Prepared, Gate, GateOf
<1>3. inFlight = {}
  BY DEF CallInv, ClaimBatch
<1>4. b \subseteq Waiting /\ b \in SUBSET Steps
  BY <1>1 DEF Ready, Waiting
<1>5. \A s \in b : \A d \in Deps[s] : d \in Steps /\ d \in satisfied
  BY <1>1, <1>4, WorkflowAssumption DEF Ready
<1>6. \A d \in satisfied : Promise!Unblocks(d)
  BY StatusValue DEF CallInv, Promise!Unblocks
<1>7. Promise!Cardinality(Promise!Started \cup b) <= BatchLimit
  <2>1. Promise!Started = {}
    BY <1>3, StatusValue DEF Promise!Started
  <2>2. IsFiniteSet(Ready)
    BY WorkflowAssumption, FS_Subset DEF Ready
  <2>3. Cardinality(Ready) \in Nat
    BY <2>2, FS_CardinalityType
  <2>4. Cardinality(b) <= BatchLimit
    BY <1>1, <2>3, EngineAssumption DEF IsBatch
  <2>5. Promise!Cardinality(b) = Cardinality(b)
    BY DEF Promise!Cardinality, Cardinality
  <2>6. Promise!Started \cup b = b
    BY <2>1
  <2> QED BY <2>4, <2>5, <2>6
<1>8. StepStatus' = [s \in Steps |-> IF s \in b THEN "started" ELSE StepStatus[s]]
  BY <1>1, <1>4 DEF StepStatus, ClaimBatch, recordVars, Waiting, Ledger, Terminal
<1>9. \A s \in b : StepStatus[s] = "waiting" /\ \A d \in Deps[s] : Promise!Unblocks(d)
  BY <1>4, <1>5, <1>6, StatusValue
<1>10. Promise!Start(b)
  BY <1>2, <1>7, <1>8, <1>9 DEF Promise!Start
<1> QED BY <1>4, <1>10

\* Recording a result settles one step of the promise.
LEMMA RecordSettles ==
    ASSUME IInv, NEW s \in Steps, RecordDone(s) \/ RecordFailed(s)
    PROVE  [Promise!Next]_<<Gate, StepStatus>>
<1> USE DEF IInv, TypeOK, RtTypeOK, Ledger, Terminal, Take
<1>1. s \in inFlight
  BY DEF RecordDone, RecordFailed, FirstOf
<1>2. StepStatus[s] = "started"
  BY <1>1, StatusValue
<1>3. Gate' = Gate \/ Gate' = "ended"
  BY DEF RecordDone, RecordFailed, NextResult, Raise, Gate, GateOf
<1>4. PICK o \in Promise!Outcomes :
        StepStatus' = [t \in Steps |-> IF t = s THEN o ELSE StepStatus[t]]
  <2>1. CASE RecordDone(s) /\ outcome[s] = "completed"
    <3>1. StepStatus' = [t \in Steps |-> IF t = s THEN "completed" ELSE StepStatus[t]]
      BY <1>1, <2>1 DEF RecordDone, StepStatus
    <3> QED BY <3>1 DEF Promise!Outcomes
  <2>2. CASE RecordDone(s) /\ outcome[s] # "completed"
    <3>1. StepStatus' = [t \in Steps |-> IF t = s THEN "skipped" ELSE StepStatus[t]]
      BY <1>1, <2>2 DEF RecordDone, StepStatus
    <3> QED BY <3>1 DEF Promise!Outcomes
  <2>3. CASE RecordFailed(s)
    <3>1. StepStatus' = [t \in Steps |-> IF t = s THEN "failed" ELSE StepStatus[t]]
      BY <1>1, <2>3 DEF RecordFailed, StepStatus
    <3> QED BY <3>1 DEF Promise!Outcomes
  <2> QED BY <2>1, <2>2, <2>3
<1>5. StepStatus' = [StepStatus EXCEPT ![s] = o]
  BY <1>4 DEF StepStatus
<1>6. Promise!Settle(s, o)
  BY <1>2, <1>3, <1>5 DEF Promise!Settle
<1> QED BY <1>4, <1>6 DEF Promise!Next

\* A recovery is one of the promise: the gate and the outcomes of the last
\* checkpoint, and what was under way waits again.
LEMMA RecoverRecovers ==
    ASSUME IInv, Recover
    PROVE  Promise!Recover
<1>1. Kept = {[gate |-> GateOf(saved.state),
               status |-> [s \in Steps |->
                   CASE s \in saved.completed -> "completed"
                     [] s \in saved.skipped   -> "skipped"
                     [] s \in saved.failed    -> "failed"
                     [] s \in saved.cancelled -> "cancelled"
                     [] OTHER                 -> "waiting"]]}
  BY DEF Recover, Kept
<1>2. Gate' = GateOf(saved.state)
  BY DEF Recover, Gate
<1>3. StepStatus' = [s \in Steps |->
                   CASE s \in saved.completed -> "completed"
                     [] s \in saved.skipped   -> "skipped"
                     [] s \in saved.failed    -> "failed"
                     [] s \in saved.cancelled -> "cancelled"
                     [] OTHER                 -> "waiting"]
  BY DEF Recover, StepStatus
<1>4. Kept' = Kept
  BY KeptStays DEF Recover
<1> QED BY <1>1, <1>2, <1>3, <1>4 DEF Promise!Recover

\* The synchronous driver implements the promise that survives the process: it
\* starts a step only through an open gate with its dependencies met and within
\* the batch limit, every outcome is final, and a recovery goes back to exactly
\* what the last checkpoint recorded.
THEOREM Refinement == Spec => Promised
<1>1. Init => Promise!DurableInit
  BY DEF Init, Promise!DurableInit, Promise!Init, Gate, GateOf, StepStatus, Kept
<1>2. IInv /\ IInv' /\ [Next]_vars =>
        [Promise!Progress \/ Promise!Recover]_<<Gate, StepStatus, Kept>>
  <2> SUFFICES ASSUME IInv, IInv', [Next]_vars
               PROVE  [Promise!Progress \/ Promise!Recover]_<<Gate, StepStatus, Kept>>
    OBVIOUS
  <2>t. TypeOK
    BY DEF IInv
  <2>w. {} \in SUBSET Waiting
    OBVIOUS
  <2>1. CASE Pause \/ Resume \/ Cancel \/ EnginePause \/ TakeCheckpoint \/ Call
    <3>1. StepStatus' = StepStatus
      BY <2>1 DEF Pause, Resume, Cancel, PauseRequest, ResumeRequest, CancelRequest,
           RequestTransition, EnginePause, TakeCheckpoint, Call, rtVars, queueVars,
           recordVars, StepStatus
    <3>2. Gate = "ended" => Gate' = Gate
      BY <2>1, <2>t DEF TypeOK, RtTypeOK, Pause, Resume, Cancel, PauseRequest,
           ResumeRequest, CancelRequest, CancelTarget, RequestTransition, EnginePause,
           TakeCheckpoint, Call, rtVars, Legal, Gate, GateOf
    <3>3. Kept' = Kept \/ Kept' = {Promise!Record(Gate', StepStatus')}
      <4>1. CASE EnginePause
        BY <4>1, <2>t, KeptRecords DEF EnginePause, recordVars
      <4>2. CASE TakeCheckpoint
        BY <4>2, <2>t, KeptRecords DEF TakeCheckpoint, rtVars
      <4>3. CASE Pause \/ Resume \/ Cancel \/ Call
        BY <4>3, KeptStays DEF Pause, Resume, Cancel, Call, engineVars
      <4> QED BY <2>1, <4>1, <4>2, <4>3
    <3> QED BY <3>1, <3>2, <3>3, GateMoves, ProgressStep
  <2>2. CASE EngineCancel \/ CancelAtTop \/ AfterCancelled
    <3>1. Kept' = {Promise!Record(Gate', StepStatus')}
      BY <2>2, <2>t, KeptRecords DEF EngineCancel, CancelAtTop, AfterCancelled
    <3>2. [Promise!Next]_<<Gate, StepStatus>>
      <4>1. Gate' \in {"closed", "ended"} /\ (Gate = "ended" => Gate' = "ended")
        BY <2>2, <2>t DEF TypeOK, RtTypeOK, EngineCancel, CancelAtTop, AfterCancelled,
             CancelTarget, CancelSettled, Legal, Gate, GateOf
      <4>2. PICK W \in SUBSET Waiting : cancelled' = cancelled \cup W
        BY <2>2, <2>w DEF EngineCancel, CancelAtTop, AfterCancelled
      <4> QED
        BY <2>2, <4>1, <4>2, CancelCancels DEF EngineCancel, CancelAtTop, AfterCancelled
    <3> QED BY <3>1, <3>2, ProgressStep
  <2>3. CASE HoldAtTop \/ BlockedAtTop \/ LoopEnds \/ BatchRaises \/ BatchEnds
             \/ RecordEnd \/ AfterPaused
    <3>1. StepStatus' = StepStatus
      BY <2>3 DEF HoldAtTop, BlockedAtTop, LoopEnds, BatchRaises, BatchEnds, RecordEnd,
           AfterPaused, rtVars, queueVars, recordVars, StepStatus
    <3>2. Gate = "ended" => Gate' = Gate
      BY <2>3, <2>t DEF TypeOK, RtTypeOK, HoldAtTop, BlockedAtTop, LoopEnds, BatchRaises,
           BatchEnds, RecordEnd, AfterPaused, Raise, Prepared, MayDispatch, rtVars,
           Gate, GateOf
    <3>3. Kept' = Kept \/ Kept' = {Promise!Record(Gate', StepStatus')}
      <4>1. CASE HoldAtTop
        BY <4>1, <2>t, KeptRecords, KeptStays DEF HoldAtTop, recordVars
      <4>2. CASE AfterPaused
        BY <4>2, <2>t, KeptRecords DEF AfterPaused, recordVars
      <4>3. CASE BlockedAtTop \/ LoopEnds \/ BatchRaises \/ BatchEnds \/ RecordEnd
        BY <4>3, KeptStays DEF BlockedAtTop, LoopEnds, BatchRaises, BatchEnds, RecordEnd
      <4> QED BY <2>3, <4>1, <4>2, <4>3
    <3> QED BY <3>1, <3>2, <3>3, GateMoves, ProgressStep
  <2>4. CASE AfterEnded
    <3>1. Kept' = Kept
      BY <2>4, KeptStays DEF AfterEnded
    <3>2. CASE state = "CANCELLING"
      <4>1. Gate' = "closed" /\ Gate = "closed"
        BY <2>4, <3>2 DEF AfterEnded, Prepared, Gate, GateOf
      <4>2. cancelled' = cancelled \cup Waiting
        BY <2>4, <3>2 DEF AfterEnded
      <4>3. [Promise!Next]_<<Gate, StepStatus>>
        BY <2>4, <4>1, <4>2, CancelCancels DEF AfterEnded
      <4> QED BY <3>1, <4>3, ProgressStep
    <3>3. CASE state # "CANCELLING"
      <4>1. StepStatus' = StepStatus
        <5>1. cancelled' = cancelled
          BY <2>4, <3>3 DEF AfterEnded
        <5> QED BY <2>4, <5>1 DEF AfterEnded, StepStatus
      <4>2. Gate = "ended" => Gate' = Gate
        BY <2>4, <2>t DEF TypeOK, RtTypeOK, AfterEnded, Prepared, Gate, GateOf
      <4> QED BY <3>1, <4>1, <4>2, GateMoves, ProgressStep
    <3> QED BY <3>2, <3>3
  <2>5. CASE ClaimBatch
    <3>1. Kept' = Kept
      BY <2>5, KeptStays DEF ClaimBatch
    <3>2. [Promise!Next]_<<Gate, StepStatus>>
      BY <2>5, ClaimStarts DEF Promise!Next
    <3> QED BY <3>1, <3>2, ProgressStep
  <2>6. ASSUME NEW s \in Steps, RecordDone(s) \/ RecordFailed(s)
        PROVE  Promise!Progress
    <3>1. Kept' = Kept
      BY <2>6, KeptStays DEF RecordDone, RecordFailed, Take
    <3> QED BY <2>6, <3>1, RecordSettles, ProgressStep
  <2>7. CASE Recover
    BY <2>7, RecoverRecovers
  <2>8. CASE UNCHANGED <<rtVars, saved>>
    <3>1. Kept' = Kept
      BY <2>8, KeptStays
    <3>2. Gate' = Gate /\ StepStatus' = StepStatus
      BY <2>8 DEF rtVars, Gate, GateOf, StepStatus
    <3> QED BY <3>1, <3>2
  <2> QED
    BY <2>1, <2>2, <2>3, <2>4, <2>5, <2>6, <2>7, <2>8
       DEF Next, Request, Loop, Handler, Execute, vars, rtVars
<1> QED
  BY <1>1, <1>2, Invariant, PTL
     DEF Spec, Promised, Promise!DurableSpec, Promise!durableVars
==============================================================================
