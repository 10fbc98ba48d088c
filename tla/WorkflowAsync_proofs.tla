------------------------- MODULE WorkflowAsync_proofs ------------------------
(***************************************************************************)
(* Proofs about WorkflowAsync, for every definition of steps, every        *)
(* max_parallelism and both values of fail_fast.                           *)
(***************************************************************************)
EXTENDS WorkflowAsync, FiniteSetTheorems, TLAPS

USE DEF States, Suspended, Outcomes

\* The tasks the scheduler holds are those it claimed, an outcome is kept only
\* for a task it holds, and steps are claimed in a RUNNING runtime only.
TasksInv ==
    /\ satisfied = completed \cup skipped
    /\ done \subseteq active
    /\ pc # "record" => done = {}
    /\ \A s \in done : outcome[s] # "none"
    /\ \A s \in Steps \ active : outcome[s] = "none"
    /\ pc = "claim" => state = "RUNNING"
    /\ pc = "idle" => active = {}

\* Nothing is marked as running in the states a runtime rests in; what is
\* marked as running without a task, after a failure, holds the runtime in a
\* state that never claims again; a step whose handler was called has left the
\* waiting queue.
QuietInv ==
    /\ state \in {"PENDING", "PAUSED", "RESUMING", "CANCELLED"} => running = {}
    /\ state = "COMPLETED" => pending = {}
    /\ inFlight # active => state \in {"PAUSING", "CANCELLING", "FAILED"}
    /\ pc = "cancelGather" => state = "CANCELLING"
    /\ invoked \cap Waiting = {}

IInv ==
    /\ TypeOK
    /\ Ledger
    /\ TasksInv
    /\ DependenciesFirst
    /\ QuietInv
    /\ ParallelismBound

-----------------------------------------------------------------------------

\* Every action keeps the values in their types (Scheduler.run_runtime_async
\* and the control requests).
LEMMA TypeStep == TypeOK /\ [Next]_vars => TypeOK'
<1> SUFFICES ASSUME TypeOK, [Next]_vars PROVE TypeOK'
  OBVIOUS
<1> USE DEF TypeOK, RtTypeOK
<1>1. CASE Request
  <2>1. CASE Pause
    BY <2>1 DEF Pause, PauseRequest, RequestTransition, Legal, queueVars, recordVars, asyncVars
  <2>2. CASE Resume
    BY <2>2 DEF Resume, ResumeRequest, RequestTransition, Legal, queueVars, recordVars, asyncVars
  <2>3. CASE Cancel
    BY <2>3 DEF Cancel, CancelRequest, CancelTarget, RequestTransition, Legal,
                queueVars, recordVars, asyncVars
  <2>4. CASE EnginePause
    BY <2>4 DEF EnginePause, queueVars, recordVars, asyncVars
  <2>5. CASE EngineCancel
    BY <2>5 DEF EngineCancel, Waiting, asyncVars
  <2> QED BY <1>1, <2>1, <2>2, <2>3, <2>4, <2>5 DEF Request
<1>2. CASE Run
  BY <1>2 DEF Run, queueVars, recordVars
<1>3. CASE Drained \/ Blocked \/ EndFail
  BY <1>3 DEF Drained, Blocked, EndFail, IfRunning, queueVars, recordVars
<1>4. CASE BeginCancel \/ AwaitTasks \/ Wake \/ RecordEnd
  BY <1>4 DEF BeginCancel, AwaitTasks, Wake, RecordEnd, Ended, rtVars
<1>5. CASE Decide
  BY <1>5 DEF Decide, Prepared, MayDispatch, HeldAt, queueVars, recordVars
<1>6. CASE EndCancel
  BY <1>6 DEF EndCancel, CancelSettled, Waiting
<1>7. ASSUME NEW s \in Steps, Claim(s) PROVE TypeOK'
  BY <1>7 DEF Claim, recordVars
<1>8. ASSUME NEW s \in Steps, RecordOk(s) \/ RecordCancelled(s) \/ RecordError(s)
      PROVE TypeOK'
  BY <1>8 DEF RecordOk, RecordCancelled, RecordError, Take
<1>9. ASSUME NEW s \in Steps, NEW o \in Outcomes, Finish(s, o) PROVE TypeOK'
  BY <1>9 DEF Finish, rtVars
<1>10. CASE UNCHANGED vars
  BY <1>10 DEF vars
<1> QED
  BY <1>1, <1>2, <1>3, <1>4, <1>5, <1>6, <1>7, <1>8, <1>9, <1>10
     DEF Next, Loop, Handler

\* The variables of a workflow run always have their types.
THEOREM TypeCorrect == Spec => []TypeOK
<1>1. Init => TypeOK
  BY DEF Init, RtInit, TypeOK, RtTypeOK
<1> QED
  BY <1>1, TypeStep, PTL DEF Spec

-----------------------------------------------------------------------------

\* The number of tasks never passes max_parallelism: a claim needs a free
\* place and nothing else adds a task.
LEMMA BoundStep ==
    TypeOK /\ ParallelismBound /\ [Next]_vars => ParallelismBound'
<1> SUFFICES ASSUME TypeOK, ParallelismBound, [Next]_vars
             PROVE  Cardinality(active') <= MaxParallelism
  BY DEF ParallelismBound
<1>1. IsFiniteSet(active) /\ Cardinality(active) \in Nat
  BY WorkflowAssumption, FS_Subset, FS_CardinalityType DEF TypeOK
<1>2. CASE active' \subseteq active
  <2>1. IsFiniteSet(active') /\ Cardinality(active') <= Cardinality(active)
    BY <1>1, <1>2, FS_Subset
  <2>2. Cardinality(active') \in Nat
    BY <2>1, FS_CardinalityType
  <2> QED BY <1>1, <2>1, <2>2, AsyncAssumption DEF ParallelismBound
<1>3. ASSUME NEW s \in Steps, Claim(s)
      PROVE  Cardinality(active') <= MaxParallelism
  <2>1. active' = active \cup {s} /\ Cardinality(active) < MaxParallelism
    BY <1>3 DEF Claim, CanClaim
  <2>2. Cardinality(active') = Cardinality(active) \/
        Cardinality(active') = Cardinality(active) + 1
    BY <1>1, <2>1, FS_AddElement
  <2> QED BY <1>1, <2>1, <2>2, AsyncAssumption
<1>4. ASSUME \A s \in Steps : ~Claim(s) PROVE active' \subseteq active
  BY <1>4 DEF Next, vars, Request, Loop, Handler, Pause, Resume, Cancel, EnginePause,
       EngineCancel, asyncVars, Run, Drained, BeginCancel, Decide, AwaitTasks,
       Blocked, Wake, RecordEnd, EndCancel, EndFail, RecordOk, RecordCancelled,
       RecordError, Take, Finish
<1> QED BY <1>2, <1>3, <1>4

\* Each step of the scheduler, of a handler or of a caller keeps the queue,
\* the records and the tasks consistent with one another.
LEMMA InvStep == IInv /\ [Next]_vars => IInv'
<1> SUFFICES ASSUME IInv, [Next]_vars
             PROVE  Ledger' /\ TasksInv' /\ DependenciesFirst' /\ QuietInv'
  BY TypeStep, BoundStep DEF IInv
<1> USE DEF IInv, TypeOK, RtTypeOK, Ledger, OneOutcome, Terminal, TasksInv,
            DependenciesFirst, QuietInv, Waiting
<1>1. CASE Pause \/ Resume \/ Cancel
  BY <1>1 DEF Pause, Resume, Cancel, PauseRequest, ResumeRequest, CancelRequest,
              CancelTarget, RequestTransition, MayRequest, Legal,
              queueVars, recordVars, asyncVars
<1>2. CASE EnginePause
  BY <1>2 DEF EnginePause, MayRequest, Legal, queueVars, recordVars, asyncVars
<1>3. CASE EngineCancel
  BY <1>3 DEF EngineCancel, CancelTarget, MayRequest, asyncVars
<1>4. CASE Run
  BY <1>4 DEF Run, queueVars, recordVars
<1>5. CASE Drained
  BY <1>5 DEF Drained, IfRunning, queueVars, recordVars
<1>6. CASE BeginCancel \/ AwaitTasks \/ Wake \/ RecordEnd
  BY <1>6 DEF BeginCancel, AwaitTasks, Wake, RecordEnd, Ended, rtVars
<1>7. CASE Decide
  BY <1>7 DEF Decide, Prepared, MayDispatch, HeldAt, queueVars, recordVars
<1>8. CASE Blocked
  BY <1>8 DEF Blocked, IfRunning, queueVars, recordVars
<1>9. CASE EndCancel
  BY <1>9 DEF EndCancel, CancelSettled
<1>10. CASE EndFail
  BY <1>10 DEF EndFail, IfRunning, queueVars, recordVars
<1>11. ASSUME NEW s \in Steps, Claim(s)
       PROVE  Ledger' /\ TasksInv' /\ DependenciesFirst' /\ QuietInv'
  BY <1>11 DEF Claim, FirstOf, Ready, CanClaim, recordVars
<1>12. ASSUME NEW s \in Steps, RecordOk(s)
       PROVE  Ledger' /\ TasksInv' /\ DependenciesFirst' /\ QuietInv'
  BY <1>12 DEF RecordOk, Take
<1>13. ASSUME NEW s \in Steps, RecordCancelled(s)
       PROVE  Ledger' /\ TasksInv' /\ DependenciesFirst' /\ QuietInv'
  BY <1>13 DEF RecordCancelled, Take
<1>14. ASSUME NEW s \in Steps, RecordError(s)
       PROVE  Ledger' /\ TasksInv' /\ DependenciesFirst' /\ QuietInv'
  BY <1>14 DEF RecordError, Take
<1>15. ASSUME NEW s \in Steps, NEW o \in Outcomes, Finish(s, o)
       PROVE  Ledger' /\ TasksInv' /\ DependenciesFirst' /\ QuietInv'
  BY <1>15 DEF Finish, rtVars
<1>16. CASE UNCHANGED vars
  BY <1>16 DEF vars
<1> QED
  BY <1>1, <1>2, <1>3, <1>4, <1>5, <1>6, <1>7, <1>8, <1>9, <1>10, <1>11,
     <1>12, <1>13, <1>14, <1>15, <1>16
     DEF Next, Request, Loop, Handler

\* The inductive invariant holds of every reachable state.
LEMMA Invariant == Spec => []IInv
<1>1. Init => IInv
  <2> SUFFICES ASSUME Init PROVE IInv
    OBVIOUS
  <2>1. Cardinality(active) <= MaxParallelism
    BY FS_EmptySet, AsyncAssumption DEF Init
  <2> QED
    BY <2>1 DEF Init, RtInit, IInv, TypeOK, RtTypeOK, Ledger, OneOutcome, Terminal,
                TasksInv, DependenciesFirst, QuietInv, ParallelismBound, Waiting
<1> QED
  BY <1>1, InvStep, PTL DEF Spec

-----------------------------------------------------------------------------

\* No step is lost or counted twice, dependencies come first, and the bound on
\* the tasks holds, whatever is requested, fails or is cancelled.
THEOREM Safety == Spec => [](Ledger /\ DependenciesFirst /\ ParallelismBound)
<1>1. IInv => Ledger /\ DependenciesFirst /\ ParallelismBound
  BY DEF IInv, Ledger, TasksInv
<1> QED
  BY <1>1, Invariant, PTL

\* A runtime that is paused or completed has nothing in flight: execute waits
\* for its tasks before it settles the runtime.
THEOREM SettledIsQuietHolds == Spec => []SettledIsQuiet
<1>1. IInv => SettledIsQuiet
  BY DEF IInv, Ledger, TasksInv, QuietInv, SettledIsQuiet
<1> QED
  BY <1>1, Invariant, PTL

\* Only a claim puts a step in flight.
LEMMA OnlyClaims ==
    ASSUME [Next]_vars, \A s \in Steps : ~Claim(s)
    PROVE  inFlight' \subseteq inFlight /\ invoked' = invoked
BY DEF Next, vars, Request, Loop, Handler, Pause, Resume, Cancel, PauseRequest,
     ResumeRequest, CancelRequest, RequestTransition, EnginePause,
     EngineCancel, asyncVars, queueVars, rtVars, Run, Drained, BeginCancel, Decide,
     AwaitTasks, Blocked, Wake, RecordEnd, EndCancel, EndFail, RecordOk,
     RecordCancelled, RecordError, Take, Finish

\* After a pause or cancel request no step is claimed until a resume.
THEOREM NoClaimAfterRequestHolds == Spec => NoClaimAfterRequest
<1>1. IInv /\ [Next]_vars =>
        [inFlight' \subseteq inFlight \/ (state = "RUNNING" /\ state' = "RUNNING")]_vars
  <2> SUFFICES ASSUME IInv, [Next]_vars, NEW s \in Steps, Claim(s)
               PROVE  state = "RUNNING" /\ state' = "RUNNING"
    BY OnlyClaims
  <2> QED BY DEF IInv, TasksInv, Claim
<1> QED
  BY <1>1, Invariant, PTL DEF Spec, NoClaimAfterRequest

\* No handler is called twice, and steps start in definition order among the
\* ready ones.
THEOREM InvokedOnceInOrderHolds == Spec => InvokedOnceInOrder
<1>1. IInv /\ [Next]_vars =>
        [\A s \in Steps : (s \notin inFlight /\ s \in inFlight') =>
            /\ s \notin invoked
            /\ \A r \in Ready : Order[s] <= Order[r]]_vars
  <2> SUFFICES ASSUME IInv, [Next]_vars, NEW s \in Steps,
                      s \notin inFlight, s \in inFlight'
               PROVE  s \notin invoked /\ \A r \in Ready : Order[s] <= Order[r]
    OBVIOUS
  <2>1. PICK t \in Steps : Claim(t)
    BY OnlyClaims
  <2>2. s = t
    BY <2>1 DEF Claim
  <2>3. s \in Ready /\ \A r \in Ready : Order[s] <= Order[r]
    BY <2>1, <2>2 DEF Claim, FirstOf
  <2> QED BY <2>3 DEF IInv, QuietInv, Ready, Waiting
<1> QED
  BY <1>1, Invariant, PTL DEF Spec, InvokedOnceInOrder

\* Recorded outcomes are final, and so is the state of an execution that ended.
THEOREM OutcomesFinalHolds == Spec => OutcomesFinal
<1> DEFINE Final ==
       /\ completed \subseteq completed' /\ failed \subseteq failed'
       /\ cancelled \subseteq cancelled' /\ skipped \subseteq skipped'
       /\ state \in {"COMPLETED", "FAILED", "CANCELLED"} => state' = state
<1>1. IInv /\ [Next]_vars => [Final]_vars
  <2> SUFFICES ASSUME IInv, Next PROVE Final
    OBVIOUS
  <2> USE DEF IInv, TypeOK, RtTypeOK
  <2>1. CASE Request
    BY <2>1 DEF Request, Pause, Resume, Cancel, PauseRequest, ResumeRequest,
         CancelRequest, CancelTarget, RequestTransition, EnginePause, EngineCancel,
         Legal, queueVars, recordVars
  <2>2. CASE Run
    BY <2>2 DEF Run, recordVars
  <2>3. CASE Drained \/ BeginCancel \/ Decide \/ AwaitTasks \/ Blocked \/ Wake \/ RecordEnd
    BY <2>3 DEF Drained, BeginCancel, Decide, AwaitTasks, Blocked, Wake, RecordEnd,
         IfRunning, Prepared, rtVars, recordVars
  <2>4. CASE EndCancel \/ EndFail
    BY <2>4 DEF EndCancel, EndFail, CancelSettled, IfRunning, recordVars
  <2>5. ASSUME NEW s \in Steps,
               Claim(s) \/ RecordOk(s) \/ RecordCancelled(s) \/ RecordError(s)
        PROVE  Final
    BY <2>5 DEF Claim, RecordOk, RecordCancelled, RecordError, Take, recordVars
  <2>6. ASSUME NEW s \in Steps, NEW o \in Outcomes, Finish(s, o) PROVE Final
    BY <2>6 DEF Finish, rtVars
  <2> QED BY <2>1, <2>2, <2>3, <2>4, <2>5, <2>6 DEF Next, Loop, Handler
<1> QED
  BY <1>1, Invariant, PTL DEF Spec, OutcomesFinal

-----------------------------------------------------------------------------
(* The refinement.                                                          *)

\* What the abstract status of a step is, given the ledger.
LEMMA StatusValue ==
    ASSUME IInv, NEW s \in Steps
    PROVE  /\ StepStatus[s] = "started" <=> s \in inFlight
           /\ StepStatus[s] = "waiting" <=> s \in Waiting
           /\ StepStatus[s] \in {"completed", "skipped"} <=> s \in completed \cup skipped
BY DEF StepStatus, IInv, Ledger, Terminal, OneOutcome, Waiting

\* A request, or a step of the loop that records nothing, moves the gate.
LEMMA GateMoves ==
    ASSUME IInv, StepStatus' = StepStatus,
           state \in {"COMPLETED", "FAILED", "CANCELLED"} => state' = state
    PROVE  [Promise!Next]_<<Gate, StepStatus>>
<1>1. CASE Gate = "ended"
  <2>1. state' = state
    BY <1>1 DEF Gate, GateOf
  <2> QED BY <2>1 DEF Gate, GateOf
<1>2. CASE Gate # "ended"
  <2>1. Gate' \in {"open", "closed", "ended"}
    BY DEF Gate, GateOf
  <2> QED BY <1>2, <2>1 DEF Promise!Next, Promise!MoveGate
<1> QED BY <1>1, <1>2

\* A claim starts one step of the promise.
LEMMA ClaimStarts ==
    ASSUME IInv, NEW s \in Steps, Claim(s)
    PROVE  Promise!Start({s})
<1> USE DEF IInv, TypeOK, RtTypeOK
<1>1. Gate = "open" /\ Gate' = Gate
  BY DEF Gate, GateOf, TasksInv, Claim
<1>2. s \in Waiting /\ Deps[s] \subseteq completed \cup skipped
  BY DEF Claim, FirstOf, Ready, Waiting, TasksInv
<1>3. StepStatus[s] = "waiting"
  BY <1>2, StatusValue
<1>4. \A d \in Deps[s] : Promise!Unblocks(d)
  BY <1>2, StatusValue, WorkflowAssumption DEF Promise!Unblocks
<1>5. Promise!Cardinality(Promise!Started \cup {s}) <= MaxParallelism
  <2>1. Promise!Started = inFlight
    BY StatusValue DEF Promise!Started
  <2>2. inFlight = active /\ s \notin active
    BY <1>2 DEF QuietInv, TasksInv, Waiting, Ledger, Claim
  <2>3. IsFiniteSet(active)
    BY WorkflowAssumption, FS_Subset
  <2>4. Cardinality(active \cup {s}) = Cardinality(active) + 1
        /\ Cardinality(active) \in Nat
    BY <2>2, <2>3, FS_AddElement, FS_CardinalityType
  <2>5. Cardinality(active) < MaxParallelism
    BY DEF Claim, CanClaim
  <2>6. Promise!Cardinality(active \cup {s}) = Cardinality(active \cup {s})
    BY DEF Promise!Cardinality, Cardinality
  <2> QED BY <2>1, <2>2, <2>4, <2>5, <2>6, AsyncAssumption
<1>6. StepStatus' = [t \in Steps |-> IF t \in {s} THEN "started" ELSE StepStatus[t]]
  BY <1>2 DEF StepStatus, Claim, recordVars, Waiting, Ledger, Terminal
<1>7. \A t \in {s} : StepStatus[t] = "waiting" /\ \A d \in Deps[t] : Promise!Unblocks(d)
  BY <1>3, <1>4
<1> QED
  BY <1>1, <1>5, <1>6, <1>7 DEF Promise!Start

\* Recording a result settles one step of the promise.
LEMMA RecordSettles ==
    ASSUME IInv, NEW s \in Steps,
           RecordOk(s) \/ RecordCancelled(s) \/ RecordError(s)
    PROVE  \E o \in Promise!Outcomes : Promise!Settle(s, o)
<1> USE DEF IInv, TypeOK, RtTypeOK, Ledger, Terminal, TasksInv, Take
<1>1. s \in inFlight
  BY DEF RecordOk, RecordCancelled, RecordError
<1>2. Gate' = Gate
  BY DEF RecordOk, RecordCancelled, RecordError, Gate, GateOf
<1>3. StepStatus[s] = "started"
  BY <1>1, StatusValue
<1>4. CASE RecordOk(s)
  <2>1. PICK o \in {"completed", "skipped"} :
          StepStatus' = [t \in Steps |-> IF t = s THEN o ELSE StepStatus[t]]
    <3>1. CASE completed \in RunsOn[s]
      BY <1>1, <1>4, <3>1 DEF RecordOk, StepStatus
    <3>2. CASE completed \notin RunsOn[s]
      BY <1>1, <1>4, <3>2 DEF RecordOk, StepStatus
    <3> QED BY <3>1, <3>2
  <2>2. StepStatus' = [StepStatus EXCEPT ![s] = o]
    BY <2>1 DEF StepStatus
  <2> QED BY <1>2, <1>3, <2>1, <2>2 DEF Promise!Settle, Promise!Outcomes
<1>5. CASE RecordCancelled(s)
  <2>1. StepStatus' = [t \in Steps |-> IF t = s THEN "cancelled" ELSE StepStatus[t]]
    BY <1>1, <1>5 DEF RecordCancelled, StepStatus
  <2>2. StepStatus' = [StepStatus EXCEPT ![s] = "cancelled"]
    BY <2>1 DEF StepStatus
  <2> QED BY <1>2, <1>3, <2>2 DEF Promise!Settle, Promise!Outcomes
<1>6. CASE RecordError(s)
  <2>1. StepStatus' = [t \in Steps |-> IF t = s THEN "failed" ELSE StepStatus[t]]
    BY <1>1, <1>6 DEF RecordError, StepStatus
  <2>2. StepStatus' = [StepStatus EXCEPT ![s] = "failed"]
    BY <2>1 DEF StepStatus
  <2> QED BY <1>2, <1>3, <2>2 DEF Promise!Settle, Promise!Outcomes
<1> QED BY <1>4, <1>5, <1>6

\* Both cancellations cancel steps of the promise that have not settled.
LEMMA CancelCancels ==
    ASSUME IInv, EngineCancel \/ EndCancel
    PROVE  \E S \in SUBSET Steps : Promise!CancelSteps(S)
<1> USE DEF IInv, TypeOK, RtTypeOK, Ledger, Terminal, Waiting
<1>1. CASE EngineCancel
  <2>1. Gate # "ended" /\ Gate' \in {"closed", "ended"}
    BY <1>1 DEF EngineCancel, Gate, GateOf, Legal, CancelTarget
  <2>2. StepStatus' = [s \in Steps |-> IF s \in Waiting THEN "cancelled" ELSE StepStatus[s]]
    BY <1>1 DEF EngineCancel, StepStatus
  <2>3. \A s \in Waiting : StepStatus[s] = "waiting"
    BY StatusValue
  <2> QED BY <2>1, <2>2, <2>3 DEF Promise!CancelSteps
<1>2. CASE EndCancel
  <2> DEFINE S == active \cup Waiting
  <2>1. Gate # "ended" /\ Gate' \in {"closed", "ended"}
    BY <1>2 DEF EndCancel, Gate, GateOf, CancelSettled, QuietInv
  <2>2. StepStatus' = [s \in Steps |-> IF s \in S THEN "cancelled" ELSE StepStatus[s]]
    BY <1>2 DEF EndCancel, StepStatus
  <2>3. \A s \in S : StepStatus[s] \in {"waiting", "started"}
    BY StatusValue
  <2>4. S \in SUBSET Steps
    OBVIOUS
  <2> HIDE DEF S
  <2> QED BY <2>1, <2>2, <2>3, <2>4 DEF Promise!CancelSteps
<1> QED BY <1>1, <1>2

\* The asyncio driver implements the promise: it starts a step only through an
\* open gate with its dependencies met, and every outcome is final.
THEOREM Refinement == Spec => Promised
<1>1. Init => Promise!Init
  BY DEF Init, RtInit, Promise!Init, Gate, GateOf, StepStatus
<1>2. IInv /\ [Next]_vars => [Promise!Next]_<<Gate, StepStatus>>
  <2> SUFFICES ASSUME IInv, [Next]_vars
               PROVE  [Promise!Next]_<<Gate, StepStatus>>
    OBVIOUS
  <2>1. CASE Pause \/ Resume \/ Cancel \/ EnginePause
    <3>1. StepStatus' = StepStatus
      BY <2>1 DEF Pause, Resume, Cancel, PauseRequest, ResumeRequest, CancelRequest,
           RequestTransition, EnginePause, queueVars, recordVars, StepStatus
    <3>2. state \notin {"COMPLETED", "FAILED", "CANCELLED"}
      BY <2>1 DEF Pause, Resume, Cancel, PauseRequest, ResumeRequest, CancelRequest,
           CancelTarget, RequestTransition, EnginePause, Legal
    <3> QED BY <3>1, <3>2, GateMoves
  <2>2. CASE EngineCancel \/ EndCancel
    BY <2>2, CancelCancels DEF Promise!Next
  <2>3. CASE Run \/ Drained \/ BeginCancel \/ Decide \/ AwaitTasks \/ Blocked
             \/ Wake \/ RecordEnd \/ EndFail
    <3>1. StepStatus' = StepStatus
      BY <2>3 DEF Run, Drained, BeginCancel, Decide, AwaitTasks, Blocked, Wake,
           RecordEnd, EndFail, queueVars, recordVars, rtVars, StepStatus
    <3>2. state \in {"COMPLETED", "FAILED", "CANCELLED"} => state' = state
      BY <2>3 DEF Run, Drained, BeginCancel, Decide, AwaitTasks, Blocked, Wake,
           RecordEnd, EndFail, IfRunning, Prepared, rtVars
    <3> QED BY <3>1, <3>2, GateMoves
  <2>4. ASSUME NEW s \in Steps, Claim(s)
        PROVE  [Promise!Next]_<<Gate, StepStatus>>
    BY <2>4, ClaimStarts DEF Promise!Next
  <2>5. ASSUME NEW s \in Steps, RecordOk(s) \/ RecordCancelled(s) \/ RecordError(s)
        PROVE  [Promise!Next]_<<Gate, StepStatus>>
    BY <2>5, RecordSettles DEF Promise!Next
  <2>6. CASE UNCHANGED rtVars
    BY <2>6 DEF rtVars, Gate, GateOf, StepStatus
  <2> QED
    BY <2>1, <2>2, <2>3, <2>4, <2>5, <2>6
       DEF Next, Request, Loop, Handler, Finish, vars, rtVars
<1> QED
  BY <1>1, <1>2, Invariant, PTL
     DEF Spec, Promised, Promise!Spec, Promise!promiseVars
=============================================================================
