--------------------------- MODULE WorkflowEngine ----------------------------
(***************************************************************************)
(* The synchronous driver of a workflow runtime: WorkflowEngine.resume and *)
(* _execute_runtime (engine.py) with the executor's step results, the      *)
(* checkpoints of checkpoint.py and the recovery of recovery.py.           *)
(*                                                                         *)
(* A batch of ready steps is claimed, its handlers run (in a thread pool   *)
(* when there are several), and then its results are recorded in order.    *)
(* Handlers may pause, cancel or checkpoint the runtime while the batch    *)
(* runs (pc = "exec"); the caller may while no call is in progress.  The   *)
(* process may be lost at any moment: Recover abandons everything but the  *)
(* last checkpoint taken and rebuilds the runtime from it.                 *)
(***************************************************************************)
EXTENDS WorkflowRuntime

CONSTANTS
    BatchLimit,    \* 1 in serial mode, max_parallelism in parallel mode
    MaxRecoveries  \* bound of the model on the number of recoveries

ASSUME EngineAssumption ==
    /\ BatchLimit \in Nat \ {0}
    /\ MaxRecoveries \in Nat

VARIABLES
    wfStatus,    \* Workflow.status, from RUNNING on
    pc,          \* where _execute_runtime is
    failFast,    \* fail_fast of the call in progress or the last one
    batch,       \* the claimed steps whose results are not yet recorded
    outcome,     \* what each step of the batch ended with
    saved,       \* the last checkpoint taken, or NoCheckpoint
    recoveries   \* how often the process was lost and recovered

engineVars == <<wfStatus, pc, failFast, batch, outcome, saved, recoveries>>
vars == <<state, pending, inFlight, satisfied, running, completed, failed,
          cancelled, skipped, wfStatus, pc, failFast, batch, outcome,
          saved, recoveries>>

NoCheckpoint == [state |-> "none"]

Outcomes == {"completed", "skipped", "failed", "raised"}

\* create_checkpoint, once the given state, queue and records hold.
Snapshot(st, run, can) ==
    [state |-> st, running |-> run, completed |-> completed,
     failed |-> failed, cancelled |-> can, skipped |-> skipped]

\* create_runtime on a definition whose Workflow has been set RUNNING.
Init ==
    /\ state = "RUNNING"
    /\ pending = Steps
    /\ inFlight = {} /\ satisfied = {} /\ running = {}
    /\ completed = {} /\ failed = {} /\ cancelled = {} /\ skipped = {}
    /\ wfStatus = "RUNNING"
    /\ pc = "idle"
    /\ failFast \in BOOLEAN
    /\ batch = {}
    /\ outcome = [s \in Steps |-> "none"]
    /\ saved = NoCheckpoint
    /\ recoveries = 0

-----------------------------------------------------------------------------
(* Requests, by the caller between calls or by a handler of the batch.      *)

MayRequest == pc \in {"idle", "exec"}

Pause ==
    /\ MayRequest
    /\ PauseRequest
    /\ UNCHANGED engineVars

Resume ==
    /\ MayRequest
    /\ ResumeRequest
    /\ UNCHANGED engineVars

Cancel ==
    /\ MayRequest
    /\ CancelRequest
    /\ UNCHANGED engineVars

\* WorkflowEngine.pause: request, prepare_dispatch, create_checkpoint.
EnginePause ==
    /\ MayRequest
    /\ "PAUSING" \in Legal[state]
    /\ state' = IF running = {} THEN "PAUSED" ELSE "PAUSING"
    /\ saved' = Snapshot(state', running, cancelled)
    /\ UNCHANGED <<queueVars, running, recordVars,
                   wfStatus, pc, batch, outcome, failFast, recoveries>>

\* WorkflowEngine.cancel: request, finish_cancel, create_checkpoint.
EngineCancel ==
    /\ MayRequest
    /\ CancelTarget \in Legal[state]
    /\ cancelled' = cancelled \cup Waiting
    /\ pending' = pending \ Waiting
    /\ state' = IF CancelTarget = "CANCELLING" /\ running # {}
                THEN "CANCELLING" ELSE "CANCELLED"
    /\ saved' = Snapshot(state', running, cancelled')
    /\ UNCHANGED <<inFlight, satisfied, running, completed, failed, skipped,
                   wfStatus, pc, batch, outcome, failFast, recoveries>>

\* CheckpointManager.create_checkpoint called directly.
TakeCheckpoint ==
    /\ MayRequest
    /\ saved' = Snapshot(state, running, cancelled)
    /\ UNCHANGED <<rtVars, wfStatus, pc, batch, outcome, failFast, recoveries>>

-----------------------------------------------------------------------------
(* The loop of _execute_runtime.                                            *)

\* resume(workflow, runtime=runtime), with either fail_fast: only a RUNNING or
\* PAUSED workflow.
Call ==
    /\ pc = "idle"
    /\ failFast' \in BOOLEAN
    /\ wfStatus \in {"RUNNING", "PAUSED"}
    /\ wfStatus' = "RUNNING"
    /\ state' = IF state = "PAUSED" THEN "RESUMING" ELSE state
    /\ pc' = "top"
    /\ UNCHANGED <<queueVars, running, recordVars,
                   batch, outcome, saved, recoveries>>

\* workflow.cancel() where the workflow is still RUNNING or PAUSED.
WfCancelled ==
    IF wfStatus \in {"RUNNING", "PAUSED"} THEN "CANCELLED" ELSE wfStatus

\* A slip: the workflow is forgotten.
MutantWfPausedForgotten == wfStatus

\* workflow.pause() where the workflow is RUNNING.
WfPaused == IF wfStatus = "RUNNING" THEN "PAUSED" ELSE wfStatus

\* if runtime.cancel_requested, at the top of the loop.
CancelAtTop ==
    /\ pc = "top"
    /\ pending # {}
    /\ state = "CANCELLING"
    /\ cancelled' = cancelled \cup Waiting
    /\ pending' = pending \ Waiting
    /\ state' = CancelSettled(running)
    /\ wfStatus' = WfCancelled
    /\ saved' = Snapshot(state', running, cancelled')
    /\ pc' = "idle"
    /\ UNCHANGED <<inFlight, satisfied, running, completed, failed, skipped,
                   batch, outcome, failFast, recoveries>>

\* prepare_dispatch refuses: return PAUSED, or leave the loop.
HoldAtTop ==
    /\ pc = "top"
    /\ pending # {}
    /\ state # "CANCELLING"
    /\ ~MayDispatch
    /\ state' = Prepared
    /\ IF state' = "PAUSED"
       THEN /\ wfStatus' = WfPaused
            /\ saved' = Snapshot("PAUSED", running, cancelled)
            /\ pc' = "idle"
       ELSE pc' = "after" /\ UNCHANGED <<wfStatus, saved>>
    /\ UNCHANGED <<queueVars, running, recordVars, batch, outcome, failFast,
                   recoveries>>

\* except Exception: fail(), and the workflow is FAILED.
Raise(st) ==
    /\ state' = IF st = "RUNNING" THEN "FAILED" ELSE st
    /\ wfStatus' = IF wfStatus = "RUNNING" THEN "FAILED" ELSE wfStatus
    /\ batch' = {}
    /\ outcome' = [s \in Steps |-> "none"]
    /\ pc' = "idle"

BlockedAtTop ==
    /\ pc = "top"
    /\ pending # {}
    /\ state # "CANCELLING"
    /\ MayDispatch
    /\ Ready = {}
    /\ Raise(Prepared)
    /\ UNCHANGED <<queueVars, running, recordVars, saved, failFast, recoveries>>

\* A slip: one step too few.
MutantIsBatchShort(b) ==
    /\ b \subseteq Ready
    /\ Cardinality(b) = (IF Cardinality(Ready) < BatchLimit
                         THEN Cardinality(Ready) ELSE BatchLimit) - 1
    /\ \A s \in b, r \in Ready \ b : Order[s] < Order[r]

\* ready[:max_parallelism], or ready[:1].
IsBatch(b) ==
    /\ b \subseteq Ready
    /\ Cardinality(b) = IF Cardinality(Ready) < BatchLimit
                        THEN Cardinality(Ready) ELSE BatchLimit
    /\ \A s \in b, r \in Ready \ b : Order[s] < Order[r]

ClaimBatch ==
    /\ pc = "top"
    /\ state # "CANCELLING"
    /\ MayDispatch
    /\ Ready # {}
    /\ state' = Prepared
    /\ \E b \in SUBSET Ready :
          /\ IsBatch(b)
          /\ inFlight' = inFlight \cup b
          /\ running' = running \cup b
          /\ batch' = b
    /\ pc' = "exec"
    /\ UNCHANGED <<pending, satisfied, recordVars,
                   wfStatus, outcome, saved, failFast, recoveries>>

\* Executor.execute_result: SKIPPED when should_run fails; otherwise the
\* handler completes, fails its last attempt, or raises what the retry policy
\* does not catch.
Execute(s, o) ==
    /\ pc = "exec"
    /\ s \in batch
    /\ outcome[s] = "none"
    /\ (o = "skipped") <=> (completed \notin RunsOn[s])
    /\ outcome' = [outcome EXCEPT ![s] = o]
    /\ UNCHANGED <<rtVars, wfStatus, pc, batch, saved, failFast, recoveries>>

\* One step of the batch raised: no result of the batch is recorded.
BatchRaises ==
    /\ pc = "exec"
    /\ \A s \in batch : outcome[s] # "none"
    /\ \E s \in batch : outcome[s] = "raised"
    /\ Raise(state)
    /\ UNCHANGED <<queueVars, running, recordVars, saved, failFast, recoveries>>

BatchEnds ==
    /\ pc = "exec"
    /\ \A s \in batch : outcome[s] \notin {"none", "raised"}
    /\ pc' = "record"
    /\ UNCHANGED <<rtVars, wfStatus, batch, outcome, saved, failFast, recoveries>>

-----------------------------------------------------------------------------
(* Recording, in definition order.                                          *)

Take(s) ==
    /\ pc = "record"
    /\ s \in FirstOf(batch)
    /\ running' = running \ {s}
    /\ inFlight' = inFlight \ {s}
    /\ pending' = pending \ {s}
    /\ UNCHANGED <<cancelled, saved, failFast, recoveries>>

NextResult(s) ==
    /\ batch' = batch \ {s}
    /\ outcome' = [outcome EXCEPT ![s] = "none"]
    /\ UNCHANGED <<state, wfStatus, pc>>

RecordDone(s) ==
    /\ Take(s)
    /\ outcome[s] \in {"completed", "skipped"}
    /\ satisfied' = satisfied \cup {s}
    /\ IF outcome[s] = "completed"
       THEN completed' = completed \cup {s} /\ UNCHANGED skipped
       ELSE skipped' = skipped \cup {s} /\ UNCHANGED completed
    /\ NextResult(s)
    /\ UNCHANGED failed

\* continue_on_error
Excused(s) == s \in ContinueOnError

\* A failure raises under fail_fast, leaving the rest of the batch claimed;
\* continue_on_error unblocks the dependents instead.
RecordFailed(s) ==
    /\ Take(s)
    /\ outcome[s] = "failed"
    /\ failed' = failed \cup {s}
    /\ IF Excused(s)
       THEN satisfied' = satisfied \cup {s} /\ NextResult(s)
       ELSE UNCHANGED satisfied /\ IF failFast THEN Raise(state) ELSE NextResult(s)
    /\ UNCHANGED <<completed, skipped>>

RecordEnd ==
    /\ pc = "record"
    /\ batch = {}
    /\ pc' = IF failed # {} /\ failFast THEN "after" ELSE "top"
    /\ UNCHANGED <<rtVars, wfStatus, batch, outcome, saved, failFast, recoveries>>

LoopEnds ==
    /\ pc = "top"
    /\ pending = {}
    /\ pc' = "after"
    /\ UNCHANGED <<rtVars, wfStatus, batch, outcome, saved, failFast, recoveries>>

-----------------------------------------------------------------------------
(* After the loop: a last prepare_dispatch, then one of four endings.       *)

AfterCancelled ==
    /\ pc = "after"
    /\ state = "CANCELLING" \/ state = "CANCELLED"
    /\ LET waiting == IF state = "CANCELLING" THEN Waiting ELSE {}
       IN  /\ cancelled' = cancelled \cup waiting
           /\ pending' = pending \ waiting
    /\ state' = CancelSettled(running)
    /\ state' = "CANCELLED"
    /\ wfStatus' = WfCancelled
    /\ saved' = Snapshot(state', running, cancelled')
    /\ pc' = "idle"
    /\ UNCHANGED <<inFlight, satisfied, running, completed, failed, skipped,
                   batch, outcome, failFast, recoveries>>

AfterPaused ==
    /\ pc = "after"
    /\ Prepared = "PAUSED"
    /\ state' = "PAUSED"
    /\ wfStatus' = WfPaused
    /\ saved' = Snapshot("PAUSED", running, cancelled)
    /\ pc' = "idle"
    /\ UNCHANGED <<queueVars, running, recordVars, batch, outcome, failFast,
                   recoveries>>

\* fail() or complete(), and the workflow follows.  A cancel request that
\* finish_cancel cannot close (something is still marked as running) falls
\* through to here as well.
AfterEnded ==
    /\ pc = "after"
    /\ Prepared # "PAUSED"
    /\ CancelSettled(running) # "CANCELLED"
    /\ LET waiting == IF state = "CANCELLING" THEN Waiting ELSE {}
       IN  /\ cancelled' = cancelled \cup waiting
           /\ pending' = pending \ waiting
    /\ LET ending == IF failed # {} THEN "FAILED" ELSE "COMPLETED"
       IN  /\ state' = IF Prepared = "RUNNING" THEN ending ELSE Prepared
           /\ wfStatus' = ending
    /\ pc' = "idle"
    /\ UNCHANGED <<inFlight, satisfied, running, completed, failed, skipped,
                   batch, outcome, saved, failFast, recoveries>>

-----------------------------------------------------------------------------
(* Recovery in a new process from the last checkpoint: restore_runtime on a *)
(* fresh runtime.  The recovered workflow is RUNNING or PAUSED, which is    *)
(* what resume(workflow, snapshot) accepts.                                 *)

\* Slips: failed steps, or skipped ones, go back to the queue; failed steps
\* unblock their dependents.
MutantTerminalNoFailed(c) == c.completed \cup c.skipped \cup c.cancelled
MutantTerminalNoSkipped(c) == c.completed \cup c.failed \cup c.cancelled
MutantSatisfied(c) == c.completed \cup c.skipped \cup c.failed

\* WorkflowRuntime.restore: what leaves the queue, and what unblocks.
RestoredTerminal(c) == c.completed \cup c.skipped \cup c.failed \cup c.cancelled

RestoredSatisfied(c) == c.completed \cup c.skipped

Recover ==
    /\ saved # NoCheckpoint
    /\ recoveries < MaxRecoveries
    /\ state' = saved.state
    /\ running' = saved.running
    /\ completed' = saved.completed
    /\ failed' = saved.failed
    /\ cancelled' = saved.cancelled
    /\ skipped' = saved.skipped
    /\ pending' = Steps \ RestoredTerminal(saved)
    /\ satisfied' = RestoredSatisfied(saved)
    /\ inFlight' = {}
    /\ wfStatus' \in {"RUNNING", "PAUSED"}
    /\ pc' = "idle"
    /\ batch' = {}
    /\ outcome' = [s \in Steps |-> "none"]
    /\ recoveries' = recoveries + 1
    /\ UNCHANGED <<saved, failFast>>

-----------------------------------------------------------------------------

Request ==
    Pause \/ Resume \/ Cancel \/ EnginePause \/ EngineCancel \/ TakeCheckpoint

Loop ==
    \/ CancelAtTop \/ HoldAtTop \/ BlockedAtTop \/ ClaimBatch \/ LoopEnds
    \/ BatchRaises \/ BatchEnds \/ RecordEnd
    \/ AfterCancelled \/ AfterPaused \/ AfterEnded
    \/ \E s \in Steps : RecordDone(s) \/ RecordFailed(s)

Handler == \E s \in Steps, o \in Outcomes : Execute(s, o)

Next == Request \/ Call \/ Loop \/ Handler \/ Recover

Spec == Init /\ [][Next]_vars

\* The calling thread keeps running and every handler eventually returns.
Fairness ==
    /\ WF_vars(Loop)
    /\ \A s \in Steps : WF_vars(\E o \in Outcomes : Execute(s, o))

FairSpec == Spec /\ Fairness

-----------------------------------------------------------------------------
(* Properties.                                                              *)

Checkpoints ==
    [state : States, running : SUBSET Steps, completed : SUBSET Steps,
     failed : SUBSET Steps, cancelled : SUBSET Steps, skipped : SUBSET Steps]

TypeOK ==
    /\ RtTypeOK
    /\ wfStatus \in {"RUNNING", "PAUSED", "COMPLETED", "FAILED", "CANCELLED"}
    /\ pc \in {"idle", "top", "exec", "record", "after"}
    /\ failFast \in BOOLEAN
    /\ batch \in SUBSET Steps
    /\ outcome \in [Steps -> Outcomes \cup {"none"}]
    /\ saved \in Checkpoints \cup {NoCheckpoint}
    /\ recoveries \in 0..MaxRecoveries

\* No step is lost or counted twice, also across a recovery from any
\* checkpoint: a step is queued or has one outcome (restore_runtime,
\* mark_complete, mark_terminal, cancel_waiting).
Ledger ==
    /\ OneOutcome
    /\ pending = Steps \ Terminal
    /\ inFlight \subseteq pending \cap running
    /\ batch \subseteq inFlight

\* What a checkpoint records as terminal is never claimed after recovering
\* from it: the claim is for steps of the queue without an outcome only.
NoRepeat ==
    [][(inFlight' \ inFlight) \cap (Terminal \cup Terminal') = {}]_vars

\* When a call returns, the workflow's status and the runtime's state agree,
\* except that a batch that raises fails the workflow and leaves a pause or
\* cancel request of the runtime open.  A recovered workflow may disagree: a
\* checkpoint of a handler holds a request that is never closed.
StatusAgrees ==
    [][(pc # "idle" /\ pc' = "idle" /\ recoveries' = 0) =>
         \/ wfStatus' = state'
         \/ wfStatus' = "FAILED" /\ state' \in {"PAUSING", "CANCELLING"}]_vars

\* The record a checkpoint makes of the abstract execution.
Kept ==
    IF saved = NoCheckpoint THEN {}
    ELSE {[gate |-> GateOf(saved.state),
           status |-> [s \in Steps |->
               CASE s \in saved.completed -> "completed"
                 [] s \in saved.skipped   -> "skipped"
                 [] s \in saved.failed    -> "failed"
                 [] s \in saved.cancelled -> "cancelled"
                 [] OTHER                 -> "waiting"]]}

\* The synchronous driver implements the promise, with continue_on_error
\* tolerating a failure; losing the process takes it back to its checkpoint
\* and no further.
Promise == INSTANCE DurablePromise
    WITH gate <- Gate, status <- StepStatus, kept <- Kept,
         Tolerated <- ContinueOnError, Limit <- BatchLimit

Promised == Promise!DurableSpec

\* A pause or cancel request made by a handler ends the call with the
\* workflow paused or cancelled, unless the batch fails it or the process is
\* lost.
RequestsSettle ==
    (pc = "exec" /\ state \in {"PAUSING", "CANCELLING"} /\ recoveries = 0) ~>
        (recoveries > 0 \/ (pc = "idle" /\ wfStatus \in {"PAUSED", "CANCELLED", "FAILED"}))

\* A workflow that was never recovered and is COMPLETED has nothing left to
\* run and no failure that counts.
CompletedIsDrained ==
    (wfStatus = "COMPLETED" /\ recoveries = 0) => pending = {} /\ failed = {}

\* Every call of resume returns.
Returns == pc # "idle" ~> pc = "idle"
=============================================================================
