--------------------------- MODULE WorkflowRuntime ---------------------------
(***************************************************************************)
(* The state a workflow execution keeps and the operations that both of    *)
(* its drivers share: ExecutionContext and WorkflowRuntime (runtime.py),   *)
(* the Dispatcher (dispatch.py) and the transition table (control.py).     *)
(*                                                                         *)
(* This module has no next-state relation.  WorkflowAsync adds the asyncio *)
(* driver (scheduler.py), WorkflowEngine the synchronous driver with       *)
(* checkpoints and recovery (engine.py, checkpoint.py, recovery.py).       *)
(***************************************************************************)
EXTENDS Naturals, FiniteSets

CONSTANTS
    Steps,            \* the step names of the definition
    Order,            \* position of each step in the definition
    Deps,             \* dependency_names of each step
    RunsOn,           \* RunsOn[s]: the sets of named results on which
                      \* s.should_run(context) holds
    ContinueOnError   \* the steps declared with continue_on_error

ASSUME WorkflowAssumption ==
    /\ IsFiniteSet(Steps)
    /\ Order \in [Steps -> Nat]
    /\ \A s, t \in Steps : Order[s] = Order[t] => s = t
    /\ Deps \in [Steps -> SUBSET Steps]
    /\ RunsOn \in [Steps -> SUBSET SUBSET Steps]
    /\ ContinueOnError \subseteq Steps

VARIABLES
    state,       \* ExecutionContext.state
    pending,     \* Dispatcher.pending, as a set: Order keeps the list order
    inFlight,    \* Dispatcher.in_flight
    satisfied,   \* Dispatcher.completed: what unblocks a dependent step
    running,     \* ExecutionContext.running
    completed,   \* ExecutionContext.completed (and the names with a result)
    failed,      \* ExecutionContext.failed
    cancelled,   \* ExecutionContext.cancelled
    skipped      \* ExecutionContext.skipped

rtVars == <<state, pending, inFlight, satisfied, running,
            completed, failed, cancelled, skipped>>

queueVars == <<pending, inFlight, satisfied>>
recordVars == <<completed, failed, cancelled, skipped>>

States == {"PENDING", "RUNNING", "PAUSING", "PAUSED", "RESUMING",
           "CANCELLING", "CANCELLED", "COMPLETED", "FAILED"}

\* _TRANSITIONS: the permitted successors of each execution state.
Legal ==
    [s \in States |->
        CASE s = "PENDING"    -> {"RUNNING", "CANCELLED"}
          [] s = "RUNNING"    -> {"PAUSING", "CANCELLING", "COMPLETED", "FAILED"}
          [] s = "PAUSING"    -> {"PAUSED", "CANCELLING"}
          [] s = "PAUSED"     -> {"RESUMING", "CANCELLING"}
          [] s = "RESUMING"   -> {"RUNNING", "CANCELLING"}
          [] s = "CANCELLING" -> {"CANCELLED"}
          [] OTHER            -> {}]

(***************************************************************************)
(* A fresh WorkflowRuntime.  The Dispatcher is given context.completed,    *)
(* but an empty set is falsy, so it keeps a set of its own.                *)
(***************************************************************************)
RtInit ==
    /\ state = "PENDING"
    /\ pending = Steps
    /\ inFlight = {} /\ satisfied = {} /\ running = {}
    /\ completed = {} /\ failed = {} /\ cancelled = {} /\ skipped = {}

-----------------------------------------------------------------------------
(* Control requests: pause, resume and cancel validate the transition and   *)
(* raise, leaving the runtime as it was, when it is not in the table.       *)

RequestTransition(target) ==
    /\ target \in Legal[state]
    /\ state' = target
    /\ UNCHANGED <<running, queueVars, recordVars>>

PauseRequest == RequestTransition("PAUSING")

ResumeRequest == RequestTransition("RESUMING")

CancelTarget == IF state = "PENDING" THEN "CANCELLED" ELSE "CANCELLING"

CancelRequest == RequestTransition(CancelTarget)

-----------------------------------------------------------------------------
(* The dispatch decision.                                                   *)

\* Slips: the pause is granted with steps still running, or never.
MutantPreparedEarly ==
    CASE state = "RESUMING" -> "RUNNING"
      [] state = "PAUSING" -> "PAUSED"
      [] OTHER -> state
MutantPreparedNever == IF state = "RESUMING" THEN "RUNNING" ELSE state

\* prepare_dispatch: the state it leaves; it returns whether that is RUNNING.
Prepared ==
    CASE state = "RESUMING" -> "RUNNING"
      [] state = "PAUSING" /\ running = {} -> "PAUSED"
      [] OTHER -> state

\* A slip: a pause request still lets steps be claimed.
MutantMayDispatch == Prepared \in {"RUNNING", "PAUSING"}

MayDispatch == Prepared = "RUNNING"

\* Dispatcher.next_ready, as a set.
Ready == {s \in pending : Deps[s] \subseteq satisfied /\ s \notin inFlight}

\* A slip: any step of the list, as from a set.
MutantFirstOf(S) == S

\* The head of a list of steps kept in definition order, as a set.
FirstOf(S) == {s \in S : \A r \in S : Order[s] <= Order[r]}

\* A slip: the steps in flight are removed as well.
MutantWaiting == pending

\* Dispatcher.cancel_waiting: the queued steps that are not running.
Waiting == pending \ inFlight

\* A slip: the state is lost when the runtime is not RUNNING.
MutantIfRunning(target) == IF state = "RUNNING" THEN target ELSE "none"

\* complete and fail act only on a RUNNING runtime, and are silent otherwise.
IfRunning(target) == IF state = "RUNNING" THEN target ELSE state

\* A slip: the request is never closed.
MutantCancelSettled(run) == state

\* finish_cancel, given what is running by then: the state it leaves.
CancelSettled(run) ==
    IF state = "CANCELLING" /\ run = {} THEN "CANCELLED" ELSE state

-----------------------------------------------------------------------------
(* What holds of the runtime's bookkeeping under either driver.             *)

RtTypeOK ==
    /\ state \in States
    /\ pending \in SUBSET Steps
    /\ inFlight \in SUBSET Steps
    /\ satisfied \in SUBSET Steps
    /\ running \in SUBSET Steps
    /\ completed \in SUBSET Steps
    /\ failed \in SUBSET Steps
    /\ cancelled \in SUBSET Steps
    /\ skipped \in SUBSET Steps

Terminal == completed \cup failed \cup cancelled \cup skipped

\* The abstract view of the runtime (see WorkflowPromise).
GateOf(st) == CASE st \in {"RUNNING", "RESUMING"} -> "open"
                [] st \in {"CANCELLED", "COMPLETED", "FAILED"} -> "ended"
                [] OTHER -> "closed"

Gate == GateOf(state)

StepStatus ==
    [s \in Steps |-> CASE s \in completed -> "completed"
                       [] s \in skipped   -> "skipped"
                       [] s \in failed    -> "failed"
                       [] s \in cancelled -> "cancelled"
                       [] s \in inFlight  -> "started"
                       [] OTHER           -> "waiting"]

\* The terminal records are disjoint: a step has one outcome.
OneOutcome ==
    /\ completed \cap (failed \cup cancelled \cup skipped) = {}
    /\ failed \cap (cancelled \cup skipped) = {}
    /\ cancelled \cap skipped = {}
=============================================================================
