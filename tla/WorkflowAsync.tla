---------------------------- MODULE WorkflowAsync ----------------------------
(***************************************************************************)
(* Scheduler.run_runtime_async (scheduler.py): the asyncio driver of a     *)
(* workflow runtime, with the callers and handlers that pause, resume and  *)
(* cancel it.                                                              *)
(*                                                                         *)
(* Everything runs on one event loop, so code between two awaits is        *)
(* atomic.  pc says where the scheduler is; in "top", "claim" and "record" *)
(* it is running and no other action is enabled, in "wait", "cancelGather" *)
(* and "failGather" it is suspended in an await, and handlers finish and   *)
(* control requests arrive there (or while it is "idle").                  *)
(***************************************************************************)
EXTENDS WorkflowRuntime

CONSTANT MaxParallelism   \* max_parallelism

ASSUME AsyncAssumption == MaxParallelism \in Nat \ {0}

VARIABLES
    pc,        \* where run_runtime_async is
    failFast,  \* fail_fast of the call in progress or the last one
    active,    \* the steps whose asyncio task is in `active`
    done,      \* the tasks of the current `done` set not yet recorded
    outcome,   \* what a task of `active` has ended with
    invoked    \* history: the steps whose handler was called

asyncVars == <<pc, failFast, active, done, outcome, invoked>>
vars == <<state, pending, inFlight, satisfied, running,
          completed, failed, cancelled, skipped,
          pc, failFast, active, done, outcome, invoked>>

Suspended == {"wait", "cancelGather", "failGather"}
Outcomes == {"ok", "error", "cancelled"}

Init ==
    /\ RtInit
    /\ pc = "idle"
    /\ failFast \in BOOLEAN
    /\ active = {} /\ done = {} /\ invoked = {}
    /\ outcome = [s \in Steps |-> "none"]

-----------------------------------------------------------------------------
(* Requests of the caller or of a handler.  They run on the event loop, so  *)
(* only while the scheduler is suspended or not running.                    *)

MayRequest == pc \in Suspended \cup {"idle"}

Pause ==
    /\ MayRequest
    /\ PauseRequest
    /\ UNCHANGED asyncVars

Resume ==
    /\ MayRequest
    /\ ResumeRequest
    /\ UNCHANGED asyncVars

Cancel ==
    /\ MayRequest
    /\ CancelRequest
    /\ UNCHANGED asyncVars

\* WorkflowEngine.pause: the request, then prepare_dispatch.
EnginePause ==
    /\ MayRequest
    /\ "PAUSING" \in Legal[state]
    /\ state' = IF running = {} THEN "PAUSED" ELSE "PAUSING"
    /\ UNCHANGED <<queueVars, running, recordVars, asyncVars>>

\* WorkflowEngine.cancel: the request, then finish_cancel.
EngineCancel ==
    /\ MayRequest
    /\ CancelTarget \in Legal[state]
    /\ cancelled' = cancelled \cup Waiting
    /\ pending' = pending \ Waiting
    /\ state' = IF CancelTarget = "CANCELLING" /\ running # {}
                THEN "CANCELLING" ELSE "CANCELLED"
    /\ UNCHANGED <<inFlight, satisfied, running, completed, failed, skipped,
                   asyncVars>>

-----------------------------------------------------------------------------
(* The scheduler's loop.                                                    *)

\* The call, with either fail_fast: a PENDING runtime is started.
Run ==
    /\ pc = "idle"
    /\ failFast' \in BOOLEAN
    /\ pc' = "top"
    /\ state' = IF state = "PENDING" THEN "RUNNING" ELSE state
    /\ UNCHANGED <<queueVars, running, recordVars, active, done, outcome, invoked>>

\* while pending or active: ... nothing is left.
Drained ==
    /\ pc = "top"
    /\ pending = {} /\ active = {}
    /\ state' = IfRunning("COMPLETED")
    /\ pc' = "idle"
    /\ UNCHANGED <<queueVars, running, recordVars, failFast, active, done, outcome, invoked>>

\* if runtime.cancel_requested: every active task is cancelled, then awaited.
BeginCancel ==
    /\ pc = "top"
    /\ pending # {} \/ active # {}
    /\ state = "CANCELLING"
    /\ pc' = "cancelGather"
    /\ UNCHANGED <<rtVars, failFast, active, done, outcome, invoked>>

\* A slip: the loop goes on instead of ending when no task is active.
MutantHeldAt == IF active = {} THEN "top" ELSE "wait"

\* Where the loop goes when prepare_dispatch refuses.
HeldAt == IF active = {} THEN "idle" ELSE "wait"

\* Otherwise prepare_dispatch decides: claim, wait for what runs, or return.
Decide ==
    /\ pc = "top"
    /\ pending # {} \/ active # {}
    /\ state # "CANCELLING"
    /\ state' = Prepared
    /\ pc' = IF MayDispatch THEN "claim" ELSE HeldAt
    /\ UNCHANGED <<queueVars, running, recordVars, failFast, active, done, outcome, invoked>>

\* len(active) < max_parallelism and next_ready()
CanClaim == Cardinality(active) < MaxParallelism /\ Ready # {}

\* Dispatcher.claim and create_task(invoke(step)).  The task takes its first
\* step before the scheduler can wake: a handler whose condition fails there
\* is not called, and the task ends with an empty result.
Claim(s) ==
    /\ pc = "claim"
    /\ CanClaim
    /\ s \in FirstOf(Ready)
    /\ inFlight' = inFlight \cup {s}
    /\ running' = running \cup {s}
    /\ active' = active \cup {s}
    /\ IF completed \in RunsOn[s]
       THEN invoked' = invoked \cup {s} /\ UNCHANGED outcome
       ELSE outcome' = [outcome EXCEPT ![s] = "ok"] /\ UNCHANGED invoked
    /\ UNCHANGED <<state, pending, satisfied, recordVars, pc, failFast, done>>

AwaitTasks ==
    /\ pc = "claim"
    /\ ~CanClaim
    /\ active # {}
    /\ pc' = "wait"
    /\ UNCHANGED <<rtVars, failFast, active, done, outcome, invoked>>

\* Nothing is active and nothing is ready: fail(), raise ValueError.
Blocked ==
    /\ pc = "claim"
    /\ ~CanClaim
    /\ active = {}
    /\ state' = IfRunning("FAILED")
    /\ pc' = "idle"
    /\ UNCHANGED <<queueVars, running, recordVars, failFast, active, done, outcome, invoked>>

\* A task ends.  One that was cancelled may still return or raise.
Finish(s, o) ==
    /\ pc \in Suspended
    /\ s \in active
    /\ outcome[s] = "none"
    /\ outcome' = [outcome EXCEPT ![s] = o]
    /\ UNCHANGED <<rtVars, pc, failFast, active, done, invoked>>

Ended == {s \in active : outcome[s] # "none"}

\* asyncio.wait(active, FIRST_COMPLETED) returns whatever has ended by then.
Wake ==
    /\ pc = "wait"
    /\ Ended # {}
    /\ done' = Ended
    /\ pc' = "record"
    /\ UNCHANGED <<rtVars, failFast, active, outcome, invoked>>

-----------------------------------------------------------------------------
(* for task in done: the order of a set is arbitrary.                       *)

Take(s) ==
    /\ pc = "record"
    /\ s \in done
    /\ active' = active \ {s}
    /\ running' = running \ {s}
    /\ inFlight' = inFlight \ {s}
    /\ pending' = pending \ {s}
    /\ outcome' = [outcome EXCEPT ![s] = "none"]
    /\ UNCHANGED <<state, failFast, invoked>>

\* record(step, value): should_run is evaluated again, on today's results.
RecordOk(s) ==
    /\ Take(s)
    /\ outcome[s] = "ok"
    /\ satisfied' = satisfied \cup {s}
    /\ IF completed \in RunsOn[s]
       THEN completed' = completed \cup {s} /\ UNCHANGED skipped
       ELSE skipped' = skipped \cup {s} /\ UNCHANGED completed
    /\ done' = done \ {s}
    /\ UNCHANGED <<failed, cancelled, pc>>

\* except asyncio.CancelledError
RecordCancelled(s) ==
    /\ Take(s)
    /\ outcome[s] = "cancelled"
    /\ cancelled' = cancelled \cup {s}
    /\ done' = done \ {s}
    /\ UNCHANGED <<satisfied, completed, failed, skipped, pc>>

\* except Exception: with fail_fast the loop is left at once, the other tasks
\* are cancelled and awaited, and results still in `done` are dropped.
RecordError(s) ==
    /\ Take(s)
    /\ outcome[s] = "error"
    /\ failed' = failed \cup {s}
    /\ IF failFast
       THEN done' = {} /\ pc' = "failGather"
       ELSE done' = done \ {s} /\ UNCHANGED pc
    /\ UNCHANGED <<satisfied, completed, cancelled, skipped>>

RecordEnd ==
    /\ pc = "record"
    /\ done = {}
    /\ pc' = "top"
    /\ UNCHANGED <<rtVars, failFast, active, done, outcome, invoked>>

-----------------------------------------------------------------------------

\* After the gather of the cancel branch every active step is recorded as
\* cancelled, whatever its task returned; finish_cancel; break.
EndCancel ==
    /\ pc = "cancelGather"
    /\ Ended = active
    /\ running' = running \ active
    /\ inFlight' = inFlight \ active
    /\ cancelled' = cancelled \cup active \cup Waiting
    /\ pending' = (pending \ active) \ Waiting
    /\ active' = {}
    /\ outcome' = [s \in Steps |-> "none"]
    /\ state' = CancelSettled(running \ active)
    /\ pc' = "idle"
    /\ UNCHANGED <<satisfied, completed, failed, skipped, failFast, done, invoked>>

\* After the gather of the fail-fast branch: fail(), and the exception leaves
\* with the dispatcher and the running set as they are.
EndFail ==
    /\ pc = "failGather"
    /\ Ended = active
    /\ active' = {}
    /\ outcome' = [s \in Steps |-> "none"]
    /\ state' = IfRunning("FAILED")
    /\ pc' = "idle"
    /\ UNCHANGED <<queueVars, running, recordVars, failFast, done, invoked>>

-----------------------------------------------------------------------------

Request == Pause \/ Resume \/ Cancel \/ EnginePause \/ EngineCancel

Loop ==
    \/ Drained \/ BeginCancel \/ Decide \/ AwaitTasks \/ Blocked \/ Wake
    \/ RecordEnd \/ EndCancel \/ EndFail
    \/ \E s \in Steps :
          Claim(s) \/ RecordOk(s) \/ RecordCancelled(s) \/ RecordError(s)

Handler == \E s \in Steps, o \in Outcomes : Finish(s, o)

Next == Request \/ Run \/ Loop \/ Handler

Spec == Init /\ [][Next]_vars

\* The event loop runs whatever is ready and every handler eventually ends;
\* nothing obliges a caller to run or control the runtime.
Fairness ==
    /\ WF_vars(Loop)
    /\ \A s \in Steps : WF_vars(\E o \in Outcomes : Finish(s, o))

FairSpec == Spec /\ Fairness

-----------------------------------------------------------------------------
(* Properties.                                                              *)

TypeOK ==
    /\ RtTypeOK
    /\ pc \in {"idle", "top", "claim", "record"} \cup Suspended
    /\ failFast \in BOOLEAN
    /\ active \in SUBSET Steps
    /\ done \in SUBSET Steps
    /\ outcome \in [Steps -> Outcomes \cup {"none"}]
    /\ invoked \in SUBSET Steps

\* No step is lost or counted twice: whatever requests, failures and
\* cancellations do, each step is queued or has exactly one outcome, and what
\* is in flight is still queued (record, mark_complete, mark_terminal).
Ledger ==
    /\ OneOutcome
    /\ pending = Steps \ Terminal
    /\ inFlight \subseteq pending
    /\ running = inFlight
    /\ active \subseteq inFlight

\* A step is claimed, and so was ever started, only after each of its
\* dependencies completed or was skipped (next_ready, mark_terminal).
DependenciesFirst ==
    \A s \in inFlight \cup completed \cup skipped \cup failed \cup invoked :
        Deps[s] \subseteq completed \cup skipped

\* At most max_parallelism tasks exist.
ParallelismBound == Cardinality(active) <= MaxParallelism

\* A PAUSED or COMPLETED runtime has no work in progress.
SettledIsQuiet == state \in {"PAUSED", "COMPLETED"} => active = {}

\* After a pause or cancel request no further step is claimed until a resume
\* (prepare_dispatch before every claim).
NoClaimAfterRequest ==
    [][inFlight' \subseteq inFlight \/ (state = "RUNNING" /\ state' = "RUNNING")]_vars

\* A handler is never called twice, through any number of pauses, resumes and
\* runs; and steps start in definition order among those that are ready.
InvokedOnceInOrder ==
    [][\A s \in Steps : (s \notin inFlight /\ s \in inFlight') =>
          /\ s \notin invoked
          /\ \A r \in Ready : Order[s] <= Order[r]]_vars

\* Recorded outcomes are final and a terminal runtime stays as it is.
OutcomesFinal ==
    [][/\ completed \subseteq completed' /\ failed \subseteq failed'
       /\ cancelled \subseteq cancelled' /\ skipped \subseteq skipped'
       /\ state \in {"COMPLETED", "FAILED", "CANCELLED"} => state' = state]_vars

\* The asyncio driver implements the promise, with no tolerated failures.
Promise == INSTANCE WorkflowPromise
    WITH gate <- Gate, status <- StepStatus, Tolerated <- {}, Limit <- MaxParallelism

Promised == Promise!Spec

\* Every call of run_runtime_async returns or raises.
Returns == pc # "idle" ~> pc = "idle"

\* A cancel request made while steps are still waiting closes the run as
\* CANCELLED, unless a failing step ends it first (fail_fast) or an earlier run
\* that ended so has left steps marked as running.
CancelReached ==
    (pc # "idle" /\ state = "CANCELLING" /\ Waiting # {} /\ inFlight = active) ~>
        (state = "CANCELLED" \/ (failFast /\ failed # {}))
=============================================================================
