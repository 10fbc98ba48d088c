---------------------------- MODULE TaskScheduler ----------------------------
(***************************************************************************)
(* TikTokAITaskScheduler (tiktok/task_scheduler/service.py): tasks, the    *)
(* queues they wait in, workers with a capacity, and the executions that   *)
(* join the two, with retries, checkpoint recovery, cancellation, pauses   *)
(* and the kill switch.                                                    *)
(*                                                                         *)
(* Each method is one atomic action, except execute: it calls out to a     *)
(* port twice (preflight, execute), and while it is there (at = "preflight"*)
(* or "port") the other methods may be called.  One tenant and workspace   *)
(* is modelled.  The clock only matters through what is due: a delay or a  *)
(* start time passes at any moment.                                        *)
(***************************************************************************)
EXTENDS Naturals, Sequences, FiniteSets, FiniteSetsExt

CONSTANTS
    Tasks, Workers,
    Capacity,            \* of each worker
    Priority,            \* of each task
    NeedsApproval,       \* publishing jobs and interaction tasks
    Restricted,          \* tasks whose metadata marks a restriction or challenge
    StartsLater,         \* tasks whose schedule has a start time to come
    SuccessDeps,         \* pairs <<task, depends_on>> requiring success
    CompletionDeps,      \* pairs <<task, depends_on>> requiring completion
    MaximumAttempts,     \* retry_policy.maximum_attempts
    MaximumRecoveries,   \* limits.maximum_recovery_attempts
    MaximumQueueDepth,   \* limits.maximum_queue_depth
    MaximumConcurrent,   \* limits.maximum_concurrent_executions
    Calls,               \* which of the calls "cancel", "fail" and "stale"
                         \* (an execution id that has ended) callers make
    OperatorTargets,     \* the statuses callers pass to transition()
    MaximumExecutions    \* bound of the model on the executions created

ASSUME SchedulerAssumption ==
    /\ Capacity \in [Workers -> 1..100]
    /\ Priority \in [Tasks -> 1..100]
    /\ SuccessDeps \subseteq Tasks \X Tasks
    /\ CompletionDeps \subseteq Tasks \X Tasks
    /\ {MaximumAttempts, MaximumRecoveries, MaximumQueueDepth,
        MaximumConcurrent, MaximumExecutions} \subseteq Nat

VARIABLES
    status,     \* ScheduledTask.status
    approved,   \* whether approval_reference is set
    queue,      \* queue[q][t]: how often t is in the deque q
    delay,      \* delayed_until[t]: "none", "waiting" or "due"
    later,      \* whether the schedule's start time is still to come
    load,       \* Worker.current_load
    healthy,    \* Worker.health = "healthy"
    exec,       \* executions, in the order of their creation
    saved,      \* the executions that have a checkpoint
    recovered,  \* recovery_attempts of each task
    kill,       \* kill_switch
    paused      \* the workspace, or the account or feature, is paused

vars == <<status, approved, queue, delay, later, load, healthy, exec, saved,
          recovered, kill, paused>>

Statuses == {"DRAFT", "PENDING_APPROVAL", "READY", "QUEUED", "SCHEDULED",
             "ALLOCATED", "RUNNING", "PAUSED", "RETRYING", "RECOVERING",
             "COMPLETED", "FAILED", "CANCELLED", "ARCHIVED", "DELETED"}

\* TRANSITIONS
Legal ==
    [s \in Statuses |->
      CASE s = "DRAFT"            -> {"PENDING_APPROVAL", "READY", "CANCELLED"}
        [] s = "PENDING_APPROVAL" -> {"READY", "CANCELLED"}
        [] s = "READY"            -> {"QUEUED", "SCHEDULED", "CANCELLED"}
        [] s = "SCHEDULED"        -> {"QUEUED", "PAUSED", "CANCELLED"}
        [] s = "QUEUED"           -> {"ALLOCATED", "PAUSED", "CANCELLED"}
        [] s = "ALLOCATED"        -> {"RUNNING", "QUEUED", "FAILED", "CANCELLED"}
        [] s = "RUNNING"          -> {"PAUSED", "RETRYING", "RECOVERING",
                                      "COMPLETED", "FAILED", "CANCELLED"}
        [] s = "PAUSED"           -> {"READY", "QUEUED", "CANCELLED"}
        [] s = "RETRYING"         -> {"QUEUED", "FAILED", "CANCELLED"}
        [] s = "RECOVERING"       -> {"QUEUED", "FAILED", "CANCELLED"}
        [] s \in {"COMPLETED", "CANCELLED"} -> {"ARCHIVED"}
        [] s = "FAILED"           -> {"RETRYING", "RECOVERING", "ARCHIVED"}
        [] s = "ARCHIVED"         -> {"DELETED"}
        [] OTHER                  -> {}]

Queues == {"global", "retry", "recovery", "delayed", "dead_letter"}

Init ==
    /\ status = [t \in Tasks |-> "DRAFT"]
    /\ approved = [t \in Tasks |-> FALSE]
    /\ queue = [q \in Queues |-> [t \in Tasks |-> 0]]
    /\ delay = [t \in Tasks |-> "none"]
    /\ later = [t \in Tasks |-> t \in StartsLater]
    /\ load = [w \in Workers |-> 0]
    /\ healthy = [w \in Workers |-> TRUE]
    /\ exec = <<>>
    /\ saved = {}
    /\ recovered = [t \in Tasks |-> 0]
    /\ kill = FALSE
    /\ paused = FALSE

-----------------------------------------------------------------------------
(* Queueing.                                                                *)

Depth == MapThenSumSet(LAMBDA p : queue[p[1]][p[2]], Queues \X Tasks)

Settled == {"COMPLETED", "FAILED", "CANCELLED"}

\* Mutant: a failed dependency counts as satisfied.
MutantDependenciesReady(t) ==
    \A p \in SuccessDeps \cup CompletionDeps : p[1] = t => status[p[2]] \in Settled

\* Mutant: a completion dependency is taken for an optional one.
MutantOptional(t) == \A p \in SuccessDeps : p[1] = t => status[p[2]] = "COMPLETED"

\* _dependencies_ready
DependenciesReady(t) ==
    /\ \A p \in SuccessDeps : p[1] = t => status[p[2]] = "COMPLETED"
    /\ \A p \in CompletionDeps : p[1] = t => status[p[2]] \in Settled

\* What enqueue checks besides the status of the task.
MayEnqueue(t) ==
    /\ ~kill /\ ~paused
    /\ Depth < MaximumQueueDepth
    /\ DependenciesReady(t)

Queueable == {"READY", "SCHEDULED", "RETRYING", "RECOVERING"}

\* enqueue: a task whose start time is to come goes to the delayed queue.
Enqueued(t, q) ==
    [queue EXCEPT ![IF later[t] THEN "delayed" ELSE q][t] = @ + 1]

\* Mutant: the task is put in the delayed queue without its due time.
MutantDelayAfter(t, d) == [delay EXCEPT ![t] = d]

\* delayed_until once enqueue has run: the start time replaces the value d.
DelayAfter(t, d) == [delay EXCEPT ![t] = IF later[t] THEN "waiting" ELSE d]

Enqueue(t) ==
    /\ status[t] \in Queueable
    /\ MayEnqueue(t)
    /\ status' = [status EXCEPT ![t] = "QUEUED"]
    /\ queue' = Enqueued(t, "global")
    /\ delay' = DelayAfter(t, delay[t])
    /\ UNCHANGED <<approved, later, load, healthy, exec, saved, recovered, kill, paused>>

\* utcnow() passes delayed_until[t], and the start time of the schedule.
TimePasses(t) ==
    /\ delay[t] = "waiting" \/ later[t]
    /\ delay' = [delay EXCEPT ![t] = IF @ = "waiting" THEN "due" ELSE @]
    /\ later' = [later EXCEPT ![t] = FALSE]
    /\ UNCHANGED <<status, approved, queue, load, healthy, exec, saved, recovered, kill, paused>>

Due == {t \in Tasks : delay[t] = "due"}

\* promote_due: every due task leaves the delayed queue, if it is there, and
\* is appended to the global one in any case.
PromoteDue ==
    /\ Due # {}
    /\ queue' = [q \in Queues |-> [t \in Tasks |->
          CASE t \in Due /\ q = "delayed" /\ queue[q][t] > 0 -> queue[q][t] - 1
            [] t \in Due /\ q = "global" -> queue[q][t] + 1
            [] OTHER -> queue[q][t]]]
    /\ delay' = [t \in Tasks |-> IF t \in Due THEN "none" ELSE delay[t]]
    /\ UNCHANGED <<status, approved, later, load, healthy, exec, saved, recovered, kill, paused>>

-----------------------------------------------------------------------------
(* Lifecycle requests.                                                      *)

\* transition(), called directly.
Transition(t, s) ==
    /\ s \in OperatorTargets \cap Legal[status[t]]
    /\ status' = [status EXCEPT ![t] = s]
    /\ UNCHANGED <<approved, queue, delay, later, load, healthy, exec, saved, recovered, kill, paused>>

Approve(t) ==
    /\ status[t] = "PENDING_APPROVAL"
    /\ approved' = [approved EXCEPT ![t] = TRUE]
    /\ status' = [status EXCEPT ![t] = "READY"]
    /\ UNCHANGED <<queue, delay, later, load, healthy, exec, saved, recovered, kill, paused>>

\* set_pause
SetPause ==
    /\ \/ kill' = ~kill /\ UNCHANGED paused
       \/ paused' = ~paused /\ UNCHANGED kill
    /\ UNCHANGED <<status, approved, queue, delay, later, load, healthy, exec, saved, recovered>>

\* heartbeat_worker
Heartbeat(w) ==
    /\ healthy' = [healthy EXCEPT ![w] = ~@]
    /\ UNCHANGED <<status, approved, queue, delay, later, load, exec, saved, recovered, kill, paused>>

-----------------------------------------------------------------------------
(* Dispatch.                                                                *)

Live == {"ALLOCATED", "RUNNING"}

RunningExecutions == {i \in DOMAIN exec : exec[i].status = "RUNNING"}

Candidates ==
    {t \in Tasks : status[t] = "QUEUED"
                   /\ \E q \in Queues \ {"delayed"} : queue[q][t] > 0}

\* _effective_priority: age adds up to 40, at most 100 in total.
Aged(t) == IF Priority[t] + 40 > 100 THEN 100 ELSE Priority[t] + 40

Available(w) == healthy[w] /\ load[w] < Capacity[w]

\* dispatch_next: max() over the candidates, the first available worker; the
\* entry removed is in whichever queue was created first.
Dispatch(t, w, q) ==
    /\ ~kill
    /\ Cardinality(RunningExecutions) < MaximumConcurrent
    /\ t \in Candidates
    /\ \A u \in Candidates : Priority[u] <= Aged(t)
    /\ Available(w)
    /\ queue[q][t] > 0
    /\ Len(exec) < MaximumExecutions
    /\ queue' = [queue EXCEPT ![q][t] = @ - 1]
    /\ load' = [load EXCEPT ![w] = @ + 1]
    /\ status' = [status EXCEPT ![t] = "ALLOCATED"]
    /\ exec' = Append(exec, [task |-> t, worker |-> w, status |-> "ALLOCATED",
                             attempt |-> 1, cancel |-> FALSE, at |-> "out",
                             released |-> FALSE])
    /\ UNCHANGED <<approved, delay, later, healthy, saved, recovered, kill, paused>>

-----------------------------------------------------------------------------
(* The end of an execution.                                                 *)

\* _release: every allocation of the task, and the worker's load.
Released(e, t) ==
    [i \in DOMAIN e |-> IF e[i].task = t THEN [e[i] EXCEPT !.released = TRUE] ELSE e[i]]

\* Mutant: only a healthy worker gets its slot back.
MutantLoadReleased(w) == IF healthy[w] THEN [load EXCEPT ![w] = @ - 1] ELSE load

LoadReleased(w) == [load EXCEPT ![w] = IF @ > 0 THEN @ - 1 ELSE 0]

\* Mutant: only a failure that cannot be retried is dead-lettered.
MutantDeadLettered(t, eligible) ==
    IF eligible THEN queue ELSE [queue EXCEPT !["dead_letter"][t] = @ + 1]

DeadLettered(t, eligible) == [queue EXCEPT !["dead_letter"][t] = @ + 1]

\* fail(execution, category): an eligible failure with attempts left is
\* retried, which enqueue may still refuse; the rest is dead-lettered.  When
\* the task cannot become FAILED, transition raises after the execution was
\* marked.  The execution is left where it is (at): outside, when execute calls
\* fail, or inside a call of execute that goes on, when another caller does.
FailBody(i, eligible, at) ==
    LET t == exec[i].task
        marked == [exec EXCEPT ![i].status = "FAILED", ![i].at = at]
        retry == eligible /\ exec[i].attempt < MaximumAttempts
    IN  /\ IF "FAILED" \notin Legal[status[t]]
           THEN exec' = marked /\ UNCHANGED <<status, queue, delay, load>>
           ELSE /\ load' = LoadReleased(exec[i].worker)
                /\ exec' = Released(IF retry THEN [marked EXCEPT ![i].attempt = @ + 1]
                                    ELSE marked, t)
                /\ IF ~retry
                   THEN /\ status' = [status EXCEPT ![t] = "FAILED"]
                        /\ queue' = DeadLettered(t, eligible)
                        /\ UNCHANGED delay
                   ELSE IF MayEnqueue(t)
                   THEN /\ status' = [status EXCEPT ![t] = "QUEUED"]
                        /\ queue' = Enqueued(t, "retry")
                        /\ delay' = DelayAfter(t, "waiting")
                   ELSE /\ status' = [status EXCEPT ![t] = "RETRYING"]
                        /\ delay' = [delay EXCEPT ![t] = "waiting"]
                        /\ UNCHANGED queue
        /\ UNCHANGED <<approved, later, healthy, saved, recovered, kill, paused>>

\* cancel_execution: the task follows where it still may; release always.
CancelBody(i) ==
    LET t == exec[i].task
    IN  /\ exec' = Released([exec EXCEPT ![i].status = "CANCELLED", ![i].cancel = TRUE], t)
        /\ load' = LoadReleased(exec[i].worker)
        /\ status' = IF status[t] \in Live THEN [status EXCEPT ![t] = "CANCELLED"]
                     ELSE status
        /\ UNCHANGED <<approved, queue, delay, later, healthy, saved, recovered, kill, paused>>

Callable(i) == exec[i].status \in Live \/ "stale" \in Calls

Fail(i, eligible) ==
    /\ "fail" \in Calls
    /\ Callable(i)
    /\ FailBody(i, eligible, exec[i].at)

Cancel(i) ==
    /\ "cancel" \in Calls
    /\ Callable(i)
    /\ CancelBody(i)

-----------------------------------------------------------------------------
(* execute: the gates, preflight, the port's work and the outcome.          *)

\* Mutant: the metadata is checked, the approval is not.
MutantGateDenies(t) == t \in Restricted

GateDenies(t) == (t \in NeedsApproval /\ ~approved[t]) \/ t \in Restricted

ExecuteDenied(i) ==
    /\ exec[i].at = "out" /\ Callable(i)
    /\ ~kill
    /\ status[exec[i].task] = "ALLOCATED"
    /\ GateDenies(exec[i].task)
    /\ FailBody(i, FALSE, "out")

Execute(i) ==
    /\ exec[i].at = "out" /\ Callable(i)
    /\ ~kill
    /\ status[exec[i].task] = "ALLOCATED"
    /\ ~GateDenies(exec[i].task)
    /\ status' = [status EXCEPT ![exec[i].task] = "RUNNING"]
    /\ exec' = [exec EXCEPT ![i].status = "RUNNING", ![i].at = "preflight"]
    /\ UNCHANGED <<approved, queue, delay, later, load, healthy, saved, recovered, kill, paused>>

\* preflight returns: a cancellation requested meanwhile is carried out.
PreflightDone(i) ==
    /\ exec[i].at = "preflight"
    /\ IF exec[i].cancel
       THEN /\ exec' = Released([exec EXCEPT ![i].status = "CANCELLED",
                                            ![i].at = "out"], exec[i].task)
            /\ load' = LoadReleased(exec[i].worker)
            /\ status' = IF status[exec[i].task] \in Live
                         THEN [status EXCEPT ![exec[i].task] = "CANCELLED"]
                         ELSE status
       ELSE exec' = [exec EXCEPT ![i].at = "port"] /\ UNCHANGED <<load, status>>
    /\ UNCHANGED <<approved, queue, delay, later, healthy, saved, recovered, kill, paused>>

\* The port returns: the task is COMPLETED, or, where it no longer may be,
\* transition raises into the handler that calls fail.
PortReturns(i) ==
    /\ exec[i].at = "port"
    /\ "COMPLETED" \in Legal[status[exec[i].task]]
    /\ status' = [status EXCEPT ![exec[i].task] = "COMPLETED"]
    /\ exec' = Released([exec EXCEPT ![i].status = "COMPLETED", ![i].at = "out"],
                        exec[i].task)
    /\ load' = LoadReleased(exec[i].worker)
    /\ UNCHANGED <<approved, queue, delay, later, healthy, saved, recovered, kill, paused>>

PortReturnsLate(i) ==
    /\ exec[i].at = "port"
    /\ "COMPLETED" \notin Legal[status[exec[i].task]]
    /\ FailBody(i, TRUE, "out")

\* preflight or the port raises: category UNKNOWN, which is retried.
PortRaises(i) ==
    /\ exec[i].at \in {"preflight", "port"}
    /\ FailBody(i, TRUE, "out")

-----------------------------------------------------------------------------
(* Checkpoints and recovery.                                                *)

CreateCheckpoint(i) ==
    /\ saved' = saved \cup {i}
    /\ UNCHANGED <<status, approved, queue, delay, later, load, healthy, exec, recovered, kill, paused>>

\* A slip: the other status TRANSITIONS would let pass.
MutantRecoverable(t) == status[t] \in {"FAILED", "RUNNING"}

RecoveriesLeft(t) == recovered[t] < MaximumRecoveries
Recoverable(t) == status[t] = "FAILED"

\* resume_checkpoint: the counters move and the task becomes RECOVERING before
\* enqueue is asked, and stay so when it refuses.
ResumeCheckpoint(i) ==
    LET t == exec[i].task
        moved == IF Recoverable(t) THEN "RECOVERING" ELSE status[t]
    IN  /\ i \in saved
        /\ t \notin Restricted
        /\ RecoveriesLeft(t)
        /\ recovered' = [recovered EXCEPT ![t] = @ + 1]
        /\ exec' = [exec EXCEPT ![i].attempt = @ + 1]
        /\ IF moved \in Queueable /\ MayEnqueue(t)
           THEN /\ status' = [status EXCEPT ![t] = "QUEUED"]
                /\ queue' = Enqueued(t, "recovery")
                /\ delay' = DelayAfter(t, delay[t])
           ELSE /\ status' = [status EXCEPT ![t] = moved]
                /\ UNCHANGED <<queue, delay>>
        /\ UNCHANGED <<approved, later, load, healthy, saved, kill, paused>>

-----------------------------------------------------------------------------

Next ==
    \/ \E t \in Tasks :
          \/ Enqueue(t) \/ TimePasses(t) \/ Approve(t)
          \/ \E s \in Statuses : Transition(t, s)
          \/ \E w \in Workers, q \in Queues : Dispatch(t, w, q)
    \/ \E w \in Workers : Heartbeat(w)
    \/ PromoteDue \/ SetPause
    \/ \E i \in DOMAIN exec :
          \/ ExecuteDenied(i) \/ Execute(i) \/ PreflightDone(i)
          \/ PortReturns(i) \/ PortReturnsLate(i) \/ PortRaises(i)
          \/ CreateCheckpoint(i) \/ ResumeCheckpoint(i) \/ Cancel(i)
          \/ \E eligible \in BOOLEAN : Fail(i, eligible)

Spec == Init /\ [][Next]_vars

-----------------------------------------------------------------------------
(* Properties.                                                              *)

Executions ==
    [task : Tasks, worker : Workers,
     status : {"ALLOCATED", "RUNNING", "COMPLETED", "FAILED", "CANCELLED"},
     attempt : Nat \ {0}, cancel : BOOLEAN,
     at : {"out", "preflight", "port"}, released : BOOLEAN]

TypeOK ==
    /\ status \in [Tasks -> Statuses]
    /\ approved \in [Tasks -> BOOLEAN]
    /\ queue \in [Queues -> [Tasks -> Nat]]
    /\ delay \in [Tasks -> {"none", "waiting", "due"}]
    /\ later \in [Tasks -> BOOLEAN]
    /\ load \in [Workers -> Nat]
    /\ healthy \in [Workers -> BOOLEAN]
    /\ exec \in Seq(Executions)
    /\ saved \subseteq DOMAIN exec
    /\ recovered \in [Tasks -> 0..MaximumRecoveries]
    /\ kill \in BOOLEAN /\ paused \in BOOLEAN

LiveOn(w) == {i \in DOMAIN exec : exec[i].worker = w /\ exec[i].status \in Live}

\* A worker's load is the number of its executions that have not ended, and
\* exactly those hold a reservation: no slot is leaked and none is freed twice
\* (dispatch_next, _release).
LoadMatches ==
    /\ \A w \in Workers : load[w] = Cardinality(LiveOn(w))
    /\ \A i \in DOMAIN exec : exec[i].released <=> exec[i].status \notin Live

\* A task has at most one execution under way, and it has one exactly while it
\* is ALLOCATED or RUNNING.
OneLiveExecution ==
    \A t \in Tasks :
        Cardinality({i \in DOMAIN exec : exec[i].task = t /\ exec[i].status \in Live})
          = IF status[t] \in Live THEN 1 ELSE 0

\* A QUEUED task can be dispatched now or after promote_due: the copies left in
\* several queues by retries and recoveries never hide it for good.
QueuedReachable ==
    \A t \in Tasks : status[t] = "QUEUED" =>
        delay[t] # "none" \/ \E q \in Queues \ {"delayed"} : queue[q][t] > 0

\* Failed work is never lost: a FAILED task is in the dead-letter queue.
FailedInDeadLetter ==
    \A t \in Tasks : status[t] = "FAILED" => queue["dead_letter"][t] > 0

\* No task that needs approval runs without it, and a restricted one never
\* runs, whatever route leads to execute.
GateHonoured ==
    \A t \in Tasks : status[t] = "RUNNING" =>
        t \notin Restricted /\ (t \in NeedsApproval => approved[t])

\* A task whose dependency requires success runs only after it succeeded.
SuccessFirst ==
    \A p \in SuccessDeps :
        status[p[1]] \in {"QUEUED", "ALLOCATED", "RUNNING", "COMPLETED"} =>
            status[p[2]] \in {"COMPLETED", "ARCHIVED", "DELETED"}

\* A task whose dependency requires completion is queued only after the other
\* was done with once: it still is, or a recovery has taken it up again.
CompletionFirst ==
    \A p \in CompletionDeps :
        status[p[1]] \in {"QUEUED", "ALLOCATED", "RUNNING", "COMPLETED"} =>
            status[p[2]] \in Settled \cup {"ARCHIVED", "DELETED"} \/ recovered[p[2]] > 0
=============================================================================
