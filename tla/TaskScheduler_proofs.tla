------------------------ MODULE TaskScheduler_proofs -------------------------
(***************************************************************************)
(* Proofs about TaskScheduler, for any tasks, workers, limits, policies    *)
(* and dependencies.  Each theorem says which calls it takes callers to    *)
(* leave out, as none of the repository makes them.                        *)
(***************************************************************************)
EXTENDS TaskScheduler, FiniteSetTheorems, TLAPS

USE DEF Queues, Live, Queueable, Settled

\* The statuses from which fail() may make a task FAILED.
Failable == {"ALLOCATED", "RUNNING", "RETRYING", "RECOVERING"}

\* Where a call of execute is.
Places == {"out", "preflight", "port"}

LEMMA LegalFailed ==
    ASSUME NEW s \in Statuses
    PROVE  "FAILED" \in Legal[s] <=> s \in Failable
BY DEF Legal, Failable, Statuses

LEMMA LegalCompleted ==
    ASSUME NEW s \in Statuses
    PROVE  "COMPLETED" \in Legal[s] <=> s = "RUNNING"
BY DEF Legal, Statuses

-----------------------------------------------------------------------------
(* Types.                                                                   *)

\* A sequence of executions is a function on its indices.
LEMMA ExecutionSeq ==
    ASSUME NEW e \in Seq(Executions), NEW f,
           f = [i \in DOMAIN e |-> f[i]], \A i \in DOMAIN e : f[i] \in Executions
    PROVE  f \in Seq(Executions) /\ DOMAIN f = DOMAIN e /\ Len(f) = Len(e)
<1>1. DOMAIN e = 1..Len(e) /\ Len(e) \in Nat
  OBVIOUS
<1>2. f \in [1..Len(e) -> Executions]
  BY <1>1
<1> QED BY <1>1, <1>2

\* Changing one execution, or the reservations of a task, gives executions.
LEMMA ExecutionChange ==
    ASSUME NEW e \in Seq(Executions), NEW i \in DOMAIN e, NEW x \in Executions
    PROVE  [e EXCEPT ![i] = x] \in Seq(Executions) /\ DOMAIN [e EXCEPT ![i] = x] = DOMAIN e
<1> DEFINE f == [e EXCEPT ![i] = x]
<1>1. f = [j \in DOMAIN e |-> f[j]] /\ \A j \in DOMAIN e : f[j] \in Executions
  OBVIOUS
<1> HIDE DEF f
<1>2. f \in Seq(Executions) /\ DOMAIN f = DOMAIN e
  BY <1>1, ExecutionSeq
<1> QED BY <1>2 DEF f

LEMMA ReleasedType ==
    ASSUME NEW e \in Seq(Executions), NEW t
    PROVE  Released(e, t) \in Seq(Executions) /\ DOMAIN Released(e, t) = DOMAIN e
<1> DEFINE f == Released(e, t)
<1>1. f = [j \in DOMAIN e |-> f[j]]
  BY DEF Released
<1>2. \A j \in DOMAIN e : f[j] \in Executions
  <2>1. ASSUME NEW j \in DOMAIN e PROVE f[j] \in Executions
    <3>1. e[j] \in Executions
      OBVIOUS
    <3> QED BY <3>1 DEF Released, Executions
  <2> QED BY <2>1
<1> HIDE DEF f
<1>3. f \in Seq(Executions) /\ DOMAIN f = DOMAIN e
  BY <1>1, <1>2, ExecutionSeq
<1> QED BY <1>3 DEF f

\* Putting a task in a queue takes nothing out of any, and it is then in that
\* queue unless its start time sends it to the delayed one.
LEMMA EnqueuedFacts ==
    ASSUME TypeOK, NEW t \in Tasks, NEW q \in Queues
    PROVE  /\ Enqueued(t, q) \in [Queues -> [Tasks -> Nat]]
           /\ \A r \in Queues, u \in Tasks : Enqueued(t, q)[r][u] >= queue[r][u]
           /\ ~later[t] => Enqueued(t, q)[q][t] > 0
<1> DEFINE p == IF later[t] THEN "delayed" ELSE q
<1>1. p \in Queues /\ queue \in [Queues -> [Tasks -> Nat]]
  BY DEF TypeOK
<1>2. Enqueued(t, q) = [queue EXCEPT ![p][t] = queue[p][t] + 1]
  BY <1>1 DEF Enqueued
<1>3. ~later[t] => p = q
  OBVIOUS
<1> HIDE DEF p
<1> QED BY <1>1, <1>2, <1>3

LEMMA DeadLetteredFacts ==
    ASSUME TypeOK, NEW t \in Tasks, NEW eligible
    PROVE  /\ DeadLettered(t, eligible) \in [Queues -> [Tasks -> Nat]]
           /\ \A r \in Queues, u \in Tasks : DeadLettered(t, eligible)[r][u] >= queue[r][u]
           /\ DeadLettered(t, eligible)["dead_letter"][t] > 0
BY DEF TypeOK, DeadLettered

LEMMA DelayAfterType ==
    ASSUME TypeOK, NEW t \in Tasks, NEW d \in {"none", "waiting", "due"}
    PROVE  /\ DelayAfter(t, d) \in [Tasks -> {"none", "waiting", "due"}]
           /\ \A u \in Tasks \ {t} : DelayAfter(t, d)[u] = delay[u]
           /\ DelayAfter(t, d)[t] = IF later[t] THEN "waiting" ELSE d
BY DEF TypeOK, DelayAfter

LEMMA LoadReleasedType ==
    ASSUME TypeOK, NEW w \in Workers
    PROVE  LoadReleased(w) \in [Workers -> Nat]
BY DEF TypeOK, LoadReleased

LEMMA ExecutionFacts ==
    ASSUME TypeOK, NEW i \in DOMAIN exec
    PROVE  /\ exec \in Seq(Executions) /\ exec[i] \in Executions
           /\ exec[i].task \in Tasks /\ exec[i].worker \in Workers
           /\ status[exec[i].task] \in Statuses /\ exec[i].at \in Places
<1>1. exec \in Seq(Executions) /\ exec[i] \in Executions
  BY DEF TypeOK
<1>2. exec[i].task \in Tasks /\ exec[i].worker \in Workers
      /\ exec[i].at \in Places
  BY <1>1 DEF Executions, Places
<1> QED BY <1>1, <1>2 DEF TypeOK

\* fail() keeps the types, whatever the execution and its task are.
LEMMA FailTypes ==
    ASSUME TypeOK, NEW i \in DOMAIN exec, NEW eligible \in BOOLEAN,
           NEW at \in Places, FailBody(i, eligible, at)
    PROVE  TypeOK'
<1> DEFINE t == exec[i].task
           marked == [exec EXCEPT ![i].status = "FAILED", ![i].at = at]
           again == [marked EXCEPT ![i].attempt = @ + 1]
           x == [exec[i] EXCEPT !.status = "FAILED", !.at = at]
           y == [x EXCEPT !.attempt = @ + 1]
<1>1. exec[i] \in Executions /\ t \in Tasks /\ exec[i].worker \in Workers
      /\ exec \in Seq(Executions)
  <2>1. exec \in Seq(Executions) /\ exec[i] \in Executions
    BY DEF TypeOK
  <2> QED BY <2>1 DEF Executions
<1>2. x \in Executions /\ y \in Executions
  <2>1. x \in Executions
    BY <1>1 DEF Executions, Places
  <2> HIDE DEF x
  <2>2. y \in Executions
    BY <2>1 DEF Executions
  <2> QED BY <2>1, <2>2
<1>3. marked = [exec EXCEPT ![i] = x] /\ again = [exec EXCEPT ![i] = y]
  BY <1>1
<1>4. /\ marked \in Seq(Executions) /\ DOMAIN marked = DOMAIN exec
      /\ again \in Seq(Executions) /\ DOMAIN again = DOMAIN exec
  BY <1>1, <1>2, <1>3, ExecutionChange
<1>5. /\ Released(marked, t) \in Seq(Executions) /\ DOMAIN Released(marked, t) = DOMAIN exec
      /\ Released(again, t) \in Seq(Executions) /\ DOMAIN Released(again, t) = DOMAIN exec
  <2> HIDE DEF marked, again, t
  <2> QED BY <1>4, ReleasedType
<1>6. exec' \in {marked, Released(marked, t), Released(again, t)}
  BY DEF FailBody
<1>7. exec' \in Seq(Executions) /\ DOMAIN exec' = DOMAIN exec
  BY <1>4, <1>5, <1>6
<1>8. load' \in [Workers -> Nat]
  <2>1. load' \in {load, LoadReleased(exec[i].worker)}
    BY DEF FailBody
  <2> QED BY <1>1, <2>1, LoadReleasedType DEF TypeOK
<1>9. status' \in [Tasks -> Statuses]
  <2>1. status' = status \/ \E s \in {"FAILED", "QUEUED", "RETRYING"} :
                               status' = [status EXCEPT ![t] = s]
    BY DEF FailBody
  <2> QED BY <1>1, <2>1 DEF TypeOK, Statuses
<1>10. queue' \in [Queues -> [Tasks -> Nat]]
  <2>1. queue' \in {queue, DeadLettered(t, eligible), Enqueued(t, "retry")}
    BY DEF FailBody
  <2>2. DeadLettered(t, eligible) \in [Queues -> [Tasks -> Nat]]
        /\ Enqueued(t, "retry") \in [Queues -> [Tasks -> Nat]]
    BY <1>1, DeadLetteredFacts, EnqueuedFacts
  <2> QED BY <2>1, <2>2 DEF TypeOK
<1>11. delay' \in [Tasks -> {"none", "waiting", "due"}]
  <2>1. delay' \in {delay, DelayAfter(t, "waiting"), [delay EXCEPT ![t] = "waiting"]}
    BY DEF FailBody
  <2>2. DelayAfter(t, "waiting") \in [Tasks -> {"none", "waiting", "due"}]
        /\ [delay EXCEPT ![t] = "waiting"] \in [Tasks -> {"none", "waiting", "due"}]
    BY <1>1, DelayAfterType DEF TypeOK
  <2> QED BY <2>1, <2>2 DEF TypeOK
<1>12. UNCHANGED <<approved, later, healthy, saved, recovered, kill, paused>>
  BY DEF FailBody
<1> QED BY <1>7, <1>8, <1>9, <1>10, <1>11, <1>12 DEF TypeOK

\* Ending an execution, with its reservations freed or not.
LEMMA EndTypes ==
    ASSUME TypeOK, NEW i \in DOMAIN exec, NEW x \in Executions, NEW t,
           exec' = [exec EXCEPT ![i] = x] \/ exec' = Released([exec EXCEPT ![i] = x], t)
    PROVE  exec' \in Seq(Executions) /\ DOMAIN exec' = DOMAIN exec
BY ExecutionFacts, ExecutionChange, ReleasedType

\* Every action keeps the values in their types (service.py).
LEMMA TypeStep == TypeOK /\ [Next]_vars => TypeOK'
<1> SUFFICES ASSUME TypeOK, [Next]_vars PROVE TypeOK'
  OBVIOUS
<1>1. ASSUME NEW t \in Tasks, Enqueue(t) PROVE TypeOK'
  <2>1. queue' \in [Queues -> [Tasks -> Nat]]
    BY <1>1, EnqueuedFacts DEF Enqueue
  <2>2. delay' \in [Tasks -> {"none", "waiting", "due"}]
    <3>1. delay[t] \in {"none", "waiting", "due"}
      BY DEF TypeOK
    <3> QED BY <1>1, <3>1, DelayAfterType DEF Enqueue
  <2> QED BY <1>1, <2>1, <2>2 DEF Enqueue, TypeOK, Statuses
<1>2. ASSUME NEW t \in Tasks, TimePasses(t) \/ Approve(t) PROVE TypeOK'
  BY <1>2 DEF TimePasses, Approve, TypeOK, Statuses
<1>3. ASSUME NEW t \in Tasks, NEW s \in Statuses, Transition(t, s) PROVE TypeOK'
  BY <1>3 DEF Transition, TypeOK
<1>4. ASSUME NEW t \in Tasks, NEW w \in Workers, NEW q \in Queues, Dispatch(t, w, q)
      PROVE  TypeOK'
  <2> DEFINE x == [task |-> t, worker |-> w, status |-> "ALLOCATED", attempt |-> 1,
                   cancel |-> FALSE, at |-> "out", released |-> FALSE]
  <2>1. x \in Executions
    BY DEF Executions
  <2>2. exec \in Seq(Executions) /\ exec' = Append(exec, x)
    BY <1>4 DEF Dispatch, TypeOK
  <2> HIDE DEF x
  <2>3. exec' \in Seq(Executions) /\ DOMAIN exec \subseteq DOMAIN exec'
    BY <2>1, <2>2
  <2>4. queue' \in [Queues -> [Tasks -> Nat]]
    <3>1. queue \in [Queues -> [Tasks -> Nat]] /\ queue[q][t] > 0
          /\ queue' = [queue EXCEPT ![q][t] = queue[q][t] - 1]
      BY <1>4 DEF Dispatch, TypeOK
    <3> QED BY <3>1
  <2>5. load' \in [Workers -> Nat]
    BY <1>4 DEF Dispatch, TypeOK
  <2>6. saved' \subseteq DOMAIN exec'
    BY <1>4, <2>3 DEF Dispatch, TypeOK
  <2> QED BY <1>4, <2>3, <2>4, <2>5, <2>6 DEF Dispatch, TypeOK, Statuses
<1>5. ASSUME NEW w \in Workers, Heartbeat(w) PROVE TypeOK'
  BY <1>5 DEF Heartbeat, TypeOK
<1>6. CASE PromoteDue
  <2>1. queue \in [Queues -> [Tasks -> Nat]]
    BY DEF TypeOK
  <2>2. queue' \in [Queues -> [Tasks -> Nat]]
    BY <1>6, <2>1 DEF PromoteDue, Due
  <2> QED BY <1>6, <2>2 DEF PromoteDue, TypeOK
<1>7. CASE SetPause
  BY <1>7 DEF SetPause, TypeOK
<1>8. ASSUME NEW i \in DOMAIN exec,
             ExecuteDenied(i) \/ PortReturnsLate(i) \/ PortRaises(i)
             \/ \E eligible \in BOOLEAN : Fail(i, eligible)
      PROVE  TypeOK'
  BY <1>8, FailTypes, ExecutionFacts DEF ExecuteDenied, PortReturnsLate, PortRaises, Fail, Places
<1>9. ASSUME NEW i \in DOMAIN exec, Execute(i) PROVE TypeOK'
  <2> DEFINE x == [exec[i] EXCEPT !.status = "RUNNING", !.at = "preflight"]
  <2>1. x \in Executions /\ exec' = [exec EXCEPT ![i] = x]
    BY <1>9, ExecutionFacts DEF Execute, Executions
  <2> HIDE DEF x
  <2>2. exec' \in Seq(Executions) /\ DOMAIN exec' = DOMAIN exec
    BY <2>1, EndTypes
  <2> QED BY <1>9, <2>2, ExecutionFacts DEF Execute, TypeOK, Statuses
<1>10. ASSUME NEW i \in DOMAIN exec, PreflightDone(i) PROVE TypeOK'
  <2> DEFINE x == [exec[i] EXCEPT !.status = "CANCELLED", !.at = "out"]
             y == [exec[i] EXCEPT !.at = "port"]
  <2>1. x \in Executions /\ y \in Executions
    BY ExecutionFacts DEF Executions
  <2>2. exec' = Released([exec EXCEPT ![i] = x], exec[i].task) \/ exec' = [exec EXCEPT ![i] = y]
    BY <1>10 DEF PreflightDone
  <2> HIDE DEF x, y
  <2>3. exec' \in Seq(Executions) /\ DOMAIN exec' = DOMAIN exec
    BY <2>1, <2>2, EndTypes
  <2>4. load' \in [Workers -> Nat]
    <3>1. load' \in {load, LoadReleased(exec[i].worker)}
      BY <1>10 DEF PreflightDone
    <3> QED BY <3>1, ExecutionFacts, LoadReleasedType DEF TypeOK
  <2>5. status' \in [Tasks -> Statuses]
    BY <1>10, ExecutionFacts DEF PreflightDone, TypeOK, Statuses
  <2> QED BY <1>10, <2>3, <2>4, <2>5 DEF PreflightDone, TypeOK
<1>11. ASSUME NEW i \in DOMAIN exec, PortReturns(i) PROVE TypeOK'
  <2> DEFINE x == [exec[i] EXCEPT !.status = "COMPLETED", !.at = "out"]
  <2>1. x \in Executions /\ exec' = Released([exec EXCEPT ![i] = x], exec[i].task)
    BY <1>11, ExecutionFacts DEF PortReturns, Executions
  <2> HIDE DEF x
  <2>2. exec' \in Seq(Executions) /\ DOMAIN exec' = DOMAIN exec
    BY <2>1, EndTypes
  <2>3. load' \in [Workers -> Nat]
    BY <1>11, ExecutionFacts, LoadReleasedType DEF PortReturns
  <2> QED BY <1>11, <2>2, <2>3, ExecutionFacts DEF PortReturns, TypeOK, Statuses
<1>12. ASSUME NEW i \in DOMAIN exec, Cancel(i) PROVE TypeOK'
  <2> DEFINE x == [exec[i] EXCEPT !.status = "CANCELLED", !.cancel = TRUE]
  <2>1. x \in Executions /\ exec' = Released([exec EXCEPT ![i] = x], exec[i].task)
    BY <1>12, ExecutionFacts DEF Cancel, CancelBody, Executions
  <2> HIDE DEF x
  <2>2. exec' \in Seq(Executions) /\ DOMAIN exec' = DOMAIN exec
    BY <2>1, EndTypes
  <2>3. load' \in [Workers -> Nat]
    BY <1>12, ExecutionFacts, LoadReleasedType DEF Cancel, CancelBody
  <2>4. status' \in [Tasks -> Statuses]
    BY <1>12, ExecutionFacts DEF Cancel, CancelBody, TypeOK, Statuses
  <2> QED BY <1>12, <2>2, <2>3, <2>4 DEF Cancel, CancelBody, TypeOK
<1>13. ASSUME NEW i \in DOMAIN exec, CreateCheckpoint(i) PROVE TypeOK'
  BY <1>13 DEF CreateCheckpoint, TypeOK
<1>14. ASSUME NEW i \in DOMAIN exec, ResumeCheckpoint(i) PROVE TypeOK'
  <2> DEFINE t == exec[i].task
             x == [exec[i] EXCEPT !.attempt = @ + 1]
  <2>1. x \in Executions /\ exec' = [exec EXCEPT ![i] = x]
    <3>1. exec' = [exec EXCEPT ![i] = x]
      BY <1>14 DEF ResumeCheckpoint
    <3>2. exec[i] \in Executions
      BY ExecutionFacts
    <3>3. exec[i].attempt + 1 \in Nat \ {0}
      BY <3>2 DEF Executions
    <3> QED BY <3>1, <3>2, <3>3 DEF Executions
  <2>2. t \in Tasks /\ status[t] \in Statuses
    BY ExecutionFacts
  <2> HIDE DEF x
  <2>3. exec' \in Seq(Executions) /\ DOMAIN exec' = DOMAIN exec
    BY <2>1, EndTypes
  <2>4. queue' \in [Queues -> [Tasks -> Nat]]
    <3>1. queue' \in {queue, Enqueued(t, "recovery")}
      BY <1>14 DEF ResumeCheckpoint
    <3>2. Enqueued(t, "recovery") \in [Queues -> [Tasks -> Nat]]
      BY <2>2, EnqueuedFacts
    <3>3. queue \in [Queues -> [Tasks -> Nat]]
      BY DEF TypeOK
    <3> QED BY <3>1, <3>2, <3>3
  <2>5. delay' \in [Tasks -> {"none", "waiting", "due"}]
    <3>1. delay[t] \in {"none", "waiting", "due"}
      BY <2>2 DEF TypeOK
    <3>2. delay' \in {delay, DelayAfter(t, delay[t])}
      BY <1>14 DEF ResumeCheckpoint
    <3>3. DelayAfter(t, delay[t]) \in [Tasks -> {"none", "waiting", "due"}]
      BY <2>2, <3>1, DelayAfterType
    <3>4. delay \in [Tasks -> {"none", "waiting", "due"}]
      BY DEF TypeOK
    <3> QED BY <3>2, <3>3, <3>4
  <2>6. recovered' \in [Tasks -> 0..MaximumRecoveries]
    <3>1. recovered[t] \in 0..MaximumRecoveries /\ recovered[t] < MaximumRecoveries
          /\ recovered' = [recovered EXCEPT ![t] = recovered[t] + 1]
      BY <1>14, <2>2 DEF ResumeCheckpoint, RecoveriesLeft, TypeOK
    <3>2. MaximumRecoveries \in Nat
      BY SchedulerAssumption
    <3>3. recovered[t] + 1 \in 0..MaximumRecoveries
      BY <3>1, <3>2
    <3> QED BY <3>1, <3>3 DEF TypeOK
  <2>7. status' \in [Tasks -> Statuses]
    <3>1. \E s \in {"QUEUED", "RECOVERING", status[t]} : status' = [status EXCEPT ![t] = s]
      BY <1>14 DEF ResumeCheckpoint
    <3> QED BY <2>2, <3>1 DEF TypeOK, Statuses
  <2> QED BY <1>14, <2>3, <2>4, <2>5, <2>6, <2>7 DEF ResumeCheckpoint, TypeOK
<1>15. CASE UNCHANGED vars
  BY <1>15 DEF vars, TypeOK
<1> QED
  BY <1>1, <1>2, <1>3, <1>4, <1>5, <1>6, <1>7, <1>8, <1>9, <1>10, <1>11, <1>12,
     <1>13, <1>14, <1>15 DEF Next

LEMMA InitTypes == Init => TypeOK
<1> SUFFICES ASSUME Init PROVE TypeOK
  OBVIOUS
<1>1. MaximumRecoveries \in Nat
  BY SchedulerAssumption
<1>2. exec \in Seq(Executions) /\ saved \subseteq DOMAIN exec
  BY DEF Init
<1>3. recovered \in [Tasks -> 0..MaximumRecoveries]
  BY <1>1 DEF Init
<1>4. status \in [Tasks -> Statuses] /\ queue \in [Queues -> [Tasks -> Nat]]
  BY DEF Init, Statuses
<1>5. later \in [Tasks -> BOOLEAN]
  BY DEF Init
<1> QED BY <1>2, <1>3, <1>4, <1>5 DEF Init, TypeOK

\* The tasks, queues, workers and executions of the scheduler always have
\* their types: no load and no count of a queue becomes negative, and no
\* task is recovered more often than its limit.
THEOREM TypeCorrect == Spec => []TypeOK
BY InitTypes, TypeStep, PTL DEF Spec

-----------------------------------------------------------------------------
(* How the status of a task changes.                                        *)

\* The ways the methods of the service move a task that is not left as it was.
Moved(t) ==
    \/ status'[t] \in OperatorTargets \cap Legal[status[t]]
    \/ status[t] = "PENDING_APPROVAL" /\ status'[t] = "READY"
    \/ /\ status[t] \in Queueable \cup Failable \cup {"FAILED"}
       /\ status'[t] = "QUEUED"
       /\ DependenciesReady(t)
       /\ status[t] = "FAILED" => recovered'[t] > recovered[t]
    \/ status[t] = "QUEUED" /\ status'[t] = "ALLOCATED"
    \/ status[t] = "ALLOCATED" /\ status'[t] = "RUNNING" /\ ~GateDenies(t)
    \/ status[t] = "RUNNING" /\ status'[t] = "COMPLETED"
    \/ /\ status[t] \in Failable
       /\ status'[t] = "FAILED"
       /\ queue'["dead_letter"][t] > 0
    \/ status[t] \in Failable /\ status'[t] = "RETRYING"
    \/ status[t] = "FAILED" /\ status'[t] = "RECOVERING" /\ recovered'[t] > recovered[t]
    \/ status[t] \in Live /\ status'[t] = "CANCELLED"

\* One task of a step has its status set.
LEMMA SetStatus ==
    ASSUME TypeOK, NEW t \in Tasks, NEW s, status' = [status EXCEPT ![t] = s],
           NEW u \in Tasks
    PROVE  status'[u] = IF u = t THEN s ELSE status[u]
BY DEF TypeOK

LEMMA FailMoves ==
    ASSUME TypeOK, NEW i \in DOMAIN exec, NEW eligible \in BOOLEAN,
           NEW at \in Places, FailBody(i, eligible, at),
           NEW u \in Tasks
    PROVE  status'[u] = status[u] \/ Moved(u)
<1> DEFINE t == exec[i].task
<1>1. t \in Tasks /\ status[t] \in Statuses
  BY ExecutionFacts
<1>2. CASE "FAILED" \notin Legal[status[t]]
  BY <1>2 DEF FailBody
<1>3. CASE "FAILED" \in Legal[status[t]]
  <2>1. status[t] \in Failable
    BY <1>1, <1>3, LegalFailed
  <2>2. PICK s \in {"FAILED", "QUEUED", "RETRYING"} :
          /\ status' = [status EXCEPT ![t] = s]
          /\ s = "FAILED" => queue' = DeadLettered(t, eligible)
          /\ s = "QUEUED" => DependenciesReady(t)
    BY <1>3 DEF FailBody, MayEnqueue
  <2>3. status'[u] = IF u = t THEN s ELSE status[u]
    BY <1>1, <2>2, SetStatus
  <2>4. s = "FAILED" => queue'["dead_letter"][t] > 0
    BY <1>1, <2>2, DeadLetteredFacts
  <2> HIDE DEF t
  <2> QED BY <2>1, <2>2, <2>3, <2>4 DEF Moved, Failable
<1> QED BY <1>2, <1>3

\* No method moves a task in another way.
LEMMA StatusStep ==
    ASSUME TypeOK, [Next]_vars, NEW u \in Tasks
    PROVE  status'[u] = status[u] \/ Moved(u)
<1>1. ASSUME NEW t \in Tasks, Enqueue(t) PROVE status'[u] = status[u] \/ Moved(u)
  <2>1. status'[u] = IF u = t THEN "QUEUED" ELSE status[u]
    BY <1>1, SetStatus DEF Enqueue
  <2> QED BY <1>1, <2>1 DEF Enqueue, MayEnqueue, Moved
<1>2. ASSUME NEW t \in Tasks, Approve(t) PROVE status'[u] = status[u] \/ Moved(u)
  BY <1>2, SetStatus DEF Approve, Moved
<1>3. ASSUME NEW t \in Tasks, NEW s \in Statuses, Transition(t, s)
      PROVE  status'[u] = status[u] \/ Moved(u)
  BY <1>3, SetStatus DEF Transition, Moved
<1>4. ASSUME NEW t \in Tasks, NEW w \in Workers, NEW q \in Queues, Dispatch(t, w, q)
      PROVE  status'[u] = status[u] \/ Moved(u)
  BY <1>4, SetStatus DEF Dispatch, Candidates, Moved
<1>5. ASSUME NEW i \in DOMAIN exec,
             ExecuteDenied(i) \/ PortReturnsLate(i) \/ PortRaises(i)
             \/ \E eligible \in BOOLEAN : Fail(i, eligible)
      PROVE  status'[u] = status[u] \/ Moved(u)
  BY <1>5, FailMoves, ExecutionFacts DEF ExecuteDenied, PortReturnsLate, PortRaises, Fail, Places
<1>6. ASSUME NEW i \in DOMAIN exec, Execute(i) PROVE status'[u] = status[u] \/ Moved(u)
  BY <1>6, SetStatus, ExecutionFacts DEF Execute, Moved
<1>7. ASSUME NEW i \in DOMAIN exec, PreflightDone(i) \/ Cancel(i)
      PROVE  status'[u] = status[u] \/ Moved(u)
  <2>1. \/ status' = status
        \/ /\ status' = [status EXCEPT ![exec[i].task] = "CANCELLED"]
           /\ status[exec[i].task] \in Live
    BY <1>7 DEF PreflightDone, Cancel, CancelBody
  <2> QED BY <2>1, SetStatus, ExecutionFacts DEF Moved
<1>8. ASSUME NEW i \in DOMAIN exec, PortReturns(i) PROVE status'[u] = status[u] \/ Moved(u)
  BY <1>8, SetStatus, ExecutionFacts, LegalCompleted DEF PortReturns, Moved
<1>9. ASSUME NEW i \in DOMAIN exec, ResumeCheckpoint(i)
      PROVE  status'[u] = status[u] \/ Moved(u)
  <2> DEFINE t == exec[i].task
  <2>1. t \in Tasks /\ recovered[t] \in Nat
    BY ExecutionFacts DEF TypeOK
  <2>2. recovered'[t] > recovered[t]
    BY <1>9, <2>1 DEF ResumeCheckpoint, TypeOK
  <2>3. \/ status' = [status EXCEPT ![t] = status[t]]
        \/ status[t] = "FAILED" /\ status' = [status EXCEPT ![t] = "RECOVERING"]
        \/ /\ status[t] \in Queueable \cup {"FAILED"} /\ DependenciesReady(t)
           /\ status' = [status EXCEPT ![t] = "QUEUED"]
    BY <1>9 DEF ResumeCheckpoint, Recoverable, MayEnqueue
  <2> HIDE DEF t
  <2> QED BY <2>1, <2>2, <2>3, SetStatus DEF Moved
<1>10. ASSUME UNCHANGED status PROVE status'[u] = status[u]
  BY <1>10
<1> QED
  BY <1>1, <1>2, <1>3, <1>4, <1>5, <1>6, <1>7, <1>8, <1>9, <1>10
     DEF Next, vars, TimePasses, Heartbeat, PromoteDue, SetPause, CreateCheckpoint

\* An approval is never withdrawn and a recovery never forgotten.
LEMMA Grows ==
    ASSUME TypeOK, [Next]_vars, NEW u \in Tasks
    PROVE  (approved[u] => approved'[u]) /\ recovered'[u] >= recovered[u]
<1>1. approved' = approved \/ \E t \in Tasks : approved' = [approved EXCEPT ![t] = TRUE]
  BY DEF Next, vars, Enqueue, TimePasses, Approve, Transition, Dispatch, Heartbeat,
     PromoteDue, SetPause, ExecuteDenied, Execute, PreflightDone, PortReturns,
     PortReturnsLate, PortRaises, CreateCheckpoint, ResumeCheckpoint, Cancel, Fail,
     FailBody, CancelBody
<1>2. recovered' = recovered \/ \E i \in DOMAIN exec :
        recovered' = [recovered EXCEPT ![exec[i].task] = @ + 1]
  BY DEF Next, vars, Enqueue, TimePasses, Approve, Transition, Dispatch, Heartbeat,
     PromoteDue, SetPause, ExecuteDenied, Execute, PreflightDone, PortReturns,
     PortReturnsLate, PortRaises, CreateCheckpoint, ResumeCheckpoint, Cancel, Fail,
     FailBody, CancelBody
<1>3. approved[u] => approved'[u]
  BY <1>1 DEF TypeOK
<1>4. recovered \in [Tasks -> Nat]
  BY DEF TypeOK
<1>5. recovered'[u] >= recovered[u]
  BY <1>2, <1>4, ExecutionFacts
<1> QED BY <1>3, <1>5

\* Only a dispatch takes a task out of the dead-letter queue, and it dispatches
\* a QUEUED one.
LEMMA DeadLetterStays ==
    ASSUME TypeOK, [Next]_vars, NEW u \in Tasks, status[u] # "QUEUED"
    PROVE  queue'["dead_letter"][u] >= queue["dead_letter"][u]
<1> DEFINE Stays == queue'["dead_letter"][u] >= queue["dead_letter"][u]
<1>0. queue \in [Queues -> [Tasks -> Nat]] /\ queue["dead_letter"][u] \in Nat
  BY DEF TypeOK
<1>1. ASSUME NEW t \in Tasks, Enqueue(t) PROVE Stays
  BY <1>1, EnqueuedFacts DEF Enqueue
<1>2. ASSUME NEW t \in Tasks, NEW w \in Workers, NEW q \in Queues, Dispatch(t, w, q)
      PROVE  Stays
  <2>1. t # u /\ queue' = [queue EXCEPT ![q][t] = queue[q][t] - 1]
    BY <1>0, <1>2 DEF Dispatch, Candidates
  <2> QED BY <1>0, <2>1
<1>3. CASE PromoteDue
  BY <1>0, <1>3 DEF PromoteDue
<1>4. ASSUME NEW i \in DOMAIN exec, NEW eligible \in BOOLEAN,
           NEW at \in Places, FailBody(i, eligible, at)
      PROVE  Stays
  <2>1. queue' \in {queue, DeadLettered(exec[i].task, eligible), Enqueued(exec[i].task, "retry")}
    BY <1>4 DEF FailBody
  <2>2. DeadLettered(exec[i].task, eligible)["dead_letter"][u] >= queue["dead_letter"][u]
    BY ExecutionFacts, DeadLetteredFacts
  <2>3. Enqueued(exec[i].task, "retry")["dead_letter"][u] >= queue["dead_letter"][u]
    BY ExecutionFacts, EnqueuedFacts
  <2> QED BY <1>0, <2>1, <2>2, <2>3
<1>5. ASSUME NEW i \in DOMAIN exec, ResumeCheckpoint(i) PROVE Stays
  <2>1. queue' \in {queue, Enqueued(exec[i].task, "recovery")}
    BY <1>5 DEF ResumeCheckpoint
  <2>2. Enqueued(exec[i].task, "recovery")["dead_letter"][u] >= queue["dead_letter"][u]
    BY ExecutionFacts, EnqueuedFacts
  <2> QED BY <1>0, <2>1, <2>2
<1>6. CASE UNCHANGED queue
  BY <1>0, <1>6
<1> QED
  BY <1>1, <1>2, <1>3, <1>4, <1>5, <1>6, ExecutionFacts
     DEF Next, vars, Places, TimePasses, Approve, Transition, Heartbeat, SetPause,
         ExecuteDenied, Execute, PreflightDone, PortReturns, PortReturnsLate,
         PortRaises, CreateCheckpoint, Cancel, CancelBody, Fail

-----------------------------------------------------------------------------
(* What holds whatever callers fail, cancel or execute, and when.           *)

\* No task that needs approval runs without it and a restricted one never
\* runs: execute() is the only way to RUNNING as long as no caller asks
\* transition() for that, and an approval is never withdrawn.
THEOREM GateHonouredHolds ==
    ASSUME "RUNNING" \notin OperatorTargets
    PROVE  Spec => []GateHonoured
<1>1. Init => GateHonoured
  BY DEF Init, GateHonoured
<1>2. TypeOK /\ GateHonoured /\ [Next]_vars => GateHonoured'
  <2> SUFFICES ASSUME TypeOK, GateHonoured, [Next]_vars,
                      NEW t \in Tasks, status'[t] = "RUNNING"
               PROVE  t \notin Restricted /\ (t \in NeedsApproval => approved'[t])
    BY DEF GateHonoured
  <2>1. status[t] = "RUNNING" \/ ~GateDenies(t)
    BY StatusStep DEF Moved
  <2> QED BY <2>1, Grows DEF GateHonoured, GateDenies
<1> QED
  BY <1>1, <1>2, TypeCorrect, PTL DEF Spec

\* Failed work is never lost: fail() dead-letters a task it makes FAILED, and
\* nothing but a dispatch of the task takes it out again.
THEOREM FailedInDeadLetterHolds ==
    ASSUME "FAILED" \notin OperatorTargets
    PROVE  Spec => []FailedInDeadLetter
<1>1. Init => FailedInDeadLetter
  BY DEF Init, FailedInDeadLetter
<1>2. TypeOK /\ TypeOK' /\ FailedInDeadLetter /\ [Next]_vars => FailedInDeadLetter'
  <2> SUFFICES ASSUME TypeOK, TypeOK', FailedInDeadLetter, [Next]_vars,
                      NEW t \in Tasks, status'[t] = "FAILED"
               PROVE  queue'["dead_letter"][t] > 0
    BY DEF FailedInDeadLetter
  <2>1. status[t] = "FAILED" \/ queue'["dead_letter"][t] > 0
    BY StatusStep DEF Moved
  <2>2. CASE status[t] = "FAILED"
    <3>1. queue["dead_letter"][t] > 0 /\ queue'["dead_letter"][t] >= queue["dead_letter"][t]
      BY <2>2, DeadLetterStays DEF FailedInDeadLetter
    <3>2. queue["dead_letter"][t] \in Nat /\ queue'["dead_letter"][t] \in Nat
      BY DEF TypeOK
    <3> QED BY <3>1, <3>2
  <2> QED BY <2>1, <2>2
<1> QED
  BY <1>1, <1>2, TypeCorrect, PTL DEF Spec

\* A task that requires the success of another is queued, and hence runs, only
\* after that succeeded, and what succeeded stays so: enqueue asks for it on
\* every route, the first, a retry and a recovery.
THEOREM SuccessFirstHolds ==
    ASSUME "QUEUED" \notin OperatorTargets
    PROVE  Spec => []SuccessFirst
<1>1. Init => SuccessFirst
  BY SchedulerAssumption DEF Init, SuccessFirst
<1>2. TypeOK /\ SuccessFirst /\ [Next]_vars => SuccessFirst'
  <2> SUFFICES ASSUME TypeOK, SuccessFirst, [Next]_vars, NEW p \in SuccessDeps,
                      status'[p[1]] \in {"QUEUED", "ALLOCATED", "RUNNING", "COMPLETED"}
               PROVE  status'[p[2]] \in {"COMPLETED", "ARCHIVED", "DELETED"}
    BY DEF SuccessFirst
  <2>1. p[1] \in Tasks /\ p[2] \in Tasks
    BY SchedulerAssumption
  <2>2. status[p[1]] \in Statuses /\ status[p[2]] \in Statuses
    BY <2>1 DEF TypeOK
  <2>3. status[p[2]] \in {"COMPLETED", "ARCHIVED", "DELETED"}
    <3>1. \/ status[p[1]] \in {"QUEUED", "ALLOCATED", "RUNNING", "COMPLETED"}
          \/ DependenciesReady(p[1])
      BY <2>1, <2>2, StatusStep DEF Moved, Legal, Statuses
    <3> QED BY <3>1 DEF SuccessFirst, DependenciesReady
  <2>4. status'[p[2]] = status[p[2]] \/ status'[p[2]] \in Legal[status[p[2]]]
    BY <2>1, <2>3, StatusStep DEF Moved, Failable
  <2> QED BY <2>2, <2>3, <2>4 DEF Legal
<1> QED
  BY <1>1, <1>2, TypeCorrect, PTL DEF Spec

\* A task that requires the completion of another is queued only after that was
\* done with once; only a recovery, which is counted, takes it up again.
THEOREM CompletionFirstHolds ==
    ASSUME OperatorTargets \cap {"QUEUED", "RETRYING", "RECOVERING"} = {}
    PROVE  Spec => []CompletionFirst
<1>1. Init => CompletionFirst
  BY SchedulerAssumption DEF Init, CompletionFirst
<1>2. TypeOK /\ TypeOK' /\ CompletionFirst /\ [Next]_vars => CompletionFirst'
  <2> SUFFICES ASSUME TypeOK, TypeOK', CompletionFirst, [Next]_vars, NEW p \in CompletionDeps,
                      status'[p[1]] \in {"QUEUED", "ALLOCATED", "RUNNING", "COMPLETED"}
               PROVE  \/ status'[p[2]] \in Settled \cup {"ARCHIVED", "DELETED"}
                      \/ recovered'[p[2]] > 0
    BY DEF CompletionFirst
  <2>1. p[1] \in Tasks /\ p[2] \in Tasks
    BY SchedulerAssumption
  <2>2. /\ status[p[1]] \in Statuses /\ status[p[2]] \in Statuses
        /\ recovered[p[2]] \in Nat /\ recovered'[p[2]] \in Nat
    BY <2>1 DEF TypeOK
  <2>3. \/ status[p[2]] \in Settled \cup {"ARCHIVED", "DELETED"}
        \/ recovered[p[2]] > 0
    <3>1. \/ status[p[1]] \in {"QUEUED", "ALLOCATED", "RUNNING", "COMPLETED"}
          \/ DependenciesReady(p[1])
      BY <2>1, <2>2, StatusStep DEF Moved, Legal, Statuses
    <3> QED BY <3>1 DEF CompletionFirst, DependenciesReady
  <2>4. recovered'[p[2]] >= recovered[p[2]]
    BY <2>1, Grows
  <2>5. CASE recovered[p[2]] > 0
    BY <2>2, <2>4, <2>5
  <2>6. CASE status[p[2]] \in Settled \cup {"ARCHIVED", "DELETED"}
    <3>1. \/ status'[p[2]] = status[p[2]]
          \/ status'[p[2]] \in OperatorTargets \cap Legal[status[p[2]]]
          \/ recovered'[p[2]] > recovered[p[2]]
      BY <2>1, <2>6, StatusStep DEF Moved, Failable
    <3>2. CASE recovered'[p[2]] > recovered[p[2]]
      BY <2>2, <3>2
    <3>3. CASE status'[p[2]] \in OperatorTargets \cap Legal[status[p[2]]]
      BY <2>2, <2>6, <3>3 DEF Legal
    <3> QED BY <2>6, <3>1, <3>2, <3>3
  <2> QED BY <2>3, <2>5, <2>6
<1> QED
  BY <1>1, <1>2, TypeCorrect, PTL DEF Spec

\* A QUEUED task is never hidden for good: whatever copies of it retries,
\* recoveries and dispatches leave in the queues, it waits for its due time or
\* is where dispatch_next looks.
THEOREM QueuedReachableHolds ==
    ASSUME "QUEUED" \notin OperatorTargets
    PROVE  Spec => []QueuedReachable
<1> DEFINE Found(t) == delay[t] # "none" \/ \E q \in Queues \ {"delayed"} : queue[q][t] > 0
<1>1. Init => QueuedReachable
  BY DEF Init, QueuedReachable
<1>2. TypeOK /\ QueuedReachable /\ [Next]_vars => QueuedReachable'
  <2> SUFFICES ASSUME TypeOK, QueuedReachable, [Next]_vars,
                      NEW u \in Tasks, status'[u] = "QUEUED"
               PROVE  Found(u)'
    BY DEF QueuedReachable
  <2>0. /\ queue \in [Queues -> [Tasks -> Nat]]
        /\ delay \in [Tasks -> {"none", "waiting", "due"}]
    BY DEF TypeOK
  <2>1. status[u] = "QUEUED" => Found(u)
    BY DEF QueuedReachable
  <2>2. ASSUME NEW t \in Tasks, NEW q \in {"global", "retry", "recovery"},
               queue' = Enqueued(t, q),
               delay' = DelayAfter(t, delay[t]) \/ delay' = DelayAfter(t, "waiting"),
               u = t \/ status[u] = "QUEUED"
        PROVE  Found(u)'
    <3>1. q \in Queues \ {"delayed"}
      OBVIOUS
    <3>2. CASE u = t /\ later[t]
      <4>1. delay[t] \in {"none", "waiting", "due"} /\ "waiting" \in {"none", "waiting", "due"}
        BY <2>0
      <4>2. delay'[t] = "waiting"
        BY <2>2, <3>2, <4>1, DelayAfterType
      <4> QED BY <3>2, <4>2
    <3>3. CASE u = t /\ ~later[t]
      <4>1. queue'[q][t] > 0
        BY <2>2, <3>1, <3>3, EnqueuedFacts
      <4> QED BY <3>1, <3>3, <4>1
    <3>4. CASE u # t
      <4>1. \A r \in Queues : queue'[r][u] >= queue[r][u] /\ queue'[r][u] \in Nat
        BY <2>2, <3>1, EnqueuedFacts
      <4>2. delay'[u] = delay[u]
        <5>1. delay[t] \in {"none", "waiting", "due"} /\ "waiting" \in {"none", "waiting", "due"}
          BY <2>0
        <5> QED BY <2>2, <3>4, <5>1, DelayAfterType
      <4>3. \A r \in Queues : queue[r][u] \in Nat
        BY <2>0
      <4> QED BY <2>1, <2>2, <3>4, <4>1, <4>2, <4>3
    <3> QED BY <3>2, <3>3, <3>4
  <2>4. \A r \in Queues : queue[r][u] \in Nat
    BY <2>0
  <2>5. ASSUME NEW t \in Tasks, Enqueue(t) PROVE Found(u)'
    <3>1. u = t \/ status[u] = "QUEUED"
      BY <2>5, SetStatus DEF Enqueue
    <3> QED BY <2>2, <2>5, <3>1 DEF Enqueue
  <2>6. ASSUME NEW t \in Tasks, TimePasses(t) PROVE Found(u)'
    <3>1. delay' = delay \/ delay'[u] # "none" \/ delay'[u] = delay[u]
      BY <2>0, <2>6 DEF TimePasses
    <3> QED BY <2>0, <2>1, <2>4, <2>6, <3>1 DEF TimePasses
  <2>7. ASSUME NEW t \in Tasks, Approve(t) PROVE Found(u)'
    <3>1. status[u] = "QUEUED"
      BY <2>7, SetStatus DEF Approve
    <3> QED BY <2>1, <2>7, <3>1 DEF Approve
  <2>8. ASSUME NEW t \in Tasks, NEW s \in Statuses, Transition(t, s) PROVE Found(u)'
    <3>1. status[u] = "QUEUED"
      BY <2>8, SetStatus DEF Transition
    <3> QED BY <2>1, <2>8, <3>1 DEF Transition
  <2>9. ASSUME NEW t \in Tasks, NEW w \in Workers, NEW q \in Queues, Dispatch(t, w, q)
        PROVE  Found(u)'
    <3>1. u # t /\ status[u] = "QUEUED"
      <4>1. status' = [status EXCEPT ![t] = "ALLOCATED"]
        BY <2>9 DEF Dispatch
      <4>2. status'[u] = IF u = t THEN "ALLOCATED" ELSE status[u]
        BY <4>1, SetStatus
      <4> QED BY <4>2
    <3>2. queue' = [queue EXCEPT ![q][t] = queue[q][t] - 1] /\ delay' = delay
      BY <2>9 DEF Dispatch
    <3>3. \A r \in Queues : queue'[r][u] = queue[r][u]
      BY <2>0, <3>1, <3>2
    <3> QED BY <2>1, <3>1, <3>2, <3>3
  <2>10. CASE PromoteDue
    <3>1. status[u] = "QUEUED"
      BY <2>10 DEF PromoteDue
    <3>2. CASE u \in Due
      <4>1. queue'["global"][u] = queue["global"][u] + 1
        BY <2>10, <3>2 DEF PromoteDue
      <4>2. queue'["global"][u] > 0
        BY <2>4, <4>1
      <4> QED BY <4>2
    <3>3. CASE u \notin Due
      <4>1. \A r \in Queues : queue'[r][u] = queue[r][u]
        BY <2>10, <3>3 DEF PromoteDue
      <4>2. delay'[u] = delay[u]
        BY <2>10, <3>3 DEF PromoteDue
      <4> QED BY <2>1, <3>1, <4>1, <4>2
    <3> QED BY <3>2, <3>3
  <2>11. ASSUME NEW i \in DOMAIN exec, NEW eligible \in BOOLEAN,
           NEW at \in Places, FailBody(i, eligible, at)
         PROVE  Found(u)'
    <3> DEFINE t == exec[i].task
    <3>1. t \in Tasks
      BY ExecutionFacts
    <3>2. \/ /\ queue' = Enqueued(t, "retry") /\ delay' = DelayAfter(t, "waiting")
             /\ status' = [status EXCEPT ![t] = "QUEUED"]
          \/ /\ status' = status \/ \E s \in {"FAILED", "RETRYING"} : status' = [status EXCEPT ![t] = s]
             /\ queue' \in {queue, DeadLettered(t, eligible)}
             /\ delay' \in {delay, [delay EXCEPT ![t] = "waiting"]}
      BY <2>11 DEF FailBody
    <3> HIDE DEF t
    <3>3. CASE /\ queue' = Enqueued(t, "retry") /\ delay' = DelayAfter(t, "waiting")
               /\ status' = [status EXCEPT ![t] = "QUEUED"]
      <4>1. u = t \/ status[u] = "QUEUED"
        BY <3>1, <3>3, SetStatus
      <4> QED BY <2>2, <3>1, <3>3, <4>1
    <3>4. CASE /\ status' = status \/ \E s \in {"FAILED", "RETRYING"} : status' = [status EXCEPT ![t] = s]
               /\ queue' \in {queue, DeadLettered(t, eligible)}
               /\ delay' \in {delay, [delay EXCEPT ![t] = "waiting"]}
      <4>1. status[u] = "QUEUED"
        BY <3>1, <3>4, SetStatus
      <4>2. \A r \in Queues : queue'[r][u] >= queue[r][u]
        BY <2>4, <3>1, <3>4, DeadLetteredFacts
      <4>3. delay'[u] = delay[u] \/ delay'[u] # "none"
        BY <2>0, <3>1, <3>4
      <4>4. \A r \in Queues : queue'[r][u] \in Nat
        <5>1. TypeOK'
          BY TypeStep
        <5> QED BY <5>1 DEF TypeOK
      <4> QED BY <2>1, <2>4, <4>1, <4>2, <4>3, <4>4
    <3> QED BY <3>2, <3>3, <3>4
  <2>12. ASSUME NEW i \in DOMAIN exec, ResumeCheckpoint(i) PROVE Found(u)'
    <3> DEFINE t == exec[i].task
    <3>1. t \in Tasks
      BY ExecutionFacts
    <3>2. \/ /\ queue' = Enqueued(t, "recovery") /\ delay' = DelayAfter(t, delay[t])
             /\ status' = [status EXCEPT ![t] = "QUEUED"]
          \/ /\ \E s \in {"RECOVERING", status[t]} : status' = [status EXCEPT ![t] = s]
             /\ queue' = queue /\ delay' = delay
      BY <2>12 DEF ResumeCheckpoint
    <3> HIDE DEF t
    <3>3. CASE /\ queue' = Enqueued(t, "recovery") /\ delay' = DelayAfter(t, delay[t])
               /\ status' = [status EXCEPT ![t] = "QUEUED"]
      <4>1. u = t \/ status[u] = "QUEUED"
        BY <3>1, <3>3, SetStatus
      <4> QED BY <2>2, <3>1, <3>3, <4>1
    <3>4. CASE /\ \E s \in {"RECOVERING", status[t]} : status' = [status EXCEPT ![t] = s]
               /\ queue' = queue /\ delay' = delay
      <4>1. status[u] = "QUEUED"
        BY <3>1, <3>4, SetStatus
      <4> QED BY <2>1, <3>4, <4>1
    <3> QED BY <3>2, <3>3, <3>4
  <2>13. ASSUME NEW i \in DOMAIN exec, PreflightDone(i) \/ Cancel(i) \/ PortReturns(i) \/ Execute(i)
         PROVE  Found(u)'
    <3>1. /\ queue' = queue /\ delay' = delay
          /\ \/ status' = status
             \/ \E s \in {"CANCELLED", "COMPLETED", "RUNNING"} :
                   status' = [status EXCEPT ![exec[i].task] = s]
      BY <2>13 DEF PreflightDone, Cancel, CancelBody, PortReturns, Execute
    <3>2. status[u] = "QUEUED"
      <4>1. CASE status' = status
        BY <4>1
      <4>2. ASSUME NEW s \in {"CANCELLED", "COMPLETED", "RUNNING"},
                   status' = [status EXCEPT ![exec[i].task] = s]
            PROVE  status[u] = "QUEUED"
        <5>1. status'[u] = IF u = exec[i].task THEN s ELSE status[u]
          BY <4>2, SetStatus, ExecutionFacts
        <5> QED BY <4>2, <5>1
      <4> QED BY <3>1, <4>1, <4>2
    <3> QED BY <2>1, <3>1, <3>2
  <2>14. CASE UNCHANGED <<status, queue, delay>>
    BY <2>1, <2>14
  <2> QED
    BY <2>5, <2>6, <2>7, <2>8, <2>9, <2>10, <2>11, <2>12, <2>13, <2>14,
       ExecutionFacts
       DEF Next, vars, Places, Heartbeat, SetPause, ExecuteDenied, PortReturnsLate, PortRaises,
           Fail, CreateCheckpoint
<1> QED
  BY <1>1, <1>2, TypeCorrect, PTL DEF Spec

-----------------------------------------------------------------------------
(* What holds as long as nobody ends an execution while execute() is in it. *)

\* No caller passes the id of an execution that has ended, or moves a task to
\* or from an execution with transition().
CallersAreCareful ==
    /\ "stale" \notin Calls
    /\ OperatorTargets \cap {"QUEUED", "ALLOCATED", "RUNNING", "PAUSED", "RETRYING",
                             "RECOVERING", "COMPLETED", "FAILED", "CANCELLED"} = {}

\* Others cancel or fail an execution before execute() takes it up only.
NotDuringExecute ==
    \A i \in DOMAIN exec :
        (Cancel(i) \/ \E eligible \in BOOLEAN : Fail(i, eligible)) => exec[i].at = "out"

\* An execution that has not ended is the one of its task, has the status of
\* its task and holds its reservation; execute() is only under way in one that
\* is RUNNING.
ExecInv ==
    /\ \A i \in DOMAIN exec :
          /\ exec[i].status \in Live => status[exec[i].task] = exec[i].status
          /\ exec[i].at # "out" => exec[i].status = "RUNNING"
          /\ exec[i].status \in Live => ~exec[i].cancel
          /\ exec[i].released <=> exec[i].status \notin Live
    /\ \A i, j \in DOMAIN exec :
          (exec[i].task = exec[j].task /\ exec[i].status \in Live /\ exec[j].status \in Live)
             => i = j
    /\ \A t \in Tasks : status[t] \in Live =>
          \E i \in DOMAIN exec : exec[i].task = t /\ exec[i].status \in Live

LoadInv == \A w \in Workers : load[w] = Cardinality(LiveOn(w))

IInv == TypeOK /\ ExecInv /\ LoadInv

LEMMA LiveOnFinite ==
    ASSUME TypeOK, NEW w
    PROVE  IsFiniteSet(LiveOn(w)) /\ Cardinality(LiveOn(w)) \in Nat
<1>1. Len(exec) \in Nat /\ DOMAIN exec = 1..Len(exec)
  BY DEF TypeOK
<1>2. IsFiniteSet(1..Len(exec))
  BY <1>1, FS_Interval
<1>3. LiveOn(w) \subseteq 1..Len(exec)
  BY <1>1 DEF LiveOn
<1> QED BY <1>2, <1>3, FS_Subset, FS_CardinalityType

\* The end of an execution frees its reservation and its worker's place, and
\* takes its task out of execution.
LEMMA EndKeeps ==
    ASSUME IInv, NEW i \in DOMAIN exec, exec[i].status \in Live,
           NEW x \in Executions, x.task = exec[i].task, x.worker = exec[i].worker,
           x.status \notin Live, x.at = "out",
           exec' = Released([exec EXCEPT ![i] = x], exec[i].task),
           load' = LoadReleased(exec[i].worker),
           NEW s \in Statuses \ Live, status' = [status EXCEPT ![exec[i].task] = s]
    PROVE  ExecInv' /\ LoadInv'
<1> DEFINE t == exec[i].task
           v == exec[i].worker
<1>1. /\ exec \in Seq(Executions) /\ t \in Tasks /\ v \in Workers
      /\ \A j \in DOMAIN exec : exec[j] \in Executions
      /\ status \in [Tasks -> Statuses] /\ load \in [Workers -> Nat]
  BY ExecutionFacts DEF IInv, TypeOK
<1>2. DOMAIN exec' = DOMAIN exec
  BY DEF Released
<1>3. /\ exec'[i].task = t /\ exec'[i].worker = v /\ exec'[i].status \notin Live
      /\ exec'[i].at = "out" /\ exec'[i].released
  BY <1>1 DEF Released, Executions
<1>4. \A j \in DOMAIN exec \ {i} :
        /\ exec'[j].task = exec[j].task /\ exec'[j].worker = exec[j].worker
        /\ exec'[j].status = exec[j].status /\ exec'[j].at = exec[j].at
        /\ exec'[j].cancel = exec[j].cancel
        /\ exec'[j].released = IF exec[j].task = t THEN TRUE ELSE exec[j].released
  BY <1>1 DEF Released, Executions
<1>5. \A j \in DOMAIN exec \ {i} : exec[j].task = t => exec[j].status \notin Live
  BY DEF IInv, ExecInv
<1>6. \A u \in Tasks : status'[u] = IF u = t THEN s ELSE status[u]
  BY <1>1
<1> HIDE DEF t, v
<1>7. ExecInv'
  <2>1. ASSUME NEW j \in DOMAIN exec'
        PROVE  /\ exec'[j].status \in Live => status'[exec'[j].task] = exec'[j].status
               /\ exec'[j].at # "out" => exec'[j].status = "RUNNING"
               /\ exec'[j].status \in Live => ~exec'[j].cancel
               /\ exec'[j].released <=> exec'[j].status \notin Live
    <3>1. CASE j = i
      BY <1>3, <3>1
    <3>2. CASE j # i
      <4>1. exec[j].task \in Tasks
        BY <1>2, ExecutionFacts DEF IInv
      <4>2. /\ exec[j].status \in Live => status[exec[j].task] = exec[j].status
            /\ exec[j].at # "out" => exec[j].status = "RUNNING"
            /\ exec[j].status \in Live => ~exec[j].cancel
            /\ exec[j].released <=> exec[j].status \notin Live
        BY <1>2 DEF IInv, ExecInv
      <4>3. exec[j].task = t => exec[j].status \notin Live
        BY <1>2, <1>5, <3>2
      <4> QED BY <1>2, <1>4, <1>6, <3>2, <4>1, <4>2, <4>3
    <3> QED BY <3>1, <3>2
  <2>2. ASSUME NEW j \in DOMAIN exec', NEW k \in DOMAIN exec', exec'[j].task = exec'[k].task,
               exec'[j].status \in Live, exec'[k].status \in Live
        PROVE  j = k
    <3>1. j \in DOMAIN exec \ {i} /\ k \in DOMAIN exec \ {i}
      BY <1>2, <1>3, <2>2
    <3>2. exec[j].task = exec[k].task /\ exec[j].status \in Live /\ exec[k].status \in Live
      BY <1>4, <2>2, <3>1
    <3> QED BY <3>1, <3>2 DEF IInv, ExecInv
  <2>3. ASSUME NEW u \in Tasks, status'[u] \in Live
        PROVE  \E j \in DOMAIN exec' : exec'[j].task = u /\ exec'[j].status \in Live
    <3>1. u # t /\ status[u] \in Live
      BY <1>6, <2>3
    <3>2. PICK j \in DOMAIN exec : exec[j].task = u /\ exec[j].status \in Live
      BY <3>1 DEF IInv, ExecInv
    <3>3. j # i
      BY <3>1, <3>2 DEF t
    <3> QED BY <1>2, <1>4, <3>2, <3>3
  <2> QED BY <2>1, <2>2, <2>3 DEF ExecInv
<1>8. LoadInv'
  <2> SUFFICES ASSUME NEW w \in Workers PROVE load'[w] = Cardinality(LiveOn(w)')
    BY DEF LoadInv
  <2>1. LiveOn(w)' = LiveOn(w) \ {i}
    <3>1. LiveOn(w)' = {j \in DOMAIN exec : exec'[j].worker = w /\ exec'[j].status \in Live}
      BY <1>2 DEF LiveOn
    <3>2. \A j \in DOMAIN exec \ {i} :
             (exec'[j].worker = w /\ exec'[j].status \in Live)
               <=> (exec[j].worker = w /\ exec[j].status \in Live)
      BY <1>4
    <3> QED BY <1>3, <3>1, <3>2 DEF LiveOn
  <2>2. load[w] = Cardinality(LiveOn(w)) /\ IsFiniteSet(LiveOn(w)) /\ load[w] \in Nat
    BY LiveOnFinite DEF IInv, LoadInv
  <2>3. i \in LiveOn(w) <=> w = v
    BY DEF LiveOn, v
  <2>4. CASE w = v
    <3>1. Cardinality(LiveOn(w) \ {i}) = load[w] - 1
      BY <2>2, <2>3, <2>4, FS_RemoveElement
    <3>2. LiveOn(w) # {}
      BY <2>3, <2>4
    <3>3. load[w] > 0
      BY <2>2, <3>2, FS_EmptySet
    <3>4. load'[w] = load[w] - 1
      BY <1>1, <2>4, <3>3 DEF LoadReleased, v
    <3> QED BY <2>1, <3>1, <3>4
  <2>5. CASE w # v
    <3>1. LiveOn(w) \ {i} = LiveOn(w)
      BY <2>3, <2>5
    <3>2. load'[w] = load[w]
      BY <1>1, <2>5 DEF LoadReleased, v
    <3> QED BY <2>1, <2>2, <3>1, <3>2
  <2> QED BY <2>4, <2>5
<1> QED BY <1>7, <1>8

\* Nothing changes for a step that leaves the executions that have not ended,
\* and the tasks in execution, as they are.
LEMMA SameKeeps ==
    ASSUME IInv, DOMAIN exec' = DOMAIN exec, load' = load,
           \A j \in DOMAIN exec :
              /\ exec'[j].task = exec[j].task /\ exec'[j].worker = exec[j].worker
              /\ exec'[j].status = exec[j].status /\ exec'[j].cancel = exec[j].cancel
              /\ exec'[j].released = exec[j].released
              /\ exec'[j].at = exec[j].at \/ exec[j].at # "out",
           \A t \in Tasks : (status[t] \in Live \/ status'[t] \in Live) => status'[t] = status[t]
    PROVE  ExecInv' /\ LoadInv'
<1>1. \A j \in DOMAIN exec : exec[j].task \in Tasks
  BY ExecutionFacts DEF IInv
<1>2. ExecInv'
  BY <1>1 DEF IInv, ExecInv
<1>3. \A w : LiveOn(w)' = LiveOn(w)
  BY DEF LiveOn
<1>4. LoadInv'
  BY <1>3 DEF IInv, LoadInv
<1> QED BY <1>2, <1>4

\* dispatch_next adds an execution and takes a place of its worker.
LEMMA DispatchKeeps ==
    ASSUME IInv, NEW t \in Tasks, NEW w \in Workers, NEW q \in Queues, Dispatch(t, w, q)
    PROVE  ExecInv' /\ LoadInv'
<1> DEFINE x == [task |-> t, worker |-> w, status |-> "ALLOCATED", attempt |-> 1,
                 cancel |-> FALSE, at |-> "out", released |-> FALSE]
           n == Len(exec) + 1
<1>1. /\ exec \in Seq(Executions) /\ Len(exec) \in Nat /\ DOMAIN exec = 1..Len(exec)
      /\ status \in [Tasks -> Statuses] /\ load \in [Workers -> Nat]
  BY DEF IInv, TypeOK
<1>2. exec' = Append(exec, x) /\ load' = [load EXCEPT ![w] = load[w] + 1]
      /\ status' = [status EXCEPT ![t] = "ALLOCATED"] /\ status[t] = "QUEUED"
  BY <1>1 DEF Dispatch, Candidates
<1>3. x.task = t /\ x.worker = w /\ x.status = "ALLOCATED" /\ ~x.cancel /\ x.at = "out"
      /\ ~x.released
  OBVIOUS
<1> HIDE DEF x
<1>4. DOMAIN exec' = DOMAIN exec \cup {n} /\ exec'[n] = x /\ n \notin DOMAIN exec
      /\ \A j \in DOMAIN exec : exec'[j] = exec[j]
  BY <1>1, <1>2
<1> HIDE DEF n
<1>5. \A u \in Tasks : status'[u] = IF u = t THEN "ALLOCATED" ELSE status[u]
  BY <1>1, <1>2
<1>6. \A j \in DOMAIN exec : exec[j].task \in Tasks
                             /\ (exec[j].task = t => exec[j].status \notin Live)
  BY <1>2, ExecutionFacts DEF IInv, ExecInv
<1>7. ExecInv'
  <2>1. ASSUME NEW j \in DOMAIN exec'
        PROVE  /\ exec'[j].status \in Live => status'[exec'[j].task] = exec'[j].status
               /\ exec'[j].at # "out" => exec'[j].status = "RUNNING"
               /\ exec'[j].status \in Live => ~exec'[j].cancel
               /\ exec'[j].released <=> exec'[j].status \notin Live
    <3>1. CASE j = n
      BY <1>3, <1>4, <1>5, <3>1
    <3>2. CASE j \in DOMAIN exec
      BY <1>4, <1>5, <1>6, <3>2 DEF IInv, ExecInv
    <3> QED BY <1>4, <3>1, <3>2
  <2>2. ASSUME NEW j \in DOMAIN exec', NEW k \in DOMAIN exec', exec'[j].task = exec'[k].task,
               exec'[j].status \in Live, exec'[k].status \in Live
        PROVE  j = k
    BY <1>3, <1>4, <1>6, <2>2 DEF IInv, ExecInv
  <2>3. ASSUME NEW u \in Tasks, status'[u] \in Live
        PROVE  \E j \in DOMAIN exec' : exec'[j].task = u /\ exec'[j].status \in Live
    <3>1. CASE u = t
      BY <1>3, <1>4, <3>1
    <3>2. CASE u # t
      <4>1. PICK j \in DOMAIN exec : exec[j].task = u /\ exec[j].status \in Live
        BY <1>5, <2>3, <3>2 DEF IInv, ExecInv
      <4> QED BY <1>4, <4>1
    <3> QED BY <3>1, <3>2
  <2> QED BY <2>1, <2>2, <2>3 DEF ExecInv
<1>8. LoadInv'
  <2> SUFFICES ASSUME NEW v \in Workers PROVE load'[v] = Cardinality(LiveOn(v)')
    BY DEF LoadInv
  <2>1. load[v] = Cardinality(LiveOn(v)) /\ IsFiniteSet(LiveOn(v)) /\ load[v] \in Nat
    BY LiveOnFinite DEF IInv, LoadInv
  <2>2. n \notin LiveOn(v)
    BY <1>4 DEF LiveOn
  <2>3. CASE v = w
    <3>1. LiveOn(v)' = LiveOn(v) \cup {n}
      BY <1>3, <1>4, <2>3 DEF LiveOn
    <3>2. Cardinality(LiveOn(v) \cup {n}) = load[v] + 1
      BY <2>1, <2>2, FS_AddElement
    <3>3. load'[v] = load[v] + 1
      BY <1>1, <1>2, <2>3
    <3> QED BY <3>1, <3>2, <3>3
  <2>4. CASE v # w
    <3>1. LiveOn(v)' = LiveOn(v)
      BY <1>3, <1>4, <2>4 DEF LiveOn
    <3>2. load'[v] = load[v]
      BY <1>1, <1>2, <2>4
    <3> QED BY <2>1, <3>1, <3>2
  <2> QED BY <2>3, <2>4
<1> QED BY <1>7, <1>8

\* execute starts the port's work: the execution and its task become RUNNING.
LEMMA StartKeeps ==
    ASSUME IInv, NEW i \in DOMAIN exec, exec[i].status \in Live, Execute(i)
    PROVE  ExecInv' /\ LoadInv'
<1> DEFINE t == exec[i].task
<1>1. /\ exec \in Seq(Executions) /\ t \in Tasks /\ status \in [Tasks -> Statuses]
      /\ \A j \in DOMAIN exec : exec[j] \in Executions /\ exec[j].task \in Tasks
  BY ExecutionFacts DEF IInv, TypeOK
<1>2. DOMAIN exec' = DOMAIN exec /\ load' = load
  BY DEF Execute
<1>3. /\ exec'[i].task = t /\ exec'[i].worker = exec[i].worker
      /\ exec'[i].status = "RUNNING" /\ exec'[i].at = "preflight"
      /\ exec'[i].cancel = exec[i].cancel /\ exec'[i].released = exec[i].released
  BY <1>1 DEF Execute, Executions
<1>4. \A j \in DOMAIN exec \ {i} : exec'[j] = exec[j]
  BY <1>1 DEF Execute
<1>5. \A j \in DOMAIN exec \ {i} : exec[j].task = t => exec[j].status \notin Live
  BY DEF IInv, ExecInv
<1>6. \A u \in Tasks : status'[u] = IF u = t THEN "RUNNING" ELSE status[u]
  BY <1>1 DEF Execute
<1> HIDE DEF t
<1>7. ExecInv'
  <2>1. ASSUME NEW j \in DOMAIN exec'
        PROVE  /\ exec'[j].status \in Live => status'[exec'[j].task] = exec'[j].status
               /\ exec'[j].at # "out" => exec'[j].status = "RUNNING"
               /\ exec'[j].status \in Live => ~exec'[j].cancel
               /\ exec'[j].released <=> exec'[j].status \notin Live
    <3>1. CASE j = i
      BY <1>1, <1>3, <1>6, <3>1 DEF IInv, ExecInv
    <3>2. CASE j # i
      BY <1>1, <1>2, <1>4, <1>5, <1>6, <3>2 DEF IInv, ExecInv
    <3> QED BY <3>1, <3>2
  <2>2. ASSUME NEW j \in DOMAIN exec', NEW k \in DOMAIN exec', exec'[j].task = exec'[k].task,
               exec'[j].status \in Live, exec'[k].status \in Live
        PROVE  j = k
    BY <1>2, <1>3, <1>4, <1>5, <2>2 DEF IInv, ExecInv
  <2>3. ASSUME NEW u \in Tasks, status'[u] \in Live
        PROVE  \E j \in DOMAIN exec' : exec'[j].task = u /\ exec'[j].status \in Live
    <3>1. CASE u = t
      BY <1>2, <1>3, <3>1
    <3>2. CASE u # t
      <4>1. PICK j \in DOMAIN exec : exec[j].task = u /\ exec[j].status \in Live
        BY <1>6, <2>3, <3>2 DEF IInv, ExecInv
      <4>2. j # i
        BY <3>2, <4>1 DEF t
      <4> QED BY <1>2, <1>4, <4>1, <4>2
    <3> QED BY <3>1, <3>2
  <2> QED BY <2>1, <2>2, <2>3 DEF ExecInv
<1>8. LoadInv'
  <2>1. \A w : LiveOn(w)' = LiveOn(w)
    BY <1>2, <1>3, <1>4 DEF LiveOn
  <2> QED BY <1>2, <2>1 DEF IInv, LoadInv
<1> QED BY <1>7, <1>8

\* A failure of an execution that has not ended ends it.
LEMMA FailKeeps ==
    ASSUME IInv, NEW i \in DOMAIN exec, exec[i].status \in Live,
           NEW eligible \in BOOLEAN, FailBody(i, eligible, "out")
    PROVE  ExecInv' /\ LoadInv'
<1> DEFINE t == exec[i].task
           x == [exec[i] EXCEPT !.status = "FAILED", !.at = "out"]
           y == [x EXCEPT !.attempt = @ + 1]
<1>1. /\ exec[i] \in Executions /\ t \in Tasks /\ status[t] \in Live
      /\ status[t] \in Statuses
  BY ExecutionFacts DEF IInv, ExecInv
<1>2. "FAILED" \in Legal[status[t]]
  BY <1>1, LegalFailed DEF Failable
<1>3. x \in Executions /\ y \in Executions
  <2>1. x \in Executions
    BY <1>1 DEF Executions
  <2> HIDE DEF x
  <2>2. y \in Executions
    BY <2>1 DEF Executions
  <2> QED BY <2>1, <2>2
<1>4. \A z \in {x, y} : z.task = t /\ z.worker = exec[i].worker /\ z.status = "FAILED"
                        /\ z.at = "out"
  BY <1>1 DEF Executions
<1>5. load' = LoadReleased(exec[i].worker)
      /\ \E z \in {x, y} : exec' = Released([exec EXCEPT ![i] = z], t)
  <2>1. load' = LoadReleased(exec[i].worker)
    BY <1>2 DEF FailBody
  <2>2. \/ exec' = Released([exec EXCEPT ![i].status = "FAILED", ![i].at = "out"], t)
        \/ exec' = Released([[exec EXCEPT ![i].status = "FAILED", ![i].at = "out"]
                             EXCEPT ![i].attempt = @ + 1], t)
    BY <1>2 DEF FailBody
  <2>3. [exec EXCEPT ![i].status = "FAILED", ![i].at = "out"] = [exec EXCEPT ![i] = x]
        /\ [[exec EXCEPT ![i].status = "FAILED", ![i].at = "out"]
              EXCEPT ![i].attempt = @ + 1] = [exec EXCEPT ![i] = y]
    BY <1>1
  <2> QED BY <2>1, <2>2, <2>3
<1>6. PICK s \in {"FAILED", "QUEUED", "RETRYING"} : status' = [status EXCEPT ![t] = s]
  BY <1>2 DEF FailBody
<1>7. s \in Statuses \ Live
  BY DEF Statuses
<1> HIDE DEF x, y
<1>8. PICK z \in {x, y} : exec' = Released([exec EXCEPT ![i] = z], t)
  BY <1>5
<1>9. z \in Executions /\ z.task = t /\ z.worker = exec[i].worker /\ z.status \notin Live
      /\ z.at = "out"
  BY <1>3, <1>4
<1> QED BY <1>5, <1>6, <1>7, <1>8, <1>9, EndKeeps

\* So does a cancellation.
LEMMA CancelKeeps ==
    ASSUME IInv, NEW i \in DOMAIN exec, exec[i].status \in Live, exec[i].at = "out",
           CancelBody(i)
    PROVE  ExecInv' /\ LoadInv'
<1> DEFINE t == exec[i].task
           x == [exec[i] EXCEPT !.status = "CANCELLED", !.cancel = TRUE]
<1>1. exec[i] \in Executions /\ status[t] \in Live
  BY ExecutionFacts DEF IInv, ExecInv
<1>2. x \in Executions /\ x.task = t /\ x.worker = exec[i].worker /\ x.status \notin Live
      /\ x.at = "out"
  BY <1>1 DEF Executions
<1>3. exec' = Released([exec EXCEPT ![i] = x], t)
  <2>1. exec' = Released([exec EXCEPT ![i].status = "CANCELLED", ![i].cancel = TRUE], t)
    BY DEF CancelBody
  <2>2. [exec EXCEPT ![i].status = "CANCELLED", ![i].cancel = TRUE] = [exec EXCEPT ![i] = x]
    BY <1>1
  <2> QED BY <2>1, <2>2
<1>4. load' = LoadReleased(exec[i].worker) /\ status' = [status EXCEPT ![t] = "CANCELLED"]
  BY <1>1 DEF CancelBody
<1>5. "CANCELLED" \in Statuses \ Live
  BY DEF Statuses
<1> HIDE DEF x
<1> QED BY <1>2, <1>3, <1>4, <1>5, EndKeeps

\* The inductive step: each action leaves the executions, their tasks and the
\* loads in agreement.
LEMMA InvStep ==
    ASSUME CallersAreCareful, IInv, [Next]_vars, [NotDuringExecute]_vars
    PROVE  IInv'
<1>1. TypeOK'
  BY TypeStep DEF IInv
<1>2. \A i \in DOMAIN exec : exec[i] \in Executions /\ exec[i].task \in Tasks
  BY ExecutionFacts DEF IInv
<1>3. status \in [Tasks -> Statuses]
  BY DEF IInv, TypeOK
<1>4. ASSUME NEW t \in Tasks, Enqueue(t) \/ Approve(t) PROVE ExecInv' /\ LoadInv'
  <2>1. exec' = exec /\ load' = load
        /\ \A u \in Tasks : (status[u] \in Live \/ status'[u] \in Live) => status'[u] = status[u]
    BY <1>3, <1>4 DEF Enqueue, Approve
  <2> QED BY <2>1, SameKeeps
<1>5. ASSUME NEW t \in Tasks, NEW s \in Statuses, Transition(t, s) PROVE ExecInv' /\ LoadInv'
  <2>1. s \in OperatorTargets /\ s \in Legal[status[t]] /\ s \notin Live
        /\ status' = [status EXCEPT ![t] = s] /\ exec' = exec /\ load' = load
    BY <1>5 DEF Transition, CallersAreCareful
  <2>2. status[t] \notin Live
    BY <1>3, <2>1 DEF Legal, Statuses, CallersAreCareful
  <2>3. \A u \in Tasks : (status[u] \in Live \/ status'[u] \in Live) => status'[u] = status[u]
    BY <1>3, <2>1, <2>2
  <2> QED BY <2>1, <2>3, SameKeeps
<1>6. ASSUME NEW t \in Tasks, NEW w \in Workers, NEW q \in Queues, Dispatch(t, w, q)
      PROVE  ExecInv' /\ LoadInv'
  BY <1>6, DispatchKeeps
<1>7. ASSUME UNCHANGED <<status, load, exec>> PROVE ExecInv' /\ LoadInv'
  BY <1>7, SameKeeps
<1>8. ASSUME NEW i \in DOMAIN exec, ExecuteDenied(i) \/ PortRaises(i) PROVE ExecInv' /\ LoadInv'
  <2>1. exec[i].status \in Live
    BY <1>8 DEF ExecuteDenied, PortRaises, Callable, CallersAreCareful, IInv, ExecInv
  <2>2. \E eligible \in BOOLEAN : FailBody(i, eligible, "out")
    BY <1>8 DEF ExecuteDenied, PortRaises
  <2> QED BY <2>1, <2>2, FailKeeps
<1>9. ASSUME NEW i \in DOMAIN exec, Execute(i) PROVE ExecInv' /\ LoadInv'
  <2>1. exec[i].status \in Live
    BY <1>9 DEF Execute, Callable, CallersAreCareful
  <2> QED BY <1>9, <2>1, StartKeeps
<1>10. ASSUME NEW i \in DOMAIN exec, PreflightDone(i) PROVE ExecInv' /\ LoadInv'
  <2>1. exec' = [exec EXCEPT ![i].at = "port"] /\ load' = load /\ status' = status
        /\ exec[i].at = "preflight"
    BY <1>10 DEF PreflightDone, IInv, ExecInv
  <2>2. /\ DOMAIN exec' = DOMAIN exec
        /\ \A j \in DOMAIN exec :
              /\ exec'[j].task = exec[j].task /\ exec'[j].worker = exec[j].worker
              /\ exec'[j].status = exec[j].status /\ exec'[j].cancel = exec[j].cancel
              /\ exec'[j].released = exec[j].released
              /\ exec'[j].at = exec[j].at \/ exec[j].at # "out"
    BY <1>2, <2>1 DEF Executions
  <2> QED BY <2>1, <2>2, SameKeeps
<1>11. ASSUME NEW i \in DOMAIN exec, PortReturns(i) PROVE ExecInv' /\ LoadInv'
  <2> DEFINE x == [exec[i] EXCEPT !.status = "COMPLETED", !.at = "out"]
  <2>1. x \in Executions /\ exec' = Released([exec EXCEPT ![i] = x], exec[i].task)
    BY <1>2, <1>11 DEF PortReturns, Executions
  <2>2. x.task = exec[i].task /\ x.worker = exec[i].worker /\ x.status \notin Live
        /\ x.at = "out"
    BY <1>2 DEF Executions
  <2>3. exec[i].status \in Live
    BY <1>11 DEF PortReturns, IInv, ExecInv
  <2>4. load' = LoadReleased(exec[i].worker)
        /\ status' = [status EXCEPT ![exec[i].task] = "COMPLETED"]
    BY <1>11 DEF PortReturns
  <2>5. "COMPLETED" \in Statuses \ Live
    BY DEF Statuses
  <2> HIDE DEF x
  <2> QED BY <2>1, <2>2, <2>3, <2>4, <2>5, EndKeeps
<1>12. ASSUME NEW i \in DOMAIN exec, PortReturnsLate(i) PROVE FALSE
  <2>1. exec[i].status = "RUNNING" /\ status[exec[i].task] = "RUNNING"
    BY <1>12 DEF PortReturnsLate, IInv, ExecInv
  <2> QED BY <1>12, <2>1, LegalCompleted DEF PortReturnsLate, Statuses
<1>13. ASSUME NEW i \in DOMAIN exec, ResumeCheckpoint(i) PROVE ExecInv' /\ LoadInv'
  <2>1. exec' = [exec EXCEPT ![i].attempt = @ + 1] /\ load' = load
    BY <1>13 DEF ResumeCheckpoint
  <2>2. /\ DOMAIN exec' = DOMAIN exec
        /\ \A j \in DOMAIN exec :
              /\ exec'[j].task = exec[j].task /\ exec'[j].worker = exec[j].worker
              /\ exec'[j].status = exec[j].status /\ exec'[j].cancel = exec[j].cancel
              /\ exec'[j].released = exec[j].released /\ exec'[j].at = exec[j].at
    BY <1>2, <2>1 DEF Executions
  <2>3. \/ status' = status
        \/ /\ status[exec[i].task] \notin Live
           /\ \E s \in {"QUEUED", "RECOVERING"} : status' = [status EXCEPT ![exec[i].task] = s]
    BY <1>2, <1>3, <1>13 DEF ResumeCheckpoint, Recoverable
  <2>4. \A u \in Tasks : (status[u] \in Live \/ status'[u] \in Live) => status'[u] = status[u]
    BY <1>2, <1>3, <2>3
  <2> QED BY <2>1, <2>2, <2>4, SameKeeps
<1>14. ASSUME NEW i \in DOMAIN exec, Cancel(i) \/ \E eligible \in BOOLEAN : Fail(i, eligible)
       PROVE  ExecInv' /\ LoadInv'
  <2>1. CASE vars' = vars
    BY <1>7, <2>1 DEF vars
  <2>2. CASE NotDuringExecute
    <3>1. exec[i].at = "out"
      BY <1>14, <2>2 DEF NotDuringExecute
    <3>2. exec[i].status \in Live
      BY <1>14 DEF Cancel, Fail, Callable, CallersAreCareful
    <3>3. CASE Cancel(i)
      BY <3>1, <3>2, <3>3, CancelKeeps DEF Cancel
    <3>4. ASSUME NEW eligible \in BOOLEAN, Fail(i, eligible) PROVE ExecInv' /\ LoadInv'
      BY <3>1, <3>2, <3>4, FailKeeps DEF Fail
    <3> QED BY <1>14, <3>3, <3>4
  <2> QED BY <2>1, <2>2
<1>15. ExecInv' /\ LoadInv'
  BY <1>4, <1>5, <1>6, <1>7, <1>8, <1>9, <1>10, <1>11, <1>12, <1>13, <1>14
     DEF Next, vars, TimePasses, Heartbeat, PromoteDue, SetPause, CreateCheckpoint
<1> QED BY <1>1, <1>15 DEF IInv

LEMMA Invariant ==
    ASSUME CallersAreCareful
    PROVE  Spec /\ [][NotDuringExecute]_vars => []IInv
<1>1. Init => IInv
  <2> SUFFICES ASSUME Init PROVE IInv
    OBVIOUS
  <2>1. TypeOK
    BY InitTypes
  <2>2. DOMAIN exec = {} /\ \A w : LiveOn(w) = {}
    BY DEF Init, LiveOn
  <2>3. LoadInv
    BY <2>2, FS_EmptySet DEF Init, LoadInv
  <2>4. ExecInv
    BY <2>2 DEF Init, ExecInv
  <2> QED BY <2>1, <2>3, <2>4 DEF IInv
<1>2. IInv /\ [Next]_vars /\ [NotDuringExecute]_vars => IInv'
  BY InvStep
<1> QED BY <1>1, <1>2, PTL DEF Spec

\* As long as nobody ends an execution while execute() is in it, a worker's
\* load is the number of its executions under way and exactly those hold a
\* reservation, whatever fails, is retried, recovered or cancelled in between
\* (dispatch_next, _release).
THEOREM LoadMatchesHolds ==
    ASSUME CallersAreCareful
    PROVE  Spec /\ [][NotDuringExecute]_vars => []LoadMatches
<1>1. IInv => LoadMatches
  BY DEF IInv, ExecInv, LoadInv, LoadMatches
<1> QED BY <1>1, Invariant, PTL

\* Under the same condition a task has one execution under way while it is
\* ALLOCATED or RUNNING, and none otherwise (dispatch_next, execute).
THEOREM OneLiveExecutionHolds ==
    ASSUME CallersAreCareful
    PROVE  Spec /\ [][NotDuringExecute]_vars => []OneLiveExecution
<1>1. IInv => OneLiveExecution
  <2> SUFFICES ASSUME IInv, NEW t \in Tasks
               PROVE  Cardinality({i \in DOMAIN exec : exec[i].task = t /\ exec[i].status \in Live})
                        = IF status[t] \in Live THEN 1 ELSE 0
    BY DEF OneLiveExecution
  <2> DEFINE S == {i \in DOMAIN exec : exec[i].task = t /\ exec[i].status \in Live}
  <2>1. CASE status[t] \in Live
    <3>1. PICK i \in DOMAIN exec : exec[i].task = t /\ exec[i].status \in Live
      BY <2>1 DEF IInv, ExecInv
    <3>2. S = {i}
      BY <3>1 DEF IInv, ExecInv
    <3>3. Cardinality(S) = 1
      BY <3>2, FS_Singleton
    <3> QED BY <2>1, <3>3
  <2>2. CASE status[t] \notin Live
    <3>1. S = {}
      BY <2>2 DEF IInv, ExecInv
    <3>2. Cardinality(S) = 0
      BY <3>1, FS_EmptySet
    <3> QED BY <2>2, <3>2
  <2> QED BY <2>1, <2>2
<1> QED BY <1>1, Invariant, PTL

\* No worker has more executions under way than its capacity.
Capacities == \A w \in Workers : Cardinality(LiveOn(w)) <= Capacity[w]

Loads == \A w \in Workers : load[w] <= Capacity[w]

LEMMA LoadStep ==
    ASSUME TypeOK, Loads, [Next]_vars
    PROVE  Loads'
<1>1. load \in [Workers -> Nat] /\ \A w \in Workers : Capacity[w] \in Nat
  <2>1. Capacity \in [Workers -> 1..100]
    BY SchedulerAssumption
  <2>2. load \in [Workers -> Nat]
    BY DEF TypeOK
  <2> QED BY <2>1, <2>2
<1>2. \/ load' = load
      \/ \E i \in DOMAIN exec : load' = LoadReleased(exec[i].worker)
      \/ \E w \in Workers : load' = [load EXCEPT ![w] = @ + 1] /\ load[w] < Capacity[w]
  <2>1. ASSUME NEW i \in DOMAIN exec, NEW eligible, NEW at, FailBody(i, eligible, at)
        PROVE  load' = load \/ load' = LoadReleased(exec[i].worker)
    BY <2>1 DEF FailBody
  <2>2. ASSUME NEW i \in DOMAIN exec,
               \/ ExecuteDenied(i) \/ Execute(i) \/ PreflightDone(i)
               \/ PortReturns(i) \/ PortReturnsLate(i) \/ PortRaises(i)
               \/ CreateCheckpoint(i) \/ ResumeCheckpoint(i) \/ Cancel(i)
               \/ \E eligible \in BOOLEAN : Fail(i, eligible)
        PROVE  load' = load \/ load' = LoadReleased(exec[i].worker)
    BY <2>1, <2>2 DEF ExecuteDenied, Execute, PreflightDone, PortReturns, PortReturnsLate,
       PortRaises, CreateCheckpoint, ResumeCheckpoint, Cancel, CancelBody, Fail
  <2>3. ASSUME NEW t \in Tasks, NEW w \in Workers, NEW q \in Queues, Dispatch(t, w, q)
        PROVE  load' = [load EXCEPT ![w] = @ + 1] /\ load[w] < Capacity[w]
    BY <2>3 DEF Dispatch, Available
  <2>4. ASSUME \/ \E t \in Tasks : Enqueue(t) \/ TimePasses(t) \/ Approve(t)
               \/ \E t \in Tasks, s \in Statuses : Transition(t, s)
               \/ \E w \in Workers : Heartbeat(w)
               \/ PromoteDue \/ SetPause \/ UNCHANGED vars
        PROVE  load' = load
    BY <2>4 DEF Enqueue, TimePasses, Approve, Transition, Heartbeat, PromoteDue, SetPause, vars
  <2> QED BY <2>2, <2>3, <2>4 DEF Next
<1>3. ASSUME NEW i \in DOMAIN exec, load' = LoadReleased(exec[i].worker) PROVE Loads'
  <2>1. exec[i].worker \in Workers
    BY ExecutionFacts
  <2>2. \A w \in Workers : load'[w] = load[w] \/ (load[w] > 0 /\ load'[w] = load[w] - 1)
    BY <1>1, <1>3, <2>1 DEF LoadReleased
  <2> QED BY <1>1, <2>2 DEF Loads
<1>4. ASSUME NEW w \in Workers, load' = [load EXCEPT ![w] = @ + 1], load[w] < Capacity[w]
      PROVE  Loads'
  <2>1. \A v \in Workers : load'[v] = IF v = w THEN load[v] + 1 ELSE load[v]
    BY <1>1, <1>4
  <2> QED BY <1>1, <1>4, <2>1 DEF Loads
<1>5. CASE load' = load
  BY <1>5 DEF Loads
<1> QED BY <1>2, <1>3, <1>4, <1>5

\* Under the same condition no worker is given more than its capacity, for
\* dispatch_next compares the load with it and nothing else adds to the load.
\* Without it a slot that is freed twice is given away twice.
THEOREM CapacityHolds ==
    ASSUME CallersAreCareful
    PROVE  Spec /\ [][NotDuringExecute]_vars => []Capacities
<1>1. Init => Loads
  <2>1. \A w \in Workers : Capacity[w] \in Nat
    BY SchedulerAssumption
  <2> QED BY <2>1 DEF Init, Loads
<1>2. TypeOK /\ Loads /\ [Next]_vars => Loads'
  BY LoadStep
<1>3. IInv /\ Loads => Capacities
  BY DEF IInv, LoadInv, Loads, Capacities
<1> QED BY <1>1, <1>2, <1>3, TypeCorrect, Invariant, PTL DEF Spec
==============================================================================
