---------------------------- MODULE BackendFailover ----------------------------
(***************************************************************************)
(* FailoverManager (distributed/failover.py): threads that evaluate the    *)
(* primary backend and switch to the secondary, the explicit failback, and *)
(* the periodic worker that start and stop control.                        *)
(*                                                                         *)
(* evaluate probes the primary outside the lock and applies the result     *)
(* under it, so two evaluations may apply their results in either order.   *)
(* Counters are kept up to the threshold they are compared with.           *)
(***************************************************************************)
EXTENDS Naturals, FiniteSets

CONSTANTS
    Callers,             \* threads that call evaluate themselves
    Workers,             \* bound of the model: the worker threads ever started
    NoWorker,            \* self._thread is None
    FailureThreshold,    \* config.failure_threshold
    RecoveryThreshold,   \* config.recovery_threshold
    MaxFailbacks         \* bound of the model on the number of failbacks

ASSUME FailoverAssumption ==
    /\ FailureThreshold \in Nat \ {0}
    /\ RecoveryThreshold \in Nat \ {0}
    /\ MaxFailbacks \in Nat
    /\ NoWorker \notin Workers
    /\ Callers \cap Workers = {}

VARIABLES
    state,        \* _state
    failures,     \* _consecutive_failures, up to FailureThreshold
    recoveries,   \* _consecutive_recoveries, up to RecoveryThreshold
    metrics,      \* _metrics: failovers, recoveries and failbacks
    probe,        \* of each thread: "none", or the result its probe will have
    worker,       \* of each worker: "new", "evaluate", "wait" or "ended"
    current,      \* _thread
    stopSet,      \* _stop_event
    applied       \* history: how the last applied results agreed, and on what

vars == <<state, failures, recoveries, metrics, probe, worker, current,
          stopSet, applied>>

Threads == Callers \cup Workers

Init ==
    /\ state = "PRIMARY_ACTIVE"
    /\ failures = 0 /\ recoveries = 0
    /\ metrics = [failovers |-> 0, recoveries |-> 0, failbacks |-> 0]
    /\ probe = [t \in Threads |-> "none"]
    /\ worker = [w \in Workers |-> "new"]
    /\ current = NoWorker
    /\ stopSet = FALSE
    /\ applied = [result |-> "healthy", times |-> 0]

-----------------------------------------------------------------------------
(* evaluate, first half: the probe, without the lock.                       *)

Results == {"healthy", "unhealthy"}

BeginProbe(t, r) ==
    /\ probe[t] = "none"
    /\ t \in Workers => worker[t] = "evaluate"
    /\ probe' = [probe EXCEPT ![t] = r]
    /\ UNCHANGED <<state, failures, recoveries, metrics, worker, current,
                   stopSet, applied>>

-----------------------------------------------------------------------------
(* evaluate, second half: apply the result under the lock.                  *)

UpTo(limit, n) == IF n < limit THEN n + 1 ELSE limit

Longest == IF FailureThreshold > RecoveryThreshold
           THEN FailureThreshold ELSE RecoveryThreshold

\* A slip: a worker waits for its next round without looking at the event.
MutantAfterRound(w) == "evaluate"

\* _stop_event.wait(interval): a worker that finds the event set ends.
AfterRound(w) == IF stopSet THEN "ended" ELSE "wait"

Done(t) ==
    /\ probe' = [probe EXCEPT ![t] = "none"]
    /\ applied' = [result |-> probe[t],
                   times |-> IF probe[t] = applied.result
                             THEN UpTo(Longest, applied.times) ELSE 1]
    /\ UNCHANGED <<current, stopSet>>

Returns(t) ==
    /\ Done(t)
    /\ worker' = IF t \in Workers THEN [worker EXCEPT ![t] = AfterRound(t)] ELSE worker

\* A slip: a recovered primary recovers again.
MutantMayRecover == state # "PRIMARY_ACTIVE"

MayRecover == state = "SECONDARY_ACTIVE"

ApplyHealthy(t) ==
    /\ probe[t] = "healthy"
    /\ failures' = IF state = "PRIMARY_ACTIVE" THEN 0 ELSE failures
    /\ IF MayRecover
       THEN /\ recoveries' = UpTo(RecoveryThreshold, recoveries)
            /\ IF recoveries + 1 >= RecoveryThreshold
               THEN /\ state' = "PRIMARY_RECOVERED"
                    /\ metrics' = [metrics EXCEPT !.recoveries = @ + 1]
               ELSE UNCHANGED <<state, metrics>>
       ELSE UNCHANGED <<state, metrics, recoveries>>
    /\ Returns(t)

FailsOver == failures + 1 >= FailureThreshold

ApplyUnhealthy(t) ==
    /\ probe[t] = "unhealthy"
    /\ failures' = IF state = "PRIMARY_ACTIVE"
                   THEN UpTo(FailureThreshold, failures) ELSE failures
    /\ recoveries' = IF state = "SECONDARY_ACTIVE" THEN 0 ELSE recoveries
    /\ IF state = "PRIMARY_ACTIVE" /\ FailsOver
       THEN /\ state' = "SECONDARY_ACTIVE"
            /\ metrics' = [metrics EXCEPT !.failovers = @ + 1]
       ELSE UNCHANGED <<state, metrics>>
    /\ Returns(t)

\* secondary.connect() raises: the failure is counted, evaluate raises, and a
\* worker's thread ends with it.
ConnectRaises(t) ==
    /\ probe[t] = "unhealthy"
    /\ state = "PRIMARY_ACTIVE"
    /\ FailsOver
    /\ failures' = UpTo(FailureThreshold, failures)
    /\ Done(t)
    /\ worker' = IF t \in Workers THEN [worker EXCEPT ![t] = "ended"] ELSE worker
    /\ UNCHANGED <<state, recoveries, metrics>>

\* A slip: the failures of the previous period are kept.
MutantFailuresAfterFailback == failures

FailuresAfterFailback == 0

\* manual_failback; where it raises nothing changes.
ManualFailback ==
    /\ state = "PRIMARY_RECOVERED"
    /\ metrics.failbacks < MaxFailbacks
    /\ state' = "PRIMARY_ACTIVE"
    /\ failures' = FailuresAfterFailback
    /\ recoveries' = 0
    /\ metrics' = [metrics EXCEPT !.failbacks = @ + 1]
    /\ UNCHANGED <<probe, worker, current, stopSet, applied>>

-----------------------------------------------------------------------------
(* The periodic worker.                                                     *)

\* wait() times out.
NextRound(w) ==
    /\ worker[w] = "wait"
    /\ ~stopSet
    /\ worker' = [worker EXCEPT ![w] = "evaluate"]
    /\ UNCHANGED <<state, failures, recoveries, metrics, probe, current,
                   stopSet, applied>>

Alive == {w \in Workers : worker[w] \in {"evaluate", "wait"}}

\* start: nothing when the current thread is alive.
Start(w) ==
    /\ current \notin Alive
    /\ worker[w] = "new"
    /\ stopSet' = FALSE
    /\ current' = w
    /\ worker' = [worker EXCEPT ![w] = "evaluate"]
    /\ UNCHANGED <<state, failures, recoveries, metrics, probe, applied>>

\* stop: the event wakes the workers that wait for it.  One that evaluates is
\* joined for an interval at most, so stop may return before it has ended.
Stop ==
    /\ current' = NoWorker
    /\ stopSet' = TRUE
    /\ worker' = [w \in Workers |-> IF worker[w] = "wait" THEN "ended" ELSE worker[w]]
    /\ UNCHANGED <<state, failures, recoveries, metrics, probe, applied>>

-----------------------------------------------------------------------------

Evaluation(t) ==
    \/ \E r \in Results : BeginProbe(t, r)
    \/ ApplyHealthy(t) \/ ApplyUnhealthy(t) \/ ConnectRaises(t)

Next ==
    \/ \E t \in Threads : Evaluation(t)
    \/ \E w \in Workers : NextRound(w) \/ Start(w)
    \/ ManualFailback \/ Stop

Spec == Init /\ [][Next]_vars

\* Probes return (their clients have timeouts) and worker threads are scheduled;
\* nothing obliges anyone to start, stop, evaluate or fail back.
FairSpec == Spec /\ \A w \in Workers : WF_vars(Evaluation(w) \/ NextRound(w))

-----------------------------------------------------------------------------
(* Properties.                                                              *)

\* Concurrent evaluations make one transition each time: the metrics count
\* the same cycle of failover, recovery and failback that the state is in.
OneTransitionEach ==
    /\ metrics.failovers - metrics.failbacks = (IF state = "PRIMARY_ACTIVE" THEN 0 ELSE 1)
    /\ metrics.recoveries - metrics.failbacks = (IF state = "PRIMARY_RECOVERED" THEN 1 ELSE 0)

\* The secondary takes over only after failure_threshold unhealthy results
\* applied in a row, and the primary counts as recovered only after
\* recovery_threshold healthy ones, whoever's evaluations they were.
ThresholdsEarned ==
    [][/\ (state = "PRIMARY_ACTIVE" /\ state' = "SECONDARY_ACTIVE") =>
             applied'.result = "unhealthy" /\ applied'.times >= FailureThreshold
       /\ (state = "SECONDARY_ACTIVE" /\ state' = "PRIMARY_RECOVERED") =>
             applied'.result = "healthy" /\ applied'.times >= RecoveryThreshold]_vars

\* A stopped manager ends its workers, unless it is started again.
StopEnds ==
    stopSet ~> (~stopSet \/ \A w \in Workers : worker[w] \in {"new", "ended"})
=============================================================================
