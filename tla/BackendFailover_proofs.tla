------------------------ MODULE BackendFailover_proofs ------------------------
(***************************************************************************)
(* Proofs about BackendFailover, for any threads, workers and thresholds.  *)
(***************************************************************************)
EXTENDS BackendFailover, TLAPS

\* What the metrics and the threads are, with the one transition per cycle.
IInv ==
    /\ state \in {"PRIMARY_ACTIVE", "SECONDARY_ACTIVE", "PRIMARY_RECOVERED"}
    /\ metrics \in [failovers : Nat, recoveries : Nat, failbacks : Nat]
    /\ OneTransitionEach

LEMMA StepIInv == IInv /\ [Next]_vars => IInv'
<1> SUFFICES ASSUME IInv, [Next]_vars PROVE IInv'
  OBVIOUS
<1> USE DEF IInv, OneTransitionEach
<1>1. ASSUME NEW t \in Threads, ApplyHealthy(t) PROVE IInv'
  BY <1>1 DEF ApplyHealthy, MayRecover
<1>2. ASSUME NEW t \in Threads, ApplyUnhealthy(t) PROVE IInv'
  BY <1>2 DEF ApplyUnhealthy
<1>3. CASE ManualFailback
  BY <1>3 DEF ManualFailback
<1>4. CASE UNCHANGED <<state, metrics>>
  BY <1>4
<1>5. ASSUME NEW t \in Threads, Evaluation(t) PROVE IInv'
  BY <1>1, <1>2, <1>4, <1>5 DEF Evaluation, BeginProbe, ConnectRaises
<1>6. ASSUME NEW w \in Workers, NextRound(w) \/ Start(w) PROVE IInv'
  BY <1>4, <1>6 DEF NextRound, Start
<1>7. CASE Stop \/ UNCHANGED vars
  BY <1>4, <1>7 DEF Stop, vars
<1> QED
  BY <1>3, <1>5, <1>6, <1>7 DEF Next

\* However many threads evaluate at once and in whatever order they apply
\* their results, each cycle is counted once (evaluate, manual_failback).
THEOREM OneTransitionEachHolds == Spec => []OneTransitionEach
<1>1. Init => IInv
  BY DEF Init, IInv, OneTransitionEach
<1>2. IInv => OneTransitionEach
  BY DEF IInv
<1> QED
  BY <1>1, <1>2, StepIInv, PTL DEF Spec

-----------------------------------------------------------------------------
(* Thresholds.                                                              *)

\* A counter is never ahead of the row of results that were applied: a failure
\* is counted in the primary period only, a recovery in the secondary period
\* only, and the primary period begins without recoveries.
RowInv ==
    /\ state \in {"PRIMARY_ACTIVE", "SECONDARY_ACTIVE", "PRIMARY_RECOVERED"}
    /\ failures \in Nat /\ recoveries \in Nat
    /\ applied \in [result : Results, times : Nat]
    /\ (state = "PRIMARY_ACTIVE" /\ failures > 0) =>
          applied.result = "unhealthy" /\ applied.times >= failures
    /\ (state = "SECONDARY_ACTIVE" /\ recoveries > 0) =>
          applied.result = "healthy" /\ applied.times >= recoveries
    /\ failures <= FailureThreshold /\ recoveries <= RecoveryThreshold
    /\ state = "PRIMARY_ACTIVE" => recoveries = 0

LEMMA LongestIsEnough ==
    Longest \in Nat \ {0} /\ Longest >= FailureThreshold /\ Longest >= RecoveryThreshold
BY FailoverAssumption DEF Longest

\* What an evaluation does to the row of results.
LEMMA DoneFacts ==
    ASSUME RowInv, NEW t \in Threads, probe[t] \in Results, Done(t)
    PROVE  /\ applied' \in [result : Results, times : Nat] /\ applied'.result = probe[t]
           /\ applied'.times >= 1
           /\ probe[t] = applied.result =>
                \/ applied'.times = applied.times + 1
                \/ applied'.times >= FailureThreshold /\ applied'.times >= RecoveryThreshold
BY LongestIsEnough DEF RowInv, Done, UpTo, Results

LEMMA HealthyRow ==
    ASSUME RowInv, NEW t \in Threads, ApplyHealthy(t)
    PROVE  /\ RowInv'
           /\ state' # state => /\ state = "SECONDARY_ACTIVE"
                                /\ applied'.result = "healthy"
                                /\ applied'.times >= RecoveryThreshold
<1>1. /\ applied' \in [result : Results, times : Nat] /\ applied'.result = "healthy"
      /\ applied'.times >= 1
      /\ applied.result = "healthy" =>
           \/ applied'.times = applied.times + 1
           \/ applied'.times >= FailureThreshold /\ applied'.times >= RecoveryThreshold
  BY DoneFacts DEF ApplyHealthy, Returns, Results
<1> QED
  BY <1>1, FailoverAssumption DEF ApplyHealthy, MayRecover, UpTo, RowInv

LEMMA UnhealthyRow ==
    ASSUME RowInv, NEW t \in Threads, ApplyUnhealthy(t) \/ ConnectRaises(t)
    PROVE  /\ RowInv'
           /\ state' # state => /\ state = "PRIMARY_ACTIVE" /\ state' = "SECONDARY_ACTIVE"
                                /\ applied'.result = "unhealthy"
                                /\ applied'.times >= FailureThreshold
<1>1. /\ applied' \in [result : Results, times : Nat] /\ applied'.result = "unhealthy"
      /\ applied'.times >= 1
      /\ applied.result = "unhealthy" =>
           \/ applied'.times = applied.times + 1
           \/ applied'.times >= FailureThreshold /\ applied'.times >= RecoveryThreshold
  BY DoneFacts DEF ApplyUnhealthy, ConnectRaises, Returns, Results
<1>2. CASE ApplyUnhealthy(t)
  BY <1>1, <1>2, FailoverAssumption DEF ApplyUnhealthy, FailsOver, UpTo, RowInv
<1>3. CASE ConnectRaises(t)
  BY <1>1, <1>3, FailoverAssumption DEF ConnectRaises, FailsOver, UpTo, RowInv
<1> QED BY <1>2, <1>3

\* What ThresholdsEarned asks of a step.
Earned ==
    /\ (state = "PRIMARY_ACTIVE" /\ state' = "SECONDARY_ACTIVE") =>
          applied'.result = "unhealthy" /\ applied'.times >= FailureThreshold
    /\ (state = "SECONDARY_ACTIVE" /\ state' = "PRIMARY_RECOVERED") =>
          applied'.result = "healthy" /\ applied'.times >= RecoveryThreshold

LEMMA RowStep == RowInv /\ [Next]_vars => RowInv' /\ Earned
<1> SUFFICES ASSUME RowInv, [Next]_vars PROVE RowInv' /\ Earned
  OBVIOUS
<1>1. ASSUME NEW t \in Threads, ApplyHealthy(t) PROVE RowInv' /\ Earned
  BY <1>1, HealthyRow DEF Earned
<1>2. ASSUME NEW t \in Threads, ApplyUnhealthy(t) \/ ConnectRaises(t)
      PROVE  RowInv' /\ Earned
  BY <1>2, UnhealthyRow DEF Earned
<1>3. ASSUME ManualFailback PROVE RowInv' /\ Earned
  BY <1>3, FailoverAssumption
     DEF ManualFailback, FailuresAfterFailback, RowInv, Earned
<1>4. ASSUME UNCHANGED <<state, failures, recoveries, applied>> PROVE RowInv' /\ Earned
  BY <1>4 DEF RowInv, Earned
<1> QED
  BY <1>1, <1>2, <1>3, <1>4 DEF Next, Evaluation, BeginProbe, NextRound, Start, Stop, vars

\* Whoever's evaluations they were and in whatever order they were applied, a
\* failover follows failure_threshold unhealthy results in a row, and a
\* recovery recovery_threshold healthy ones (evaluate).
THEOREM ThresholdsEarnedHolds == Spec => ThresholdsEarned
<1>1. Init => RowInv
  BY FailoverAssumption DEF Init, RowInv, Results
<1>2. RowInv /\ [Next]_vars => RowInv'
  BY RowStep
<1>3. RowInv /\ [Next]_vars => [Earned]_vars
  BY RowStep
<1> QED
  BY <1>1, <1>2, <1>3, PTL DEF Spec, ThresholdsEarned, Earned
==============================================================================
