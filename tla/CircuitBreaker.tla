---------------------------- MODULE CircuitBreaker ----------------------------
(***************************************************************************)
(* CircuitBreaker with its ThresholdStrategy (circuit_breaker/breaker.py,  *)
(* strategy.py) between callers that ask for admission and report an       *)
(* outcome later, the health events of the manager (manager.py), and the   *)
(* RuntimeScheduler (runtime_scheduler.py), which asks the breaker of      *)
(* every provider for admission and sends a request to one of them.        *)
(*                                                                         *)
(* Every method holds the breaker's lock, so each is one action.  Counters *)
(* are kept up to the threshold they are compared with, and the clock only *)
(* as whether the open duration has passed since opened_at.  What every    *)
(* module has is named for the breaker here: ProviderGuards_proofs extends *)
(* this module and RateLimiter.                                            *)
(***************************************************************************)
EXTENDS Naturals

CONSTANTS
    FailureThreshold,           \* failure_threshold
    HalfOpenSuccessThreshold,   \* half_open_success_threshold
    MaxRequests                 \* bound of the model on requests under way

ASSUME BreakerAssumption ==
    /\ FailureThreshold \in Nat \ {0}
    /\ HalfOpenSuccessThreshold \in Nat \ {0}
    /\ MaxRequests \in Nat \ {0}

VARIABLES
    circuit,        \* snapshot.state
    failures,       \* consecutive_failures, up to FailureThreshold
    successes,      \* half_open_success_count
    openedAt,       \* opened_at: "none", "recent", or "elapsed" with the duration
    halfOpenSince,  \* whether half_open_since is set
    underway,       \* the requests admitted whose outcome is not yet reported
    recovered       \* the provider works from now on (environment)

breakerVars == <<circuit, failures, successes, openedAt, halfOpenSince,
                 underway, recovered>>

snapshotVars == <<circuit, failures, successes, openedAt, halfOpenSince>>

BreakerInit ==
    /\ circuit = "CLOSED"
    /\ failures = 0 /\ successes = 0
    /\ openedAt = "none" /\ halfOpenSince = FALSE
    /\ underway = 0
    /\ recovered = FALSE

-----------------------------------------------------------------------------
(* The transition point.                                                    *)

\* A slip: a late failure starts the duration again.
MutantOpens ==
    /\ circuit' = "OPEN"
    /\ successes' = 0
    /\ openedAt' = "recent" /\ halfOpenSince' = FALSE

\* _transition(OPEN) stamps opened_at.  Nothing happens when it is OPEN
\* already, so a late failure does not start the duration again.
Opens ==
    /\ circuit' = "OPEN"
    /\ successes' = 0
    /\ IF circuit = "OPEN"
       THEN UNCHANGED <<openedAt, halfOpenSince>>
       ELSE openedAt' = "recent" /\ halfOpenSince' = FALSE

ClosedStamp == "none"

\* _transition(CLOSED)
Closes ==
    /\ circuit' = "CLOSED"
    /\ openedAt' = ClosedStamp
    /\ halfOpenSince' = FALSE
    /\ successes' = 0

-----------------------------------------------------------------------------
(* allow_request, where it admits; a refusal changes nothing.               *)

\* A slip: a half-open breaker admits the one probe that made it half open.
MutantAdmits == circuit = "CLOSED"

Admits == circuit # "OPEN"

Sent ==
    /\ underway < MaxRequests
    /\ underway' = underway + 1

Admit ==
    /\ Admits
    /\ Sent
    /\ UNCHANGED <<snapshotVars, recovered>>

\* should_half_open
ShouldHalfOpen == openedAt = "elapsed"

\* _transition(HALF_OPEN)
HalfOpens ==
    /\ circuit = "OPEN"
    /\ ShouldHalfOpen
    /\ circuit' = "HALF_OPEN"
    /\ halfOpenSince' = TRUE
    /\ successes' = 0
    /\ UNCHANGED <<failures, openedAt>>

AdmitProbe ==
    /\ HalfOpens
    /\ Sent
    /\ UNCHANGED recovered

\* RuntimeScheduler.schedule asks this breaker and selects another provider:
\* the breaker is half open and no probe is on its way.
AskOnly ==
    /\ HalfOpens
    /\ UNCHANGED <<underway, recovered>>

-----------------------------------------------------------------------------
(* Outcomes.                                                                *)

CountedFailure == IF failures < FailureThreshold THEN failures + 1 ELSE failures

\* record_failure: any failure while HALF_OPEN opens, and the threshold does.
RecordFailure ==
    /\ failures' = CountedFailure
    /\ IF circuit = "HALF_OPEN" \/ CountedFailure >= FailureThreshold
       THEN Opens
       ELSE successes' = 0 /\ UNCHANGED <<circuit, openedAt, halfOpenSince>>

\* A slip: the failures before the breaker opened are still counted.
MutantFailuresAfterSuccess == IF circuit = "HALF_OPEN" THEN failures ELSE 0

FailuresAfterSuccess == 0

CountedSuccess == IF circuit = "HALF_OPEN" THEN successes + 1 ELSE successes

\* record_success: closes after the threshold of half-open successes.
RecordSuccess ==
    /\ failures' = FailuresAfterSuccess
    /\ IF circuit = "HALF_OPEN" /\ CountedSuccess >= HalfOpenSuccessThreshold
       THEN Closes
       ELSE /\ successes' = CountedSuccess
            /\ UNCHANGED <<circuit, openedAt, halfOpenSince>>

Finish == underway > 0 /\ underway' = underway - 1

Fail ==
    /\ ~recovered
    /\ Finish
    /\ RecordFailure
    /\ UNCHANGED recovered

Succeed ==
    /\ Finish
    /\ RecordSuccess
    /\ UNCHANGED recovered

-----------------------------------------------------------------------------
(* handle_health_event, and the requests of an operator.                    *)

ForceOpen ==
    /\ ~recovered
    /\ Opens
    /\ UNCHANGED <<failures, underway, recovered>>

Degraded ==
    /\ ~recovered
    /\ RecordFailure
    /\ UNCHANGED <<underway, recovered>>

Recovered ==
    /\ RecordSuccess
    /\ UNCHANGED <<underway, recovered>>

\* reset: a fresh snapshot.
ResetBreaker ==
    /\ circuit' = "CLOSED"
    /\ failures' = 0 /\ successes' = 0
    /\ openedAt' = "none" /\ halfOpenSince' = FALSE
    /\ UNCHANGED <<underway, recovered>>

\* The clock passes opened_at + open_duration.
TimePasses ==
    /\ openedAt = "recent"
    /\ openedAt' = "elapsed"
    /\ UNCHANGED <<circuit, failures, successes, halfOpenSince,
                   underway, recovered>>

\* From some moment on the provider answers every request.
ProviderRecovers ==
    /\ ~recovered
    /\ recovered' = TRUE
    /\ UNCHANGED <<snapshotVars, underway>>

Request == Admit \/ AdmitProbe

Outcome == Fail \/ Succeed

Event == ForceOpen \/ Degraded \/ Recovered \/ ResetBreaker

BreakerNext == Request \/ AskOnly \/ Outcome \/ Event \/ TimePasses \/ ProviderRecovers

BreakerSpec == BreakerInit /\ [][BreakerNext]_breakerVars

\* Time passes, callers keep sending and every request gets its outcome.
FairBreakerSpec ==
    /\ BreakerSpec
    /\ WF_breakerVars(TimePasses) /\ WF_breakerVars(Request) /\ WF_breakerVars(Outcome)

-----------------------------------------------------------------------------
(* Properties.                                                              *)

\* The fields of the snapshot agree with its state, through late outcomes and
\* health events in every state: an OPEN breaker always has the opened_at it
\* needs to become HALF_OPEN, half-open successes are counted only there, and a
\* CLOSED breaker is below its threshold: failures counted while it was open
\* never make a fresh failure open it early.
SnapshotConsistent ==
    /\ circuit \in {"CLOSED", "OPEN", "HALF_OPEN"}
    /\ openedAt \in {"none", "recent", "elapsed"}
    /\ openedAt = "none" <=> circuit = "CLOSED"
    /\ halfOpenSince <=> circuit = "HALF_OPEN"
    /\ circuit # "HALF_OPEN" => successes = 0
    /\ successes \in 0..(HalfOpenSuccessThreshold - 1)
    /\ circuit = "CLOSED" => failures < FailureThreshold

\* An open breaker is asked again sooner or later: the failures of requests
\* still under way and bad health events, which find it OPEN, do not put off the
\* end of its open duration for ever.
OpenEnds == circuit = "OPEN" ~> circuit # "OPEN"

\* Once the provider works for good the breaker closes and stays so, if callers
\* keep sending: it is never stuck OPEN or HALF_OPEN, also when it was made half
\* open by a question that no request followed.
Closing == recovered ~> [](circuit = "CLOSED")
=============================================================================
