--------------------------- MODULE WorkflowPromise ---------------------------
(***************************************************************************)
(* What a workflow execution promises, without queues, tasks or drivers:   *)
(* a gate that is open, closed or ended, and the life of every step.       *)
(* WorkflowAsync and WorkflowEngine implement it.                          *)
(***************************************************************************)
EXTENDS Naturals, FiniteSets

CONSTANTS
    Steps,
    Deps,        \* the dependencies of each step
    Tolerated,   \* the steps whose failure still unblocks dependents
    Limit        \* how many steps may be under way at once

VARIABLES
    gate,     \* "open": steps may start; "closed": held; "ended": for good
    status    \* of each step

promiseVars == <<gate, status>>

Outcomes == {"completed", "skipped", "failed", "cancelled"}

Started == {s \in Steps : status[s] = "started"}

Unblocks(d) ==
    \/ status[d] \in {"completed", "skipped"}
    \/ d \in Tolerated /\ status[d] = "failed"

Init ==
    /\ gate \in {"open", "closed"}
    /\ status = [s \in Steps |-> "waiting"]

\* Steps start only through an open gate, with their dependencies met.
Start(S) ==
    /\ gate = "open"
    /\ \A s \in S : status[s] = "waiting" /\ \A d \in Deps[s] : Unblocks(d)
    /\ Cardinality(Started \cup S) <= Limit
    /\ status' = [s \in Steps |-> IF s \in S THEN "started" ELSE status[s]]
    /\ UNCHANGED gate

\* A step under way gets its outcome, whatever the gate.
Settle(s, o) ==
    /\ status[s] = "started"
    /\ status' = [status EXCEPT ![s] = o]
    /\ gate' = gate \/ gate' = "ended"

\* A cancellation closes the gate and cancels steps not yet settled.
CancelSteps(S) ==
    /\ \A s \in S : status[s] \in {"waiting", "started"}
    /\ status' = [s \in Steps |-> IF s \in S THEN "cancelled" ELSE status[s]]
    /\ gate' \in {"closed", "ended"}
    /\ gate = "ended" => gate' = "ended"

\* The gate opens and closes until it has ended.
MoveGate ==
    /\ gate # "ended"
    /\ gate' \in {"open", "closed", "ended"}
    /\ UNCHANGED status

Next ==
    \/ \E S \in SUBSET Steps : Start(S) \/ CancelSteps(S)
    \/ \E s \in Steps, o \in Outcomes : Settle(s, o)
    \/ MoveGate

Spec == Init /\ [][Next]_promiseVars
=============================================================================
