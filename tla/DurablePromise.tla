---------------------------- MODULE DurablePromise ----------------------------
(***************************************************************************)
(* WorkflowPromise with a record that survives the process: what has       *)
(* settled and the gate, as they were at some earlier moment.  A recovery  *)
(* goes back to exactly that; what was under way waits again.              *)
(***************************************************************************)
EXTENDS WorkflowPromise

VARIABLE kept    \* the record, as a set of at most one

durableVars == <<gate, status, kept>>

Record(g, st) ==
    [gate |-> g,
     status |-> [s \in Steps |-> IF st[s] = "started" THEN "waiting" ELSE st[s]]]

DurableInit == Init /\ kept = {}

\* Whatever happens may be recorded.
Progress ==
    /\ [Next]_promiseVars
    /\ kept' \in {kept, {Record(gate', status')}}

Recover ==
    /\ \E r \in kept : gate' = r.gate /\ status' = r.status
    /\ UNCHANGED kept

DurableSpec == DurableInit /\ [][Progress \/ Recover]_durableVars
=============================================================================
