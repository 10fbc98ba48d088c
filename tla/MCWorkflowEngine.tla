--------------------------- MODULE MCWorkflowEngine --------------------------
(* Instances of WorkflowEngine for TLC: c depends on a and has a condition   *)
(* on b's result, d depends on b, and b is declared with continue_on_error.  *)
EXTENDS WorkflowEngine

MCSteps == {"a", "b", "c", "d"}
MCOrder == [s \in MCSteps |-> CASE s = "a" -> 1 [] s = "b" -> 2
                                [] s = "c" -> 3 [] s = "d" -> 4]
MCDeps == [s \in MCSteps |-> CASE s = "c" -> {"a"} [] s = "d" -> {"b"}
                               [] OTHER -> {}]
MCRunsOn == [s \in MCSteps |-> IF s = "c" THEN {r \in SUBSET MCSteps : "b" \in r}
                               ELSE SUBSET MCSteps]
MCContinue == {"b"}
=============================================================================
