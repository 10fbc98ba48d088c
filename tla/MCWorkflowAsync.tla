--------------------------- MODULE MCWorkflowAsync ---------------------------
(* Instances of WorkflowAsync for TLC: four steps, of which c depends on a   *)
(* and has a condition on b's result, and d depends on b.                    *)
EXTENDS WorkflowAsync

MCSteps == {"a", "b", "c", "d"}
MCOrder == [s \in MCSteps |-> CASE s = "a" -> 1 [] s = "b" -> 2
                                [] s = "c" -> 3 [] s = "d" -> 4]
MCDeps == [s \in MCSteps |-> CASE s = "c" -> {"a"} [] s = "d" -> {"b"}
                               [] OTHER -> {}]
\* Three steps that may run at once, where two are allowed to.
MCDepsWide == [s \in MCSteps |-> IF s = "c" THEN {"a"} ELSE {}]
\* c runs once b has a result; the others always.
MCRunsOn == [s \in MCSteps |-> IF s = "c" THEN {r \in SUBSET MCSteps : "b" \in r}
                               ELSE SUBSET MCSteps]
MCContinue == {"b"}
=============================================================================
