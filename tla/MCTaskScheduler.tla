--------------------------- MODULE MCTaskScheduler ---------------------------
(* Instances of TaskScheduler for TLC: a publishing job that needs approval  *)
(* and a second task that depends on it.                                      *)
EXTENDS TaskScheduler

MCTasks == {"job", "next"}
MCPriority == [t \in Tasks |-> IF t = "job" THEN 50 ELSE 75]
MCCapacity2 == [w \in Workers |-> 2]
MCNext == {<<"next", "job">>}
=============================================================================
