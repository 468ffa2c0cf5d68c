--------------------------- MODULE MCPlanExecutor ---------------------------
(* Instances of PlanExecutor for TLC.                                        *)
EXTENDS PlanExecutor

CONSTANTS t1, t2

TwoTasks == <<t1, t2>>
ChildIdOf(t, n) == <<t, n>>
PlanRunIds == {t1, t2} \X {0, 1}
=============================================================================
