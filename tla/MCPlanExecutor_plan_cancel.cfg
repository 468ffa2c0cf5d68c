SPECIFICATION Spec
CONSTANTS
  t1 = t1
  t2 = t2
  Order <- TwoTasks
  Tasks = {t1, t2}
  ChildId <- ChildIdOf
  Foreign = foreign
  None = None
  Processes = {p1}
  First = p1
  Starters = {p1}
  Keys = {}
  RunIds <- PlanRunIds
  MaxLaunches = 2
  MaxFaults = 1
CHECK_DEADLOCK FALSE
PROPERTIES
  TerminalPlanIsFinal
