SPECIFICATION SupervisionSpec
CONSTANTS
  MaxExtensions = 2
  Budgets = {1, 10, 11, 20, 600, 601, 5000, 18000}
  Faults = {"tests", "outside", "migration"}
  Calls <- SomeCalls
  MaxLimit = 2
  MaxDrift = 1
  MaxDisturbances = 1
  Starters = {c1, c2}
  Tasks = {t1, t2}
  Keys = {k1}
  RunIds = {r1, r2}
  None = None
  TaskIds <- ThreeTasks
  SharedPath = "p"
  MaxAcceptance = 3
CHECK_DEADLOCK FALSE
INVARIANTS
  AnswerIsTrue
  OneWorkerAtATime
  CommitIsEarned
  SuccessFollowsLastRepair
  ReturnedIsRecorded
  ShapingIsExact
  AdviceIsCautious
PROPERTIES
  RetryStartsNothing
  SupervisionEnds
