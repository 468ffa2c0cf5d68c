CONSTANTS
  left = left
  right = right
  merge = merge
  Tasks = {left, right, merge}
  Dependencies <- Merging
  Priority <- Priorities
  Threads = {t1, t2}
  Schedulers = {s1, s2, s3}
  None = None
  Outcomes = {"COMPLETE", "FAILED", "DECISION_REQUIRED", "ACCOUNT_SWITCH_REQUIRED", "CANCELLED",
              "SKIPPED", "leaked_result", "leaked_exception"}
  MaxRevivals = 2
SPECIFICATION LiveSpec
CHECK_DEADLOCK FALSE
INVARIANTS
  DependenciesFirst
  OneRunner
PROPERTIES
  ImplementsSerialDag
  RunnableSettles
