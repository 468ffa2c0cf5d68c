CONSTANTS
  left = left
  right = right
  merge = merge
  Tasks = {left, right, merge}
  Dependencies <- Independent
  Priority <- Priorities
  Threads = {t1, t2}
  Schedulers = {s1}
  None = None
  Outcomes = {"COMPLETE", "leaked_exception"}
  MaxRevivals = 0
SPECIFICATION LiveSpec
CHECK_DEADLOCK FALSE
PROPERTIES
  ReadyRuns
