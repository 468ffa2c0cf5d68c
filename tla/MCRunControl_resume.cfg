CONSTANTS
  Servers = {s1}
  Host = h
  Workers = {w1, w2}
  Callers = {c1, c2}
  Launcher = c1
  None = None
  InProcess = FALSE
  LowRisk = TRUE
  Results <- AgyResults
  CallKinds = {"cancel", "resume"}
  EarlyCalls = FALSE
  Resumers = {s1}
  StaleBeats = TRUE
  Crashing = {s1, h}
  MaxVersion = 6
SPECIFICATION Spec
CHECK_DEADLOCK FALSE
INVARIANTS
  OneExecution
  RunningPidIsExecutor
PROPERTIES
  ExceptionFailsOwnRun
