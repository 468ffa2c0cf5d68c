CONSTANTS
  Servers = {s1}
  Host = h
  Workers = {w1}
  Callers = {c1}
  Launcher = c1
  None = None
  InProcess = TRUE
  LowRisk = TRUE
  Results <- AgyResults
  CallKinds = {"mark"}
  EarlyCalls = FALSE
  Resumers = {}
  StaleBeats = FALSE
  Crashing = {}
  MaxVersion = 6
SPECIFICATION Spec
CHECK_DEADLOCK FALSE
INVARIANTS
  ExecutingIsNotInterrupted
