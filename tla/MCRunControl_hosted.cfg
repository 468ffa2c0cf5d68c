CONSTANTS
  Servers = {s1, s2}
  Host = h
  Workers = {w1}
  Callers = {c1, c2}
  Launcher = c1
  None = None
  InProcess = FALSE
  LowRisk = TRUE
  Results <- AgyResults
  CallKinds = {"cancel", "observe"}
  EarlyCalls = FALSE
  Resumers = {}
  StaleBeats = FALSE
  Crashing = {s1, h}
  MaxVersion = 8
SPECIFICATION Spec
CHECK_DEADLOCK FALSE
INVARIANTS
  TypeOK
  ObserversAreRight
