CONSTANTS
  Servers = {s1}
  Host = h
  Workers = {w1, w2}
  Callers = {c1}
  Launcher = c1
  None = None
  InProcess = TRUE
  LowRisk = FALSE
  Results <- AgyResults
  CallKinds = {"recover", "mark", "ready", "corrupt"}
  EarlyCalls = FALSE
  Resumers = {}
  StaleBeats = FALSE
  Crashing = {}
  MaxVersion = 4
SPECIFICATION Spec
CHECK_DEADLOCK FALSE
INVARIANTS
  CompleteIsVerified
