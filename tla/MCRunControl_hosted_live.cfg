CONSTANTS
  Servers = {s1, s2}
  Host = h
  Workers = {w1}
  Callers = {c1}
  Launcher = c1
  None = None
  InProcess = FALSE
  LowRisk = TRUE
  Results <- AgyResults
  CallKinds = {"cancel", "observe"}
  EarlyCalls = FALSE
  Resumers = {}
  StaleBeats = TRUE
  Crashing = {s1, h}
  MaxVersion = 8
SPECIFICATION LiveSpec
CHECK_DEADLOCK FALSE
INVARIANTS
  QuietWhileServersLive
PROPERTIES
  InterruptedIsKept
  RunSettles
