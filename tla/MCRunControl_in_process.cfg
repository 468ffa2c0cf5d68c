CONSTANTS
  Servers = {s1}
  Host = h
  Workers = {w1}
  Callers = {c1, c2}
  Launcher = c1
  None = None
  InProcess = TRUE
  LowRisk = TRUE
  Results <- InjectedResults
  CallKinds = {"cancel", "observe"}
  EarlyCalls = FALSE
  Resumers = {}
  StaleBeats = FALSE
  Crashing = {}
  MaxVersion = 6
SPECIFICATION LiveSpec
CHECK_DEADLOCK FALSE
INVARIANTS
  CancelledNeverApplies
  ObserversAreRight
PROPERTIES
  ImplementsLifecycle
  ExecutionsSettle
