CONSTANTS
  Stores = {s1, s2}
  Clients = {c1, c2}
  Pids = {p1}
  Payloads = {"passed"}
  None = None
  MaxVersion = 3
  MaxAttempt = 1
  MaxBeat = 1
SPECIFICATION Spec
SYMMETRY Symmetry
CHECK_DEADLOCK FALSE
INVARIANTS
  EventsInOrder
PROPERTIES
  UpdatesSurviveInOneStore
  ImplementsLifecycle
