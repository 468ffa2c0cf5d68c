SPECIFICATION Spec
CONSTANTS
  None = None
  Sessions = {s1, s2}
  Jobs = {j1, j2}
  TaskKeys = {k}
  PoolSize = 1
  MaxFaults = 1
  t1 = t1
  t2 = t2
  dir = dir
  file = file
  other = other
  Team <- TwoMembers
  Mutating = {t1}
  Paths = {dir, file, other}
  Inside <- FileInDir
  MaxEdits = 1
CHECK_DEADLOCK FALSE
INVARIANTS
  OneWorkerPerKey
  SessionsAreSound
  ReviewIsEarned
PROPERTIES
  VerdictsStand
  AcceptedJobsSettle
