SPECIFICATION Spec
CONSTANTS
  retried = retried
  bare = bare
  Jobs = {retried, bare}
  Procs = {p1, p2}
  MaxAttempts <- MCMaxAttempts
  NoBackoff = {bare}
  Outcomes <- MCOutcomes
  PerMilli = 2
  Horizon = 3
  MaxFailures = 3
  NoJob = NoJob
  NoRecord = NoRecord
INVARIANTS
  KeysAgree
  RunningIsHeld
PROPERTIES
  ImplementsLifecycle
CHECK_DEADLOCK FALSE
