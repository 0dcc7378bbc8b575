SPECIFICATION FairSpec
CONSTANTS
  flaky = flaky
  fails = fails
  Jobs = {flaky, fails}
  Pollers = {p1, p2}
  MaxAttempts <- MCMaxAttempts
  Backoff <- MCBackoff
  Outcomes <- MCOutcomes
  Delays = {0, 1}
  Advances = {1}
  Horizon = 2
  MaxResets = 1
  NoJob = NoJob
  NoRecord = NoRecord
INVARIANTS
  TypeOK
  ExclusiveRun
  StagesAgree
  BusMatchesStore
PROPERTIES
  RetriesWaitTheirBackoff
  ImplementsLifecycle
  JobsEnd
