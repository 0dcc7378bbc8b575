SPECIFICATION Spec
CONSTANTS
  seeded = seeded
  Requests = {r1, r2}
  Kinds = {"add"}
  Seeds = {seeded}
  SeededFaults <- MCSeededFaults
  SeededTelemetry = SeededTelemetry
  Honest = Honest
  Unset = Unset
  NoOne = NoOne
  NoFile = NoFile
  MaxRestarts = 0
INVARIANTS
  NoFaultIsLost
CHECK_DEADLOCK FALSE
