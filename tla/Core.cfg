SPECIFICATION CoreSpec
CONSTANTS
  seeded = seeded
  Requests = {r1, r2, r3}
  Kinds = {"add", "clear", "set", "honest", "reset", "advance", "snapshot"}
  Seeds = {seeded}
  SeededFaults <- MCSeededFaults
  SeededTelemetry = SeededTelemetry
  Honest = Honest
  Unset = Unset
  NoOne = NoOne
  NoFile = NoFile
  MaxRestarts = 1
  Emitters = {e1, e2}
  Subs = {s1, s2}
  Polled = {s1}
  Capacity = 2
  MaxEvents = 4
  NoId = NoId
INVARIANTS
  TypeOK
  ResolvedFollowsOverlay
  NoFieldIsClobbered
  ResetReachesTheScenario
  BusTypeOK
  IdsAreDense
  LossIsAccounted
  DroppedIsWhatGapsSay
PROPERTIES
  EveryRequestEnds
  EmitNeverStalls
  SubscribersCatchUp
CHECK_DEADLOCK FALSE
