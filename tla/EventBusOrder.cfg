SPECIFICATION BusSpec
CONSTANTS
  Emitters = {e1, e2}
  Subs = {s1}
  Polled = {s1}
  Capacity = 2
  MaxEvents = 2
  NoId = NoId
INVARIANTS
  StreamIdsIncrease
CHECK_DEADLOCK FALSE
