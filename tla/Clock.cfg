SPECIFICATION Spec
CONSTANTS
  Tasks = {t1, t2}
  Restored = {0}
  Advances = {1}
  MaxElapsed = 2
  MaxOffset = 1
INVARIANTS
  TypeOK
PROPERTIES
  NowIsNeverStale
  ControlKeepsTime
