SPECIFICATION Spec
CONSTANTS
  Tasks = {t1}
  Restored = {0}
  Advances = {1}
  MaxElapsed = 2
  MaxOffset = 1
PROPERTIES
  FrozenTimeStands
