SPECIFICATION FairSpec
CONSTANTS
  r1 = r1
  r2 = r2
  r3 = r3
  r4 = r4
  Requests = {r1, r2, r3, r4}
  Spans = {r1, r2, r3, r4}
  Scenes <- MCScenes
  QueueBound = 2
  MaxSkew = 5
  MaxBoots = 2
  None = None
  Absent = None
INVARIANTS
  MailTellsTheTruth
  
PROPERTIES
  StopsAndFlushes
CHECK_DEADLOCK FALSE
