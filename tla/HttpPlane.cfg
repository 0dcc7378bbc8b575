SPECIFICATION FairSpec
CONSTANTS
  r1 = r1
  r2 = r2
  r3 = r3
  dflt = dflt
  fresh = fresh
  Requests = {r1, r2, r3}
  Runs = {dflt, fresh}
  DefaultRun = dflt
  Scenes <- MCScenes
  Statuses = {200, 418, 500, 503}
  MaxRefusals = 1
  Advances = {1}
  Space = Space
  None = None
INVARIANTS
  OnePoolPerRun
  ServerErrorsAreExplained
  StreamsSayTheReply
  AnswersAreReported
PROPERTIES
  RequestsEnd
CHECK_DEADLOCK FALSE
