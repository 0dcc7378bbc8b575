SPECIFICATION FairSpec
CONSTANTS
  own = own
  away = away
  inbox1 = inbox1
  inbox2 = inbox2
  caller = caller
  Deliveries = {own, away}
  Endpoints = {inbox1, inbox2}
  Elsewhere = Elsewhere
  Target <- MCTarget
  BackoffMs <- MCBackoffMs
  DefaultBackoff <- MCDefaultBackoff
  FailFirst <- MCFailFirst
  Callers = {caller}
  CallerTarget <- MCCallerTarget
  Capacity = 1
  Advances = {1}
  Horizon = 1
  MaxAdmin = 1
  NoDelivery = NoDelivery
  NoEntry = NoEntry
INVARIANTS
  LadderHolds
  SuccessIsExplained
  InboxKeepsTheNewest
PROPERTIES
  DeliveriesEnd
CHECK_DEADLOCK FALSE
