SPECIFICATION WrapperSpec
CONSTANTS
  NumIds = 2
  Dests = {A, B}
  BurstLens = {0, 1}
  BurstIds = {0}
  MaxRoTxnsPerId = 4
  RoBSize = 3
  OnlyMetaData = FALSE
  Interleaved = TRUE
  MaxRequests = 4
  MaxSimple = 2
INVARIANTS
  NoRoBCounters
  SimpleRoBSlots
PROPERTIES
  OrderedResponses
  EveryRequestAnswered
  EveryRequestAccepted
