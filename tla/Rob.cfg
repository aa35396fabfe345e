SPECIFICATION MCSpec
CONSTANTS
  NumIds = 2
  Dests = {A, B}
  BurstLens = {0,1,2}
  BurstIds = {0}
  RoBSize = 3
  MaxRoTxnsPerId = 3
  OnlyMetaData = FALSE
  Interleaved = FALSE
  MaxRequests = 3
  MaxOthers = 1
INVARIANTS
  SlotsSafe
PROPERTIES
  OrderedResponses
  EveryRequestAnswered
  EveryRequestAccepted
