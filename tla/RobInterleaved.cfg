SPECIFICATION Spec
CONSTANTS
  NumIds = 1
  Dests = {A, B}
  BurstLens = {1}
  BurstIds = {0}
  RoBSize = 6
  MaxRoTxnsPerId = 3
  OnlyMetaData = FALSE
  Interleaved = TRUE
  MaxRequests = 3
  MaxOthers = 0
PROPERTIES
  OrderedResponses
