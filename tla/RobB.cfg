SPECIFICATION Spec
CONSTANTS
  NumIds = 1
  Dests = {A, B}
  BurstLens = {}
  BurstIds = {}
  RoBSize = 4
  MaxRoTxnsPerId = 2
  OnlyMetaData = TRUE
  Interleaved = TRUE
  MaxRequests = 4
  MaxOthers = 0
PROPERTIES
  OrderedResponses
