SPECIFICATION MCSpec
CONSTANTS
  MaxTxns = 2
  MaxUniqueIds = 2
  MaxAtomicTxns = 2
  LastId = 3
  Requests <- Both
  MaxRequests = 4
  MaxTxnsPerId = 2
  LinkDepth = 1
  Buffered = TRUE
INVARIANTS
  AnswersReturn
  AtomicIdsUnique
PROPERTIES
  WritesArePackets
  StalledRequestsStay
  EveryRequestAnswered
CHECK_DEADLOCK FALSE
