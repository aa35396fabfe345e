SPECIFICATION FairSpec
CONSTANTS
  NumInput = 2
  NumOutput = 2
  InFifoDepth = 1
  Tree <- TwoInputTree
  Connected <- AllConnected
  NoLoopback = FALSE
  MultiCasts = {TRUE, FALSE}
  Routes <- Multicast
  MaxLen = 2
  MaxMultiLen = 2
INVARIANTS
  CopiesRight
PROPERTIES
  LinksCarryPackets
  EveryFlitLeaves
