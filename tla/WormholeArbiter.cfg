SPECIFICATION FairSpec
CONSTANTS
  NumIn = 3
  MaxLen = 2
  Tree <- BinaryTree
INVARIANTS
  WorkConserving
  BoundedOvertaking
PROPERTIES
  OnePacketAtATime
  StableOutput
  NoStarvation
