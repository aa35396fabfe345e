SPECIFICATION FairSpec
CONSTANTS
  r1 = r1
  r2 = r2
  r3 = r3
  Unicast = Unicast
  NumIn = 3
  Tree <- BinaryTree
  Members <- ThreeReductions
  MaxLen = 2
  RedLen = 2
  Resps = {"OKAY"}
INVARIANTS
  Lockstep
PROPERTIES
  
  ReductionPasses
