SPECIFICATION VcFairSpec
CONSTANTS
  VcImpls <- CreditOnly
  NumCredits = 3
  FifoDepth = 2
  AtChimney = FALSE
PROPERTIES
  StableValidOut
