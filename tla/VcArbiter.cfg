SPECIFICATION VcFairSpec
CONSTANTS
  VcImpls <- AllImpls
  NumCredits = 3
  FifoDepth = 3
  AtChimney = FALSE
INVARIANTS
  CreditsConserved
PROPERTIES
  ChannelsIndependent
