SPECIFICATION FairSpec
CONSTANTS
  Scenarios <- All
  Config <- Configured
  Resolve <- Scalar
  Override <- Coerce
INVARIANTS
  TrafficArrives
  AddressMapRight
  ParamsRight
  LeavesOnce
  WiresPaired
  JobsRight
PROPERTIES
  EveryRunEnds
CHECK_DEADLOCK FALSE
