SPECIFICATION FairSpec
CONSTANTS
  Missing = Missing
  Setups <- MCSetups
  NbEvtIdsInBuilder = 3
  EvBidsPacking = 2
  RequestsPacking = 2
  AllocatePacking = 2
  FIFOCapacity = 1
  MaxPostFailures = 1
INVARIANTS
  ConfiguredAsAsked
  BuiltFromAllRUs
  RoundRobinIsFair
PROPERTY EverythingBuilt
CHECK_DEADLOCK FALSE
