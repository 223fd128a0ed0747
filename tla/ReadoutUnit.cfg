CONSTANTS
  InputSources = {"FBO", "FEROL", "FEROL2", "Local"}
  Feds = {1, 2}
  StrangeFeds = {3}
  NbBlocks = 2
  TriggerNumbers <- MCShortRun
  EvbIdFIFOCapacity = 1
  BlockFIFOCapacity = 1
  TimeoutEnabled = TRUE
  MaxFaults = 1
SPECIFICATION FairSpec
CHECK_DEADLOCK FALSE
INVARIANTS
  OwnData
  TriggerInOnePlace
  RequestInOnePlace
  NoFalseAlarm
PROPERTIES
  EveryRequestServed
  LossDetected
