CONSTANTS
  NbResources = 2
  MaxEvents = 3
  LumiSections = 2
  LumiSection <- MCLumiSection
  Writers = {"w0", "w1"}
  MaxEventsPerFile = 1
  EolsFIFOCapacity = 1
  RUs = {"ru0", "ru1"}
  NbBlocks <- MCNbBlocks
  Outputs = {"disk", "FU", "drop"}
  EvmPacking = 2
  RuPacking = 2
  TriggerFIFOCapacity = 1
  BlockFIFOCapacity = 1
  MaxFuRequests = 1
SPECIFICATION FairSpec
CHECK_DEADLOCK FALSE
INVARIANTS NothingLostOrDoubled EventsAreWhole EoLSCountsAllEvents
PROPERTIES EveryEventReleased EveryEoLSOnDisk
