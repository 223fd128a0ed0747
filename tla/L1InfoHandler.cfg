SPECIFICATION FairSpec
CONSTANTS
  None = None
  LumiSections <- MCLumiSections
  Triggers <- MCTriggers
  Bits = {"b"}
  L1InfoFIFOCapacity = 1
  LumiSectionInfoFIFOCapacity = 1
  EnableL1Info = TRUE
  MayLose = TRUE
  MaxRuns = 2
  MaxTriggers = 3
INVARIANTS OnlyALateRunLeavesData PublishedIsTrue EachTriggerCountedOnce
PROPERTY ClearEnds
CHECK_DEADLOCK FALSE
