CONSTANTS
  BUs = {b1}
  Resources = {r1, r2}
  ThrottledBUs = {}
  NbEvtIdsInBuilder = 2
  EventFIFOCapacity = 2
  RequestFIFOCapacity = 2
  ReleasedEvbIdFIFOCapacity = 1
  EolsFIFOCapacity = 1
  EventNumbers = {1}
  LumiSections = {2, 3}
  MaxTriggers = 3
SPECIFICATION FairSpec
CHECK_DEADLOCK FALSE
PROPERTIES EveryEventReleased EveryLumiSectionEnds
