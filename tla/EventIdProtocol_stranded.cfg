CONSTANTS
  BUs = {b1}
  Resources = {r1}
  ThrottledBUs = {}
  NbEvtIdsInBuilder = 2
  EventFIFOCapacity = 2
  RequestFIFOCapacity = 1
  ReleasedEvbIdFIFOCapacity = 1
  EolsFIFOCapacity = 2
  EventNumbers = {1}
  LumiSections = {2}
  MaxTriggers = 1
SPECIFICATION Spec
CHECK_DEADLOCK FALSE
INVARIANT NoticeNotStranded
