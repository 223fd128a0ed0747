CONSTANTS
  BUs = {b1, b2}
  Resources = {r1}
  ThrottledBUs = {b1}
  NbEvtIdsInBuilder = 2
  EventFIFOCapacity = 2
  RequestFIFOCapacity = 1
  ReleasedEvbIdFIFOCapacity = 1
  EolsFIFOCapacity = 1
  EventNumbers = {1}
  LumiSections = {1, 3}
  MaxTriggers = 3
SPECIFICATION Spec
CHECK_DEADLOCK FALSE
INVARIANTS
  ResourceInOnePlace
  EventInOnePlace
  BuilderAccounting
  OnlyTriggerFails
  EndOfLumiSectionIsFinal
