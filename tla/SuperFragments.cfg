SPECIFICATION Spec
CONSTANTS
  None = None
  Bad = Bad
  GTP = GTP
  FedSourceIds <- MCFedSourceIds
  BlockRooms <- MCBlockRooms
  PayloadSizes <- MCPayloadSizes
  LogNormalSizes <- MCLogNormalSizes
  FirstEventNumbers <- MCFirstEventNumbers
  MaxEvents = 2
  MaxFailures = 1
  MaxDamages = 1
INVARIANTS GeneratedIsAccepted DamageIsSeen
PROPERTIES EvBidsIncrease
CHECK_DEADLOCK FALSE
