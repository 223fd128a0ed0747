CONSTANTS
  Capacity = 2
  Packing = 1
  CounterSize = 4
  NbEvtIds = 2
  MaxLost = 1
  RequestCapacity = 2
  NbOutstandingRqsts = 1
  NbEventsBeforeExit = 2
  MaxDamaged = 1
  Setups <- MCSetups
  Resources <- MCResources
SPECIFICATION Spec
INVARIANTS PromisesConserved NothingOfAnEarlierTest
PROPERTIES EventsFlow
