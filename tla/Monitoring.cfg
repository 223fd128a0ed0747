CONSTANTS
  Apps = {"EVM", "RU", "BU to disk", "BU to FU", "RUI", "TA", "FU"}
  MaxEvents <- MCMaxEvents
  MaxRuns <- MCMaxRuns
  CounterSize = 4
  SmallSize = 2
SPECIFICATION FairSpec
INVARIANTS RateIsTrue
PROPERTIES EventuallyTrue
CHECK_DEADLOCK FALSE
