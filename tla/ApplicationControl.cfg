SPECIFICATION FairSpec
CONSTANTS
  Apps = {"RU", "BU", "EVM", "RUI"}
  MaxCommands <- MCMaxCommands
  SoapCommands <- MCSoapCommands
  Schedulers = {"evm"}
  MayFail <- MCMayFail
INVARIANTS LoopsFollowState StateNameIsTrue
PROPERTIES AlwaysSettles
CHECK_DEADLOCK FALSE
