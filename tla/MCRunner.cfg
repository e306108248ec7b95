SPECIFICATION FairSpec
CONSTANTS
  Modules <- MCModules
  Lists <- MCLists
  Root = "run"
  Kind <- MCKind
  Indices <- MCIndices
  Definitions <- MCDefinitions
  Checks <- MCChecks
  Results <- MCResults
  ConfiguredPorts = {22, 222}
  ReportedPorts = {22, 2222}
CHECK_DEADLOCK FALSE
INVARIANTS SuccessIsComplete SignalsNeedChange ConnectionIsKnown
PROPERTIES NothingAfterFailure NothingAfterShutdown ControlPlaneIsPrompt RunEnds
