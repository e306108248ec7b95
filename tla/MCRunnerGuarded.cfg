SPECIFICATION Spec
CONSTANTS
  Modules <- MCModules
  Lists <- MCLists
  Root = "run"
  Kind <- MCKind
  Indices = {1}
  Definitions <- GuardedDefinitions
  Checks <- MCChecks
  Results <- MCResults
  ConfiguredPorts = {22, 222}
  ReportedPorts = {22, 2222}
CHECK_DEADLOCK FALSE
PROPERTY ControlPlaneIsPrompt
