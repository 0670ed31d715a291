SPECIFICATION Spec
CONSTANTS
  Scripts <- MCScripts
  Failures <- MCFailures
  Plan <- MCPlan
  Modules <- MCModules
  MaxSteps = 3
  MaxTxn = 3
INVARIANTS EarnedOnce NothingIsLeftBehind BoundStopsOnlyTheEndless
PROPERTIES RunImplementsLoginRight
