SPECIFICATION Spec
CONSTANTS
  Base <- MCBase
  Shapes <- MCShapes
  Bindings <- MCBindings
  Dependencies <- MCDependencies
  MaxEdits = 3
  CountLimit = 2
  Refused = Refused
INVARIANTS  PolicyMonotone ExactTopologyIsExact RecoveredFactsAgree CanonicalIsUnique
CHECK_DEADLOCK FALSE
