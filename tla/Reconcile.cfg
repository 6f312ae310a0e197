SPECIFICATION Spec
CONSTANTS
  Routes <- MCRoutes
  Handled <- MCBoth
  MaxGen = 2
  MaxFaults = 1
INVARIANTS TypeOK ConditionTells WantedIsThere
PROPERTIES FailedKeepsObjects TransitionKept
CHECK_DEADLOCK FALSE
