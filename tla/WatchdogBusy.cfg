SPECIFICATION Spec
CONSTANTS
  MaxInit = 1
  MaxCmd = 2
  MaxAhead = 6
  MaxLaunch = 1
PROPERTIES
  HealthySpared
CHECK_DEADLOCK FALSE
