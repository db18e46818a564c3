SPECIFICATION FairSpec
CONSTANTS
  MaxInit = 2
  MaxCmd = 3
  MaxAhead = 2
  MaxLaunch = 2
INVARIANT
  SilenceBounded
PROPERTIES
  HealthySpared
  LostIsReplaced
CHECK_DEADLOCK FALSE
