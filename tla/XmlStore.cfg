SPECIFICATION FairSpec
CONSTANTS
  Value = {1, 2}
  MaxTime = 2
  MaxSets = 2
  MaxEdits = 1
  MaxCrashes = 1
INVARIANTS
  SettingsKept
  DocumentOwned
PROPERTIES
  Noticed
CHECK_DEADLOCK FALSE
