SPECIFICATION FairSpec
CONSTANTS
  Frames = 1
  Groups = 2
  MaxFaults = 1
  MaxSeries = 2
INVARIANTS
  CloudOwn
  NoneStuck
PROPERTIES
  SeriesKept
  SeriesAdvance
  SeriesOver
CHECK_DEADLOCK FALSE
