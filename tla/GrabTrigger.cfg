SPECIFICATION TrigSpec
CONSTANT
  MaxTriggers = 4
INVARIANTS
  OwnKind
  OneSeriesEach
  NoneForgotten
CHECK_DEADLOCK FALSE
