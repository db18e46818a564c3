SPECIFICATION FairSpec
CONSTANTS
  MaxMsg = 3
  MaxExec = 4
INVARIANTS
  ListExclusive
  NoUseAfterFree
  ExactlyOnceInOrder
  NoLostWakeup
  IInv
PROPERTIES
  HandoffSpec
  CommandsExecuted
CHECK_DEADLOCK FALSE
