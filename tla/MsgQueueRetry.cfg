SPECIFICATION FairSpec
CONSTANTS
  MaxMsg = 2
  MaxExec = 3
PROPERTIES
  RetryFindsCommand
CHECK_DEADLOCK FALSE
