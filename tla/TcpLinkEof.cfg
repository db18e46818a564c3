SPECIFICATION FairSpec
CONSTANTS
  MaxConn = 2
  MaxCmd = 1
  Pieces = 1
  MaxErr = 1
  MaxFd = 2
PROPERTIES
  ClosedOnlyAtEof
CHECK_DEADLOCK FALSE
