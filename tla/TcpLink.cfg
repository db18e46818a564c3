SPECIFICATION FairSpec
CONSTANTS
  MaxConn = 2
  MaxCmd = 2
  Pieces = 2
  MaxErr = 1
  MaxFd = 2
INVARIANTS
  NoOtherLeak
  StrayAnswers
  AnswersWhole
  CommandsFramed
PROPERTIES
  ClosedForReason
  ClientsServed
CHECK_DEADLOCK FALSE
