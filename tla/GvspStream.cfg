SPECIFICATION FairSpec
CONSTANTS
  MaxGrab = 2
  MaxImg = 2
  Lengths = {3}
  Sizes = {2, 3, 4}
  Overhead = 2
  Word = 5
INVARIANTS
  TypeOK
  BlockComplete
  NoSleepingImage
PROPERTIES
  BlocksNumbered
  HandoffSpec
  FallsSilent
  OpenStreams
  ImagesTaken
CHECK_DEADLOCK FALSE
