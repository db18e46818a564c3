SPECIFICATION Spec
CONSTANTS
  Total = 1
  Plugs = 2
  Tries = 2
  Starts = 1
INVARIANTS
  FlagReleased
  HandlesLive
  CamerasCurrent
