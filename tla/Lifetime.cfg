SPECIFICATION LifeSpec
CONSTANTS
  Proc = {1, 2}
  MaxLaunched = 4
  MaxMinutes = 3
INVARIANTS
  HoursKept
CHECK_DEADLOCK FALSE
