SPECIFICATION Spec
CONSTANTS
  Writers = {w1, w2}
  Window = 3
  MaxTime = 5
  MaxWrites = 4
INVARIANT UptimeIsReadyTime
CHECK_DEADLOCK FALSE
