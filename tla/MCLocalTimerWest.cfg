\* The zones west of Greenwich, the wall clock only moves forward.
CONSTANTS
  Offsets <- WesternOffsets
  Hour = 2
  Period = 48
  TriggerAt = 9
  W = 256
  Steps = {1, 50}
  Since = 24
  MaxTime = 174
SPECIFICATION Spec

PROPERTIES OncePerPeriod
CHECK_DEADLOCK FALSE
