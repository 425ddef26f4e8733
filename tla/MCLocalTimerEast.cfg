\* Greenwich and the zones east of it, the wall clock only moves forward.
CONSTANTS
  Offsets <- EasternOffsets
  Hour = 2
  Period = 48
  TriggerAt = 9
  W = 256
  Steps = {1, 50}
  Since = 24
  MaxTime = 174
SPECIFICATION Spec
INVARIANTS TypeOK DueIsReported
PROPERTIES OncePerPeriod OnSchedule
CHECK_DEADLOCK FALSE
