SPECIFICATION LiveSpec
CONSTANTS
  Rates = {2}
  UINT32_MAX = 8
  ReferenceTicks = 2
  Frequency = 2
  Calibrations = 2
  MaxIrq0 = 6
  MaxTimer = 2
INVARIANT
  CalibrationLeavesAClockOrSilence
PROPERTIES
  TimeFollowsTheSource
  CalibrationEnds
CHECK_DEADLOCK FALSE
