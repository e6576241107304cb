SPECIFICATION AlarmSpec
CONSTANTS
  Stopped = Stopped
  LowLimit = 2
  HighLimit = 5
  Deadband = 2
  TimeDelay = 2
  Readings = {1, 2, 3, 4, 5, 6}
  MaxGap = 2
  MaxTime = 14
INVARIANT AlarmFollows
PROPERTY NoChatter
CHECK_DEADLOCK FALSE
