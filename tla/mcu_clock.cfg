SPECIFICATION Spec
CONSTANTS
  Width = 256
  pollTimeMs = 10
  LedPeriod = 20
  TempPeriod = 40
  MaxTurns = 40
INVARIANT TempOnTime
CHECK_DEADLOCK FALSE
