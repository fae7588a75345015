SPECIFICATION MCSpec
CONSTANTS
  Readers = {"sysctrl"}
  Writers = {"temp1", "temp2"}
  Tries = 2
  MaxEnds = 1
  Stalls = FALSE
  Backups = {b1, b2, b3}
  Rotates = {0, 1, 2}
  HasMirror = FALSE
  ClockSetBack = FALSE
  MaxKills = 1
  Nobody = Nobody
  Daemons = {d1, d2, d3}
INVARIANT
  OneSurvives
PROPERTIES
  TempIsMutex WaitsEnd  RotationKeeps QueueDrains
CHECK_DEADLOCK FALSE
