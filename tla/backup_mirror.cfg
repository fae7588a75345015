SPECIFICATION MCSpec
CONSTANTS
  Readers = {"sysctrl"}
  Writers = {"temp1"}
  Tries = 2
  MaxEnds = 0
  Stalls = FALSE
  Backups = {b1, b2}
  Rotates = {1}
  HasMirror = TRUE
  ClockSetBack = FALSE
  MaxKills = 0
  Nobody = Nobody
  Daemons = {d1}
PROPERTIES
  RotationKeeps
CHECK_DEADLOCK FALSE
