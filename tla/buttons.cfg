SPECIFICATION FairSpec
CONSTANTS
  McuBoard = TRUE
  HasCommands = TRUE
  Recovery = TRUE
  MayHang = TRUE
  MayVanish = TRUE
  BackStep = 5
  ClockSteps <- SetBack
  MaxPresses = 3
  MaxClockSteps = 1
PROPERTIES DownOnRelease   SettlesIdle
CHECK_DEADLOCK FALSE
