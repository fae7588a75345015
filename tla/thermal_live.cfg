SPECIFICATION FairSpec
CONSTANTS
  SysTemps <- Cool
  DiskTemps <- NoDisk
  FanOffTemp = 38
  LoTemp = 45
  HistTemp = 2
  WarnTemp = 52
  CritTemp = 54
  Modes <- AutoSlow
  Adversities = {"torn", "reload", "quit", "term"}
  MaxAdversity = 1
PROPERTY FanFollowsPwm
PROPERTY FanSettles
PROPERTY OverheatPowersOff
