SPECIFICATION Spec
CONSTANTS
  SysTemps <- Cool
  DiskTemps <- NoDisk
  FanOffTemp = 38
  LoTemp = 45
  HistTemp = 2
  WarnTemp = 52
  CritTemp = 54
  Modes <- AutoSlow
  Adversities = {"torn", "fault", "client", "reload", "quit", "term", "kill"}
  MaxAdversity = 2
INVARIANT NoSpuriousShutdown
