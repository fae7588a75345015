SPECIFICATION FairSpec
CONSTANTS
  Devs = {"a", "b"}
  Procs = {"p1", "p2", "p3"}
  DevOf <- ADevOf
  AltF = {"a", "b"}
  Broken = {}
  EjectAnytime = FALSE
  MaxEjects = 1
  MaxCrashes = 1
INVARIANT Settled
INVARIANT QuietIsDark
INVARIANT BranchIsLink
PROPERTY EveryoneEnds
CHECK_DEADLOCK FALSE
