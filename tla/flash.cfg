SPECIFICATION MCSpec
CONSTANTS
  Keep = 2
  Tries = 2
  ClockSteps <- Forward
  MaxClock = 4
  MaxVersion = 3
  MaxReboots = 2
  Word = 2
  Block = 4
  Hd64 = 2
  Hd128 = 4
  MaxLen <- Lengths
  Built <- SmallFiles
  Uploaded <- Three
  Foreign <- ForOthers
  MaxUploads = 2
  NoFile = NoFile
  Old = Old
  Lost = Lost
  Saved = Saved
  Empty = Empty
  Vendor = Vendor
 
 
INVARIANT SplitGivesBack
 
CHECK_DEADLOCK FALSE
