SPECIFICATION FairDiskSpec
CONSTANTS
  Slots = {"left", "usb"}
  Answering = {"left"}
  Pluggable = {"left"}
  Spindown <- ASpindown
  MaxIdle = 3
  MaxIo = 4
  MaxPlugs = 4
INVARIANT SeesEdits
 
 
