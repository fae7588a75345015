SPECIFICATION MCSpec
CONSTANTS
  Clients = {c1}
  NoClient = NoClient
  MaxFds = 2
  N = 1
  Times = {0}
  Retries = 0
  MaxFaults = 0
  MaxLate = 0
  MaxWrites = 2
  MaxFailures = 0
  Mds = {md0}
  MaxEvents = 0
PROPERTIES
  NoStaleBlink
CHECK_DEADLOCK FALSE
