SPECIFICATION MCSpec
CONSTANTS
  Clients = {c1, c2, c3}
  NoClient = NoClient
  MaxFds = 3
  N = 2
  Times = {0, 1}
  Retries = 1
  MaxFaults = 2
  MaxLate = 2
  MaxWrites = 3
  MaxFailures = 1
  Mds = {md0, md1}
  MaxEvents = 3
INVARIANTS
  SlotsCounted NobodyCutOff AlarmAsTold
PROPERTIES
  Answered LedShowsFiles LitWhileTrouble
CHECK_DEADLOCK FALSE
