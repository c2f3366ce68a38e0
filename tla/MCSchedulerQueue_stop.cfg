SPECIFICATION FairSpec
CONSTANTS
  Pids = {p1, p2}
  Blocks = {b1}
  Shutdown = Shutdown
  NoPid = NoPid
  NULL = NULL
  MaxQueue = 1
  InitialCap = 2
  Backlog = 1
  MaxPending = 1
  Scores <- mc_OneScore
CHECK_DEADLOCK FALSE
PROPERTIES
  ShutdownIsObeyed
