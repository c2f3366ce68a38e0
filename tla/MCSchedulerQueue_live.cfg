SPECIFICATION FairSpec
CONSTANTS
  Pids = {p1, p2}
  Blocks = {b1, b2}
  Shutdown = Shutdown
  NoPid = NoPid
  NULL = NULL
  MaxQueue = 2
  InitialCap = 2
  Backlog = 0
  MaxPending = 1
  Scores <- mc_NoScore
CHECK_DEADLOCK FALSE
PROPERTIES
  DeadAreForgotten
  SamplesAreUsed
