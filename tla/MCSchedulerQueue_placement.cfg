SPECIFICATION Spec
CONSTANTS
  Pids = {p1, p2}
  Blocks = {b1, b2}
  Shutdown = Shutdown
  NoPid = NoPid
  NULL = NULL
  MaxQueue = 2
  InitialCap = 1
  Backlog = 0
  MaxPending = 1
  Scores <- mc_Scores
SYMMETRY Symmetry
CHECK_DEADLOCK FALSE
INVARIANTS
  HysteresisMatchesMask
