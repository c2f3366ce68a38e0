SPECIFICATION Spec
CONSTANTS
  Pids = {p1, p2}
  Blocks = {b1, b2, b3}
  Shutdown = Shutdown
  NoPid = NoPid
  NULL = NULL
  MaxQueue = 2
  InitialCap = 1
  Backlog = 0
  MaxPending = 2
  Scores <- mc_NoScore
SYMMETRY Symmetry
CHECK_DEADLOCK FALSE
INVARIANTS
  TypeOK
  OneEntryPerPid
  HistoryOwnership
  PassSkipsNobody
PROPERTIES
  ImplementsRegistry
