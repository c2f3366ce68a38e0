SPECIFICATION FairSpec
CONSTANTS
  t1 = t1
  t2 = t2
  Main = m
  Tids = {m, t1, t2}
  Monitor = Monitor
  Groups = {g1, g2}
  NULL = NULL
  MAX_THREADS = 2
  TrainingMode = FALSE
  RawThreads = TRUE
  PthreadExits = FALSE
  StatFails = FALSE
CHECK_DEADLOCK FALSE
INVARIANTS
  TrackedWhileRunning
  NoLeak
PROPERTIES
  DeadSlotsSwept
  ExitIsReached
