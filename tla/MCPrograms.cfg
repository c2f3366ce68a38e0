SPECIFICATION ProgramSpec
CONSTANTS
  Pid = m
  Others = {a, b}
  MaxCreated = 1
  MaxDecisions = 1
  MaxFailures = 1
  Daemons = {d1, d2}
  Receivers = {r1}
  ModelFiles <- mc_ModelFiles
  NoPath = NoPath
  Clients = {c1, c2}
  Chunks = 2
  Backlog = 1
  MaxRestarts = 1
  Procs = {p1, p2}
  Envs <- mc_Envs
  MaxWindows = 2
  MaxGap = 1
  Counts <- mc_Counts
  MaxTime = 2
  StringCores = 3
  Strings <- mc_Strings
  MAX_CORES = 16
  ThreadCounts = {0, 1, 11, 32}
  Samples = {1, 4}
  WIDTH = 6
  MaxSamples = 3
  MaxReceived = 5
  Forests <- mc_Forests
  Binary <- mc_Binary
  NUM_TREES = 2
  MAX_NODES = 5
  Features <- mc_Features
  UNIT = 4
CHECK_DEADLOCK FALSE
INVARIANTS
  AllTyped
  WalkMissesOnlyStrays
  StartsAreSound
  RowsAreWholeMessages
  DatasetIsSound
  ReportIsTrue
  StringsKeepTheirMeaning
  ObjectsAreAccountedFor
  AnswersAreDistributions
PROPERTIES
  AllThreadsSettle
  MessagesAreRecorded
  CoresAreDealt
  RatiosFollowTheSamples
