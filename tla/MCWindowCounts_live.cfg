CONSTANTS
  Values <- AllValues
  NULL = NULL
  CallsFail = FALSE
  MaxEvents = 2
  MaxIo = 2
  SignBit = 8
SPECIFICATION FairSpec
INVARIANT ProcessIoCountedOnce
PROPERTIES
  WindowIsExact
  SettledThreadIsRead
CHECK_DEADLOCK FALSE
