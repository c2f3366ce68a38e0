CONSTANTS
  Values <- TwoValues
  NULL = NULL
  CallsFail = TRUE
  MaxEvents = 1
  MaxIo = 2
  SignBit = 8
SPECIFICATION Spec
INVARIANTS
  TypeOK
  NeverInvented
  IoCountedOnce
CHECK_DEADLOCK FALSE
