SPECIFICATION Spec
CONSTANTS
  Buffer = 3
  NameLength = 1
  Window = 4
  MaxLength = 5
INVARIANTS
  CompleteWhenDone
CHECK_DEADLOCK FALSE
