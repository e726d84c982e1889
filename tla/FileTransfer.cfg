SPECIFICATION FairSpec
CONSTANTS
  Buffer = 3
  NameLength = 2
  Window = 4
  MaxLength = 7
INVARIANTS
  WrittenInOrder
  WholeIffUndisturbed
PROPERTIES
  TransferEnds
CHECK_DEADLOCK FALSE
