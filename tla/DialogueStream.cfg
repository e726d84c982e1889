SPECIFICATION Spec
CONSTANTS
  MaxRows = 2
  MaxOps = 2
INVARIANTS
  ListShowsAll
CHECK_DEADLOCK FALSE
