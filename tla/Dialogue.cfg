SPECIFICATION FairSpec
CONSTANTS
  MaxRows = 2
  MaxOps = 2
INVARIANTS
  InStep
  ListAddsUp
  CrashesHaveCause
PROPERTIES
  CallReturns
CHECK_DEADLOCK FALSE
