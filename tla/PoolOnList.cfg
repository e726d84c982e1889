SPECIFICATION FairListSpec
CONSTANTS
  Workers = {w1, w2}
  Adders = {a1}
  Jobs = {j1, j2, j3}
  NoThread = NoThread
  NoJob = NoJob
  Blocks = {b1, b2, b3}
  NULL = NULL
  Junk = {b1}
INVARIANTS
  TypeOK
  TokensMatchJobs
  NeverNullJob
  NobodyLeftAsleep
  JobsInOnePlace
  ListIsQueue
  HeadWalkIsQueue
  HeapAccounted
PROPERTIES
  EveryJobRuns
  DestroyReturns
  ImplementsDispatch
