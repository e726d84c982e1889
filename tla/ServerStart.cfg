SPECIFICATION FairSpec
CONSTANTS
  Values = {0, 5, 9}
  MaxArgs = 4
  MaxPort = 7
  DefaultPort = 3
  DefaultQueue = 32
  DefaultThreads = 64
INVARIANTS
  SettingsAreLastGiven
  CrashesHaveCause
  OneDestroysPool
  ExitIsClean
PROPERTIES
  StopEnds
