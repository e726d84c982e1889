SPECIFICATION FairSpec
CONSTANTS
  Files <- SomeFiles
  Block = 64
  Bits = 8
  Low = 1024
  Chunk = 100
  Cuts = {0, 1, 63, 64}
  Garbage = 204
INVARIANTS
  TypeOK
  BlocksAreFile
  CountIsLength
  DigestIsSHA1
PROPERTIES
  HashReturns
CHECK_DEADLOCK FALSE
