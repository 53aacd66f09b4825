CONSTANTS
  c1 = c1
  c2 = c2
  ClientSeed <- ClientSeeds
  LongSeed <- Long2
  Words = 256
  Word <- MCWord
  PointMin = 100
  PointMax = 1000
  PointOverride = 0
  ManualRounds = TRUE
  MaxSeeds = 3
  MaxRounds = 3
SPECIFICATION Spec
INVARIANTS
  TypeOK
  HashesDistinct
  DrawVerifies
  VerdictsTellTheSeed
  Driven
PROPERTY
  DrawsUseCommittedSeed
CHECK_DEADLOCK FALSE
