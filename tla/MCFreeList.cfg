CONSTANTS
  p1 = p1
  p2 = p2
  Proc <- MCProc
  NBLK = 4
  NICFREE = 2
  NoBlk = NoBlk
SPECIFICATION FairSpec
INVARIANTS
  TypeOK
  OnePlace
  CleanMeansSaved
PROPERTIES
  NospaceMeansNone
  FlockWaitEnds
  SpaceRefined
