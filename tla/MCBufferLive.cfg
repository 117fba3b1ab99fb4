CONSTANTS
  p1 = p1
  p2 = p2
  b1 = b1
  b2 = b2
  b3 = b3
  k1 = k1
  k2 = k2
  NoBlk = NoBlk
  NoBuf = NoBuf
  FreeList = FreeList
  NoChan = NoChan
  Proc <- MCProc
  Buf <- LiveBuf
  Blk <- LiveBlk
  MaxVersion = 2
SPECIFICATION FairSpec
PROPERTIES
  BusyEnds
