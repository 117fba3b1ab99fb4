CONSTANTS
  p1 = p1
  p2 = p2
  b1 = b1
  b2 = b2
  b3 = b3
  k1 = k1
  k2 = k2
  NoBlk = NoBlk
  NoBuf = NoBuf
  FreeList = FreeList
  NoChan = NoChan
  Proc <- MCProc
  Buf <- MCBuf
  Blk <- MCBlk
  MaxVersion = 1
SYMMETRY Alike
SPECIFICATION Spec
INVARIANTS
  TypeOK
  AvailIffNotBusy
  OneBufferPerBlock
  ReadsLatest
  NothingLost
  SleepersWoken
