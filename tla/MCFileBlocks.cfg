CONSTANTS
  NFILES = 2
  Dirs = {2}
  NBLK = 4
  NADDR = 3
  NINDIR = 3
  MaxCount = 3
  Starts = {8, 17, 20}
SPECIFICATION Spec
INVARIANTS
  OneOwner
  ReadBack
  ShortTransfer
