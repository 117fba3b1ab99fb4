CONSTANTS
  NPROC = 2
  NINO = 5
  NINODE = 3
  NICINOD = 1
  NTEXT = 1
  NFILE = 2
  NOFILE = 2
  MaxPath = 2
  MaxCalls = 4
  Dirs <- MCDirs
  Files <- MCFiles
  Removed = {2}
  Paths <- MCPaths
  NewPaths <- MCNewPaths
SPECIFICATION Spec
CHECK_DEADLOCK FALSE
INVARIANTS
  TypeOK
  FilesCounted
  InodesCounted
  LocksReleased
  WaitsOnlyJammed
  NamesAllocated
