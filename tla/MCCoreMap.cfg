CONSTANTS
  p1 = p1
  p2 = p2
  p3 = p3
  p4 = p4
  NoSeg = NoSeg
  Proc <- MCProc
  InitProc = p1
  Start = 1
  MemSize = 8
  USIZE = 1
  ExecSizes <- MCExecSizes
  NMAP = 6
SYMMETRY Alike
SPECIFICATION Spec
INVARIANTS
  TypeOK
  MapOrdered
  Accounted
PROPERTIES
  SpaceRefined
