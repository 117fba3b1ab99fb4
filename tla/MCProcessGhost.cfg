CONSTANTS
  NPROC = 3
  MaxPid = 4
  Groups = {2}
SPECIFICATION Spec
INVARIANT WaitsForSomebody
CHECK_DEADLOCK FALSE
