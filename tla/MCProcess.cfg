CONSTANTS
  NPROC = 3
  MaxPid = 4
  Groups = {2}
SPECIFICATION Spec
INVARIANTS
  TypeOK
  DeathNotMissed
  OrphansAdopted
PROPERTIES
  ZombieStays
CHECK_DEADLOCK FALSE
