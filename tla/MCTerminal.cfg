CONSTANTS
  NPROC = 2
  KBD_BUF_SIZE = 3
  FIFO = 1
  HZ = 1
  TimeWord = 1
  Settings <- MCSettings
  Typed = {"cr", "erase", "eof", "intr", "high"}
  Keys <- MCKeys
  KbdUs <- MCKbdUs
  KbdUsShift <- MCKbdUsShift
  Codes = {"2", "shift"}
  Groups = {2}
  Pgrp <- MCPgrp
  Readers = {2}
  Waiters = {1}
  MaxInput = 3
  MaxHigh = 1
  MaxCount = 2
SPECIFICATION Spec
CHECK_DEADLOCK FALSE
INVARIANTS
  TypeOK
  NoSignalMissed
PROPERTIES
  QueueRefined
  LineEdited
