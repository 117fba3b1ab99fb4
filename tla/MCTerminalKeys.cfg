CONSTANTS
  NPROC = 2
  KBD_BUF_SIZE = 3
  FIFO = 1
  HZ = 1
  TimeWord = 1
  Settings <- MCSettings
  Typed = {"cr"}
  Keys <- MCKeys
  KbdUs <- MCKbdUs
  KbdUsShift <- MCKbdUsShift
  Codes = {"2", "shift"}
  Groups = {2}
  Pgrp <- MCPgrp
  Readers = {1, 2}
  Waiters = {}
  MaxInput = 2
  MaxHigh = 1
  MaxCount = 2
SPECIFICATION LiveSpec
CHECK_DEADLOCK FALSE
PROPERTY
  KeysTaken
