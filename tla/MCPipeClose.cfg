CONSTANTS
  r1 = r1
  w1 = w1
  w2 = w2
  Readers <- MCReaders
  Writers <- MCWriters
  PIPSIZ = 2
  MaxReq = 3
  MaxSent = 4
SPECIFICATION FairSpec
PROPERTIES
  NotConstipated
CHECK_DEADLOCK FALSE
