SPECIFICATION FairSpec
CONSTANTS
  t1 = t1
  t2 = t2
  a = a
  A = A
  b = b
  None = None
  Threads = {t1, t2}
  Paths <- Nested
  Fold <- NoCase
  MaxRetries = 2
  FaultMax = 2
  TrashMax = 1
  RunMax = 1
  AskMax = 3
INVARIANTS
  TypeOK
  NoSecondFolder
  CacheIsRight
PROPERTIES
  OneIdPerProcess
  AsksEnd
CHECK_DEADLOCK FALSE
