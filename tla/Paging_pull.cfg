SPECIFICATION FairSpec
CONSTANTS
  t1 = t1
  t2 = t2
  t3 = t3
  Thread = {t1, t2, t3}
  Programs <- PullPrograms
  MemorySize = 8
  PageSize = 4
  UsedSize = 4
  StartLow = 0
  MaxPending = 1
  Garbage = {0}
  PREFETCHING = TRUE
INVARIANTS
  TypeOK
  OpenIsHere
  CountExact
  CloseIsLast
  NoFailure
PROPERTIES
  WritesSurvive
  PullAllPagesCloses
  FaultServed
CHECK_DEADLOCK FALSE
