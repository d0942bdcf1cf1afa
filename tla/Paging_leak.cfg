SPECIFICATION FairSpec
CONSTANTS
  t1 = t1
  t2 = t2
  t3 = t3
  Thread = {t1, t2}
  Programs <- LeakPrograms
  MemorySize = 12
  PageSize = 4
  UsedSize = 12
  StartLow = 0
  MaxPending = 1
  Garbage = {0}
  PREFETCHING = TRUE
PROPERTIES
  PrefetchEnds
CHECK_DEADLOCK FALSE
