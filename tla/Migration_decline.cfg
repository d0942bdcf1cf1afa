SPECIFICATION Spec
CONSTANTS
  NumServers = 2
  PerServer = 1
  MaxSegments = 1
  MaxVersion = 0
  MaxKeys = 3
  MayReuse = FALSE
  ReuseUnmoved = FALSE
  MayReturn = FALSE
  MayFail = TRUE
  MayOverlap = FALSE
INVARIANTS
  NoCrash
CHECK_DEADLOCK FALSE
