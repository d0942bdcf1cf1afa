SPECIFICATION Spec
CONSTANTS
  NumServers = 2
  PerServer = 1
  MaxSegments = 2
  MaxVersion = 0
  MaxKeys = 3
  MayReuse = TRUE
  ReuseUnmoved = FALSE
  MayReturn = FALSE
  MayFail = FALSE
  MayOverlap = FALSE
INVARIANTS
  AcceptAtTarget
CHECK_DEADLOCK FALSE
