SPECIFICATION Spec
CONSTANTS
  NumServers = 2
  PerServer = 2
  MaxSegments = 2
  MaxVersion = 1
  MaxKeys = 4
  MayReuse = TRUE
  ReuseUnmoved = TRUE
  MayReturn = FALSE
  MayFail = FALSE
  MayOverlap = FALSE
INVARIANTS
  TypeOK
  SingleHolder
  AcceptAtTarget
  ReadKeyLive
  RegisteredIsMapped
PROPERTIES
  RefinesOwnership
CHECK_DEADLOCK FALSE
