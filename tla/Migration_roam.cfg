SPECIFICATION Spec
CONSTANTS
  NumServers = 3
  PerServer = 1
  MaxSegments = 1
  MaxVersion = 1
  MaxKeys = 2
  MayReuse = FALSE
  ReuseUnmoved = FALSE
  MayReturn = TRUE
  MayFail = TRUE
  MayOverlap = FALSE
INVARIANTS
  MigrationInv
PROPERTIES
  NoRegistrationLeak
  RefinesOwnership
CHECK_DEADLOCK FALSE
