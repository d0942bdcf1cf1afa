SPECIFICATION Spec
CONSTANTS
  o1 = o1
  o2 = o2
  p1 = p1
  p2 = p2
  Server = {0, 1}
  Object = {o1, o2, p1, p2}
  Home <- TwoEach
  Addr = {a1, a2}
  BlockSize = {1, 2}
  MaxUsed = 6
  MaxMoves = 2
  Alone = FALSE
  OneAtATime = TRUE
  EarlyReturn = FALSE
  MayReuse = FALSE
  DestroyGone = FALSE
CHECK_DEADLOCK FALSE
INVARIANTS
  BlocksDisjoint
  ContainerIntact
  OneUser
  NoFault
PROPERTIES
  MigrationEnds
