SPECIFICATION Spec
CONSTANTS
  NumServers = 3
  Work <- TestWork
  SlowCopy = FALSE
  ErrorGarbage = {FALSE}
  StopGarbage = {TRUE, FALSE}
CHECK_DEADLOCK FALSE
INVARIANTS
  TypeOK
  MeshCorrect
  SemaphoreLive
  ReadRegistered
  NothingFlushed
  NoStandstill
