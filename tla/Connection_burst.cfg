SPECIFICATION Spec
CONSTANTS
  NumServers = 2
  Work <- TestWork
  SlowCopy = TRUE
  ErrorGarbage = {FALSE}
  StopGarbage = {TRUE, FALSE}
CHECK_DEADLOCK FALSE
INVARIANTS
  Delivered
