SPECIFICATION Spec
CONSTANTS
  Server = {0, 1}
  Id = {i1, i2}
  MaxAddress = 3
  MayMigrate = FALSE
  MaxCrashes = 1
  MayQuery = TRUE

INVARIANTS
  TypeOK
  HeldIsRecorded
  ListedIsStored
  RecoveryComplete
  WaitServed

CHECK_DEADLOCK FALSE
