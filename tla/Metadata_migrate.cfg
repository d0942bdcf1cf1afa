SPECIFICATION Spec
CONSTANTS
  Server = {0, 1}
  Id = {i1, i2}
  MaxAddress = 2
  MayMigrate = TRUE
  MaxCrashes = 0
  MayQuery = FALSE
INVARIANTS
  AddressesDisjoint
CHECK_DEADLOCK FALSE
