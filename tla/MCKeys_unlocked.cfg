SPECIFICATION FairSpec
CONSTANTS
  Devices = {"a1", "b1"}
  Users = {"ann", "bob"}
  Owner <- MCOwner
  MaxEpoch = 2
  MaxKeys = 2
  MaxQueue = 2
  MaxCreates = 1
  MaxMoves = 4
PROPERTIES
  Unlocked
CHECK_DEADLOCK FALSE
