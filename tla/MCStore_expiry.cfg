SPECIFICATION Spec

CONSTANTS
  Size <- MCSize
  Channels = {"general"}
  Default = "general"
  Users = {"ann"}
  Guests = {}
  Nobody = "nobody"
  Contents = {"small"}
  Slots = {1}
  Keep = 4
  Expiries = {0, 1}
  Quota = 0
  MaxUploads = 2
  RemovedCap = 2
  LogSlack = 1
  MaxId = 6
  MaxFid = 0
  MaxTime = 2
  MaxCrashes = 1

INVARIANTS
  Recoverable
