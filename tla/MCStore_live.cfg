SPECIFICATION FairSpec

CONSTANTS
  Size <- MCSize
  Channels = {"general"}
  Default = "general"
  Users = {"gus"}
  Guests = {"gus"}
  Nobody = "nobody"
  Contents = {"small"}
  Slots = {1}
  Keep = 2
  Expiries = {0, 1}
  Quota = 0
  MaxUploads = 2
  RemovedCap = 2
  LogSlack = 1
  MaxId = 2
  MaxFid = 2
  MaxTime = 3
  MaxCrashes = 0

INVARIANTS
  RefsCover

PROPERTIES
  ExpiryHappens
  ExpiredLeavesDisk
