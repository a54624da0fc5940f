SPECIFICATION Spec

CONSTANTS
  Size <- MCSize
  Channels = {"general"}
  Default = "general"
  Users = {"ann"}
  Guests = {}
  Nobody = "nobody"
  Contents = {"small"}
  Slots = {1}
  Keep = 2
  Expiries = {0}
  Quota = 0
  MaxUploads = 2
  RemovedCap = 2
  LogSlack = 1
  MaxId = 3
  MaxFid = 2
  MaxTime = 0
  MaxCrashes = 1

PROPERTIES
  AnnouncedBytesStored
