SPECIFICATION Spec

CONSTANTS
  Size <- MCSize
  Channels = {"general", "design"}
  Default = "general"
  Users = {"ann"}
  Guests = {}
  Nobody = "nobody"
  Contents = {"small", "big"}
  Slots = {1, 2}
  Keep = 2
  Expiries = {0}
  Quota = 2
  MaxUploads = 2
  RemovedCap = 2
  LogSlack = 1
  MaxId = 2
  MaxFid = 3
  MaxTime = 0
  MaxCrashes = 0

INVARIANTS
  AttachmentsServed
  StoredOnce
  UsedExact
  QuotaBound

PROPERTIES
  NoPrematureDelete
