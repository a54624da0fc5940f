SPECIFICATION FairSpec
CONSTANTS
  Devices = {d1}
  Elsewhere = d0
  ReplayCap = 1
  MaxMsgs = 2
  MaxQueue = 2
INVARIANTS
  TypeOK
  
  
  ReadHeard

  
  
