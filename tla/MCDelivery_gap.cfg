SPECIFICATION Spec
CONSTANTS
  Devices = {d1}
  Elsewhere = d0
  ReplayCap = 2
  MaxMsgs = 2
  MaxQueue = 2
INVARIANT
  GapReplayed
