SPECIFICATION Spec
CONSTANTS
  Cost = 2
  MaxRate = 2
  MaxBurst = 3
  Hour = 3
  Window = 2
  MaxHits = 2
  MuteFor = 1
  MuteTimes = {2}
  MaxTime = 5
INVARIANTS
  SendBound
  
PROPERTIES
  MuteEarned
