SPECIFICATION FairSpec
CONSTANTS
  Users = {ann}
  Conns = {c1, c2}
  SessionsMax = 1
  ConnsPerUser = 1
  MaxPass = 3
  MaxTokens = 3
INVARIANT
  SavedBound
  ResetCutsOff
  BlockCutsOff
PROPERTY
  BlockedOut
