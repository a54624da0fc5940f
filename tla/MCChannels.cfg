SPECIFICATION Spec

CONSTANTS

  Accounts = {root, ann, bob}
  Root = root
  Early = {ann}
  Guests = {gil}
  Nobody = nobody
  Names = {"general", "design"}
  General = "general"
  Codes = {"k1"}
  NoInvite = NoInvite
  Conns = {c1, c2}
  Grants = {"member", "mod"}
  Uses = {0, 2}
  MaxCmds = 3

SYMMETRY MCSymmetry

INVARIANTS
  TypeOK
  OneServerOwner
  BannedNotMember
  InviteBound
  OneChannelOwner
  PresenceExact
  RosterExact
  


  
