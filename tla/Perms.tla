------------------------------- MODULE Perms -------------------------------
(***************************************************************************)
(* The permission matrix (perms.go).  Every handler asks these operators,  *)
(* and nothing else decides access.  A rank is a number, compared with <.  *)
(***************************************************************************)
EXTENDS Integers

RankNone == 0
RankMod == 3
RankSrvAdmin == 6
RankSrvOwner == 7

SrvRoles == {"guest", "user", "admin", "owner"}
ChanRoles == {"readonly", "member", "mod", "admin", "owner"}
NotMember == "none"

\* roleRank: the rank a channel role gives.
RoleRank == [none |-> RankNone, readonly |-> 1, member |-> 2, mod |-> RankMod,
             admin |-> 4, owner |-> 5]

\* srvRank: the hub-wide rank of an account.
SrvRank == [guest |-> 0, user |-> 1, admin |-> 2, owner |-> 3]

\* need: the least channel rank for an action.
Need ==
  [read |-> 1, members |-> 1, send |-> 2, delOwn |-> 2,
   topic |-> RankMod, invite |-> RankMod, add |-> RankMod, kick |-> RankMod,
   ban |-> RankMod, mute |-> RankMod, delAny |-> RankMod,
   revokeAny |-> 4, role |-> 4, settings |-> 4, e2eRotate |-> 4,
   purge |-> 5, delete |-> 5, transfer |-> 5]

Can(rank, act) == rank >= Need[act]

\* Only someone who outranks the target acts on it, and only the server owner
\* on server staff.
CanTarget(actor, target) ==
  /\ target >= RankSrvAdmin => actor = RankSrvOwner
  /\ actor > target

\* canSend folds in the channel's read-only flag.
CanSend(rank, readonly) == Can(rank, "send") /\ (readonly => rank >= RankMod)

\* rankIn: server staff outrank the channel, a guest is a member of the
\* default channel and of no other, anybody else has the rank of its role.
RankIn(srvRole, chanRole, isDefault) ==
  CASE srvRole = "owner" -> RankSrvOwner
    [] srvRole = "admin" -> RankSrvAdmin
    [] srvRole = "guest" -> IF isDefault THEN RoleRank.member ELSE RankNone
    [] OTHER -> RoleRank[chanRole]

\* The role an invite or the role command may give away.
CanGrant(rank, role) ==
  /\ role # "owner"
  /\ rank < RankSrvAdmin => RoleRank[role] < rank

CanCreateChannel(srvRole, allowUsers) ==
  SrvRank[srvRole] >= SrvRank.admin \/ (srvRole = "user" /\ allowUsers)
CanServerAct(srvRole) == SrvRank[srvRole] >= SrvRank.admin
CanServerTarget(actorRole, targetRole) == SrvRank[actorRole] > SrvRank[targetRole]
IsServerOwner(srvRole) == srvRole = "owner"
=============================================================================
