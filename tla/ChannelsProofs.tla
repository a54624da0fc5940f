--------------------------- MODULE ChannelsProofs ---------------------------
(***************************************************************************)
(* Who is the server owner, who is banned and what an invite gives, for    *)
(* every number of accounts, channels, codes and commands; and what it     *)
(* means to outrank someone, for all ranks.                                *)
(***************************************************************************)
EXTENDS Channels, TLAPS

-----------------------------------------------------------------------------
(***************************************************************************)
(* Ranks                                                                   *)
(***************************************************************************)
\* Nobody can act on itself or on a better, and who can act on someone can act
\* on all that one can act on (canTarget).
THEOREM TargetIsStrictOrder ==
  ASSUME NEW a \in 0 .. RankSrvOwner, NEW b \in 0 .. RankSrvOwner, NEW c \in 0 .. RankSrvOwner
  PROVE  /\ ~CanTarget(a, a)
         /\ CanTarget(a, b) => ~CanTarget(b, a)
         /\ CanTarget(a, b) /\ CanTarget(b, c) => CanTarget(a, c)
BY DEF CanTarget, RankSrvOwner, RankSrvAdmin

\* Nobody gives away a role through which the receiver could act on the giver,
\* or that the giver could not take back (canGrant and canTarget).
THEOREM GrantsAreBelow ==
  ASSUME NEW rank \in 0 .. RankSrvOwner, NEW r \in ChanRoles, CanGrant(rank, r)
  PROVE  CanTarget(rank, RoleRank[r]) /\ ~CanTarget(RoleRank[r], rank)
BY DEF CanGrant, CanTarget, RoleRank, ChanRoles, RankSrvOwner, RankSrvAdmin, RankMod, RankNone

-----------------------------------------------------------------------------
(***************************************************************************)
(* The invariant                                                           *)
(***************************************************************************)
Types ==
  /\ role \in [Accounts -> {"none", "user", "admin", "owner"}]
  /\ chans \subseteq Names
  /\ members \in [Names -> [Accounts -> ChanRoles \cup {NotMember}]]
  /\ bans \in [Names -> SUBSET Accounts]
  /\ settings \in Settings
  /\ invites \in [Codes -> Invite \cup {NoInvite}]
  /\ issued \in [Codes -> Nat \cup {Unlimited}]
  /\ admitted \in [Codes -> Nat]

\* Nobody is banned before it has an account, or in a channel that is gone.
BansAreReal ==
  \A c \in Names : \A a \in bans[c] : c \in chans /\ role[a] # "none"

\* An invite that was made for a number of uses counts down.
CountsDown ==
  \A i \in Codes : invites[i] # NoInvite /\ issued[i] # Unlimited => invites[i].left \in Nat

IInv == Types /\ OneServerOwner /\ BansAreReal /\ BannedNotMember /\ CountsDown /\ InviteBound

\* What the proofs need of the constants.
Constants ==
  /\ Root \in Accounts /\ Early \subseteq Accounts \ {Root} /\ General \in Names
  /\ NoInvite \notin Invite
  /\ Grants \subseteq ChanRoles /\ Uses \subseteq Nat \cup {Unlimited}

-----------------------------------------------------------------------------
(***************************************************************************)
(* Each step                                                               *)
(***************************************************************************)
LEMMA InitIInv == ASSUME Init, Constants PROVE IInv
<1>1. Types
  BY DEF Init, Constants, Types, Settings, ChanRoles, Unlimited, NotMember
<1>2. OneServerOwner
  BY DEF Init, Constants, OneServerOwner
<1>3. BansAreReal /\ BannedNotMember
  BY DEF Init, Constants, BansAreReal, BannedNotMember
<1>4. CountsDown /\ InviteBound
  BY DEF Init, CountsDown, InviteBound
<1>. QED  BY <1>1, <1>2, <1>3, <1>4 DEF IInv

\* What a step that leaves the roles, or the invites, alone keeps of them.
LEMMA RolesAside == ASSUME IInv, UNCHANGED role PROVE OneServerOwner'
BY DEF IInv, OneServerOwner

LEMMA InvitesAside ==
  ASSUME IInv, UNCHANGED <<invites, issued, admitted>> PROVE CountsDown' /\ InviteBound'
BY DEF IInv, CountsDown, InviteBound

\* An invite that is withdrawn admits nobody more.
LEMMA WithdrawnIInv ==
  ASSUME IInv, Constants, UNCHANGED <<issued, admitted>>,
         invites' \in [Codes -> Invite \cup {NoInvite}],
         \A i \in Codes : invites'[i] \in {invites[i], NoInvite}
  PROVE  CountsDown' /\ InviteBound'
BY DEF IInv, Constants, Types, Invite, CountsDown, InviteBound, Unlimited

\* A use of an invite is taken off what it has left (consumeInvite).
LEMMA AdmitIInv ==
  ASSUME IInv, Constants, NEW b \in Accounts, NEW i \in Codes, Usable(i), Admit(b, i),
         UNCHANGED issued
  PROVE  /\ members' \in [Names -> [Accounts -> ChanRoles \cup {NotMember}]]
         /\ invites' \in [Codes -> Invite \cup {NoInvite}]
         /\ admitted' \in [Codes -> Nat]
         /\ CountsDown' /\ InviteBound'
<1>1. invites[i] \in Invite /\ invites[i].left \in Int /\ invites[i].left # 0
  BY DEF IInv, Types, Usable, Invite
<1>2. Consumed(i) \in Invite \cup {NoInvite}
  BY <1>1 DEF Consumed, Invite
<1>3. members' \in [Names -> [Accounts -> ChanRoles \cup {NotMember}]]
  BY <1>1 DEF IInv, Types, Admit, Invite
<1>4. invites' \in [Codes -> Invite \cup {NoInvite}] /\ admitted' \in [Codes -> Nat]
  BY <1>2 DEF IInv, Types, Admit
<1>5. ASSUME NEW j \in Codes, j # i
      PROVE  invites'[j] = invites[j] /\ admitted'[j] = admitted[j] /\ issued'[j] = issued[j]
  BY <1>5 DEF IInv, Types, Admit
<1>6. /\ invites'[i] = Consumed(i) /\ issued'[i] = issued[i]
      /\ admitted'[i] = IF issued[i] = Unlimited THEN admitted[i] ELSE admitted[i] + 1
  BY DEF IInv, Types, Admit
<1>7. ASSUME issued[i] # Unlimited
      PROVE  /\ admitted'[i] + (IF invites'[i] = NoInvite THEN 0 ELSE invites'[i].left) <= issued'[i]
             /\ invites'[i] # NoInvite => invites'[i].left \in Nat
  <2>1. /\ invites[i].left \in Nat /\ admitted[i] \in Nat /\ issued[i] \in Nat
        /\ admitted[i] + invites[i].left <= issued[i]
    BY <1>1, <1>7 DEF IInv, Types, CountsDown, InviteBound, Usable
  <2>2. CASE invites[i].left = 1
    <3>1. invites'[i] = NoInvite /\ admitted'[i] = admitted[i] + 1
      BY <1>6, <1>7, <2>2 DEF Consumed
    <3>. QED  BY <1>6, <2>1, <2>2, <3>1
  <2>3. CASE invites[i].left > 1
    <3>1. invites'[i] = [invites[i] EXCEPT !.left = @ - 1] /\ admitted'[i] = admitted[i] + 1
      BY <1>6, <1>7, <2>3 DEF Consumed
    <3>2. invites'[i].left = invites[i].left - 1 /\ invites'[i] # NoInvite
      BY <1>1, <3>1 DEF Invite, Constants
    <3>. QED  BY <1>6, <2>1, <2>3, <3>1, <3>2
  <2>. QED  BY <1>1, <2>1, <2>2, <2>3
<1>8. ASSUME NEW j \in Codes, issued'[j] # Unlimited
      PROVE  /\ admitted'[j] + (IF invites'[j] = NoInvite THEN 0 ELSE invites'[j].left) <= issued'[j]
             /\ invites'[j] # NoInvite => invites'[j].left \in Nat
  <2>1. CASE j # i
    BY <1>5, <1>8, <2>1 DEF IInv, CountsDown, InviteBound
  <2>2. CASE j = i
    BY <1>6, <1>7, <1>8, <2>2
  <2>. QED  BY <2>1, <2>2
<1>9. CountsDown' /\ InviteBound'
  BY <1>8 DEF CountsDown, InviteBound
<1>. QED  BY <1>3, <1>4, <1>9

LEMMA CreateIInv ==
  ASSUME IInv, Constants, NEW a \in Accounts, NEW c \in Names, Create(a, c)
  PROVE  IInv'
<1>1. Types'
  BY DEF IInv, Constants, Types, Settings, ChanRoles, Invite, Unlimited, NotMember,
         Create, history
<1>2. OneServerOwner'
  BY RolesAside DEF Create
<1>3. BansAreReal'
  BY DEF IInv, Types, BansAreReal, Create, history
<1>4. BannedNotMember'
  BY DEF IInv, Types, BansAreReal, BannedNotMember, Create, history
<1>5. CountsDown' /\ InviteBound'
  BY InvitesAside DEF Create, history
<1>. QED  BY <1>1, <1>2, <1>3, <1>4, <1>5 DEF IInv

LEMMA DeleteIInv ==
  ASSUME IInv, Constants, NEW a \in Accounts, NEW c \in Names, Delete(a, c)
  PROVE  IInv'
<1>1. Types'
  BY DEF IInv, Constants, Types, Settings, ChanRoles, Invite, Unlimited, NotMember,
         Delete, history
<1>2. OneServerOwner'
  BY RolesAside DEF Delete
<1>3. BansAreReal'
  BY DEF IInv, Types, BansAreReal, Delete, history
<1>4. BannedNotMember'
  BY DEF IInv, Types, BansAreReal, BannedNotMember, Delete, history
<1>5. CountsDown' /\ InviteBound'
  BY <1>1, WithdrawnIInv DEF IInv, Types, Delete, history
<1>. QED  BY <1>1, <1>2, <1>3, <1>4, <1>5 DEF IInv

LEMMA IssueInviteIInv ==
  ASSUME IInv, Constants, NEW a \in Accounts, NEW c \in Names, NEW i \in Codes,
         NEW r \in Grants, NEW uses \in Uses, NEW signup \in BOOLEAN,
         IssueInvite(a, c, i, r, uses, signup)
  PROVE  IInv'
<1>1. Types'
  BY DEF IInv, Constants, Types, Settings, ChanRoles, Invite, Unlimited, NotMember,
         IssueInvite, history
<1>2. OneServerOwner'
  BY RolesAside DEF IssueInvite
<1>3. BansAreReal'
  BY DEF IInv, Types, BansAreReal, IssueInvite, history
<1>4. BannedNotMember'
  BY DEF IInv, Types, BansAreReal, BannedNotMember, IssueInvite, history
<1>5. CountsDown' /\ InviteBound'
  BY DEF IInv, Constants, Types, Invite, CountsDown, InviteBound, Unlimited, IssueInvite
<1>. QED  BY <1>1, <1>2, <1>3, <1>4, <1>5 DEF IInv

LEMMA RevokeIInv ==
  ASSUME IInv, Constants, NEW a \in Accounts, NEW i \in Codes, Revoke(a, i)
  PROVE  IInv'
<1>1. Types'
  BY DEF IInv, Constants, Types, Settings, ChanRoles, Invite, Unlimited, NotMember,
         Revoke, history
<1>2. OneServerOwner'
  BY RolesAside DEF Revoke
<1>3. BansAreReal'
  BY DEF IInv, Types, BansAreReal, Revoke, history
<1>4. BannedNotMember'
  BY DEF IInv, Types, BansAreReal, BannedNotMember, Revoke, history
<1>5. CountsDown' /\ InviteBound'
  BY <1>1, WithdrawnIInv DEF IInv, Types, Revoke, history
<1>. QED  BY <1>1, <1>2, <1>3, <1>4, <1>5 DEF IInv

LEMMA InviteLapsesIInv ==
  ASSUME IInv, Constants, NEW i \in Codes, InviteLapses(i)
  PROVE  IInv'
<1>1. Types'
  BY DEF IInv, Constants, Types, Settings, ChanRoles, Invite, Unlimited, NotMember,
         InviteLapses, history
<1>2. OneServerOwner'
  BY RolesAside DEF InviteLapses
<1>3. BansAreReal'
  BY DEF IInv, Types, BansAreReal, InviteLapses, history
<1>4. BannedNotMember'
  BY DEF IInv, Types, BansAreReal, BannedNotMember, InviteLapses, history
<1>5. CountsDown' /\ InviteBound'
  BY <1>1, WithdrawnIInv DEF IInv, Types, InviteLapses, history
<1>. QED  BY <1>1, <1>2, <1>3, <1>4, <1>5 DEF IInv

LEMMA JoinIInv ==
  ASSUME IInv, Constants, NEW a \in Accounts, NEW i \in Codes, Join(a, i)
  PROVE  IInv'
<1>0. Usable(i) /\ Admit(a, i) /\ UNCHANGED issued
  BY DEF Join
<1>1. Types'
  BY <1>0, AdmitIInv DEF IInv, Types, Join
<1>2. OneServerOwner'
  BY RolesAside DEF Join
<1>3. BansAreReal'
  BY DEF IInv, Types, BansAreReal, Join, history, Admit
<1>4. BannedNotMember'
  BY DEF IInv, Types, BansAreReal, BannedNotMember, Join, history, Admit
<1>5. CountsDown' /\ InviteBound'
  BY <1>0, AdmitIInv
<1>. QED  BY <1>1, <1>2, <1>3, <1>4, <1>5 DEF IInv

LEMMA SignUpIInv ==
  ASSUME IInv, Constants, NEW a \in Accounts, NEW i \in Codes, SignUp(a, i)
  PROVE  IInv'
<1>0. Usable(i) /\ Admit(a, i) /\ UNCHANGED issued
  BY DEF SignUp
<1>1. Types'
  BY <1>0, AdmitIInv DEF IInv, Types, SignUp
<1>2. OneServerOwner'
  BY DEF IInv, Types, OneServerOwner, SignUp
<1>3. BansAreReal'
  BY DEF IInv, Types, BansAreReal, SignUp, history, Admit
<1>4. BannedNotMember'
  BY DEF IInv, Types, BansAreReal, BannedNotMember, SignUp, history, Admit
<1>5. CountsDown' /\ InviteBound'
  BY <1>0, AdmitIInv
<1>. QED  BY <1>1, <1>2, <1>3, <1>4, <1>5 DEF IInv

LEMMA RegisterIInv ==
  ASSUME IInv, Constants, NEW a \in Accounts, Register(a)
  PROVE  IInv'
<1>1. Types'
  BY DEF IInv, Constants, Types, Settings, ChanRoles, Invite, Unlimited, NotMember,
         Register, history
<1>2. OneServerOwner'
  BY DEF IInv, Types, OneServerOwner, Register
<1>3. BansAreReal'
  BY DEF IInv, Types, BansAreReal, Register, history
<1>4. BannedNotMember'
  BY DEF IInv, Types, BansAreReal, BannedNotMember, Register, history
<1>5. CountsDown' /\ InviteBound'
  BY InvitesAside DEF Register, history
<1>. QED  BY <1>1, <1>2, <1>3, <1>4, <1>5 DEF IInv

LEMMA AddIInv ==
  ASSUME IInv, Constants, NEW a \in Accounts, NEW c \in Names, NEW t \in Accounts, Add(a, c, t)
  PROVE  IInv'
<1>1. Types'
  BY DEF IInv, Constants, Types, Settings, ChanRoles, Invite, Unlimited, NotMember,
         Add, history
<1>2. OneServerOwner'
  BY RolesAside DEF Add
<1>3. BansAreReal'
  BY DEF IInv, Types, BansAreReal, Add, history
<1>4. BannedNotMember'
  BY DEF IInv, Types, BansAreReal, BannedNotMember, Add, history
<1>5. CountsDown' /\ InviteBound'
  BY InvitesAside DEF Add, history
<1>. QED  BY <1>1, <1>2, <1>3, <1>4, <1>5 DEF IInv

LEMMA LeaveIInv ==
  ASSUME IInv, Constants, NEW a \in Accounts, NEW c \in Names, Leave(a, c)
  PROVE  IInv'
<1>1. Types'
  BY DEF IInv, Constants, Types, Settings, ChanRoles, Invite, Unlimited, NotMember,
         Leave, history, UnsubUser
<1>2. OneServerOwner'
  BY RolesAside DEF Leave
<1>3. BansAreReal'
  BY DEF IInv, Types, BansAreReal, Leave, history, UnsubUser
<1>4. BannedNotMember'
  BY DEF IInv, Types, BansAreReal, BannedNotMember, Leave, history, UnsubUser
<1>5. CountsDown' /\ InviteBound'
  BY InvitesAside DEF Leave, history
<1>. QED  BY <1>1, <1>2, <1>3, <1>4, <1>5 DEF IInv

LEMMA RemoveIInv ==
  ASSUME IInv, Constants, NEW a \in Accounts, NEW c \in Names, NEW t \in Accounts,
         NEW ban \in BOOLEAN, Remove(a, c, t, ban)
  PROVE  IInv'
<1>1. Types'
  BY DEF IInv, Constants, Types, Settings, ChanRoles, Invite, Unlimited, NotMember,
         Remove, history, UnsubUser, Target, May, Sees
<1>2. OneServerOwner'
  BY RolesAside DEF Remove
<1>3. BansAreReal'
  BY DEF IInv, Types, BansAreReal, Remove, history, UnsubUser, Target, May, Sees
<1>4. BannedNotMember'
  BY DEF IInv, Types, BansAreReal, BannedNotMember, Remove, history, UnsubUser, Target, May, Sees
<1>5. CountsDown' /\ InviteBound'
  BY InvitesAside DEF Remove, history
<1>. QED  BY <1>1, <1>2, <1>3, <1>4, <1>5 DEF IInv

LEMMA UnbanIInv ==
  ASSUME IInv, Constants, NEW a \in Accounts, NEW c \in Names, NEW t \in Accounts, Unban(a, c, t)
  PROVE  IInv'
<1>1. Types'
  BY DEF IInv, Constants, Types, Settings, ChanRoles, Invite, Unlimited, NotMember,
         Unban, history
<1>2. OneServerOwner'
  BY RolesAside DEF Unban
<1>3. BansAreReal'
  BY DEF IInv, Types, BansAreReal, Unban, history
<1>4. BannedNotMember'
  BY DEF IInv, Types, BansAreReal, BannedNotMember, Unban, history
<1>5. CountsDown' /\ InviteBound'
  BY InvitesAside DEF Unban, history
<1>. QED  BY <1>1, <1>2, <1>3, <1>4, <1>5 DEF IInv

LEMMA BanLapsesIInv ==
  ASSUME IInv, Constants, NEW c \in Names, NEW t \in Accounts, BanLapses(c, t)
  PROVE  IInv'
<1>1. Types'
  BY DEF IInv, Constants, Types, Settings, ChanRoles, Invite, Unlimited, NotMember,
         BanLapses, history
<1>2. OneServerOwner'
  BY RolesAside DEF BanLapses
<1>3. BansAreReal'
  BY DEF IInv, Types, BansAreReal, BanLapses, history
<1>4. BannedNotMember'
  BY DEF IInv, Types, BansAreReal, BannedNotMember, BanLapses, history
<1>5. CountsDown' /\ InviteBound'
  BY InvitesAside DEF BanLapses, history
<1>. QED  BY <1>1, <1>2, <1>3, <1>4, <1>5 DEF IInv

LEMMA SetRoleIInv ==
  ASSUME IInv, Constants, NEW a \in Accounts, NEW c \in Names, NEW t \in Accounts,
         NEW r \in Grants, SetRole(a, c, t, r)
  PROVE  IInv'
<1>1. Types'
  BY DEF IInv, Constants, Types, Settings, ChanRoles, Invite, Unlimited, NotMember,
         SetRole, history
<1>2. OneServerOwner'
  BY RolesAside DEF SetRole
<1>3. BansAreReal'
  BY DEF IInv, Types, BansAreReal, SetRole, history
<1>4. BannedNotMember'
  BY DEF IInv, Types, BansAreReal, BannedNotMember, SetRole, history
<1>5. CountsDown' /\ InviteBound'
  BY InvitesAside DEF SetRole, history
<1>. QED  BY <1>1, <1>2, <1>3, <1>4, <1>5 DEF IInv

LEMMA TransferIInv ==
  ASSUME IInv, Constants, NEW a \in Accounts, NEW c \in Names, NEW t \in Accounts, Transfer(a, c, t)
  PROVE  IInv'
<1>1. Types'
  BY DEF IInv, Constants, Types, Settings, ChanRoles, Invite, Unlimited, NotMember,
         Transfer, history
<1>2. OneServerOwner'
  BY RolesAside DEF Transfer
<1>3. BansAreReal'
  BY DEF IInv, Types, BansAreReal, Transfer, history
<1>4. BannedNotMember'
  <2>1. ASSUME NEW d \in Names, NEW b \in Accounts, members[d][b] = NotMember
        PROVE  members'[d][b] = NotMember
    BY <2>1 DEF IInv, Types, Transfer, NotMember
  <2>. QED  BY <2>1 DEF IInv, BannedNotMember, Transfer
<1>5. CountsDown' /\ InviteBound'
  BY InvitesAside DEF Transfer, history
<1>. QED  BY <1>1, <1>2, <1>3, <1>4, <1>5 DEF IInv

LEMMA UserAddIInv ==
  ASSUME IInv, Constants, NEW a \in Accounts, NEW b \in Accounts, UserAdd(a, b)
  PROVE  IInv'
<1>1. Types'
  BY DEF IInv, Constants, Types, Settings, ChanRoles, Invite, Unlimited, NotMember,
         UserAdd, history
<1>2. OneServerOwner'
  BY DEF IInv, Types, OneServerOwner, UserAdd
<1>3. BansAreReal'
  BY DEF IInv, Types, BansAreReal, UserAdd, history
<1>4. BannedNotMember'
  BY DEF IInv, Types, BansAreReal, BannedNotMember, UserAdd, history
<1>5. CountsDown' /\ InviteBound'
  BY InvitesAside DEF UserAdd, history
<1>. QED  BY <1>1, <1>2, <1>3, <1>4, <1>5 DEF IInv

LEMMA SetServerRoleIInv ==
  ASSUME IInv, Constants, NEW a \in Accounts, NEW t \in Accounts,
         NEW r \in {"user", "admin", "owner"}, SetServerRole(a, t, r)
  PROVE  IInv'
<1>1. Types'
  BY DEF IInv, Constants, Types, Settings, ChanRoles, Invite, Unlimited, NotMember,
         SetServerRole, history, IsServerOwner
<1>2. OneServerOwner'
  BY DEF IInv, Types, OneServerOwner, SetServerRole, IsServerOwner
<1>3. BansAreReal'
  BY DEF IInv, Types, BansAreReal, SetServerRole, history, IsServerOwner
<1>4. BannedNotMember'
  BY DEF IInv, Types, BansAreReal, BannedNotMember, SetServerRole, history, IsServerOwner
<1>5. CountsDown' /\ InviteBound'
  BY InvitesAside DEF SetServerRole, history
<1>. QED  BY <1>1, <1>2, <1>3, <1>4, <1>5 DEF IInv

LEMMA SetIInv ==
  ASSUME IInv, Constants, NEW a \in Accounts, NEW s \in Settings, Set(a, s)
  PROVE  IInv'
<1>1. Types'
  BY DEF IInv, Constants, Types, Settings, ChanRoles, Invite, Unlimited, NotMember,
         Set, history
<1>2. OneServerOwner'
  BY RolesAside DEF Set
<1>3. BansAreReal'
  BY DEF IInv, Types, BansAreReal, Set, history
<1>4. BannedNotMember'
  BY DEF IInv, Types, BansAreReal, BannedNotMember, Set, history
<1>5. CountsDown' /\ InviteBound'
  BY InvitesAside DEF Set, history
<1>. QED  BY <1>1, <1>2, <1>3, <1>4, <1>5 DEF IInv

\* What is attached, and whether an account may log in, is not in the invariant.
Aside == UNCHANGED <<role, chans, members, bans, settings, invites, issued, admitted>>

LEMMA AsideIInv == ASSUME IInv, Aside PROVE IInv'
BY DEF IInv, Aside, Types, OneServerOwner, BansAreReal, BannedNotMember, CountsDown, InviteBound

LEMMA NextIInv == ASSUME IInv, Constants, [Next]_vars PROVE IInv'
<1>1. CASE ChannelCommand
  BY <1>1, CreateIInv, DeleteIInv, LeaveIInv, IssueInviteIInv, AddIInv, UnbanIInv, TransferIInv,
     RemoveIInv, SetRoleIInv DEF ChannelCommand
<1>2. CASE InviteUse
  BY <1>2, InviteLapsesIInv, RevokeIInv, JoinIInv, SignUpIInv DEF InviteUse
<1>3. CASE ServerCommand
  <2>1. ASSUME NEW a \in Accounts, Register(a)
        PROVE  IInv'
    BY <2>1, RegisterIInv
  <2>2. ASSUME NEW a \in Accounts, NEW t \in Accounts,
               \/ StatusLapses(a)
               \/ \E st \in {"active", "banned", "disabled"} : SetStatus(a, t, st)
        PROVE  IInv'
    BY <2>2, AsideIInv DEF StatusLapses, SetStatus, Aside, history
  <2>3. ASSUME NEW a \in Accounts,
               \/ \E r \in {"invite", "admin", "open"} : Set(a, [settings EXCEPT !.registration = r])
               \/ \E b \in BOOLEAN : \/ Set(a, [settings EXCEPT !.guests = b])
                                    \/ Set(a, [settings EXCEPT !.userChans = b])
               \/ \E c \in chans : Set(a, [settings EXCEPT !.def = c])
        PROVE  IInv'
    <3>1. settings \in Settings /\ chans \subseteq Names
      BY DEF IInv, Types
    <3>2. PICK s \in Settings : Set(a, s)
      BY <2>3, <3>1 DEF Settings
    <3>. QED  BY <3>2, SetIInv
  <2>4. ASSUME NEW a \in Accounts, NEW t \in Accounts,
               \/ UserAdd(a, t)
               \/ \E r \in {"user", "admin", "owner"} : SetServerRole(a, t, r)
        PROVE  IInv'
    BY <2>4, UserAddIInv, SetServerRoleIInv
  <2>. QED  BY <1>3, <2>1, <2>2, <2>3, <2>4 DEF ServerCommand
<1>4. CASE Live
  <2>1. ASSUME NEW c \in Names, NEW t \in Accounts, BanLapses(c, t)
        PROVE  IInv'
    BY <2>1, BanLapsesIInv
  <2>2. ASSUME \/ \E s \in Conns :
                    \/ Disconnect(s)
                    \/ \E u \in People : Connect(s, u)
                    \/ \E c \in Names : Subscribe(s, c) \/ Unsubscribe(s, c)
               \/ \E reset \in BOOLEAN : Restart(reset)
        PROVE  IInv'
    BY <2>2, AsideIInv
       DEF Disconnect, Connect, Subscribe, Unsubscribe, Restart, Aside, hubVars, history
  <2>. QED  BY <1>4, <2>1, <2>2 DEF Live
<1>5. CASE UNCHANGED vars
  BY <1>5, AsideIInv DEF vars, hubVars, history, Aside
<1>. QED  BY <1>1, <1>2, <1>3, <1>4, <1>5 DEF Next

-----------------------------------------------------------------------------
LEMMA SpecIInv == Spec => []IInv
<1>1. Constants
  BY ChannelsAssumption DEF Constants, Invite
<1>2. Init => IInv
  BY <1>1, InitIInv
<1>3. IInv /\ [Next]_vars => IInv'
  BY <1>1, NextIInv
<1>. QED  BY <1>2, <1>3, PTL DEF Spec

\* Whatever is handed over to whom, there is one server owner (usermod).
THEOREM ChannelsOneServerOwner == Spec => []OneServerOwner
<1>1. IInv => OneServerOwner
  BY DEF IInv
<1>. QED  BY <1>1, SpecIInv, PTL

\* Nothing brings a banned account back into its channel (join, add, transfer,
\* authenticate), not even a ban that came before the invite was used.
THEOREM ChannelsBannedNotMember == Spec => []BannedNotMember
<1>1. IInv => BannedNotMember
  BY DEF IInv
<1>. QED  BY <1>1, SpecIInv, PTL

\* An invite admits no more people than it was made for (consumeInvite).
THEOREM ChannelsInviteBound == Spec => []InviteBound
<1>1. IInv => InviteBound
  BY DEF IInv
<1>. QED  BY <1>1, SpecIInv, PTL
=============================================================================
