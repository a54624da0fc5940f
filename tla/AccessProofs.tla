---------------------------- MODULE AccessProofs ----------------------------
(***************************************************************************)
(* Who may read, who owns a channel and who can lower whom, for every      *)
(* number of accounts, connections, channels, codes and commands.          *)
(***************************************************************************)
EXTENDS PresenceProofs

\* Somebody is online only with an account, and nobody is a member without one.
Online == \A s \in Conns : conn[s] \in Accounts => role[conn[s]] # "none"
Strangers == \A b \in Accounts, c \in Names : role[b] = "none" => members[c][b] = NotMember

\* A channel that is not there has no members.
Emptied == \A b \in Accounts, c \in Names : c \notin chans => members[c][b] = NotMember

\* The channel that new accounts enter is there.
DefaultExists == settings.def \in chans

\* Nobody can invite an owner.
NoOwnerInvited == \A i \in Codes : invites[i] # NoInvite => invites[i].role # "owner"

\* Server staff is known as such.
StaffKnown == \A b \in Accounts : role[b] \in {"admin", "owner"} => b \in everStaff

\* Why somebody may stay attached.
MayStay(u, c) == u \in Guests \cup everStaff \/ members[c][u] # NotMember
Readers == \A s \in Conns : \A c \in subs[s] : c \in chans /\ MayStay(conn[s], c)

IsOwner(b, c) == members[c][b] = "owner"
Owned == \A c \in chans \ meddled : \E o \in Accounts : \A b \in Accounts : IsOwner(b, c) <=> b = o

\* What is proved elsewhere of the hub and of what is attached.
Known == IInv /\ LiveInv

StandInv == Online /\ Strangers /\ Emptied /\ DefaultExists /\ NoOwnerInvited /\ StaffKnown
AccessInv == StandInv /\ Readers /\ Owned

AccessConstants ==
  /\ Constants /\ LiveConstants
  /\ Grants \subseteq ChanRoles \ {"owner"}
  /\ People = Accounts \cup Guests /\ Guests \cap Accounts = {}

-----------------------------------------------------------------------------
(***************************************************************************)
(* Ranks in a channel                                                      *)
(***************************************************************************)
LEMMA RankOf ==
  ASSUME Types, AccessConstants, NEW b \in Accounts, NEW c \in Names
  PROVE  /\ role[b] = "owner" => Rank(b, c) = 7
         /\ role[b] = "admin" => Rank(b, c) = 6
         /\ role[b] \notin {"owner", "admin"} => Rank(b, c) = RoleRank[members[c][b]]
         /\ members[c][b] \in ChanRoles \cup {NotMember}
<1>1. b \notin Guests
  BY DEF AccessConstants
<1>2. Rank(b, c) = RankIn(role[b], members[c][b], c = settings.def)
  BY <1>1 DEF Rank, SrvRoleOf
<1>. QED  BY <1>2 DEF RankIn, Types, RankSrvOwner, RankSrvAdmin

LEMMA RoleRanks ==
  ASSUME NEW r \in ChanRoles \cup {NotMember}
  PROVE  /\ RoleRank[r] \in 0 .. 5
         /\ RoleRank[r] = 5 <=> r = "owner"
         /\ RoleRank[r] = 0 <=> r = NotMember
BY DEF RoleRank, ChanRoles, NotMember, RankNone, RankMod

LEMMA RankIsNat ==
  ASSUME Types, AccessConstants, NEW b \in Accounts, NEW c \in Names
  PROVE  /\ Rank(b, c) \in 0 .. 7
         /\ RoleRank[members[c][b]] <= Rank(b, c)
         /\ Rank(b, c) < 6 => Rank(b, c) = RoleRank[members[c][b]]
<1>1. role[b] \in {"none", "user", "admin", "owner"}
  BY DEF Types
<1>. QED  BY <1>1, RankOf, RoleRanks

\* Only server staff acts on an owner without being one (target, canTarget).
LEMMA OwnersAreSafe ==
  ASSUME Types, AccessConstants, NEW a \in Accounts, NEW t \in Accounts, NEW c \in Names,
         Target(a, c, t), IsOwner(t, c)
  PROVE  Rank(a, c) >= RankSrvAdmin
<1>1. CanTarget(Rank(a, c), Rank(t, c))
  BY DEF Target
<1>2. RoleRank[members[c][t]] = 5
  BY RankOf, RoleRanks DEF IsOwner
<1>3. Rank(t, c) >= 5 /\ Rank(t, c) \in 0 .. 7 /\ Rank(a, c) \in 0 .. 7
  BY <1>2, RankIsNat
<1>. QED  BY <1>1, <1>3 DEF CanTarget, RankSrvAdmin

-----------------------------------------------------------------------------
(***************************************************************************)
(* Accounts and memberships                                                *)
(***************************************************************************)
LEMMA InitAccess == ASSUME Init, AccessConstants PROVE AccessInv
<1>1. StandInv
  BY DEF Init, StandInv, Online, Strangers, Emptied, DefaultExists, NoOwnerInvited,
         StaffKnown, AccessConstants, Constants, LiveConstants
<1>2. Readers
  BY DEF Init, Readers
<1>3. Owned
  BY DEF Init, Owned, IsOwner, AccessConstants, Constants, NotMember
<1>. QED  BY <1>1, <1>2, <1>3 DEF AccessInv

\* It is enough to look at the owners of the channels that go on.
LEMMA OwnedKept ==
  ASSUME Owned, chans' \ meddled' \subseteq chans \ meddled,
         \A c \in chans' \ meddled', b \in Accounts : IsOwner(b, c)' <=> IsOwner(b, c)
  PROVE  Owned'
BY DEF Owned

\* A step that leaves this alone keeps what there is to keep of it.
Settled == UNCHANGED <<role, chans, members, settings, invites, everStaff, meddled>>

LEMMA SettledKeeps ==
  ASSUME AccessInv, Settled
  PROVE  /\ Strangers' /\ Emptied' /\ DefaultExists' /\ NoOwnerInvited' /\ StaffKnown' /\ Owned'
         /\ \A u \in People, c \in Names : MayStay(u, c)' <=> MayStay(u, c)
BY DEF Settled, AccessInv, StandInv, Strangers, Emptied, DefaultExists, NoOwnerInvited, StaffKnown,
       Owned, IsOwner, MayStay

\* What only concerns who may log in or is banned.
Still == Settled /\ UNCHANGED <<conn, subs>>

LEMMA StillAccess == ASSUME Known, AccessInv, Still PROVE AccessInv'
<1>1. Readers' /\ Online'
  BY DEF Still, Settled, AccessInv, StandInv, Readers, MayStay, Online
<1>. QED  BY <1>1, SettledKeeps DEF Still, AccessInv, StandInv

\* Nobody new is attached, and nobody attached loses the reason to be.
LEMMA ReadersKept ==
  ASSUME AccessInv, LiveTypes, UNCHANGED <<conn, subs>>, chans \subseteq chans',
         everStaff \subseteq everStaff',
         \A b \in Accounts, c \in Names : members'[c][b] = NotMember => members[c][b] = NotMember,
         AccessConstants
  PROVE  Readers'
BY DEF AccessInv, LiveTypes, Readers, MayStay, AccessConstants

LEMMA CreateAccess ==
  ASSUME Known, AccessInv, AccessConstants, NEW a \in Accounts, NEW c \in Names, Create(a, c)
  PROVE  AccessInv'
<1>1. Online'
  BY DEF Known, IInv, AccessInv, StandInv, LiveInv, LiveTypes, Types, Online, Create, liveVars
<1>2. Strangers'
  <2>1. role[a] # "none"
    BY DEF Create, Commands, ConnsOf, AccessInv, StandInv, Online
  <2>. QED  BY <2>1 DEF Known, IInv, Types, AccessInv, StandInv, Strangers, Create
<1>3. Emptied'
  BY DEF Known, IInv, AccessInv, StandInv, Types, Emptied, NotMember, May, Sees, Create, liveVars
<1>4. DefaultExists'
  BY DEF Known, IInv, AccessInv, StandInv, Types, Settings, DefaultExists, Create, liveVars
<1>5. NoOwnerInvited'
  BY DEF Known, IInv, AccessInv, StandInv, Types, Invite, NoOwnerInvited, AccessConstants,
         Constants, Create, liveVars
<1>6. StaffKnown'
  BY DEF Known, IInv, AccessInv, StandInv, Types, StaffKnown, Create, liveVars
<1>7. Readers'
  BY DEF Known, IInv, AccessInv, StandInv, LiveInv, LiveTypes, Types, Readers, MayStay,
         AccessConstants, LiveConstants, NotMember, Create, liveVars
<1>8. Owned'
  <2>1. ASSUME NEW d \in chans' \ meddled', NEW b \in Accounts, d # c
        PROVE  d \in chans \ meddled /\ (IsOwner(b, d)' <=> IsOwner(b, d))
    BY <2>1 DEF Known, IInv, Types, Create, IsOwner
  <2>2. ASSUME NEW b \in Accounts
        PROVE  IsOwner(b, c)' <=> b = a
    BY DEF Known, IInv, Types, AccessInv, StandInv, Emptied, Create, IsOwner, NotMember
  <2>. QED  BY <2>1, <2>2 DEF AccessInv, Owned
<1>. QED  BY <1>1, <1>2, <1>3, <1>4, <1>5, <1>6, <1>7, <1>8 DEF AccessInv, StandInv

LEMMA DeleteAccess ==
  ASSUME Known, AccessInv, AccessConstants, NEW a \in Accounts, NEW c \in Names, Delete(a, c)
  PROVE  AccessInv'
<1>1. Online'
  BY DEF Known, IInv, AccessInv, StandInv, LiveInv, LiveTypes, Types, Online, Delete, history
<1>2. Strangers'
  BY DEF Known, IInv, AccessInv, StandInv, Types, Strangers, NotMember, Delete, history
<1>3. Emptied'
  BY DEF Known, IInv, AccessInv, StandInv, Types, Emptied, NotMember, May, Sees, Delete, history
<1>4. DefaultExists'
  BY DEF Known, IInv, AccessInv, StandInv, Types, Settings, DefaultExists, Delete, history
<1>5. NoOwnerInvited'
  BY DEF Known, IInv, AccessInv, StandInv, Types, Invite, NoOwnerInvited, AccessConstants,
         Constants, Delete, history
<1>6. StaffKnown'
  BY DEF Known, IInv, AccessInv, StandInv, Types, StaffKnown, Delete, history
<1>7. Readers'
  BY DEF Known, IInv, AccessInv, StandInv, LiveInv, LiveTypes, Types, Readers, MayStay,
         AccessConstants, LiveConstants, NotMember, Delete, history
<1>8. Owned'
  BY DEF Known, IInv, AccessInv, StandInv, Types, Owned, IsOwner, NotMember, Delete, history
<1>. QED  BY <1>1, <1>2, <1>3, <1>4, <1>5, <1>6, <1>7, <1>8 DEF AccessInv, StandInv

LEMMA IssueInviteAccess ==
  ASSUME Known, AccessInv, AccessConstants, NEW a \in Accounts, NEW c \in Names, NEW i \in Codes,
         NEW r \in Grants, NEW uses \in Uses, NEW signup \in BOOLEAN,
         IssueInvite(a, c, i, r, uses, signup)
  PROVE  AccessInv'
<1>1. Online'
  BY DEF Known, IInv, AccessInv, StandInv, LiveInv, LiveTypes, Types, Online, IssueInvite,
         liveVars
<1>2. Strangers'
  BY DEF Known, IInv, AccessInv, StandInv, Types, Strangers, NotMember, IssueInvite, liveVars
<1>3. Emptied'
  BY DEF Known, IInv, AccessInv, StandInv, Types, Emptied, NotMember, May, Sees, IssueInvite,
         liveVars
<1>4. DefaultExists'
  BY DEF Known, IInv, AccessInv, StandInv, Types, Settings, DefaultExists, IssueInvite, liveVars
<1>5. NoOwnerInvited'
  BY DEF Known, IInv, AccessInv, StandInv, Types, Invite, NoOwnerInvited, AccessConstants,
         Constants, IssueInvite, liveVars
<1>6. StaffKnown'
  BY DEF Known, IInv, AccessInv, StandInv, Types, StaffKnown, IssueInvite, liveVars
<1>7. Readers'
  BY DEF Known, IInv, AccessInv, StandInv, LiveInv, LiveTypes, Types, Readers, MayStay,
         AccessConstants, LiveConstants, NotMember, IssueInvite, liveVars
<1>8. Owned'
  BY DEF Known, IInv, AccessInv, StandInv, Types, Owned, IsOwner, NotMember, IssueInvite, liveVars
<1>. QED  BY <1>1, <1>2, <1>3, <1>4, <1>5, <1>6, <1>7, <1>8 DEF AccessInv, StandInv

LEMMA RevokeAccess ==
  ASSUME Known, AccessInv, AccessConstants, NEW a \in Accounts, NEW i \in Codes, Revoke(a, i)
  PROVE  AccessInv'
<1>1. Online'
  BY DEF Known, IInv, AccessInv, StandInv, LiveInv, LiveTypes, Types, Online, Revoke, history,
         liveVars
<1>2. Strangers'
  BY DEF Known, IInv, AccessInv, StandInv, Types, Strangers, NotMember, Revoke, history, liveVars
<1>3. Emptied'
  BY DEF Known, IInv, AccessInv, StandInv, Types, Emptied, NotMember, May, Sees, Revoke, history,
         liveVars
<1>4. DefaultExists'
  BY DEF Known, IInv, AccessInv, StandInv, Types, Settings, DefaultExists, Revoke, history,
         liveVars
<1>5. NoOwnerInvited'
  BY DEF Known, IInv, AccessInv, StandInv, Types, Invite, NoOwnerInvited, AccessConstants,
         Constants, Revoke, history, liveVars
<1>6. StaffKnown'
  BY DEF Known, IInv, AccessInv, StandInv, Types, StaffKnown, Revoke, history, liveVars
<1>7. Readers'
  BY DEF Known, IInv, AccessInv, StandInv, LiveInv, LiveTypes, Types, Readers, MayStay,
         AccessConstants, LiveConstants, NotMember, Revoke, history, liveVars
<1>8. Owned'
  BY DEF Known, IInv, AccessInv, StandInv, Types, Owned, IsOwner, NotMember, Revoke, history,
         liveVars
<1>. QED  BY <1>1, <1>2, <1>3, <1>4, <1>5, <1>6, <1>7, <1>8 DEF AccessInv, StandInv

LEMMA InviteLapsesAccess ==
  ASSUME Known, AccessInv, AccessConstants, NEW i \in Codes, InviteLapses(i)
  PROVE  AccessInv'
<1>1. Online'
  BY DEF Known, IInv, AccessInv, StandInv, LiveInv, LiveTypes, Types, Online, InviteLapses,
         history, liveVars
<1>2. Strangers'
  BY DEF Known, IInv, AccessInv, StandInv, Types, Strangers, NotMember, InviteLapses, history,
         liveVars
<1>3. Emptied'
  BY DEF Known, IInv, AccessInv, StandInv, Types, Emptied, NotMember, May, Sees, InviteLapses,
         history, liveVars
<1>4. DefaultExists'
  BY DEF Known, IInv, AccessInv, StandInv, Types, Settings, DefaultExists, InviteLapses, history,
         liveVars
<1>5. NoOwnerInvited'
  BY DEF Known, IInv, AccessInv, StandInv, Types, Invite, NoOwnerInvited, AccessConstants,
         Constants, InviteLapses, history, liveVars
<1>6. StaffKnown'
  BY DEF Known, IInv, AccessInv, StandInv, Types, StaffKnown, InviteLapses, history, liveVars
<1>7. Readers'
  BY DEF Known, IInv, AccessInv, StandInv, LiveInv, LiveTypes, Types, Readers, MayStay,
         AccessConstants, LiveConstants, NotMember, InviteLapses, history, liveVars
<1>8. Owned'
  BY DEF Known, IInv, AccessInv, StandInv, Types, Owned, IsOwner, NotMember, InviteLapses,
         history, liveVars
<1>. QED  BY <1>1, <1>2, <1>3, <1>4, <1>5, <1>6, <1>7, <1>8 DEF AccessInv, StandInv

LEMMA JoinAccess ==
  ASSUME Known, AccessInv, AccessConstants, NEW a \in Accounts, NEW i \in Codes, Join(a, i)
  PROVE  AccessInv'
<1>1. Online'
  BY DEF Known, IInv, AccessInv, StandInv, LiveInv, LiveTypes, Types, Online, Join, Usable,
         Admit, Consumed, liveVars
<1>2. Strangers'
  <2>1. role[a] # "none"
    BY DEF Join, Commands, ConnsOf, AccessInv, StandInv, Online
  <2>. QED  BY <2>1 DEF Known, IInv, Types, AccessInv, StandInv, Strangers, Join, Usable, Admit
<1>3. Emptied'
  BY DEF Known, IInv, AccessInv, StandInv, Types, Emptied, NotMember, May, Sees, Join, Usable,
         Admit, Consumed, liveVars
<1>4. DefaultExists'
  BY DEF Known, IInv, AccessInv, StandInv, Types, Settings, DefaultExists, Join, Usable, Admit,
         Consumed, liveVars
<1>5. NoOwnerInvited'
  BY DEF Known, IInv, AccessInv, StandInv, Types, Invite, NoOwnerInvited, AccessConstants,
         Constants, Join, Usable, Admit, Consumed, liveVars
<1>6. StaffKnown'
  BY DEF Known, IInv, AccessInv, StandInv, Types, StaffKnown, Join, Usable, Admit, Consumed,
         liveVars
<1>7. Readers'
  BY DEF Known, IInv, AccessInv, StandInv, LiveInv, LiveTypes, Types, Readers, MayStay,
         AccessConstants, LiveConstants, NotMember, Join, Usable, Admit, Consumed, liveVars
<1>8. Owned'
  <2>1. ASSUME NEW d \in Names, NEW b \in Accounts
        PROVE  IsOwner(b, d)' <=> IsOwner(b, d)
    BY DEF Known, IInv, Types, AccessInv, StandInv, NoOwnerInvited, IsOwner, NotMember, Join, Usable, Admit
  <2>. QED  BY <2>1, OwnedKept DEF Known, IInv, Types, AccessInv, Join
<1>. QED  BY <1>1, <1>2, <1>3, <1>4, <1>5, <1>6, <1>7, <1>8 DEF AccessInv, StandInv

LEMMA SignUpAccess ==
  ASSUME Known, AccessInv, AccessConstants, NEW a \in Accounts, NEW i \in Codes, SignUp(a, i)
  PROVE  AccessInv'
<1>1. Online'
  BY DEF Known, IInv, AccessInv, StandInv, LiveInv, LiveTypes, Types, Online, SignUp, Usable,
         Admit, Consumed, liveVars
<1>2. Strangers'
  BY DEF Known, IInv, AccessInv, StandInv, Types, Strangers, NotMember, SignUp, Usable, Admit,
         Consumed, liveVars
<1>3. Emptied'
  BY DEF Known, IInv, AccessInv, StandInv, Types, Emptied, NotMember, May, Sees, SignUp, Usable,
         Admit, Consumed, liveVars
<1>4. DefaultExists'
  BY DEF Known, IInv, AccessInv, StandInv, Types, Settings, DefaultExists, SignUp, Usable, Admit,
         Consumed, liveVars
<1>5. NoOwnerInvited'
  BY DEF Known, IInv, AccessInv, StandInv, Types, Invite, NoOwnerInvited, AccessConstants,
         Constants, SignUp, Usable, Admit, Consumed, liveVars
<1>6. StaffKnown'
  BY DEF Known, IInv, AccessInv, StandInv, Types, StaffKnown, SignUp, Usable, Admit, Consumed,
         liveVars
<1>7. Readers'
  <2>1. ASSUME NEW d \in Names, NEW b \in Accounts, members'[d][b] = NotMember
        PROVE  members[d][b] = NotMember
    BY <2>1 DEF Known, IInv, Types, AccessConstants, ChanRoles, NotMember, Invite, Usable, Admit, SignUp
  <2>. QED  BY <2>1, ReadersKept DEF Known, LiveInv, SignUp, liveVars
<1>8. Owned'
  <2>1. ASSUME NEW d \in Names, NEW b \in Accounts
        PROVE  IsOwner(b, d)' <=> IsOwner(b, d)
    BY DEF Known, IInv, Types, AccessInv, StandInv, Strangers, NoOwnerInvited, IsOwner,
           NotMember, SignUp, Usable, Admit
  <2>. QED  BY <2>1, OwnedKept DEF Known, IInv, Types, AccessInv, SignUp
<1>. QED  BY <1>1, <1>2, <1>3, <1>4, <1>5, <1>6, <1>7, <1>8 DEF AccessInv, StandInv

LEMMA RegisterAccess ==
  ASSUME Known, AccessInv, AccessConstants, NEW a \in Accounts, Register(a)
  PROVE  AccessInv'
<1>1. Online'
  BY DEF Known, IInv, AccessInv, StandInv, LiveInv, LiveTypes, Types, Online, Register, liveVars
<1>2. Strangers'
  BY DEF Known, IInv, AccessInv, StandInv, Types, Strangers, NotMember, Register, liveVars
<1>3. Emptied'
  BY DEF Known, IInv, AccessInv, StandInv, Types, Emptied, NotMember, May, Sees, Register,
         DefaultExists, liveVars
<1>4. DefaultExists'
  BY DEF Known, IInv, AccessInv, StandInv, Types, Settings, DefaultExists, Register, liveVars
<1>5. NoOwnerInvited'
  BY DEF Known, IInv, AccessInv, StandInv, Types, Invite, NoOwnerInvited, AccessConstants,
         Constants, Register, liveVars
<1>6. StaffKnown'
  BY DEF Known, IInv, AccessInv, StandInv, Types, StaffKnown, Register, liveVars
<1>7. Readers'
  BY DEF Known, IInv, AccessInv, StandInv, LiveInv, LiveTypes, Types, Readers, MayStay,
         AccessConstants, LiveConstants, NotMember, Register, liveVars
<1>8. Owned'
  <2>1. ASSUME NEW d \in Names, NEW b \in Accounts
        PROVE  IsOwner(b, d)' <=> IsOwner(b, d)
    BY DEF Known, IInv, Types, AccessInv, StandInv, Strangers, IsOwner, NotMember, Register
  <2>. QED  BY <2>1, OwnedKept DEF Known, IInv, Types, AccessInv, Register
<1>. QED  BY <1>1, <1>2, <1>3, <1>4, <1>5, <1>6, <1>7, <1>8 DEF AccessInv, StandInv

LEMMA AddAccess ==
  ASSUME Known, AccessInv, AccessConstants, NEW a \in Accounts, NEW c \in Names,
         NEW t \in Accounts, Add(a, c, t)
  PROVE  AccessInv'
<1>1. Online'
  BY DEF Known, IInv, AccessInv, StandInv, LiveInv, LiveTypes, Types, Online, Add, history,
         liveVars
<1>2. Strangers'
  BY DEF Known, IInv, AccessInv, StandInv, Types, Strangers, NotMember, Add, history, liveVars
<1>3. Emptied'
  BY DEF Known, IInv, AccessInv, StandInv, Types, Emptied, NotMember, May, Sees, Add, history,
         liveVars
<1>4. DefaultExists'
  BY DEF Known, IInv, AccessInv, StandInv, Types, Settings, DefaultExists, Add, history, liveVars
<1>5. NoOwnerInvited'
  BY DEF Known, IInv, AccessInv, StandInv, Types, Invite, NoOwnerInvited, AccessConstants,
         Constants, Add, history, liveVars
<1>6. StaffKnown'
  BY DEF Known, IInv, AccessInv, StandInv, Types, StaffKnown, Add, history, liveVars
<1>7. Readers'
  BY DEF Known, IInv, AccessInv, StandInv, LiveInv, LiveTypes, Types, Readers, MayStay,
         AccessConstants, LiveConstants, NotMember, Add, history, liveVars
<1>8. Owned'
  BY DEF Known, IInv, AccessInv, StandInv, Types, Owned, IsOwner, NotMember, Add, history,
         liveVars
<1>. QED  BY <1>1, <1>2, <1>3, <1>4, <1>5, <1>6, <1>7, <1>8 DEF AccessInv, StandInv

LEMMA LeaveAccess ==
  ASSUME Known, AccessInv, AccessConstants, NEW a \in Accounts, NEW c \in Names, Leave(a, c)
  PROVE  AccessInv'
<1>1. Online'
  BY DEF Known, IInv, AccessInv, StandInv, LiveInv, LiveTypes, Types, Online, Leave, UnsubUser,
         history
<1>2. Strangers'
  BY DEF Known, IInv, AccessInv, StandInv, Types, Strangers, NotMember, Leave, UnsubUser, history
<1>3. Emptied'
  BY DEF Known, IInv, AccessInv, StandInv, Types, Emptied, NotMember, May, Sees, Leave,
         UnsubUser, history
<1>4. DefaultExists'
  BY DEF Known, IInv, AccessInv, StandInv, Types, Settings, DefaultExists, Leave, UnsubUser,
         history
<1>5. NoOwnerInvited'
  BY DEF Known, IInv, AccessInv, StandInv, Types, Invite, NoOwnerInvited, AccessConstants,
         Constants, Leave, UnsubUser, history
<1>6. StaffKnown'
  BY DEF Known, IInv, AccessInv, StandInv, Types, StaffKnown, Leave, UnsubUser, history
<1>7. Readers'
  BY DEF Known, IInv, AccessInv, StandInv, LiveInv, LiveTypes, Types, Readers, MayStay,
         AccessConstants, LiveConstants, NotMember, Leave, UnsubUser, history
<1>8. Owned'
  BY DEF Known, IInv, AccessInv, StandInv, Types, Owned, IsOwner, NotMember, Leave, UnsubUser,
         history
<1>. QED  BY <1>1, <1>2, <1>3, <1>4, <1>5, <1>6, <1>7, <1>8 DEF AccessInv, StandInv

LEMMA RemoveAccess ==
  ASSUME Known, AccessInv, AccessConstants, NEW a \in Accounts, NEW c \in Names,
         NEW t \in Accounts, NEW ban \in BOOLEAN, Remove(a, c, t, ban)
  PROVE  AccessInv'
<1>1. Online'
  BY DEF Known, IInv, AccessInv, StandInv, LiveInv, LiveTypes, Types, Online, Remove, UnsubUser
<1>2. Strangers'
  BY DEF Known, IInv, AccessInv, StandInv, Types, Strangers, NotMember, Remove, UnsubUser
<1>3. Emptied'
  BY DEF Known, IInv, AccessInv, StandInv, Types, Emptied, NotMember, May, Sees, Remove, UnsubUser
<1>4. DefaultExists'
  BY DEF Known, IInv, AccessInv, StandInv, Types, Settings, DefaultExists, Remove, UnsubUser
<1>5. NoOwnerInvited'
  BY DEF Known, IInv, AccessInv, StandInv, Types, Invite, NoOwnerInvited, AccessConstants,
         Constants, Remove, UnsubUser
<1>6. StaffKnown'
  BY DEF Known, IInv, AccessInv, StandInv, Types, StaffKnown, Remove, UnsubUser
<1>7. Readers'
  BY DEF Known, IInv, AccessInv, StandInv, LiveInv, LiveTypes, Types, Readers, MayStay,
         AccessConstants, LiveConstants, NotMember, Remove, UnsubUser
<1>8. Owned'
  <2>1. ASSUME NEW d \in chans' \ meddled', NEW b \in Accounts
        PROVE  d \in chans \ meddled /\ (IsOwner(b, d)' <=> IsOwner(b, d))
    <3>1. d \in chans \ meddled /\ d \in Names
      BY DEF Known, IInv, Types, Remove, Meddles
    <3>2. CASE d # c \/ b # t
      BY <3>1, <3>2 DEF Known, IInv, Types, Remove, IsOwner
    <3>3. CASE d = c /\ b = t
      <4>1. Target(a, c, t)
        BY DEF Remove
      <4>2. ~IsOwner(t, c)
        <5>1. SUFFICES ASSUME IsOwner(t, c)
                       PROVE  FALSE
          OBVIOUS
        <5>2. Rank(a, c) >= RankSrvAdmin
          BY <4>1, <5>1, OwnersAreSafe DEF Known, IInv
        <5>3. IsOwner(a, c)
          BY <3>1, <3>3, <5>2 DEF Remove, Meddles, IsOwner
        <5>4. a = t
          BY <3>1, <3>3, <5>1, <5>3 DEF AccessInv, Owned
        <5>5. Rank(a, c) > Rank(a, c) /\ Rank(a, c) \in 0 .. 7
          BY <4>1, <5>4, RankIsNat DEF Target, CanTarget, Known, IInv
        <5>. QED  BY <5>5
      <4>3. ~IsOwner(t, c)'
        BY <4>1 DEF Known, IInv, Types, Remove, CanGrant, IsOwner, NotMember
      <4>. QED  BY <3>1, <3>3, <4>2, <4>3
    <3>. QED  BY <3>1, <3>2, <3>3
  <2>. QED  BY <2>1, OwnedKept DEF AccessInv
<1>. QED  BY <1>1, <1>2, <1>3, <1>4, <1>5, <1>6, <1>7, <1>8 DEF AccessInv, StandInv

LEMMA UnbanAccess ==
  ASSUME Known, AccessInv, AccessConstants, NEW a \in Accounts, NEW c \in Names,
         NEW t \in Accounts, Unban(a, c, t)
  PROVE  AccessInv'
<1>1. Online'
  BY DEF Known, IInv, AccessInv, StandInv, LiveInv, LiveTypes, Types, Online, Unban, history,
         liveVars
<1>2. Strangers'
  BY DEF Known, IInv, AccessInv, StandInv, Types, Strangers, NotMember, Unban, history, liveVars
<1>3. Emptied'
  BY DEF Known, IInv, AccessInv, StandInv, Types, Emptied, NotMember, May, Sees, Unban, history,
         liveVars
<1>4. DefaultExists'
  BY DEF Known, IInv, AccessInv, StandInv, Types, Settings, DefaultExists, Unban, history,
         liveVars
<1>5. NoOwnerInvited'
  BY DEF Known, IInv, AccessInv, StandInv, Types, Invite, NoOwnerInvited, AccessConstants,
         Constants, Unban, history, liveVars
<1>6. StaffKnown'
  BY DEF Known, IInv, AccessInv, StandInv, Types, StaffKnown, Unban, history, liveVars
<1>7. Readers'
  BY DEF Known, IInv, AccessInv, StandInv, LiveInv, LiveTypes, Types, Readers, MayStay,
         AccessConstants, LiveConstants, NotMember, Unban, history, liveVars
<1>8. Owned'
  BY DEF Known, IInv, AccessInv, StandInv, Types, Owned, IsOwner, NotMember, Unban, history,
         liveVars
<1>. QED  BY <1>1, <1>2, <1>3, <1>4, <1>5, <1>6, <1>7, <1>8 DEF AccessInv, StandInv

LEMMA SetRoleAccess ==
  ASSUME Known, AccessInv, AccessConstants, NEW a \in Accounts, NEW c \in Names,
         NEW t \in Accounts, NEW r \in Grants, SetRole(a, c, t, r)
  PROVE  AccessInv'
<1>1. Online'
  BY DEF Known, IInv, AccessInv, StandInv, LiveInv, LiveTypes, Types, Online, SetRole, Target,
         liveVars
<1>2. Strangers'
  BY DEF Known, IInv, AccessInv, StandInv, Types, Strangers, NotMember, SetRole, Target, liveVars
<1>3. Emptied'
  BY DEF Known, IInv, AccessInv, StandInv, Types, Emptied, NotMember, May, Sees, SetRole, Target,
         liveVars
<1>4. DefaultExists'
  BY DEF Known, IInv, AccessInv, StandInv, Types, Settings, DefaultExists, SetRole, Target,
         liveVars
<1>5. NoOwnerInvited'
  BY DEF Known, IInv, AccessInv, StandInv, Types, Invite, NoOwnerInvited, AccessConstants,
         Constants, SetRole, Target, liveVars
<1>6. StaffKnown'
  BY DEF Known, IInv, AccessInv, StandInv, Types, StaffKnown, SetRole, Target, liveVars
<1>7. Readers'
  <2>1. ASSUME NEW d \in Names, NEW b \in Accounts, members'[d][b] = NotMember
        PROVE  members[d][b] = NotMember
    BY <2>1 DEF Known, IInv, Types, AccessConstants, ChanRoles, NotMember, SetRole
  <2>. QED  BY <2>1, ReadersKept DEF Known, LiveInv, SetRole, liveVars
<1>8. Owned'
  <2>1. ASSUME NEW d \in chans' \ meddled', NEW b \in Accounts
        PROVE  d \in chans \ meddled /\ (IsOwner(b, d)' <=> IsOwner(b, d))
    <3>1. d \in chans \ meddled /\ d \in Names
      BY DEF Known, IInv, Types, SetRole, Meddles
    <3>2. CASE d # c \/ b # t
      BY <3>1, <3>2 DEF Known, IInv, Types, SetRole, IsOwner
    <3>3. CASE d = c /\ b = t
      <4>1. Target(a, c, t)
        BY DEF SetRole
      <4>2. ~IsOwner(t, c)
        <5>1. SUFFICES ASSUME IsOwner(t, c)
                       PROVE  FALSE
          OBVIOUS
        <5>2. Rank(a, c) >= RankSrvAdmin
          BY <4>1, <5>1, OwnersAreSafe DEF Known, IInv
        <5>3. IsOwner(a, c)
          BY <3>1, <3>3, <5>2 DEF SetRole, Meddles, IsOwner
        <5>4. a = t
          BY <3>1, <3>3, <5>1, <5>3 DEF AccessInv, Owned
        <5>5. Rank(a, c) > Rank(a, c) /\ Rank(a, c) \in 0 .. 7
          BY <4>1, <5>4, RankIsNat DEF Target, CanTarget, Known, IInv
        <5>. QED  BY <5>5
      <4>3. ~IsOwner(t, c)'
        BY <4>1 DEF Known, IInv, Types, SetRole, CanGrant, IsOwner, NotMember
      <4>. QED  BY <3>1, <3>3, <4>2, <4>3
    <3>. QED  BY <3>1, <3>2, <3>3
  <2>. QED  BY <2>1, OwnedKept DEF AccessInv
<1>. QED  BY <1>1, <1>2, <1>3, <1>4, <1>5, <1>6, <1>7, <1>8 DEF AccessInv, StandInv

LEMMA TransferAccess ==
  ASSUME Known, AccessInv, AccessConstants, NEW a \in Accounts, NEW c \in Names,
         NEW t \in Accounts, Transfer(a, c, t)
  PROVE  AccessInv'
<1>1. Online'
  BY DEF Known, IInv, AccessInv, StandInv, LiveInv, LiveTypes, Types, Online, Transfer, liveVars
<1>2. Strangers'
  BY DEF Known, IInv, AccessInv, StandInv, Types, Strangers, NotMember, Transfer, liveVars
<1>3. Emptied'
  BY DEF Known, IInv, AccessInv, StandInv, Types, Emptied, NotMember, May, Sees, Transfer,
         liveVars
<1>4. DefaultExists'
  BY DEF Known, IInv, AccessInv, StandInv, Types, Settings, DefaultExists, Transfer, liveVars
<1>5. NoOwnerInvited'
  BY DEF Known, IInv, AccessInv, StandInv, Types, Invite, NoOwnerInvited, AccessConstants,
         Constants, Transfer, liveVars
<1>6. StaffKnown'
  BY DEF Known, IInv, AccessInv, StandInv, Types, StaffKnown, Transfer, liveVars
<1>7. Readers'
  BY DEF Known, IInv, AccessInv, StandInv, LiveInv, LiveTypes, Types, Readers, MayStay,
         AccessConstants, LiveConstants, NotMember, Transfer, liveVars
<1>8. Owned'
  <2>1. ASSUME NEW d \in chans' \ meddled'
        PROVE  d \in chans \ meddled /\ d \in Names
    BY DEF Known, IInv, Types, Transfer, Meddles
  <2>2. ASSUME NEW d \in chans' \ meddled', NEW b \in Accounts, d # c
        PROVE  IsOwner(b, d)' <=> IsOwner(b, d)
    BY <2>1, <2>2 DEF Known, IInv, Types, Transfer, IsOwner
  <2>3. ASSUME c \in chans' \ meddled', NEW b \in Accounts
        PROVE  IsOwner(b, c)' <=> b = t
    <3>1. Rank(a, c) >= 5
      BY DEF Transfer, May, Can, Need
    <3>2. IsOwner(a, c)
      <4>1. CASE Rank(a, c) >= RankSrvAdmin
        BY <2>1, <2>3, <4>1 DEF Transfer, Meddles, IsOwner
      <4>2. CASE Rank(a, c) < RankSrvAdmin
        BY <3>1, <4>2, RankIsNat, RankOf, RoleRanks DEF Known, IInv, RankSrvAdmin, IsOwner
      <4>. QED  BY <4>1, <4>2, RankIsNat DEF Known, IInv, RankSrvAdmin
    <3>3. IsOwner(b, c) <=> b = a
      BY <2>1, <2>3, <3>2 DEF AccessInv, Owned
    <3>. QED  BY <3>2, <3>3 DEF Known, IInv, Types, Transfer, IsOwner
  <2>. QED  BY <2>1, <2>2, <2>3 DEF AccessInv, Owned
<1>. QED  BY <1>1, <1>2, <1>3, <1>4, <1>5, <1>6, <1>7, <1>8 DEF AccessInv, StandInv

LEMMA UserAddAccess ==
  ASSUME Known, AccessInv, AccessConstants, NEW a \in Accounts, NEW t \in Accounts, UserAdd(a, t)
  PROVE  AccessInv'
<1>1. Online'
  BY DEF Known, IInv, AccessInv, StandInv, LiveInv, LiveTypes, Types, Online, UserAdd, history,
         liveVars
<1>2. Strangers'
  BY DEF Known, IInv, AccessInv, StandInv, Types, Strangers, NotMember, UserAdd, history, liveVars
<1>3. Emptied'
  BY DEF Known, IInv, AccessInv, StandInv, Types, Emptied, NotMember, May, Sees, UserAdd,
         DefaultExists, history, liveVars
<1>4. DefaultExists'
  BY DEF Known, IInv, AccessInv, StandInv, Types, Settings, DefaultExists, UserAdd, history,
         liveVars
<1>5. NoOwnerInvited'
  BY DEF Known, IInv, AccessInv, StandInv, Types, Invite, NoOwnerInvited, AccessConstants,
         Constants, UserAdd, history, liveVars
<1>6. StaffKnown'
  BY DEF Known, IInv, AccessInv, StandInv, Types, StaffKnown, UserAdd, history, liveVars
<1>7. Readers'
  BY DEF Known, IInv, AccessInv, StandInv, LiveInv, LiveTypes, Types, Readers, MayStay,
         AccessConstants, LiveConstants, NotMember, UserAdd, history, liveVars
<1>8. Owned'
  <2>1. ASSUME NEW d \in Names, NEW b \in Accounts
        PROVE  IsOwner(b, d)' <=> IsOwner(b, d)
    BY DEF Known, IInv, Types, AccessInv, StandInv, Strangers, IsOwner, NotMember, UserAdd, history
  <2>. QED  BY <2>1, OwnedKept DEF Known, IInv, Types, AccessInv, UserAdd, history
<1>. QED  BY <1>1, <1>2, <1>3, <1>4, <1>5, <1>6, <1>7, <1>8 DEF AccessInv, StandInv

LEMMA SetServerRoleAccess ==
  ASSUME Known, AccessInv, AccessConstants, NEW a \in Accounts, NEW t \in Accounts,
         NEW r \in {"user", "admin", "owner"}, SetServerRole(a, t, r)
  PROVE  AccessInv'
<1>1. Online'
  BY DEF Known, IInv, AccessInv, StandInv, LiveInv, LiveTypes, Types, Online, SetServerRole,
         liveVars
<1>2. Strangers'
  BY DEF Known, IInv, AccessInv, StandInv, Types, Strangers, NotMember, SetServerRole, liveVars
<1>3. Emptied'
  BY DEF Known, IInv, AccessInv, StandInv, Types, Emptied, NotMember, May, Sees, SetServerRole,
         liveVars
<1>4. DefaultExists'
  BY DEF Known, IInv, AccessInv, StandInv, Types, Settings, DefaultExists, SetServerRole, liveVars
<1>5. NoOwnerInvited'
  BY DEF Known, IInv, AccessInv, StandInv, Types, Invite, NoOwnerInvited, AccessConstants,
         Constants, SetServerRole, liveVars
<1>6. StaffKnown'
  BY DEF Known, IInv, Types, AccessInv, StandInv, StaffKnown, SetServerRole, IsServerOwner
<1>7. Readers'
  BY DEF Known, IInv, AccessInv, StandInv, LiveInv, LiveTypes, Types, Readers, MayStay,
         AccessConstants, LiveConstants, NotMember, SetServerRole, liveVars
<1>8. Owned'
  BY DEF Known, IInv, AccessInv, StandInv, Types, Owned, IsOwner, NotMember, SetServerRole,
         liveVars
<1>. QED  BY <1>1, <1>2, <1>3, <1>4, <1>5, <1>6, <1>7, <1>8 DEF AccessInv, StandInv

LEMMA SetAccess ==
  ASSUME Known, AccessInv, AccessConstants, NEW a \in Accounts, NEW s \in Settings,
         s.def \in chans, Set(a, s)
  PROVE  AccessInv'
<1>1. Online'
  BY DEF Known, IInv, AccessInv, StandInv, LiveInv, LiveTypes, Types, Online, Set, history,
         liveVars
<1>2. Strangers'
  BY DEF Known, IInv, AccessInv, StandInv, Types, Strangers, NotMember, Set, history, liveVars
<1>3. Emptied'
  BY DEF Known, IInv, AccessInv, StandInv, Types, Emptied, NotMember, May, Sees, Set, history,
         liveVars
<1>4. DefaultExists'
  BY DEF Known, IInv, AccessInv, StandInv, Types, Settings, DefaultExists, Set, history, liveVars
<1>5. NoOwnerInvited'
  BY DEF Known, IInv, AccessInv, StandInv, Types, Invite, NoOwnerInvited, AccessConstants,
         Constants, Set, history, liveVars
<1>6. StaffKnown'
  BY DEF Known, IInv, AccessInv, StandInv, Types, StaffKnown, Set, history, liveVars
<1>7. Readers'
  BY DEF Known, IInv, AccessInv, StandInv, LiveInv, LiveTypes, Types, Readers, MayStay,
         AccessConstants, LiveConstants, NotMember, Set, history, liveVars
<1>8. Owned'
  BY DEF Known, IInv, AccessInv, StandInv, Types, Owned, IsOwner, NotMember, Set, history,
         liveVars
<1>. QED  BY <1>1, <1>2, <1>3, <1>4, <1>5, <1>6, <1>7, <1>8 DEF AccessInv, StandInv

LEMMA ConnectAccess ==
  ASSUME Known, AccessInv, AccessConstants, NEW s \in Conns, NEW u \in People, Connect(s, u)
  PROVE  AccessInv'
<1>0. Settled
  BY DEF Connect, Settled, hubVars, history
<1>1. Online'
  BY DEF Known, IInv, AccessInv, StandInv, LiveInv, LiveTypes, Types, Online, Connect, history,
         hubVars, AccessConstants, LiveConstants
<1>7. Readers'
  BY DEF Known, IInv, AccessInv, StandInv, LiveInv, LiveTypes, Types, Readers, MayStay,
         AccessConstants, LiveConstants, NotMember, Connect, history, hubVars
<1>. QED  BY <1>0, <1>1, <1>7, SettledKeeps DEF AccessInv, StandInv

LEMMA SubscribeAccess ==
  ASSUME Known, AccessInv, AccessConstants, NEW s \in Conns, NEW c \in Names, Subscribe(s, c)
  PROVE  AccessInv'
<1>0. Settled
  BY DEF Subscribe, Settled, hubVars, history
<1>1. Online'
  BY DEF Known, IInv, AccessInv, StandInv, LiveInv, LiveTypes, Types, Online, Subscribe, history,
         hubVars, AccessConstants, LiveConstants
<1>7. Readers'
  <2>1. /\ conn[s] \in People /\ c \in chans /\ Rank(conn[s], c) # RankNone
        /\ UNCHANGED conn /\ subs' = [subs EXCEPT ![s] = @ \cup {c}]
    BY DEF Known, LiveInv, LiveTypes, Subscribe, Sees
  <2>2. MayStay(conn[s], c)
    <3>1. CASE conn[s] \in Guests
      BY <3>1 DEF MayStay
    <3>2. CASE conn[s] \in Accounts
      BY <2>1, <3>2, RankOf, RoleRanks
         DEF Known, IInv, Types, AccessInv, StandInv, StaffKnown, MayStay, RankNone
    <3>. QED  BY <2>1, <3>1, <3>2 DEF AccessConstants
  <2>. QED  BY <2>1, <2>2 DEF Known, LiveInv, LiveTypes, AccessInv, Readers, MayStay, Subscribe, hubVars,
                history
<1>. QED  BY <1>0, <1>1, <1>7, SettledKeeps DEF AccessInv, StandInv

LEMMA UnsubscribeAccess ==
  ASSUME Known, AccessInv, AccessConstants, NEW s \in Conns, NEW c \in Names, Unsubscribe(s, c)
  PROVE  AccessInv'
<1>0. Settled
  BY DEF Unsubscribe, Settled, hubVars, history
<1>1. Online'
  BY DEF Known, IInv, AccessInv, StandInv, LiveInv, LiveTypes, Types, Online, Unsubscribe,
         history, hubVars, AccessConstants, LiveConstants
<1>7. Readers'
  BY DEF Known, IInv, AccessInv, StandInv, LiveInv, LiveTypes, Types, Readers, MayStay,
         AccessConstants, LiveConstants, NotMember, Unsubscribe, history, hubVars
<1>. QED  BY <1>0, <1>1, <1>7, SettledKeeps DEF AccessInv, StandInv

LEMMA DisconnectAccess ==
  ASSUME Known, AccessInv, AccessConstants, NEW s \in Conns, Disconnect(s)
  PROVE  AccessInv'
<1>0. Settled
  BY DEF Disconnect, Settled, hubVars, history
<1>1. Online'
  BY DEF Known, IInv, AccessInv, StandInv, LiveInv, LiveTypes, Types, Online, Disconnect,
         history, hubVars, AccessConstants, LiveConstants
<1>7. Readers'
  BY DEF Known, IInv, AccessInv, StandInv, LiveInv, LiveTypes, Types, Readers, MayStay,
         AccessConstants, LiveConstants, NotMember, Disconnect, history, hubVars
<1>. QED  BY <1>0, <1>1, <1>7, SettledKeeps DEF AccessInv, StandInv

LEMMA RestartAccess ==
  ASSUME Known, AccessInv, AccessConstants, NEW reset \in BOOLEAN, Restart(reset)
  PROVE  AccessInv'
<1>0. Settled
  BY DEF Restart, Settled, hubVars, history
<1>1. Online'
  BY DEF Known, IInv, AccessInv, StandInv, LiveInv, LiveTypes, Types, Online, Restart, history,
         AccessConstants, LiveConstants
<1>7. Readers'
  BY DEF Known, IInv, AccessInv, StandInv, LiveInv, LiveTypes, Types, Readers, MayStay,
         AccessConstants, LiveConstants, NotMember, Restart, history
<1>. QED  BY <1>0, <1>1, <1>7, SettledKeeps DEF AccessInv, StandInv

LEMMA NextAccess == ASSUME Known, AccessInv, AccessConstants, [Next]_vars PROVE AccessInv'
<1>1. CASE ChannelCommand
  BY <1>1, CreateAccess, DeleteAccess, LeaveAccess, IssueInviteAccess, AddAccess, TransferAccess,
     RemoveAccess, SetRoleAccess, UnbanAccess DEF ChannelCommand
<1>2. CASE InviteUse
  BY <1>2, InviteLapsesAccess, RevokeAccess, JoinAccess, SignUpAccess DEF InviteUse
<1>3. CASE ServerCommand
  <2>1. ASSUME NEW a \in Accounts, Register(a)
        PROVE  AccessInv'
    BY <2>1, RegisterAccess
  <2>2. ASSUME NEW a \in Accounts, NEW t \in Accounts,
               \/ StatusLapses(a)
               \/ \E st \in {"active", "banned", "disabled"} : SetStatus(a, t, st)
        PROVE  AccessInv'
    <3>1. Still
      BY <2>2 DEF StatusLapses, SetStatus, Still, Settled, history, liveVars
    <3>. QED  BY <3>1, StillAccess
  <2>3. ASSUME NEW a \in Accounts,
               \/ \E r \in {"invite", "admin", "open"} : Set(a, [settings EXCEPT !.registration = r])
               \/ \E b \in BOOLEAN : \/ Set(a, [settings EXCEPT !.guests = b])
                                    \/ Set(a, [settings EXCEPT !.userChans = b])
               \/ \E c \in chans : Set(a, [settings EXCEPT !.def = c])
        PROVE  AccessInv'
    <3>1. settings \in Settings /\ chans \subseteq Names /\ settings.def \in chans
      BY DEF Known, IInv, Types, AccessInv, StandInv, DefaultExists
    <3>2. /\ \A r \in {"invite", "admin", "open"} :
               LET s == [settings EXCEPT !.registration = r] IN s \in Settings /\ s.def = settings.def
          /\ \A b \in BOOLEAN :
               /\ LET s == [settings EXCEPT !.guests = b] IN s \in Settings /\ s.def = settings.def
               /\ LET s == [settings EXCEPT !.userChans = b] IN s \in Settings /\ s.def = settings.def
          /\ \A c \in chans :
               LET s == [settings EXCEPT !.def = c] IN s \in Settings /\ s.def = c
      BY <3>1 DEF Settings
    <3>. QED  BY <2>3, <3>1, <3>2, SetAccess
  <2>4. ASSUME NEW a \in Accounts, NEW t \in Accounts,
               \/ UserAdd(a, t)
               \/ \E r \in {"user", "admin", "owner"} : SetServerRole(a, t, r)
        PROVE  AccessInv'
    BY <2>4, UserAddAccess, SetServerRoleAccess
  <2>. QED  BY <1>3, <2>1, <2>2, <2>3, <2>4 DEF ServerCommand
<1>4. CASE Live
  <2>1. CASE \E c \in Names, t \in Accounts : BanLapses(c, t)
    <3>1. Still
      BY <2>1 DEF BanLapses, Still, Settled, history, liveVars
    <3>. QED  BY <3>1, StillAccess
  <2>. QED  BY <1>4, <2>1, DisconnectAccess, ConnectAccess, SubscribeAccess, UnsubscribeAccess,
               RestartAccess DEF Live
<1>5. CASE UNCHANGED vars
  BY <1>5, StillAccess DEF vars, hubVars, history, liveVars, Still, Settled
<1>. QED  BY <1>1, <1>2, <1>3, <1>4, <1>5 DEF Next

-----------------------------------------------------------------------------
(***************************************************************************)
(* Who lowers whom                                                         *)
(***************************************************************************)
\* What a betters' step is, seen from the one who loses something.
ByBetter(c, m) == \E b \in Accounts : ConnsOf(b) # {} /\ (b = m \/ CanTarget(Rank(b, c), Rank(m, c)))

LEMMA Raised ==
  ASSUME Types, Types', NEW c \in Names, NEW m \in Accounts,
         members[c][m] = NotMember \/ members'[c][m] = members[c][m] \/ members'[c][m] = "owner"
  PROVE  ~(RoleRank[members'[c][m]] < RoleRank[members[c][m]])
<1>1. /\ members[c][m] \in ChanRoles \cup {NotMember}
      /\ members'[c][m] \in ChanRoles \cup {NotMember}
  BY DEF Types
<1>. QED  BY <1>1, RoleRanks

LEMMA LoweredNext ==
  ASSUME Known, Types', AccessInv, [Next]_vars, NEW c \in Names, NEW m \in Accounts, Lowered(c, m)
  PROVE  ByBetter(c, m)
<1>1. /\ c \in chans /\ c \in chans'
      /\ members[c][m] # NotMember /\ members'[c][m] # members[c][m] /\ members'[c][m] # "owner"
  BY Raised DEF Lowered, Known, IInv
<1>2. \E a \in Accounts :
        \/ Create(a, c) \/ Delete(a, c) \/ Leave(a, c) \/ Register(a)
        \/ \E i \in Codes : Join(a, i) \/ SignUp(a, i)
        \/ \E t \in Accounts :
             \/ UserAdd(a, t)
             \/ Add(a, c, t) \/ Transfer(a, c, t)
             \/ \E ban \in BOOLEAN : Remove(a, c, t, ban)
             \/ \E r \in Grants : SetRole(a, c, t, r)
  <2>1. CASE ChannelCommand
    <3>1. PICK a \in Accounts, d \in Names :
            \/ Create(a, d) \/ Delete(a, d) \/ Leave(a, d)
            \/ \E i \in Codes, r \in Grants, uses \in Uses, signup \in BOOLEAN :
                 IssueInvite(a, d, i, r, uses, signup)
            \/ \E t \in Accounts :
                 \/ Add(a, d, t) \/ Unban(a, d, t) \/ Transfer(a, d, t)
                 \/ \E ban \in BOOLEAN : Remove(a, d, t, ban)
                 \/ \E r \in Grants : SetRole(a, d, t, r)
      BY <2>1 DEF ChannelCommand
    <3>2. d = c
      BY <1>1, <3>1 DEF Create, Delete, Leave, IssueInvite, Add, Unban, Transfer, Remove, SetRole,
                        Known, IInv, Types
    <3>3. ~(\E i \in Codes, r \in Grants, uses \in Uses, signup \in BOOLEAN :
              IssueInvite(a, d, i, r, uses, signup))
      BY <1>1 DEF IssueInvite
    <3>4. ~(\E t \in Accounts : Unban(a, d, t))
      BY <1>1 DEF Unban
    <3>. QED  BY <3>1, <3>2, <3>3, <3>4
  <2>2. CASE InviteUse
    BY <1>1, <2>2 DEF InviteUse, InviteLapses, Revoke
  <2>3. CASE ServerCommand
    BY <1>1, <2>3 DEF ServerCommand, StatusLapses, Set, SetStatus, SetServerRole
  <2>4. CASE Live \/ UNCHANGED vars
    BY <1>1, <2>4 DEF Live, BanLapses, Connect, Disconnect, Subscribe, Unsubscribe, Restart,
                      vars, hubVars
  <2>. QED  BY <2>1, <2>2, <2>3, <2>4 DEF Next
<1>3. PICK a \in Accounts :
        \/ Create(a, c) \/ Delete(a, c) \/ Leave(a, c) \/ Register(a)
        \/ \E i \in Codes : Join(a, i) \/ SignUp(a, i)
        \/ \E t \in Accounts :
             \/ UserAdd(a, t)
             \/ Add(a, c, t) \/ Transfer(a, c, t)
             \/ \E ban \in BOOLEAN : Remove(a, c, t, ban)
             \/ \E r \in Grants : SetRole(a, c, t, r)
  BY <1>2
<1>4. CASE Create(a, c) \/ Delete(a, c)
  BY <1>1, <1>4 DEF Create, Delete
<1>5. CASE Leave(a, c)
  <2>1. m = a
    BY <1>1, <1>5 DEF Known, IInv, Types, Leave
  <2>. QED  BY <1>5, <2>1 DEF Leave, Commands, ByBetter
<1>6. CASE Register(a)
  BY <1>1, <1>6 DEF Known, IInv, Types, AccessInv, StandInv, Strangers, Register
<1>7. CASE \E i \in Codes : Join(a, i) \/ SignUp(a, i)
  <2>1. PICK i \in Codes : Join(a, i) \/ SignUp(a, i)
    BY <1>7
  <2>2. Admit(a, i) /\ Usable(i)
    BY <2>1 DEF Join, SignUp
  <2>3. m = a /\ c = invites[i].ch
    BY <1>1, <2>2 DEF Known, IInv, Types, Admit
  <2>4. members[c][m] = NotMember
    BY <2>1, <2>3 DEF Join, SignUp, AccessInv, StandInv, Strangers
  <2>. QED  BY <1>1, <2>4
<1>8. CASE \E t \in Accounts : UserAdd(a, t) \/ Add(a, c, t)
  BY <1>1, <1>8 DEF Known, IInv, Types, AccessInv, StandInv, Strangers, UserAdd, Add
<1>9. CASE \E t \in Accounts : Transfer(a, c, t)
  <2>1. m = a
    BY <1>1, <1>9 DEF Known, IInv, Types, Transfer
  <2>. QED  BY <1>9, <2>1 DEF Transfer, Commands, ByBetter
<1>10. ASSUME NEW t \in Accounts,
              \/ \E ban \in BOOLEAN : Remove(a, c, t, ban)
              \/ \E r \in Grants : SetRole(a, c, t, r)
       PROVE  ByBetter(c, m)
  <2>1. m = t
    BY <1>1, <1>10 DEF Known, IInv, Types, Remove, SetRole
  <2>2. ConnsOf(a) # {} /\ CanTarget(Rank(a, c), Rank(t, c))
    BY <1>10 DEF Remove, SetRole, Commands, Target
  <2>. QED  BY <2>1, <2>2 DEF ByBetter
<1>. QED  BY <1>3, <1>4, <1>5, <1>6, <1>7, <1>8, <1>9, <1>10

-----------------------------------------------------------------------------
LEMMA SpecAccess == Spec => [](Known /\ AccessInv)
<1>1. AccessConstants
  BY ChannelsAssumption DEF AccessConstants, Constants, LiveConstants, People, Invite
<1>2. Init => AccessInv
  BY <1>1, InitAccess
<1>3. Known /\ AccessInv /\ [Next]_vars => AccessInv'
  BY <1>1, NextAccess
<1>. QED  BY <1>2, <1>3, SpecIInv, SpecLive, PTL DEF Spec, Known

\* Whoever is attached to a channel has the right to read it, guests and former
\* server staff aside (handleSub, unsubUser, deleteChannel).
THEOREM ChannelsSubscribersMayRead == Spec => []SubscribersMayRead
<1>1. AccessConstants
  BY ChannelsAssumption DEF AccessConstants, Constants, LiveConstants, People, Invite
<1>2. ASSUME Known, AccessInv, NEW s \in Conns, NEW c \in subs[s]
      PROVE  c \in chans /\ (Sees(conn[s], c) \/ conn[s] \in Guests \cup everStaff)
  <2>1. c \in chans /\ MayStay(conn[s], c) /\ conn[s] \in People /\ c \in Names
    BY <1>2, <1>1 DEF Known, IInv, Types, LiveInv, LiveTypes, AccessInv, Readers, AccessConstants
  <2>2. CASE conn[s] \in Accounts /\ conn[s] \notin everStaff /\ members[c][conn[s]] # NotMember
    <3>1. role[conn[s]] \notin {"admin", "owner"}
      BY <1>2, <2>2 DEF AccessInv, StandInv, StaffKnown
    <3>2. Rank(conn[s], c) # RankNone
      BY <1>1, <1>2, <2>1, <2>2, <3>1, RankOf, RoleRanks DEF Known, IInv, RankNone
    <3>. QED  BY <2>1, <3>2 DEF Sees
  <2>. QED  BY <1>1, <2>1, <2>2 DEF MayStay, AccessConstants
<1>3. Known /\ AccessInv => SubscribersMayRead
  BY <1>2 DEF SubscribersMayRead
<1>. QED  BY <1>3, SpecAccess, PTL

\* A channel keeps exactly one owner unless server staff uses its rank in it
\* (leave, kick, ban, role, transfer).
THEOREM ChannelsOneChannelOwner == Spec => []OneChannelOwner
<1>1. ASSUME AccessInv, NEW c \in chans \ meddled
      PROVE  Cardinality({a \in Accounts : members[c][a] = "owner"}) = 1
  <2>1. PICK o \in Accounts : \A b \in Accounts : IsOwner(b, c) <=> b = o
    BY <1>1 DEF AccessInv, Owned
  <2>2. {a \in Accounts : members[c][a] = "owner"} = {o}
    BY <2>1 DEF IsOwner
  <2>. QED  BY <2>2, FS_Singleton
<1>2. AccessInv => OneChannelOwner
  BY <1>1 DEF OneChannelOwner
<1>. QED  BY <1>2, SpecAccess, PTL

\* Nobody loses a role in a channel that goes on but by its own command, or
\* while someone is online who outranks it (leave, kick, ban, role, transfer).
THEOREM ChannelsLoweredByBetters == Spec => LoweredByBetters
<1>1. Known => Types
  BY DEF Known, IInv
<1>2. Known /\ Known' /\ AccessInv /\ [Next]_vars =>
        [\A c \in Names, a \in Accounts : Lowered(c, a) =>
           \E b \in Accounts : ConnsOf(b) # {} /\ (b = a \/ CanTarget(Rank(b, c), Rank(a, c)))]_vars
  BY LoweredNext DEF ByBetter, Known, IInv
<1>. QED  BY <1>2, SpecAccess, PTL DEF Spec, LoweredByBetters

\* The types that nothing above needs.
RestTypes ==
  /\ status \in [Accounts -> {"active", "banned", "disabled"}]
  /\ everStaff \subseteq Accounts /\ meddled \subseteq Names /\ cmds \in Nat

LEMMA NextRest == ASSUME RestTypes, [Next]_vars PROVE RestTypes'
<1>1. CASE ChannelCommand
  BY <1>1 DEF RestTypes, ChannelCommand, Create, Delete, Leave, IssueInvite, Add, Unban, Transfer,
              Remove, SetRole, Commands, Meddles, history
<1>2. CASE InviteUse
  BY <1>2 DEF RestTypes, InviteUse, InviteLapses, Revoke, Join, SignUp, Commands, history
<1>3. CASE ServerCommand
  <2>1. CASE \E a \in Accounts : Register(a) \/ StatusLapses(a)
    BY <2>1 DEF RestTypes, Register, StatusLapses, history
  <2>2. ASSUME NEW a \in Accounts, NEW s, Set(a, s)
        PROVE  RestTypes'
    BY <2>2 DEF RestTypes, Set, Commands, history
  <2>3. CASE \E a \in Accounts, t \in Accounts :
               \/ UserAdd(a, t)
               \/ \E st \in {"active", "banned", "disabled"} : SetStatus(a, t, st)
               \/ \E r \in {"user", "admin", "owner"} : SetServerRole(a, t, r)
    BY <2>3 DEF RestTypes, UserAdd, SetStatus, SetServerRole, Commands, history
  <2>. QED  BY <1>3, <2>1, <2>2, <2>3 DEF ServerCommand
<1>4. CASE Live \/ UNCHANGED vars
  BY <1>4 DEF RestTypes, Live, BanLapses, Connect, Disconnect, Subscribe, Unsubscribe, Restart,
              vars, hubVars, history
<1>. QED  BY <1>1, <1>2, <1>3, <1>4 DEF Next

\* The types of everything the hub and its history hold.
THEOREM ChannelsTypeOK == Spec => []TypeOK
<1>1. Init => RestTypes
  BY ChannelsAssumption DEF Init, RestTypes
<1>2. RestTypes /\ [Next]_vars => RestTypes'
  BY NextRest
<1>3. Known /\ RestTypes => TypeOK
  BY DEF Known, IInv, LiveInv, Types, LiveTypes, RestTypes, TypeOK
<1>. QED  BY <1>1, <1>2, <1>3, SpecAccess, PTL DEF Spec
=============================================================================
