------------------------------ MODULE Channels ------------------------------
(***************************************************************************)
(* Who is in which channel with which role, who may come in, and who is    *)
(* attached: accounts and their server roles, channels, memberships, bans, *)
(* invites, the server settings about them, live sessions, subscriptions   *)
(* and presence.  (cmds.go, and the parts of hub.go and limits.go that     *)
(* write these.)                                                           *)
(*                                                                         *)
(* Every handler runs under h.mu from its permission check to its last     *)
(* assignment, so a handler is one action.  What can come between two      *)
(* handlers is everything: a session outlives the loss of the rank that    *)
(* let it in, an invite outlives its author's.                             *)
(*                                                                         *)
(* Abstracted: names, topics and reasons; the numeric limits on accounts,  *)
(* channels and invites per hour; the clock: invites and bans all have a   *)
(* time limit and may lapse at any moment.  How a session is authenticated *)
(* is in Sessions, mutes are in Flood.                                     *)
(***************************************************************************)
EXTENDS Perms, Integers, FiniteSets

CONSTANTS
  Accounts,    (* the accounts there can be                                *)
  Root,        (* the owner account made by loadOrInit                     *)
  Early,       (* accounts that useradd has made before we look            *)
  Guests,      (* nicks of guests                                          *)
  Nobody,      (* the user of an unused connection                         *)
  Names,       (* channel names                                            *)
  General,     (* the first default channel                                *)
  Codes,       (* invite codes                                             *)
  NoInvite,    (* a code that was not issued, or no longer works           *)
  Conns,       (* connections                                              *)
  Grants,      (* the channel roles that invite and role are asked for     *)
  Uses,        (* the use counts that invite is asked for; -1 is unlimited *)
  MaxCmds      (* bound: commands handled                                  *)

People == Accounts \cup Guests
Unlimited == -1

ASSUME ChannelsAssumption ==
  /\ IsFiniteSet(Accounts) /\ Root \in Accounts
  /\ Early \subseteq Accounts \ {Root}
  /\ Guests \cap Accounts = {} /\ Nobody \notin People
  /\ General \in Names
  /\ IsFiniteSet(Conns)
  /\ NoInvite \notin [ch : Names, role : ChanRoles, left : Int, signup : BOOLEAN, by : Accounts]
  /\ Grants \subseteq ChanRoles \ {"owner"}
  /\ Uses \subseteq Nat \cup {Unlimited}
  /\ MaxCmds \in Nat

VARIABLES
  role,        \* User.Role; "none" until the account is made
  status,      \* User.Status
  chans,       \* the channels that exist
  members,     \* Channel.Members: the role of each account, or NotMember
  bans,        \* Channel.Bans: the accounts banned
  invites,     \* State.Invites
  settings,    \* Settings: registration, guests, userChans, def
  conn,        \* hub.sessions: the user of each connection
  subs,        \* session.subs
  presence,    \* hub.presence
  (*************************************************************************)
  (* History, read by no action                                            *)
  (*************************************************************************)
  roster,      \* who the join, part, kicked and banned events leave present
  issued,      \* uses each code was issued with
  admitted,    \* memberships each code has given
  everStaff,   \* accounts that were server staff once
  meddled,     \* channels in which server staff used its rank on members
  cmds         \* commands handled

hubVars == <<role, status, chans, members, bans, invites, settings>>
liveVars == <<conn, subs, presence, roster>>
history == <<issued, admitted, everStaff, meddled>>
vars == <<hubVars, liveVars, history, cmds>>

Invite == [ch : Names, role : ChanRoles, left : Int, signup : BOOLEAN, by : Accounts]
Settings == [registration : {"invite", "admin", "open"}, guests : BOOLEAN,
             userChans : BOOLEAN, def : Names]

TypeOK ==
  /\ role \in [Accounts -> {"none", "user", "admin", "owner"}]
  /\ status \in [Accounts -> {"active", "banned", "disabled"}]
  /\ chans \subseteq Names
  /\ members \in [Names -> [Accounts -> ChanRoles \cup {NotMember}]]
  /\ bans \in [Names -> SUBSET Accounts]
  /\ invites \in [Codes -> Invite \cup {NoInvite}]
  /\ settings \in Settings
  /\ conn \in [Conns -> People \cup {Nobody}]
  /\ subs \in [Conns -> SUBSET Names]
  /\ presence \in [Names -> [People -> Nat]]
  /\ roster \in [Names -> SUBSET People]
  /\ issued \in [Codes -> Nat \cup {Unlimited}]
  /\ admitted \in [Codes -> Nat]
  /\ everStaff \subseteq Accounts /\ meddled \subseteq Names
  /\ cmds \in Nat

-----------------------------------------------------------------------------
SrvRoleOf(u) == IF u \in Guests THEN "guest" ELSE role[u]
Rank(u, c) ==
  RankIn(SrvRoleOf(u), IF u \in Guests THEN NotMember ELSE members[c][u],
         c = settings.def)

\* chanFor: a channel one cannot see does not exist.
Sees(u, c) == c \in chans /\ Rank(u, c) # RankNone
May(u, c, act) == Sees(u, c) /\ Can(Rank(u, c), act)

\* mutated: rank is not compared.
Target_AnyMember(a, c, t) ==
  role[t] # "none" /\ (members[c][t] # NotMember \/ CanServerAct(role[t]))

\* target: a member, or server staff, that the actor outranks.
Target(a, c, t) ==
  /\ role[t] # "none"
  /\ members[c][t] # NotMember \/ CanServerAct(role[t])
  /\ CanTarget(Rank(a, c), Rank(t, c))

ConnsOf(u) == {s \in Conns : conn[s] = u}
Attached(u, c) == {s \in ConnsOf(u) : c \in subs[s]}

\* handleCmd: a is a session's user; guests may only list channels.
Commands(a) ==
  /\ ConnsOf(a) # {}
  /\ cmds < MaxCmds /\ cmds' = cmds + 1

\* Server staff acting on members of a channel it does not own itself.
Meddles(a, c) ==
  meddled' = IF Rank(a, c) >= RankSrvAdmin /\ members[c][a] # "owner"
             THEN meddled \cup {c} ELSE meddled

\* mutated: all sessions of u are counted off, attached or not.
UnsubUser_All(u, c) ==
  /\ subs' = [s \in Conns |-> IF conn[s] = u THEN subs[s] \ {c} ELSE subs[s]]
  /\ presence' = [presence EXCEPT ![c][u] = @ - Cardinality(ConnsOf(u))]
  /\ roster' = [roster EXCEPT ![c] = @ \ {u}]
  /\ UNCHANGED conn

\* unsubUser: every session of u leaves c; the events that follow, a part, a
\* kicked or a banned, all say that u is gone.
UnsubUser(u, c) ==
  /\ subs' = [s \in Conns |-> IF conn[s] = u THEN subs[s] \ {c} ELSE subs[s]]
  /\ presence' = [presence EXCEPT ![c][u] = @ - Cardinality(Attached(u, c))]
  /\ roster' = [roster EXCEPT ![c] = IF Attached(u, c) = {} THEN @ ELSE @ \ {u}]
  /\ UNCHANGED conn

-----------------------------------------------------------------------------
(***************************************************************************)
(* A new hub, to which the owner has added the accounts Early              *)
(***************************************************************************)
Init ==
  /\ role = [a \in Accounts |-> CASE a = Root -> "owner"
                                   [] a \in Early -> "user"
                                   [] OTHER -> "none"]
  /\ status = [a \in Accounts |-> "active"]
  /\ chans = {General}
  /\ members = [c \in Names |-> [a \in Accounts |->
                 CASE c = General /\ a = Root -> "owner"
                   [] c = General /\ a \in Early -> "member"
                   [] OTHER -> NotMember]]
  /\ bans = [c \in Names |-> {}]
  /\ invites = [i \in Codes |-> NoInvite]
  /\ settings = [registration |-> "invite", guests |-> FALSE,
                 userChans |-> TRUE, def |-> General]
  /\ conn = [s \in Conns |-> Nobody]
  /\ subs = [s \in Conns |-> {}]
  /\ presence = [c \in Names |-> [u \in People |-> 0]]
  /\ roster = [c \in Names |-> {}]
  /\ issued = [i \in Codes |-> 0] /\ admitted = [i \in Codes |-> 0]
  /\ everStaff = {Root} /\ meddled = {}
  /\ cmds = 0

-----------------------------------------------------------------------------
(***************************************************************************)
(* Channels                                                                *)
(***************************************************************************)
Create(a, c) ==
  /\ Commands(a)
  /\ CanCreateChannel(role[a], settings.userChans)
  /\ c \notin chans
  /\ chans' = chans \cup {c}
  /\ members' = [members EXCEPT ![c][a] = "owner"]
  /\ meddled' = meddled \ {c}
  /\ UNCHANGED <<role, status, bans, invites, settings, liveVars, issued, admitted,
                 everStaff>>

Delete(a, c) ==
  /\ Commands(a)
  /\ May(a, c, "delete") /\ c # settings.def
  /\ chans' = chans \ {c}
  /\ members' = [members EXCEPT ![c] = [b \in Accounts |-> NotMember]]
  /\ bans' = [bans EXCEPT ![c] = {}]
  /\ invites' = [i \in Codes |-> IF invites[i] # NoInvite /\ invites[i].ch = c
                                 THEN NoInvite ELSE invites[i]]
  /\ subs' = [s \in Conns |-> subs[s] \ {c}]
  /\ presence' = [presence EXCEPT ![c] = [u \in People |-> 0]]
  /\ roster' = [roster EXCEPT ![c] = {}]
  /\ UNCHANGED <<role, status, settings, conn, history>>

(***************************************************************************)
(* Coming in: invite codes, /join, /add, leaving                           *)
(***************************************************************************)
IssueInvite(a, c, i, r, uses, signup) ==
  /\ Commands(a)
  /\ May(a, c, "invite") /\ CanGrant(Rank(a, c), r)
  /\ issued[i] = 0 /\ invites[i] = NoInvite /\ admitted[i] = 0
  /\ signup => settings.registration # "admin"
  /\ invites' = [invites EXCEPT ![i] = [ch |-> c, role |-> r, left |-> uses,
                   signup |-> signup, by |-> a]]
  /\ issued' = [issued EXCEPT ![i] = uses]
  /\ UNCHANGED <<role, status, chans, members, bans, settings, liveVars, admitted,
                 everStaff, meddled>>

Revoke(a, i) ==
  /\ Commands(a)
  /\ invites[i] # NoInvite
  /\ May(a, invites[i].ch, "invite")
  /\ invites[i].by = a \/ May(a, invites[i].ch, "revokeAny")
  /\ invites' = [invites EXCEPT ![i] = NoInvite]
  /\ UNCHANGED <<role, status, chans, members, bans, settings, liveVars, history>>

\* validInvite, and the hourly sweep: a code out of uses, or past its time, is
\* removed.
InviteLapses(i) ==
  /\ invites[i] # NoInvite
  /\ invites' = [invites EXCEPT ![i] = NoInvite]
  /\ UNCHANGED <<role, status, chans, members, bans, settings, liveVars, history, cmds>>

Usable(i) == invites[i] # NoInvite /\ invites[i].left # 0 /\ invites[i].ch \in chans

\* mutated: the last use is not taken off.
Consumed_ButLast(i) ==
  IF invites[i].left > 1 THEN [invites[i] EXCEPT !.left = @ - 1] ELSE invites[i]

\* consumeInvite
Consumed(i) ==
  CASE invites[i].left > 1 -> [invites[i] EXCEPT !.left = @ - 1]
    [] invites[i].left = 1 -> NoInvite
    [] OTHER -> invites[i]

Admit(b, i) ==
  /\ members' = [members EXCEPT ![invites[i].ch][b] = invites[i].role]
  /\ invites' = [invites EXCEPT ![i] = Consumed(i)]
  /\ admitted' = [admitted EXCEPT ![i] = IF issued[i] = Unlimited THEN @ ELSE @ + 1]

\* mutated: a ban is not looked at.
Join_IgnoresBan(a, i) ==
  /\ Commands(a) /\ Usable(i)
  /\ members[invites[i].ch][a] = NotMember
  /\ Admit(a, i)
  /\ UNCHANGED <<role, status, chans, bans, settings, liveVars, issued, everStaff, meddled>>

Join(a, i) ==
  /\ Commands(a)
  /\ Usable(i)
  /\ a \notin bans[invites[i].ch]
  /\ members[invites[i].ch][a] = NotMember
  /\ Admit(a, i)
  /\ UNCHANGED <<role, status, chans, bans, settings, liveVars, issued, everStaff, meddled>>

\* authenticate: a sign-up with an invite, in the critical section that both
\* validates the code and consumes it.
SignUp(b, i) ==
  /\ role[b] = "none"
  /\ Usable(i) /\ invites[i].signup
  /\ role' = [role EXCEPT ![b] = "user"]
  /\ Admit(b, i)
  /\ UNCHANGED <<status, chans, bans, settings, liveVars, issued, everStaff, meddled, cmds>>

\* authenticate: a sign-up with no code, while registration is open.
Register(b) ==
  /\ role[b] = "none"
  /\ settings.registration = "open"
  /\ role' = [role EXCEPT ![b] = "user"]
  /\ members' = [members EXCEPT ![settings.def][b] = "member"]
  /\ UNCHANGED <<status, chans, bans, invites, settings, liveVars, issued, admitted,
                 everStaff, meddled, cmds>>

Add(a, c, t) ==
  /\ Commands(a)
  /\ May(a, c, "add")
  /\ role[t] # "none" /\ status[t] = "active"
  /\ t \notin bans[c] /\ members[c][t] = NotMember
  /\ members' = [members EXCEPT ![c][t] = "member"]
  /\ UNCHANGED <<role, status, chans, bans, invites, settings, liveVars, history>>

\* mutated: who leaves stays attached.
Leave_Attached(a, c) ==
  /\ Commands(a)
  /\ May(a, c, "read") /\ members[c][a] \notin {NotMember, "owner"}
  /\ members' = [members EXCEPT ![c][a] = NotMember]
  /\ UNCHANGED <<role, status, chans, bans, invites, settings, liveVars, history>>

Leave(a, c) ==
  /\ Commands(a)
  /\ May(a, c, "read")
  /\ members[c][a] \notin {NotMember, "owner"}
  /\ members' = [members EXCEPT ![c][a] = NotMember]
  /\ UnsubUser(a, c)
  /\ UNCHANGED <<role, status, chans, bans, invites, settings, history>>

(***************************************************************************)
(* Moderation                                                              *)
(***************************************************************************)
\* kick, and ban for good or for some days.
Remove(a, c, t, ban) ==
  /\ Commands(a)
  /\ May(a, c, IF ban THEN "ban" ELSE "kick") /\ Target(a, c, t)
  /\ bans' = IF ban THEN [bans EXCEPT ![c] = @ \cup {t}] ELSE bans
  /\ members' = [members EXCEPT ![c][t] = NotMember]
  /\ UnsubUser(t, c)
  /\ Meddles(a, c)
  /\ UNCHANGED <<role, status, chans, invites, settings, issued, admitted, everStaff>>

Unban(a, c, t) ==
  /\ Commands(a)
  /\ May(a, c, "ban") /\ t \in bans[c]
  /\ bans' = [bans EXCEPT ![c] = @ \ {t}]
  /\ UNCHANGED <<role, status, chans, members, invites, settings, liveVars, history>>

\* sweep: a channel ban past its time is forgotten.
BanLapses(c, t) ==
  /\ t \in bans[c]
  /\ bans' = [bans EXCEPT ![c] = @ \ {t}]
  /\ UNCHANGED <<role, status, chans, members, invites, settings, liveVars, history, cmds>>

SetRole(a, c, t, r) ==
  /\ Commands(a)
  /\ May(a, c, "role") /\ Target(a, c, t)
  /\ members[c][t] # NotMember /\ CanGrant(Rank(a, c), r)
  /\ members' = [members EXCEPT ![c][t] = r]
  /\ Meddles(a, c)
  /\ UNCHANGED <<role, status, chans, bans, invites, settings, liveVars, issued, admitted,
                 everStaff>>

\* mutated: the old owner stays one.
Transfer_KeepsOld(a, c, t) ==
  /\ Commands(a)
  /\ May(a, c, "transfer") /\ members[c][t] # NotMember /\ t # a
  /\ members' = [members EXCEPT ![c][t] = "owner"]
  /\ Meddles(a, c)
  /\ UNCHANGED <<role, status, chans, bans, invites, settings, liveVars, issued, admitted,
                 everStaff>>

Transfer(a, c, t) ==
  /\ Commands(a)
  /\ May(a, c, "transfer")
  /\ members[c][t] # NotMember /\ t # a
  /\ members' = [members EXCEPT ![c] = [b \in Accounts |->
       CASE b = t -> "owner"
         [] b = a /\ @[a] = "owner" -> "admin"
         [] OTHER -> @[b]]]
  /\ Meddles(a, c)
  /\ UNCHANGED <<role, status, chans, bans, invites, settings, liveVars, issued, admitted,
                 everStaff>>

-----------------------------------------------------------------------------
(***************************************************************************)
(* Server administration                                                   *)
(***************************************************************************)
UserAdd(a, b) ==
  /\ Commands(a)
  /\ CanServerAct(role[a]) /\ role[b] = "none"
  /\ role' = [role EXCEPT ![b] = "user"]
  /\ members' = [members EXCEPT ![settings.def][b] = "member"]
  /\ UNCHANGED <<status, chans, bans, invites, settings, liveVars, history>>

\* userban, userunban and usermod status=...; the connections of a banned or
\* disabled account are closed 300 ms later, which is a Disconnect.
SetStatus(a, t, st) ==
  /\ Commands(a)
  /\ CanServerAct(role[a]) /\ role[t] # "none" /\ CanServerTarget(role[a], role[t])
  /\ status' = [status EXCEPT ![t] = st]
  /\ UNCHANGED <<role, chans, members, bans, invites, settings, liveVars, history>>

\* userBlocked, and sweep: a hub ban past its time ends.
StatusLapses(t) ==
  /\ status[t] = "banned"
  /\ status' = [status EXCEPT ![t] = "active"]
  /\ UNCHANGED <<role, chans, members, bans, invites, settings, liveVars, history, cmds>>

\* mutated: the giver of "owner" keeps it as well.
SetServerRole_Shared(a, t, r) ==
  /\ Commands(a)
  /\ IsServerOwner(role[a]) /\ role[t] # "none" /\ t # a
  /\ role' = [role EXCEPT ![t] = r]
  /\ everStaff' = IF r = "user" THEN everStaff ELSE everStaff \cup {t}
  /\ UNCHANGED <<status, chans, members, bans, invites, settings, liveVars, issued,
                 admitted, meddled>>

\* usermod role=...; handing out "owner" makes the giver an admin.
SetServerRole(a, t, r) ==
  /\ Commands(a)
  /\ IsServerOwner(role[a]) /\ role[t] # "none" /\ t # a
  /\ role' = IF r = "owner" THEN [role EXCEPT ![t] = "owner", ![a] = "admin"]
             ELSE [role EXCEPT ![t] = r]
  /\ everStaff' = IF r = "user" THEN everStaff ELSE everStaff \cup {t}
  /\ UNCHANGED <<status, chans, members, bans, invites, settings, liveVars, issued,
                 admitted, meddled>>

\* set: registration, guest_access, allow_user_channels, default_channel.
Set(a, s) ==
  /\ Commands(a)
  /\ IsServerOwner(role[a])
  /\ settings' = s
  /\ UNCHANGED <<role, status, chans, members, bans, invites, liveVars, history>>

-----------------------------------------------------------------------------
(***************************************************************************)
(* Connections, subscriptions, presence                                    *)
(***************************************************************************)
Connect(s, u) ==
  /\ conn[s] = Nobody
  /\ IF u \in Guests THEN settings.guests
     ELSE role[u] # "none" /\ status[u] = "active"
  /\ conn' = [conn EXCEPT ![s] = u]
  /\ UNCHANGED <<hubVars, subs, presence, roster, history, cmds>>

\* mutated: a repeated sub is counted again.
Subscribe_Twice(s, c) ==
  LET u == conn[s]
  IN /\ u # Nobody
     /\ u \in Guests => c = settings.def
     /\ Sees(u, c)
     /\ subs' = [subs EXCEPT ![s] = @ \cup {c}]
     /\ presence' = [presence EXCEPT ![c][u] = @ + 1]
     /\ roster' = [roster EXCEPT ![c] = @ \cup {u}]
     /\ UNCHANGED <<hubVars, conn, history, cmds>>

\* handleSub and subscribe: a repeated sub lowers the count first, so that the
\* session is counted once and its join may be announced again.
Subscribe(s, c) ==
  LET u == conn[s]
      before == presence[c][u] - (IF c \in subs[s] THEN 1 ELSE 0)
  IN /\ u # Nobody
     /\ u \in Guests => c = settings.def
     /\ Sees(u, c)
     /\ subs' = [subs EXCEPT ![s] = @ \cup {c}]
     /\ presence' = [presence EXCEPT ![c][u] = before + 1]
     /\ roster' = [roster EXCEPT ![c] = IF before = 0 THEN @ \cup {u} ELSE @]
     /\ UNCHANGED <<hubVars, conn, history, cmds>>

\* unsub: the last session of a user to go announces the part.
Left(u, c) == IF presence[c][u] - 1 <= 0 THEN 0 ELSE presence[c][u] - 1

\* mutated: the part is announced with every session that goes.
Unsubscribe_PartAlways(s, c) ==
  LET u == conn[s]
  IN /\ u # Nobody /\ c \in chans \cap subs[s]
     /\ subs' = [subs EXCEPT ![s] = @ \ {c}]
     /\ presence' = [presence EXCEPT ![c][u] = Left(u, c)]
     /\ roster' = [roster EXCEPT ![c] = @ \ {u}]
     /\ UNCHANGED <<hubVars, conn, history, cmds>>

Unsubscribe(s, c) ==
  LET u == conn[s]
  IN /\ u # Nobody /\ c \in chans \cap subs[s]
     /\ subs' = [subs EXCEPT ![s] = @ \ {c}]
     /\ presence' = [presence EXCEPT ![c][u] = Left(u, c)]
     /\ roster' = [roster EXCEPT ![c] = IF Left(u, c) = 0 THEN @ \ {u} ELSE @]
     /\ UNCHANGED <<hubVars, conn, history, cmds>>

\* The end of handleConn: every subscription is dropped, then the session.
Disconnect(s) ==
  LET u == conn[s]
  IN /\ u # Nobody
     /\ conn' = [conn EXCEPT ![s] = Nobody]
     /\ subs' = [subs EXCEPT ![s] = {}]
     /\ presence' = [c \in Names |-> IF c \in subs[s]
                       THEN [presence[c] EXCEPT ![u] = Left(u, c)] ELSE presence[c]]
     /\ roster' = [c \in Names |-> IF c \in subs[s] /\ Left(u, c) = 0
                       THEN roster[c] \ {u} ELSE roster[c]]
     /\ UNCHANGED <<hubVars, history, cmds>>

\* The process ends and is started again, with -reset-owner in between or not:
\* what the commands changed they have saved, what is live is lost.
Restart(reset) ==
  /\ status' = IF reset THEN [a \in Accounts |-> IF role[a] = "owner" THEN "active"
                                                 ELSE status[a]] ELSE status
  /\ conn' = [s \in Conns |-> Nobody]
  /\ subs' = [s \in Conns |-> {}]
  /\ presence' = [c \in Names |-> [u \in People |-> 0]]
  /\ roster' = [c \in Names |-> {}]
  /\ UNCHANGED <<role, chans, members, bans, invites, settings, history, cmds>>

-----------------------------------------------------------------------------
ChannelCommand ==
  \E a \in Accounts, c \in Names :
    \/ Create(a, c) \/ Delete(a, c) \/ Leave(a, c)
    \/ \E i \in Codes, r \in Grants, uses \in Uses, signup \in BOOLEAN :
         IssueInvite(a, c, i, r, uses, signup)
    \/ \E t \in Accounts :
         \/ Add(a, c, t) \/ Unban(a, c, t) \/ Transfer(a, c, t)
         \/ \E ban \in BOOLEAN : Remove(a, c, t, ban)
         \/ \E r \in Grants : SetRole(a, c, t, r)

InviteUse ==
  \E i \in Codes :
    \/ InviteLapses(i)
    \/ \E a \in Accounts : Revoke(a, i) \/ Join(a, i) \/ SignUp(a, i)

ServerCommand ==
  \E a \in Accounts :
    \/ Register(a) \/ StatusLapses(a)
    \/ \E r \in {"invite", "admin", "open"} : Set(a, [settings EXCEPT !.registration = r])
    \/ \E b \in BOOLEAN : \/ Set(a, [settings EXCEPT !.guests = b])
                         \/ Set(a, [settings EXCEPT !.userChans = b])
    \/ \E c \in chans : Set(a, [settings EXCEPT !.def = c])
    \/ \E t \in Accounts :
         \/ UserAdd(a, t)
         \/ \E st \in {"active", "banned", "disabled"} : SetStatus(a, t, st)
         \/ \E r \in {"user", "admin", "owner"} : SetServerRole(a, t, r)

Live ==
  \/ \E s \in Conns :
       \/ Disconnect(s)
       \/ \E u \in People : Connect(s, u)
       \/ \E c \in Names : Subscribe(s, c) \/ Unsubscribe(s, c)
  \/ \E c \in Names, t \in Accounts : BanLapses(c, t)
  \/ \E reset \in BOOLEAN : Restart(reset)

Next == ChannelCommand \/ InviteUse \/ ServerCommand \/ Live

Spec == Init /\ [][Next]_vars

-----------------------------------------------------------------------------
(***************************************************************************)
(* Properties                                                              *)
(***************************************************************************)
\* There is exactly one server owner, whatever is handed over to whom
\* (usermod).  Without one nobody could change settings or server roles; with
\* two, each could demote the other.
OneServerOwner == \E o \in Accounts : \A a \in Accounts : role[a] = "owner" <=> a = o

\* A channel ban keeps its target out: no invite code, no /add, no transfer
\* brings a banned account back in (join, add, authenticate).
BannedNotMember == \A c \in Names, a \in Accounts : a \in bans[c] => members[c][a] = NotMember

\* An invite admits no more people than it was made for, whether they sign up
\* with it or join, while others race for the last use (consumeInvite).
InviteBound ==
  \A i \in Codes : issued[i] # Unlimited =>
    admitted[i] + (IF invites[i] = NoInvite THEN 0 ELSE invites[i].left) <= issued[i]

\* A channel keeps exactly one owner as long as server staff does not use its
\* rank on the members: owners cannot leave, be kicked or be demoted, and a
\* transfer leaves no second owner behind (leave, kick, role, transfer).
OneChannelOwner ==
  \A c \in chans \ meddled : Cardinality({a \in Accounts : members[c][a] = "owner"}) = 1

\* The presence count of a user is the number of its sessions that are
\* attached, through repeated subscriptions, kicks, deleted channels and
\* dropped connections (subscribe, unsub, unsubUser, deleteChannel).
PresenceExact ==
  \A c \in Names, u \in People : presence[c][u] = Cardinality(Attached(u, c))

\* Those who follow a channel's join, part, kicked and banned events know
\* exactly who is there: no ghost stays behind, nobody is there unannounced.
RosterExact ==
  \A c \in Names : roster[c] = {u \in People : Attached(u, c) # {}}

\* Whoever is attached to a channel has the right to read it.  The exceptions
\* are the sessions that had it from something else than a membership: those
\* of guests when the default channel changes, and those of former server
\* staff.  The hub never looks at them again (toChan asks only subs).
SubscribersMayRead ==
  \A s \in Conns : \A c \in subs[s] :
    c \in chans /\ (Sees(conn[s], c) \/ conn[s] \in Guests \cup everStaff)

\* A membership is only ever lowered or taken away, in a channel that goes on,
\* by the member itself or while someone is online who outranks it: an invite,
\* a transfer or a repeated command never costs a third party its role.
Lowered(c, a) ==
  c \in chans \cap chans' /\ RoleRank[members'[c][a]] < RoleRank[members[c][a]]
LoweredByBetters ==
  [][\A c \in Names, a \in Accounts : Lowered(c, a) =>
       \E b \in Accounts : ConnsOf(b) # {} /\ (b = a \/ CanTarget(Rank(b, c), Rank(a, c)))]_vars
=============================================================================
