--------------------------- MODULE PresenceProofs ---------------------------
(***************************************************************************)
(* Presence and the roster that the events convey are exact, for every     *)
(* number of accounts, connections, channels and commands.                 *)
(***************************************************************************)
EXTENDS ChannelsProofs, FiniteSetTheorems

LiveTypes ==
  /\ conn \in [Conns -> People \cup {Nobody}]
  /\ subs \in [Conns -> SUBSET Names]
  /\ presence \in [Names -> [People -> Nat]]
  /\ roster \in [Names -> SUBSET People]
  /\ \A s \in Conns : conn[s] = Nobody => subs[s] = {}

LiveInv == LiveTypes /\ PresenceExact /\ RosterExact

\* What these proofs need of the constants.
LiveConstants == IsFiniteSet(Conns) /\ Nobody \notin People /\ Accounts \subseteq People

\* What the hub has written down of u in c agrees with who is attached.
Agrees(u, c) ==
  /\ presence[c][u] = Cardinality(Attached(u, c))
  /\ u \in roster[c] <=> Attached(u, c) # {}

\* All that is said of u in c stays as it is.
Unmoved(u, c) ==
  /\ Attached(u, c)' = Attached(u, c)
  /\ presence'[c][u] = presence[c][u]
  /\ u \in roster'[c] <=> u \in roster[c]

-----------------------------------------------------------------------------
LEMMA LiveAgrees ==
  ASSUME LiveTypes
  PROVE  PresenceExact /\ RosterExact <=> \A u \in People, c \in Names : Agrees(u, c)
BY DEF LiveTypes, PresenceExact, RosterExact, Agrees

\* It is enough to look at the pairs of a user and a channel that moved.
LEMMA LiveByPairs ==
  ASSUME LiveInv, LiveTypes',
         \A u \in People, c \in Names : Unmoved(u, c) \/ Agrees(u, c)'
  PROVE  LiveInv'
<1>1. ASSUME NEW u \in People, NEW c \in Names
      PROVE  Agrees(u, c)'
  <2>1. CASE Unmoved(u, c)
    BY <2>1, LiveAgrees DEF LiveInv, Agrees, Unmoved
  <2>. QED  BY <2>1
<1>2. PresenceExact' /\ RosterExact'
  BY <1>1 DEF LiveTypes, PresenceExact, RosterExact, Agrees
<1>. QED  BY <1>2 DEF LiveInv

LEMMA AttachedCounts ==
  ASSUME LiveInv, LiveConstants, NEW u \in People, NEW c \in Names
  PROVE  /\ IsFiniteSet(Attached(u, c)) /\ Attached(u, c) \subseteq Conns
         /\ Agrees(u, c)
         /\ presence[c][u] \in Nat
         /\ presence[c][u] = 0 <=> Attached(u, c) = {}
<1>1. Attached(u, c) \subseteq Conns
  BY DEF Attached, ConnsOf
<1>2. IsFiniteSet(Attached(u, c))
  BY <1>1, FS_Subset DEF LiveConstants
<1>3. Agrees(u, c) /\ presence[c][u] \in Nat
  BY LiveAgrees DEF LiveInv, LiveTypes
<1>4. Cardinality(Attached(u, c)) = 0 <=> Attached(u, c) = {}
  BY <1>2, FS_EmptySet
<1>. QED  BY <1>1, <1>2, <1>3, <1>4 DEF Agrees

LEMMA InitLive == ASSUME Init, LiveConstants PROVE LiveInv
<1>1. LiveTypes
  BY DEF Init, LiveTypes
<1>2. ASSUME NEW u \in People, NEW c \in Names
      PROVE  Agrees(u, c)
  <2>1. Attached(u, c) = {}
    BY DEF Init, Attached, ConnsOf
  <2>. QED  BY <2>1, FS_EmptySet DEF Init, Agrees
<1>. QED  BY <1>1, <1>2, LiveAgrees DEF LiveInv

\* leave, kick and ban: unsubUser lets all sessions of u go.
LEMMA UnsubUserLive ==
  ASSUME LiveInv, LiveConstants, NEW u \in People, NEW c \in Names, UnsubUser(u, c)
  PROVE  LiveInv'
<1>1. Agrees(u, c) /\ presence[c][u] \in Nat
  BY AttachedCounts
<1>2. presence' = [presence EXCEPT ![c][u] = 0]
  <2>1. presence[c][u] - Cardinality(Attached(u, c)) = 0
    BY <1>1 DEF Agrees
  <2>. QED  BY <2>1 DEF UnsubUser
<1>3. LiveTypes'
  BY <1>2 DEF LiveInv, LiveTypes, UnsubUser
<1>4. Attached(u, c)' = {}
  BY DEF LiveInv, LiveTypes, UnsubUser, Attached, ConnsOf
<1>5. u \notin roster'[c]
  BY <1>1 DEF LiveInv, LiveTypes, UnsubUser, Agrees
<1>6. Agrees(u, c)'
  BY <1>2, <1>4, <1>5, FS_EmptySet DEF LiveInv, LiveTypes, Agrees
<1>7. ASSUME NEW v \in People, NEW d \in Names, v # u \/ d # c
      PROVE  Unmoved(v, d)
  <2>1. Attached(v, d)' = Attached(v, d)
    BY <1>7 DEF LiveInv, LiveTypes, UnsubUser, Attached, ConnsOf
  <2>2. presence'[d][v] = presence[d][v]
    BY <1>2, <1>7 DEF LiveInv, LiveTypes
  <2>3. v \in roster'[d] <=> v \in roster[d]
    BY <1>7 DEF LiveInv, LiveTypes, UnsubUser
  <2>. QED  BY <2>1, <2>2, <2>3 DEF Unmoved
<1>. QED  BY <1>3, <1>6, <1>7, LiveByPairs

LEMMA DeleteLive ==
  ASSUME LiveInv, LiveConstants, NEW a \in Accounts, NEW c \in Names, Delete(a, c)
  PROVE  LiveInv'
<1>1. LiveTypes'
  BY DEF LiveInv, LiveTypes, Delete
<1>2. ASSUME NEW u \in People
      PROVE  Agrees(u, c)'
  <2>1. Attached(u, c)' = {}
    BY DEF LiveInv, LiveTypes, Delete, Attached, ConnsOf
  <2>2. presence'[c][u] = 0 /\ roster'[c] = {}
    BY DEF LiveInv, LiveTypes, Delete
  <2>. QED  BY <2>1, <2>2, FS_EmptySet DEF Agrees
<1>3. ASSUME NEW u \in People, NEW d \in Names, d # c
      PROVE  Unmoved(u, d)
  <2>1. Attached(u, d)' = Attached(u, d)
    BY <1>3 DEF LiveInv, LiveTypes, Delete, Attached, ConnsOf
  <2>. QED  BY <1>3, <2>1 DEF LiveInv, LiveTypes, Delete, Unmoved
<1>. QED  BY <1>1, <1>2, <1>3, LiveByPairs

LEMMA ConnectLive ==
  ASSUME LiveInv, LiveConstants, NEW s \in Conns, NEW u \in People, Connect(s, u)
  PROVE  LiveInv'
<1>1. LiveTypes'
  BY DEF LiveInv, LiveTypes, Connect, LiveConstants
<1>2. ASSUME NEW v \in People, NEW d \in Names
      PROVE  Unmoved(v, d)
  <2>1. subs[s] = {}
    BY DEF LiveInv, LiveTypes, Connect
  <2>2. Attached(v, d)' = Attached(v, d)
    BY <2>1 DEF LiveInv, LiveTypes, Connect, LiveConstants, Attached, ConnsOf
  <2>. QED  BY <2>2 DEF Unmoved, Connect
<1>. QED  BY <1>1, <1>2, LiveByPairs

\* A repeated sub lowers the count first: the session is counted once.
LEMMA SubscribeLive ==
  ASSUME LiveInv, LiveConstants, NEW s \in Conns, NEW c \in Names, Subscribe(s, c)
  PROVE  LiveInv'
<1>1. PICK u \in People : u = conn[s]
  BY DEF LiveInv, LiveTypes, Subscribe
<1> DEFINE before == presence[c][u] - (IF c \in subs[s] THEN 1 ELSE 0)
<1>2. /\ UNCHANGED conn /\ subs' = [subs EXCEPT ![s] = @ \cup {c}]
      /\ presence' = [presence EXCEPT ![c][u] = before + 1]
      /\ roster' = [roster EXCEPT ![c] = IF before = 0 THEN @ \cup {u} ELSE @]
  BY <1>1 DEF Subscribe
<1>3. /\ IsFiniteSet(Attached(u, c)) /\ Agrees(u, c) /\ presence[c][u] \in Nat
      /\ presence[c][u] = 0 <=> Attached(u, c) = {}
  BY <1>1, AttachedCounts
<1>4. s \in Attached(u, c) <=> c \in subs[s]
  BY <1>1 DEF Attached, ConnsOf
<1>5. Attached(u, c)' = Attached(u, c) \cup {s}
  BY <1>1, <1>2 DEF LiveInv, LiveTypes, Attached, ConnsOf
<1>6. Cardinality(Attached(u, c)') = before + 1 /\ before \in Nat
  <2>1. Cardinality(Attached(u, c)')
          = IF s \in Attached(u, c) THEN presence[c][u] ELSE presence[c][u] + 1
    BY <1>3, <1>5, FS_AddElement, ZenonT(60) DEF Agrees
  <2>2. CASE c \in subs[s]
    BY <1>3, <1>4, <2>1, <2>2
  <2>3. CASE c \notin subs[s]
    BY <1>3, <1>4, <2>1, <2>3
  <2>. QED  BY <2>2, <2>3
<1>7. LiveTypes'
  BY <1>1, <1>2, <1>6 DEF LiveInv, LiveTypes, Subscribe
<1>8. u \in roster'[c]
  <2>1. CASE before = 0
    BY <1>2, <2>1 DEF LiveInv, LiveTypes
  <2>2. CASE before # 0
    BY <1>2, <1>3, <1>6, <2>2 DEF LiveInv, LiveTypes, Agrees
  <2>. QED  BY <2>1, <2>2
<1>9. Agrees(u, c)'
  <2>1. presence'[c][u] = before + 1
    BY <1>1, <1>2 DEF LiveInv, LiveTypes
  <2>. QED  BY <1>5, <1>6, <1>8, <2>1 DEF Agrees
<1>10. ASSUME NEW v \in People, NEW d \in Names, v # u \/ d # c
       PROVE  Unmoved(v, d)
  <2>1. Attached(v, d)' = Attached(v, d)
    BY <1>1, <1>2, <1>10 DEF LiveInv, LiveTypes, Attached, ConnsOf
  <2>2. presence'[d][v] = presence[d][v]
    BY <1>1, <1>2, <1>10 DEF LiveInv, LiveTypes
  <2>3. v \in roster'[d] <=> v \in roster[d]
    BY <1>1, <1>2, <1>10 DEF LiveInv, LiveTypes
  <2>. QED  BY <2>1, <2>2, <2>3 DEF Unmoved
<1>. QED  BY <1>7, <1>9, <1>10, LiveByPairs

\* One session less: the count falls by one, and the part comes with the last.
LEMMA SessionGoes ==
  ASSUME LiveInv, LiveConstants, NEW u \in People, NEW c \in Names, NEW s \in Attached(u, c),
         Attached(u, c)' = Attached(u, c) \ {s},
         presence'[c][u] = Left(u, c), u \in roster'[c] <=> Left(u, c) # 0
  PROVE  Agrees(u, c)' /\ Left(u, c) \in Nat
<1>1. /\ IsFiniteSet(Attached(u, c)) /\ Agrees(u, c) /\ presence[c][u] \in Nat
      /\ presence[c][u] = 0 <=> Attached(u, c) = {}
  BY AttachedCounts
<1>2. Cardinality(Attached(u, c)') = presence[c][u] - 1 /\ IsFiniteSet(Attached(u, c)')
  BY <1>1, FS_RemoveElement DEF Agrees
<1>3. Left(u, c) = presence[c][u] - 1 /\ Left(u, c) \in Nat
  BY <1>1 DEF Left
<1>4. Attached(u, c)' = {} <=> Left(u, c) = 0
  BY <1>2, <1>3, FS_EmptySet
<1>. QED  BY <1>2, <1>3, <1>4 DEF Agrees

LEMMA LeftIsNat ==
  ASSUME LiveInv, NEW u \in People, NEW c \in Names PROVE Left(u, c) \in Nat
BY DEF LiveInv, LiveTypes, Left

LEMMA UnsubscribeLive ==
  ASSUME LiveInv, LiveConstants, NEW s \in Conns, NEW c \in Names, Unsubscribe(s, c)
  PROVE  LiveInv'
<1>0. PICK u \in People : u = conn[s]
  BY DEF LiveInv, LiveTypes, Unsubscribe
<1>1. s \in Attached(u, c)
  BY <1>0 DEF Unsubscribe, Attached, ConnsOf
<1>2. /\ UNCHANGED conn /\ subs' = [subs EXCEPT ![s] = @ \ {c}]
      /\ presence' = [presence EXCEPT ![c][u] = Left(u, c)]
      /\ roster' = [roster EXCEPT ![c] = IF Left(u, c) = 0 THEN @ \ {u} ELSE @]
  BY <1>0 DEF Unsubscribe
<1>3. LiveTypes'
  BY <1>1, <1>2, LeftIsNat DEF LiveInv, LiveTypes, Unsubscribe
<1>4. Attached(u, c)' = Attached(u, c) \ {s}
  BY <1>0, <1>2 DEF LiveInv, LiveTypes, Attached, ConnsOf
<1>5. u \in roster[c]
  BY <1>1, AttachedCounts DEF Agrees
<1>6. presence'[c][u] = Left(u, c) /\ (u \in roster'[c] <=> Left(u, c) # 0)
  BY <1>1, <1>2, <1>5 DEF LiveInv, LiveTypes
<1>7. Agrees(u, c)'
  BY <1>1, <1>2, <1>4, <1>6, SessionGoes
<1>8. ASSUME NEW v \in People, NEW d \in Names, v # u \/ d # c
      PROVE  Unmoved(v, d)
  <2>1. Attached(v, d)' = Attached(v, d)
    BY <1>0, <1>2, <1>8 DEF LiveInv, LiveTypes, Attached, ConnsOf
  <2>2. presence'[d][v] = presence[d][v]
    BY <1>0, <1>2, <1>8 DEF LiveInv, LiveTypes
  <2>3. v \in roster'[d] <=> v \in roster[d]
    BY <1>0, <1>2, <1>8 DEF LiveInv, LiveTypes
  <2>. QED  BY <2>1, <2>2, <2>3 DEF Unmoved
<1>. QED  BY <1>3, <1>7, <1>8, LiveByPairs

LEMMA DisconnectLive ==
  ASSUME LiveInv, LiveConstants, NEW s \in Conns, Disconnect(s)
  PROVE  LiveInv'
<1>1. PICK u \in People : u = conn[s]
  BY DEF LiveInv, LiveTypes, Disconnect
<1>2. /\ conn' = [conn EXCEPT ![s] = Nobody] /\ subs' = [subs EXCEPT ![s] = {}]
      /\ presence' = [c \in Names |-> IF c \in subs[s]
                        THEN [presence[c] EXCEPT ![u] = Left(u, c)] ELSE presence[c]]
      /\ roster' = [c \in Names |-> IF c \in subs[s] /\ Left(u, c) = 0
                        THEN roster[c] \ {u} ELSE roster[c]]
  BY <1>1 DEF Disconnect
<1>3. LiveTypes'
  BY <1>1, <1>2, LeftIsNat DEF LiveInv, LiveTypes
<1>9. Nobody # u
  BY DEF LiveConstants
<1>4. ASSUME NEW c \in Names, c \in subs[s]
      PROVE  Agrees(u, c)' 
  <2>1. s \in Attached(u, c) /\ u \in roster[c]
    BY <1>1, <1>4, AttachedCounts DEF Attached, ConnsOf, Agrees
  <2>2. Attached(u, c)' = Attached(u, c) \ {s}
    BY <1>1, <1>2, <1>9 DEF LiveInv, LiveTypes, Attached, ConnsOf
  <2>3. presence'[c][u] = Left(u, c) /\ (u \in roster'[c] <=> Left(u, c) # 0)
    BY <1>1, <1>2, <1>4, <2>1 DEF LiveInv, LiveTypes
  <2>. QED  BY <1>1, <2>1, <2>2, <2>3, SessionGoes
<1>5. ASSUME NEW v \in People, NEW d \in Names, v # u \/ d \notin subs[s]
      PROVE  Unmoved(v, d)
  <2>1. Attached(v, d)' = Attached(v, d)
    BY <1>1, <1>2, <1>5 DEF LiveInv, LiveTypes, Attached, ConnsOf, LiveConstants
  <2>2. presence'[d][v] = presence[d][v]
    BY <1>1, <1>2, <1>5 DEF LiveInv, LiveTypes
  <2>3. v \in roster'[d] <=> v \in roster[d]
    BY <1>1, <1>2, <1>5 DEF LiveInv, LiveTypes
  <2>. QED  BY <2>1, <2>2, <2>3 DEF Unmoved
<1>. QED  BY <1>3, <1>4, <1>5, LiveByPairs

LEMMA RestartLive ==
  ASSUME LiveInv, LiveConstants, NEW reset \in BOOLEAN, Restart(reset)
  PROVE  LiveInv'
<1>1. LiveTypes'
  BY DEF LiveInv, LiveTypes, Restart
<1>2. ASSUME NEW u \in People, NEW c \in Names
      PROVE  Agrees(u, c)'
  <2>1. Attached(u, c)' = {}
    BY DEF Restart, Attached, ConnsOf
  <2>. QED  BY <2>1, FS_EmptySet DEF Restart, Agrees
<1>. QED  BY <1>1, <1>2, LiveByPairs

LEMMA AsideLive == ASSUME LiveInv, UNCHANGED liveVars PROVE LiveInv'
BY DEF LiveInv, LiveTypes, PresenceExact, RosterExact, Attached, ConnsOf, liveVars

-----------------------------------------------------------------------------
LEMMA NextLive == ASSUME LiveInv, LiveConstants, [Next]_vars PROVE LiveInv'
<1>1. CASE ChannelCommand
  <2>1. PICK a \in Accounts, c \in Names :
          \/ Create(a, c) \/ Delete(a, c) \/ Leave(a, c)
          \/ \E i \in Codes, r \in Grants, uses \in Uses, signup \in BOOLEAN :
               IssueInvite(a, c, i, r, uses, signup)
          \/ \E t \in Accounts :
               \/ Add(a, c, t) \/ Unban(a, c, t) \/ Transfer(a, c, t)
               \/ \E ban \in BOOLEAN : Remove(a, c, t, ban)
               \/ \E r \in Grants : SetRole(a, c, t, r)
    BY <1>1 DEF ChannelCommand
  <2>2. a \in People
    BY DEF LiveConstants
  <2>3. CASE Delete(a, c)
    BY <2>3, DeleteLive
  <2>4. CASE Leave(a, c)
    BY <2>2, <2>4, UnsubUserLive DEF Leave
  <2>5. CASE \E t \in Accounts, ban \in BOOLEAN : Remove(a, c, t, ban)
    BY <2>5, UnsubUserLive DEF Remove, LiveConstants
  <2>6. CASE \/ Create(a, c)
             \/ \E i \in Codes, r \in Grants, uses \in Uses, signup \in BOOLEAN :
                  IssueInvite(a, c, i, r, uses, signup)
             \/ \E t \in Accounts :
                  \/ Add(a, c, t) \/ Unban(a, c, t) \/ Transfer(a, c, t)
                  \/ \E r \in Grants : SetRole(a, c, t, r)
    BY <2>6, AsideLive DEF Create, IssueInvite, Add, Unban, Transfer, SetRole
  <2>. QED  BY <2>1, <2>3, <2>4, <2>5, <2>6
<1>2. CASE InviteUse
  BY <1>2, AsideLive DEF InviteUse, InviteLapses, Revoke, Join, SignUp
<1>3. CASE ServerCommand
  BY <1>3, AsideLive DEF ServerCommand, Register, StatusLapses, Set, UserAdd, SetStatus, SetServerRole
<1>4. CASE Live
  <2>1. CASE \E c \in Names, t \in Accounts : BanLapses(c, t)
    BY <2>1, AsideLive DEF BanLapses
  <2>. QED  BY <1>4, <2>1, DisconnectLive, ConnectLive, SubscribeLive, UnsubscribeLive, RestartLive
            DEF Live
<1>5. CASE UNCHANGED vars
  BY <1>5, AsideLive DEF vars
<1>. QED  BY <1>1, <1>2, <1>3, <1>4, <1>5 DEF Next

LEMMA SpecLive == Spec => []LiveInv
<1>1. LiveConstants
  BY ChannelsAssumption DEF LiveConstants, People
<1>2. Init => LiveInv
  BY <1>1, InitLive
<1>3. LiveInv /\ [Next]_vars => LiveInv'
  BY <1>1, NextLive
<1>. QED  BY <1>2, <1>3, PTL DEF Spec

\* The count the hub keeps of a user in a channel is the number of its sessions
\* attached there (subscribe, unsub, unsubUser, deleteChannel).
THEOREM ChannelsPresenceExact == Spec => []PresenceExact
<1>1. LiveInv => PresenceExact
  BY DEF LiveInv
<1>. QED  BY <1>1, SpecLive, PTL

\* The join, part, kicked and banned events tell exactly who is there.
THEOREM ChannelsRosterExact == Spec => []RosterExact
<1>1. LiveInv => RosterExact
  BY DEF LiveInv
<1>. QED  BY <1>1, SpecLive, PTL
=============================================================================
