--------------------------- MODULE SessionsProofs ---------------------------
(***************************************************************************)
(* What a reset and a block cut off, and how many sessions are saved, for  *)
(* every number of accounts, connections, tokens and passwords, and any    *)
(* limits.                                                                 *)
(***************************************************************************)
EXTENDS Sessions, FiniteSetTheorems, TLAPS

ConnType == [at : Stages, user : Users, sess : Nat, doomed : BOOLEAN, proof : Nat, raced : BOOLEAN]
TokenType == [user : Users, proof : Nat, raced : BOOLEAN]

Types ==
  /\ pass \in [Users -> Nat] /\ resetTo \in [Users -> Nat]
  /\ blocked \subseteq Users
  /\ made \in Seq(TokenType) /\ tokens \subseteq 1 .. Len(made)
  /\ conn \in [Conns -> ConnType]

\* The password of the last reset is not ahead of the password.
ResetIsPast == \A u \in Users : resetTo[u] <= pass[u]

\* What stands behind r is not from before the last reset of its account, unless
\* it was under way then.
Grounded(r) == r.raced \/ r.proof >= resetTo[r.user]

TokensGrounded == \A t \in tokens : Grounded(made[t])

\* A connection that is let in is grounded; a registered one is, or is about to
\* be closed.  One of a blocked account was under way when it was blocked.
ConnSound(r) ==
  /\ r.at \in {"checking", "authed"} => Grounded(r)
  /\ r.at \in {"live", "changing"} => r.doomed \/ Grounded(r)
  /\ r.user \in blocked =>
       /\ r.at = "authed" => r.raced
       /\ r.at \in {"live", "changing"} => r.doomed \/ r.raced

ConnsSound == \A c \in Conns : ConnSound(conn[c])

CutInv == Types /\ ResetIsPast /\ TokensGrounded /\ ConnsSound

\* What the proofs need of the constants.
Constants == SessionsMax \in Nat /\ MaxTokens \in Nat /\ MaxPass \in Nat /\ MaxPass >= 1

-----------------------------------------------------------------------------
(***************************************************************************)
(* What a reset and a block cut off                                        *)
(***************************************************************************)
LEMMA InitCut == ASSUME Init, Constants PROVE CutInv
BY DEF Init, Fresh, NoToken, Types, ConnType, TokenType, Stages, ResetIsPast, TokensGrounded,
       ConnsSound, ConnSound, CutInv

\* A step of one connection that leaves passwords and blocks alone.
LEMMA OneConn ==
  ASSUME CutInv, NEW c \in Conns, NEW r \in ConnType, ConnSound(r),
         conn' = [conn EXCEPT ![c] = r], UNCHANGED <<resetTo, blocked>>
  PROVE  conn' \in [Conns -> ConnType] /\ ConnsSound'
<1>1. conn' \in [Conns -> ConnType]
  BY DEF CutInv, Types
<1>2. ASSUME NEW d \in Conns
      PROVE  ConnSound(conn[d])'
  <2>1. CASE d = c
    <3>1. conn'[d] = r
      BY <2>1 DEF CutInv, Types
    <3>. QED  BY <3>1 DEF ConnSound, Grounded
  <2>2. CASE d # c
    <3>1. conn'[d] = conn[d]
      BY <2>2 DEF CutInv, Types
    <3>. QED  BY <3>1 DEF CutInv, ConnsSound, ConnSound, Grounded
  <2>. QED  BY <2>1, <2>2
<1>. QED  BY <1>1, <1>2 DEF ConnsSound

\* A connection that is closed is sound.
LEMMA ClosedSound ==
  ASSUME NEW u \in Users, Constants
  PROVE  Fresh(u) \in ConnType /\ ConnSound(Fresh(u))
BY DEF Fresh, NoToken, ConnType, Stages, ConnSound

\* Ending connections keeps them sound.
LEMMA DoomedSound ==
  ASSUME CutInv, NEW S, conn' = Doomed(S), UNCHANGED <<resetTo, blocked>>
  PROVE  conn' \in [Conns -> ConnType] /\ ConnsSound'
<1>1. ASSUME NEW d \in Conns
      PROVE  conn'[d] \in ConnType /\ ConnSound(conn[d])'
  <2>1. conn[d] \in ConnType /\ ConnSound(conn[d])
    BY DEF CutInv, Types, ConnsSound
  <2>2. CASE d \in S
    <3>1. conn'[d] = [conn[d] EXCEPT !.doomed = TRUE]
      BY <2>2 DEF Doomed
    <3>. QED  BY <2>1, <3>1 DEF ConnType, ConnSound, Grounded
  <2>3. CASE d \notin S
    <3>1. conn'[d] = conn[d]
      BY <2>3 DEF Doomed
    <3>. QED  BY <2>1, <3>1 DEF ConnSound, Grounded
  <2>. QED  BY <2>2, <2>3
<1>. QED  BY <1>1 DEF ConnsSound, Doomed

\* Tokens that are taken away leave sound ones.
LEMMA FewerTokens ==
  ASSUME CutInv, tokens' \subseteq tokens, UNCHANGED <<made, resetTo>>
  PROVE  tokens' \subseteq 1 .. Len(made) /\ TokensGrounded'
BY DEF CutInv, Types, TokensGrounded, Grounded

LEMMA LoginStartCut ==
  ASSUME CutInv, Constants, NEW c \in Conns, NEW u \in Users, NEW p \in Passwords, LoginStart(c, u, p)
  PROVE  CutInv'
<1>0. PICK at \in {"checking", "failing"} :
        /\ at = IF p = pass[u] THEN "checking" ELSE "failing"
        /\ conn' = [conn EXCEPT ![c] = [Fresh(u) EXCEPT !.at = at, !.proof = p]]
  BY DEF LoginStart
<1> DEFINE r == [Fresh(u) EXCEPT !.at = at, !.proof = p]
<1>4. p \in Nat
  BY DEF Passwords, Constants
<1>1. r \in ConnType
  BY <1>4 DEF Fresh, NoToken, ConnType, Stages
<1>2. ConnSound(r)
  BY <1>0, <1>4 DEF Fresh, CutInv, Types, ResetIsPast, ConnSound, Grounded
<1>3. conn' \in [Conns -> ConnType] /\ ConnsSound'
  BY <1>0, <1>1, <1>2, OneConn DEF LoginStart
<1>. QED  BY <1>3, FewerTokens DEF LoginStart, CutInv, Types, ResetIsPast

LEMMA EndCut ==
  ASSUME CutInv, Constants, NEW c \in Conns, LoginFail(c) \/ TimerClose(c) \/ Drop(c)
  PROVE  CutInv'
<1>1. conn[c].user \in Users
  BY DEF CutInv, Types, ConnType
<1>2. conn' \in [Conns -> ConnType] /\ ConnsSound'
  BY <1>1, OneConn, ClosedSound DEF LoginFail, TimerClose, Drop, Closed
<1>. QED  BY <1>2, FewerTokens DEF LoginFail, TimerClose, Drop, CutInv, Types, ResetIsPast

LEMMA TokenLoginCut ==
  ASSUME CutInv, Constants, NEW c \in Conns, NEW t \in Tokens, TokenLogin(c, t)
  PROVE  CutInv'
<1> DEFINE u == made[t].user
           r == [Fresh(u) EXCEPT !.at = "authed", !.sess = t,
                                 !.proof = made[t].proof, !.raced = made[t].raced]
<1>1. t \in tokens /\ u \notin blocked /\ t \in Nat
  BY DEF TokenLogin, Tokens
<1>2. made[t] \in TokenType /\ Grounded(made[t])
  BY <1>1 DEF CutInv, Types, TokensGrounded
<1>3. r \in ConnType
  BY <1>1, <1>2 DEF Fresh, NoToken, ConnType, TokenType, Stages
<1>4. ConnSound(r)
  BY <1>1, <1>2 DEF Fresh, ConnSound, Grounded
<1>5. conn' \in [Conns -> ConnType] /\ ConnsSound'
  BY <1>3, <1>4, OneConn DEF TokenLogin
<1>. QED  BY <1>5, FewerTokens DEF TokenLogin, CutInv, Types, ResetIsPast

\* From one stage to the next, nothing else having changed.
LEMMA StageSound ==
  ASSUME CutInv, NEW c \in Conns, NEW at \in {"live", "changing"},
         conn[c].at \in {"authed", "live"}, conn' = [conn EXCEPT ![c].at = at],
         UNCHANGED <<resetTo, blocked>>
  PROVE  conn' \in [Conns -> ConnType] /\ ConnsSound'
<1> DEFINE r == [conn[c] EXCEPT !.at = at]
<1>1. conn[c] \in ConnType /\ ConnSound(conn[c])
  BY DEF CutInv, Types, ConnsSound
<1>2. r \in ConnType
  BY <1>1 DEF ConnType, Stages
<1>3. ConnSound(r)
  BY <1>1 DEF ConnType, ConnSound, Grounded
<1>. QED  BY <1>2, <1>3, OneConn

LEMMA RegisterCut ==
  ASSUME CutInv, NEW c \in Conns, Register(c) \/ PasswdStart(c)
  PROVE  CutInv'
<1>1. conn' \in [Conns -> ConnType] /\ ConnsSound'
  BY StageSound DEF Register, PasswdStart
<1>. QED  BY <1>1, FewerTokens DEF Register, PasswdStart, CutInv, Types, ResetIsPast

LEMMA PasswdCommitCut ==
  ASSUME CutInv, NEW c \in Conns, PasswdCommit(c)
  PROVE  CutInv'
<1> DEFINE u == conn[c].user
           r == [conn[c] EXCEPT !.at = "live", !.proof = pass[u] + 1]
<1>1. conn[c] \in ConnType /\ ConnSound(conn[c]) /\ u \in Users /\ pass[u] \in Nat
      /\ resetTo[u] \in Nat /\ resetTo[u] <= pass[u]
  BY DEF CutInv, Types, ConnType, ConnsSound, ResetIsPast
<1>2. conn' = [conn EXCEPT ![c] = r] /\ conn[c].at = "changing"
  BY DEF PasswdCommit
<1>3. r \in ConnType
  <2>1. pass[u] + 1 \in Nat /\ "live" \in Stages
    BY <1>1 DEF Stages
  <2>. QED  BY <1>1, <2>1 DEF ConnType
<1>4. ConnSound(r)
  BY <1>1, <1>2 DEF ConnType, ConnSound, Grounded
<1>5. conn' \in [Conns -> ConnType] /\ ConnsSound'
  BY <1>2, <1>3, <1>4, OneConn DEF PasswdCommit
<1>6. pass' \in [Users -> Nat] /\ ResetIsPast'
  BY <1>1 DEF PasswdCommit, CutInv, Types, ResetIsPast
<1>. QED  BY <1>5, <1>6, FewerTokens DEF PasswdCommit, CutInv, Types

LEMMA OwnEndCut ==
  ASSUME CutInv, NEW c \in Conns,
         \/ \E t \in Tokens : Revoke(c, t)
         \/ \E all \in BOOLEAN : Logout(c, all)
  PROVE  CutInv'
<1>1. conn' \in [Conns -> ConnType] /\ ConnsSound'
  BY DoomedSound DEF Revoke, Logout
<1>2. tokens' \subseteq tokens
  BY DEF Revoke, Logout
<1>. QED  BY <1>1, <1>2, FewerTokens DEF Revoke, Logout, CutInv, Types, ResetIsPast

\* A reset or a block: what is registered is about to be closed, what is on its
\* way has been overtaken.
LEMMA CutOffSound ==
  ASSUME CutInv, NEW u \in Users, CutOff(u),
         \A v \in Users \ {u} : resetTo'[v] = resetTo[v] /\ (v \in blocked' <=> v \in blocked)
  PROVE  conn' \in [Conns -> ConnType] /\ ConnsSound'
<1>1. ASSUME NEW d \in Conns
      PROVE  conn'[d] \in ConnType /\ ConnSound(conn[d])'
  <2>1. conn[d] \in ConnType /\ ConnSound(conn[d])
    BY DEF CutInv, Types, ConnsSound
  <2>2. CASE d \in InFlight(u)
    <3>1. conn'[d] = [conn[d] EXCEPT !.raced = TRUE] /\ conn[d].at \in {"checking", "authed"}
      BY <2>2 DEF CutOff, InFlight
    <3>. QED  BY <2>1, <3>1 DEF ConnType, ConnSound, Grounded
  <2>3. CASE d \in RegisteredOf(u)
    <3>1. conn'[d] = [conn[d] EXCEPT !.doomed = TRUE] /\ conn[d].at \in {"live", "changing"}
      BY <2>3 DEF CutOff, InFlight, Doomed, RegisteredOf, Registered
    <3>. QED  BY <2>1, <3>1 DEF ConnType, ConnSound, Grounded
  <2>4. CASE d \notin InFlight(u) /\ d \notin RegisteredOf(u)
    <3>1. conn'[d] = conn[d]
      BY <2>4 DEF CutOff, Doomed
    <3>2. CASE conn[d].user = u
      <4>1. conn[d].at \notin {"checking", "authed", "live", "changing"}
        BY <2>4, <3>2 DEF InFlight, RegisteredOf, Registered
      <4>. QED  BY <2>1, <3>1, <4>1 DEF ConnSound
    <3>3. CASE conn[d].user # u
      BY <2>1, <3>1, <3>3 DEF ConnType, ConnSound, Grounded
    <3>. QED  BY <3>2, <3>3
  <2>. QED  BY <2>2, <2>3, <2>4
<1>. QED  BY <1>1 DEF ConnsSound, CutOff

LEMMA AdminResetCut == ASSUME CutInv, NEW u \in Users, AdminReset(u) PROVE CutInv'
<1>1. /\ pass' \in [Users -> Nat] /\ resetTo' \in [Users -> Nat] /\ ResetIsPast'
      /\ \A v \in Users \ {u} : resetTo'[v] = resetTo[v]
  BY DEF AdminReset, CutInv, Types, ResetIsPast
<1>2. conn' \in [Conns -> ConnType] /\ ConnsSound'
  BY <1>1, CutOffSound DEF AdminReset
<1>3. TokensGrounded'
  <2>1. ASSUME NEW t \in tokens'
        PROVE  Grounded(made[t])'
    <3>1. t \in tokens /\ made[t].user # u /\ made[t] \in TokenType
      BY DEF AdminReset, TokensOf, CutInv, Types
    <3>. QED  BY <1>1, <3>1 DEF AdminReset, CutInv, TokensGrounded, Grounded, TokenType
  <2>. QED  BY <2>1 DEF TokensGrounded
<1>. QED  BY <1>1, <1>2, <1>3 DEF AdminReset, CutInv, Types

LEMMA BlockCut == ASSUME CutInv, NEW u \in Users, Block(u) PROVE CutInv'
<1>1. conn' \in [Conns -> ConnType] /\ ConnsSound'
  BY CutOffSound DEF Block
<1>. QED  BY <1>1, FewerTokens DEF Block, CutInv, Types, ResetIsPast

LEMMA UnblockCut == ASSUME CutInv, NEW u \in Users, Unblock(u) PROVE CutInv'
<1>1. ConnsSound'
  BY DEF Unblock, CutInv, ConnsSound, ConnSound, Grounded
<1>. QED  BY <1>1, FewerTokens DEF Unblock, CutInv, Types, ResetIsPast

LEMMA RestartCut == ASSUME CutInv, Constants, Restart PROVE CutInv'
<1>1. ASSUME NEW d \in Conns
      PROVE  conn'[d] \in ConnType /\ ConnSound(conn[d])'
  <2>1. conn'[d] = Fresh(conn[d].user) /\ conn[d].user \in Users
    BY DEF Restart, Closed, CutInv, Types, ConnType
  <2>. QED  BY <2>1 DEF Fresh, NoToken, ConnType, Stages, ConnSound, Constants
<1>2. conn' \in [Conns -> ConnType] /\ ConnsSound'
  BY <1>1 DEF Restart, ConnsSound
<1>. QED  BY <1>2, FewerTokens DEF Restart, CutInv, Types, ResetIsPast

-----------------------------------------------------------------------------
(***************************************************************************)
(* The saved sessions                                                      *)
(***************************************************************************)
LEMMA LeastExists ==
  ASSUME NEW S \in SUBSET Nat, S # {}
  PROVE  \E m \in S : \A x \in S : m <= x
<1> DEFINE R == {ss \in Nat \X Nat : ss[1] < ss[2]}
<1>1. IsWellFoundedOn(R, Nat)
  BY NatLessThanWellFounded DEF OpToRel
<1>2. PICK m \in S : \A x \in S : ~ (<<x, m>> \in R)
  BY <1>1, WFMin
<1>3. ASSUME NEW x \in S, x < m
      PROVE  FALSE
  <2>1. <<x, m>> \in R
    BY <1>3
  <2>. QED  BY <1>2, <2>1
<1>. QED  BY <1>3

\* One too many, and the oldest goes.
LEMMA NewestExist ==
  ASSUME NEW mine \in SUBSET Nat, IsFiniteSet(mine), NEW n \in Nat, Cardinality(mine) = n + 1
  PROVE  \E S \in SUBSET mine :
           /\ Cardinality(S) = n
           /\ \A t \in S, x \in mine \ S : x < t
<1>1. mine # {}
  BY FS_EmptySet
<1>2. PICK m \in mine : \A x \in mine : m <= x
  BY <1>1, LeastExists
<1>3. Cardinality(mine \ {m}) = n
  BY <1>2, FS_RemoveElement
<1>4. \A t \in mine \ {m}, x \in mine \ (mine \ {m}) : x < t
  BY <1>2
<1>. QED  BY <1>3, <1>4

\* A saved session more is kept only within the limit (newSession).
LEMMA KeptBound ==
  ASSUME Constants, NEW mine \in SUBSET Nat, IsFiniteSet(mine),
         SessionsMax > 0 => Cardinality(mine) <= SessionsMax + 1
  PROVE  /\ Kept(mine) \subseteq mine
         /\ IsFiniteSet(Kept(mine))
         /\ SessionsMax > 0 => Cardinality(Kept(mine)) <= SessionsMax
<1>0. Cardinality(mine) \in Nat
  BY FS_CardinalityType
<1>1. Kept(mine) \in SUBSET mine /\ (SessionsMax > 0 => Cardinality(Kept(mine)) <= SessionsMax)
  <2>1. CASE SessionsMax = 0 \/ Cardinality(mine) <= SessionsMax
    BY <2>1 DEF Kept, Constants
  <2>2. CASE SessionsMax > 0 /\ Cardinality(mine) > SessionsMax
    <3>1. Cardinality(mine) = SessionsMax + 1
      BY <1>0, <2>2 DEF Constants
    <3>2. \E S \in SUBSET mine : Cardinality(S) = SessionsMax /\ \A t \in S, x \in mine \ S : x < t
      BY <3>1, NewestExist DEF Constants
    <3>3. Kept(mine) = CHOOSE S \in SUBSET mine :
                         Cardinality(S) = SessionsMax /\ \A t \in S, x \in mine \ S : x < t
      <4>1. ~(SessionsMax = 0 \/ Cardinality(mine) <= SessionsMax)
        BY <1>0, <2>2 DEF Constants
      <4>. QED  BY ONLY <4>1, Zenon DEF Kept
    <3>4. Kept(mine) \in SUBSET mine /\ Cardinality(Kept(mine)) = SessionsMax
      BY <3>2, <3>3
    <3>. QED  BY <3>4 DEF Constants
  <2>. QED  BY <1>0, <2>1, <2>2 DEF Constants
<1>2. IsFiniteSet(Kept(mine))
  BY <1>1, FS_Subset
<1>. QED  BY <1>1, <1>2

LEMMA TokensFinite ==
  ASSUME Types, NEW u \in Users
  PROVE  TokensOf(u) \subseteq 1 .. Len(made) /\ IsFiniteSet(TokensOf(u)) /\ Cardinality(TokensOf(u)) \in Nat
<1>1. TokensOf(u) \subseteq 1 .. Len(made) /\ Len(made) \in Nat
  <2>1. tokens \subseteq 1 .. Len(made) /\ Len(made) \in Nat
    BY DEF Types
  <2>. QED  BY ONLY <2>1 DEF TokensOf
<1>2. IsFiniteSet(1 .. Len(made))
  BY <1>1, FS_Interval
<1>. QED  BY <1>1, <1>2, FS_Subset, FS_CardinalityType

LEMMA FewerSaved ==
  ASSUME Types, SavedBound, tokens' \subseteq tokens, UNCHANGED made
  PROVE  SavedBound'
<1>1. ASSUME NEW u \in Users, SessionsMax > 0
      PROVE  Cardinality(TokensOf(u)') <= SessionsMax
  <2>1. TokensOf(u)' \subseteq TokensOf(u)
    BY DEF TokensOf
  <2>2. Cardinality(TokensOf(u)') <= Cardinality(TokensOf(u)) /\ IsFiniteSet(TokensOf(u)')
    BY <2>1, TokensFinite, FS_Subset
  <2>3. Cardinality(TokensOf(u)') \in Nat /\ Cardinality(TokensOf(u)) \in Nat
    BY <2>2, TokensFinite, FS_CardinalityType
  <2>. QED  BY <1>1, <2>2, <2>3, SessionsAssumption DEF SavedBound
<1>. QED  BY <1>1 DEF SavedBound

LEMMA LoginFinishSaved ==
  ASSUME CutInv, SavedBound, Constants, NEW c \in Conns, LoginFinish(c)
  PROVE  CutInv' /\ SavedBound'
<1>1. PICK u \in Users : u = conn[c].user
  BY DEF CutInv, Types, ConnType
<1> DEFINE t == Len(made) + 1
           new == [user |-> u, proof |-> conn[c].proof, raced |-> conn[c].raced]
           mine == TokensOf(u) \cup {t}
<1>2. /\ made' = Append(made, new) /\ u \notin blocked /\ conn[c].at = "checking"
      /\ tokens' = (tokens \ TokensOf(u)) \cup Kept(mine)
      /\ conn' = [conn EXCEPT ![c] = IF Refused(u) THEN Closed(c) ELSE [conn[c] EXCEPT !.at = "authed"]]
      /\ UNCHANGED <<pass, blocked, resetTo>>
  BY <1>1 DEF LoginFinish
<1>3. conn[c] \in ConnType /\ Grounded(conn[c]) /\ made \in Seq(TokenType) /\ Len(made) \in Nat
  BY <1>2 DEF CutInv, Types, ConnsSound, ConnSound
<1>4. new \in TokenType /\ Grounded(new)
  BY <1>1, <1>3 DEF TokenType, ConnType, Grounded
<1>5. /\ made' \in Seq(TokenType) /\ Len(made') = t /\ made'[t] = new
      /\ \A i \in 1 .. Len(made) : made'[i] = made[i]
  BY <1>2, <1>3, <1>4
<1>6. /\ TokensOf(u) \subseteq 1 .. Len(made) /\ IsFiniteSet(TokensOf(u))
      /\ Cardinality(TokensOf(u)) \in Nat /\ t \notin TokensOf(u)
  BY <1>3, TokensFinite DEF CutInv
<1>7. /\ mine \in SUBSET Nat /\ IsFiniteSet(mine)
      /\ Cardinality(mine) = Cardinality(TokensOf(u)) + 1
  BY <1>3, <1>6, FS_AddElement
<1>8. /\ Kept(mine) \subseteq mine /\ IsFiniteSet(Kept(mine))
      /\ SessionsMax > 0 => Cardinality(Kept(mine)) <= SessionsMax
  <2>1. SessionsMax > 0 => Cardinality(mine) <= SessionsMax + 1
    BY <1>6, <1>7 DEF SavedBound, Constants
  <2>. QED  BY <1>7, <2>1, KeptBound
<1>9. tokens' \subseteq 1 .. Len(made')
  <2>1. tokens \subseteq 1 .. t /\ mine \subseteq 1 .. t
    BY <1>3, <1>6 DEF CutInv, Types
  <2>. QED  BY <1>2, <1>5, <1>8, <2>1
<1>10. TokensGrounded'
  <2>1. ASSUME NEW x \in tokens'
        PROVE  Grounded(made[x])'
    <3>1. CASE x = t
      BY <1>2, <1>4, <1>5, <3>1 DEF Grounded
    <3>2. CASE x # t
      <4>1. x \in tokens /\ x \in 1 .. Len(made)
        BY <1>2, <1>8, <3>2 DEF TokensOf, CutInv, Types
      <4>. QED  BY <1>2, <1>5, <4>1 DEF CutInv, TokensGrounded, Grounded
    <3>. QED  BY <3>1, <3>2
  <2>. QED  BY <2>1 DEF TokensGrounded
<1>11. conn' \in [Conns -> ConnType] /\ ConnsSound'
  <2>1. CASE Refused(u)
    BY <1>1, <1>2, <2>1, OneConn, ClosedSound DEF Closed
  <2>2. CASE ~Refused(u)
    <3>1. [conn[c] EXCEPT !.at = "authed"] \in ConnType
      BY <1>3 DEF ConnType, Stages
    <3>2. ConnSound([conn[c] EXCEPT !.at = "authed"])
      BY <1>1, <1>2, <1>3 DEF ConnType, ConnSound, Grounded
    <3>. QED  BY <1>2, <2>2, <3>1, <3>2, OneConn
  <2>. QED  BY <2>1, <2>2
<1>12. SavedBound'
  <2>1. TokensOf(u)' \subseteq Kept(mine)
    BY <1>2, <1>5, <1>6 DEF TokensOf, CutInv, Types
  <2>2. ASSUME NEW v \in Users, v # u
        PROVE  TokensOf(v)' = TokensOf(v)
    BY <1>2, <1>4, <1>5, <1>6, <1>8, <2>2 DEF TokensOf, CutInv, Types
  <2>3. SessionsMax > 0 => Cardinality(TokensOf(u)') <= SessionsMax
    <3>2. /\ Cardinality(TokensOf(u)') <= Cardinality(Kept(mine)) /\ IsFiniteSet(TokensOf(u)')
          /\ Cardinality(Kept(mine)) \in Nat
      BY <1>8, <2>1, FS_Subset, FS_CardinalityType
    <3>3. Cardinality(TokensOf(u)') \in Nat
      BY <3>2, FS_CardinalityType
    <3>. QED  BY <1>8, <3>2, <3>3 DEF Constants
  <2>. QED  BY <2>2, <2>3 DEF SavedBound
<1>. QED  BY <1>2, <1>5, <1>9, <1>10, <1>11, <1>12 DEF CutInv, Types, ResetIsPast

-----------------------------------------------------------------------------
LEMMA NextSaved == ASSUME CutInv, SavedBound, Constants, [Next]_vars PROVE CutInv' /\ SavedBound'
<1>0. Types
  BY DEF CutInv
<1>1. CASE \E c \in Conns : Step(c)
  <2>1. PICK c \in Conns : Step(c)
    BY <1>1
  <2>2. CASE LoginFinish(c)
    BY <2>2, LoginFinishSaved
  <2>3. CASE \/ \E u \in Users, p \in Passwords : LoginStart(c, u, p)
             \/ \E t \in Tokens : TokenLogin(c, t)
             \/ LoginFail(c) \/ TimerClose(c) \/ Drop(c)
             \/ Register(c) \/ PasswdStart(c) \/ PasswdCommit(c)
    <3>1. CutInv'
      BY <2>3, LoginStartCut, TokenLoginCut, EndCut, RegisterCut, PasswdCommitCut, SMTT(60)
    <3>2. UNCHANGED <<tokens, made>>
      BY <2>3 DEF LoginStart, TokenLogin, LoginFail, TimerClose, Drop, Register, PasswdStart,
                  PasswdCommit
    <3>. QED  BY <1>0, <3>1, <3>2, FewerSaved
  <2>4. CASE \/ \E t \in Tokens : Revoke(c, t)
             \/ \E all \in BOOLEAN : Logout(c, all)
    <3>1. tokens' \subseteq tokens /\ UNCHANGED made
      BY <2>4 DEF Revoke, Logout
    <3>. QED  BY <1>0, <2>4, <3>1, OwnEndCut, FewerSaved
  <2>. QED  BY <2>1, <2>2, <2>3, <2>4 DEF Step
<1>2. CASE \E u \in Users : AdminReset(u) \/ Block(u) \/ Unblock(u)
  <2>1. tokens' \subseteq tokens /\ UNCHANGED made
    BY <1>2 DEF AdminReset, Block, Unblock
  <2>. QED  BY <1>0, <1>2, <2>1, AdminResetCut, BlockCut, UnblockCut, FewerSaved
<1>3. CASE Restart
  <2>1. UNCHANGED <<tokens, made>>
    BY <1>3 DEF Restart
  <2>. QED  BY <1>0, <1>3, <2>1, RestartCut, FewerSaved
<1>4. CASE UNCHANGED vars
  <2>1. CutInv'
    BY <1>4 DEF vars, CutInv, Types, ResetIsPast, TokensGrounded, ConnsSound, ConnSound, Grounded
  <2>2. UNCHANGED <<tokens, made>>
    BY <1>4 DEF vars
  <2>. QED  BY <1>0, <2>1, <2>2, FewerSaved
<1>. QED  BY <1>1, <1>2, <1>3, <1>4 DEF Next

LEMMA InitSaved == ASSUME Init, Constants PROVE SavedBound
BY FS_EmptySet DEF Init, SavedBound, TokensOf, Constants

LEMMA SpecSaved == Spec => [](CutInv /\ SavedBound)
<1>1. Constants
  BY SessionsAssumption DEF Constants
<1>2. Init => CutInv /\ SavedBound
  BY <1>1, InitCut, InitSaved
<1>3. CutInv /\ SavedBound /\ [Next]_vars => (CutInv /\ SavedBound)'
  BY <1>1, NextSaved
<1>. QED  BY <1>2, <1>3, PTL DEF Spec

\* A user never has more than sessions_max saved sessions, however many log in
\* at once (newSession).
THEOREM SessionsSavedBound == Spec => []SavedBound
BY SpecSaved, PTL

\* An administrator's reset logs the user out everywhere, but for the logins
\* that it overtook (usermod).
THEOREM SessionsResetCutsOff == Spec => []ResetCutsOff
<1>1. CutInv => ResetCutsOff
  BY DEF CutInv, TokensGrounded, ConnsSound, ConnSound, Grounded, ResetCutsOff, Registered
<1>. QED  BY <1>1, SpecSaved, PTL

\* Each connection of a blocked account is about to be closed, but for the
\* logins that the block overtook (userban, usermod).
THEOREM SessionsBlockCutsOff == Spec => []BlockCutsOff
<1>1. CutInv => BlockCutsOff
  BY DEF CutInv, ConnsSound, ConnSound, BlockCutsOff, Registered
<1>. QED  BY <1>1, SpecSaved, PTL
=============================================================================
