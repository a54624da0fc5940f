------------------------------ MODULE Sessions ------------------------------
(***************************************************************************)
(* Logging in and being logged out: passwords, saved sessions (tokens) and *)
(* connections.  (authenticate, finishAuth, newSession and handleConn of   *)
(* hub.go; passwd, sessions, logout, userban and usermod of cmds.go.)      *)
(*                                                                         *)
(* A connection is authenticated in one critical section of h.mu and put   *)
(* into h.sessions in a later one; a password is read in one, compared     *)
(* with no lock held, and acted on in a third.  A reset, a ban or another  *)
(* login can come between any two of them.  kickSessions closes a          *)
(* connection 300 ms after it decided to.                                  *)
(*                                                                         *)
(* Abstracted: passwords are numbered in the order they are set and the    *)
(* holder of a session knows the one the session was made with; tokens are *)
(* numbered in the order they are made (the order of CreatedAt, ties       *)
(* aside); rate limits on attempts; guests, who have neither.              *)
(***************************************************************************)
EXTENDS Integers, FiniteSets, Sequences

CONSTANTS
  Users,         (* accounts; who may command what on them is in Channels  *)
  Conns,         (* connections                                            *)
  SessionsMax,   (* limits.sessions_max; 0 is unlimited                    *)
  ConnsPerUser,  (* limits.conns_per_user; 0 is unlimited                  *)
  MaxPass,       (* bound: passwords set, of each account                  *)
  MaxTokens      (* bound: tokens made                                     *)

NoToken == 0
Tokens == 1 .. MaxTokens
Passwords == 1 .. MaxPass

ASSUME SessionsAssumption ==
  /\ {SessionsMax, ConnsPerUser, MaxTokens} \subseteq Nat
  /\ MaxPass \in Nat \ {0}

VARIABLES
  pass,     \* User.Pass
  blocked,  \* User.Status is "banned" or "disabled"
  tokens,   \* State.Sessions: the saved sessions
  made,     \* each token ever made, with its maker's user
  conn,     \* each connection and where its handler is
  resetTo   \* history: the password of the last admin reset, or 1

vars == <<pass, blocked, tokens, made, conn, resetTo>>

(***************************************************************************)
(* Of a connection: its stage; its user; s.sessHash, which only a login    *)
(* with a token sets; and, of the history, the password that stands behind *)
(* it, and whether it was in flight when its account was reset or blocked. *)
(***************************************************************************)
Stages == {"closed", "checking", "failing", "authed", "live", "changing"}
Conn == [at : Stages, user : Users, sess : Tokens \cup {NoToken}, doomed : BOOLEAN,
         proof : Passwords, raced : BOOLEAN]
Token == [user : Users, proof : Passwords, raced : BOOLEAN]

TypeOK ==
  /\ pass \in [Users -> Passwords] /\ resetTo \in [Users -> Passwords]
  /\ blocked \subseteq Users
  /\ tokens \subseteq Tokens
  /\ \E n \in 0 .. MaxTokens : made \in [1 .. n -> Token] /\ tokens \subseteq 1 .. n
  /\ conn \in [Conns -> Conn]

Fresh(u) == [at |-> "closed", user |-> u, sess |-> NoToken, doomed |-> FALSE,
             proof |-> 1, raced |-> FALSE]
Closed(c) == Fresh(conn[c].user)

\* Registered in h.sessions: from the second critical section of handleConn to
\* its last.
Registered(c) == conn[c].at \in {"live", "changing"}
RegisteredOf(u) == {c \in Conns : Registered(c) /\ conn[c].user = u}
TokensOf(u) == {t \in tokens : made[t].user = u}

\* finishAuth counts the connections that are registered, not those that will be.
Refused(u) == ConnsPerUser > 0 /\ Cardinality(RegisteredOf(u)) >= ConnsPerUser

\* The bounds on passwords and tokens are taken where a change begins, so that
\* one under way can always end.
Changing(u) == {c \in Conns : conn[c].at = "changing" /\ conn[c].user = u}
PassLeft(u) == pass[u] + Cardinality(Changing(u)) < MaxPass
TokenLeft == Len(made) + Cardinality({c \in Conns : conn[c].at = "checking"}) < MaxTokens

Init ==
  /\ pass = [u \in Users |-> 1] /\ resetTo = [u \in Users |-> 1]
  /\ blocked = {} /\ tokens = {} /\ made = <<>>
  /\ \E u \in Users : conn = [c \in Conns |-> Fresh(u)]

-----------------------------------------------------------------------------
(***************************************************************************)
(* authenticate                                                            *)
(***************************************************************************)
\* The stored hash is read, the mutex released; the outcome of the comparison
\* is settled here and becomes known later.
LoginStart(c, u, p) ==
  /\ conn[c].at = "closed"
  /\ TokenLeft
  /\ conn' = [conn EXCEPT ![c] =
       [Fresh(u) EXCEPT !.at = IF p = pass[u] THEN "checking" ELSE "failing",
                        !.proof = p]]
  /\ UNCHANGED <<pass, blocked, tokens, made, resetTo>>

\* A wrong password, or an account that was blocked in the meantime.
LoginFail(c) ==
  /\ \/ conn[c].at = "failing"
     \/ conn[c].at = "checking" /\ conn[c].user \in blocked
  /\ conn' = [conn EXCEPT ![c] = Closed(c)]
  /\ UNCHANGED <<pass, blocked, tokens, made, resetTo>>

\* mutated: the oldest are looked for among those there were before.
Kept_Before(mine) ==
  IF SessionsMax = 0 \/ Cardinality(mine) - 1 <= SessionsMax THEN mine
  ELSE CHOOSE S \in SUBSET mine :
         /\ Cardinality(S) = SessionsMax
         /\ \A t \in S, x \in mine \ S : x < t

\* newSession: beyond sessions_max the oldest tokens go.
Kept(mine) ==
  IF SessionsMax = 0 \/ Cardinality(mine) <= SessionsMax THEN mine
  ELSE CHOOSE S \in SUBSET mine :
         /\ Cardinality(S) = SessionsMax
         /\ \A t \in S, x \in mine \ S : x < t

\* mutated: the account is not looked at again after the comparison.
LoginFinish_NoRecheck(c) ==
  LET u == conn[c].user
      t == Len(made) + 1
  IN /\ conn[c].at = "checking"
     /\ made' = Append(made, [user |-> u, proof |-> conn[c].proof, raced |-> conn[c].raced])
     /\ tokens' = (tokens \ TokensOf(u)) \cup Kept(TokensOf(u) \cup {t})
     /\ conn' = [conn EXCEPT ![c] =
          IF Refused(u) THEN Closed(c) ELSE [@ EXCEPT !.at = "authed"]]
     /\ UNCHANGED <<pass, blocked, resetTo>>

\* The token is made before finishAuth may still refuse the connection.
LoginFinish(c) ==
  LET u == conn[c].user
      t == Len(made) + 1
  IN /\ conn[c].at = "checking" /\ u \notin blocked
     /\ made' = Append(made, [user |-> u, proof |-> conn[c].proof, raced |-> conn[c].raced])
     /\ tokens' = (tokens \ TokensOf(u)) \cup Kept(TokensOf(u) \cup {t})
     /\ conn' = [conn EXCEPT ![c] =
          IF Refused(u) THEN Closed(c) ELSE [@ EXCEPT !.at = "authed"]]
     /\ UNCHANGED <<pass, blocked, resetTo>>

\* mutated: a token opens a blocked account.
TokenLogin_Blocked(c, t) ==
  LET u == made[t].user
  IN /\ conn[c].at = "closed"
     /\ t \in tokens /\ ~Refused(u)
     /\ conn' = [conn EXCEPT ![c] =
          [Fresh(u) EXCEPT !.at = "authed", !.sess = t,
                           !.proof = made[t].proof, !.raced = made[t].raced]]
     /\ UNCHANGED <<pass, blocked, tokens, made, resetTo>>

\* A hello with a token: one critical section.
TokenLogin(c, t) ==
  LET u == made[t].user
  IN /\ conn[c].at = "closed"
     /\ t \in tokens /\ u \notin blocked /\ ~Refused(u)
     /\ conn' = [conn EXCEPT ![c] =
          [Fresh(u) EXCEPT !.at = "authed", !.sess = t,
                           !.proof = made[t].proof, !.raced = made[t].raced]]
     /\ UNCHANGED <<pass, blocked, tokens, made, resetTo>>

\* handleConn: the session is registered and told "ok".
Register(c) ==
  /\ conn[c].at = "authed"
  /\ conn' = [conn EXCEPT ![c].at = "live"]
  /\ UNCHANGED <<pass, blocked, tokens, made, resetTo>>

-----------------------------------------------------------------------------
(***************************************************************************)
(* The end of a connection                                                 *)
(***************************************************************************)
\* kickSessions and its like: a last frame now, the end of it later.
Doomed(S) == [c \in Conns |-> IF c \in S THEN [conn[c] EXCEPT !.doomed = TRUE] ELSE conn[c]]

\* The 300 ms are over.  A handler that is busy with a command finishes first.
TimerClose(c) ==
  /\ conn[c].at = "live" /\ conn[c].doomed
  /\ conn' = [conn EXCEPT ![c] = Closed(c)]
  /\ UNCHANGED <<pass, blocked, tokens, made, resetTo>>

\* The client goes, or the network does.
Drop(c) ==
  /\ conn[c].at = "live"
  /\ conn' = [conn EXCEPT ![c] = Closed(c)]
  /\ UNCHANGED <<pass, blocked, tokens, made, resetTo>>

Restart ==
  /\ conn' = [c \in Conns |-> Closed(c)]
  /\ UNCHANGED <<pass, blocked, tokens, made, resetTo>>

-----------------------------------------------------------------------------
(***************************************************************************)
(* Commands of a session on its own account                                *)
(***************************************************************************)
\* passwd: the old password is checked against what was stored a moment ago;
\* both hashings take place with no lock held.
PasswdStart(c) ==
  /\ conn[c].at = "live" /\ conn[c].proof = pass[conn[c].user]
  /\ PassLeft(conn[c].user)
  /\ conn' = [conn EXCEPT ![c].at = "changing"]
  /\ UNCHANGED <<pass, blocked, tokens, made, resetTo>>

PasswdCommit(c) ==
  LET u == conn[c].user
  IN /\ conn[c].at = "changing"
     /\ pass' = [pass EXCEPT ![u] = @ + 1]
     /\ conn' = [conn EXCEPT ![c].at = "live", ![c].proof = pass[u] + 1]
     /\ UNCHANGED <<blocked, tokens, made, resetTo>>

\* sessions revoke=...: another saved session of the same account.
Revoke(c, t) ==
  /\ conn[c].at = "live"
  /\ t \in TokensOf(conn[c].user) \ {conn[c].sess}
  /\ tokens' = tokens \ {t}
  /\ conn' = Doomed({d \in Conns : Registered(d) /\ conn[d].sess = t})
  /\ UNCHANGED <<pass, blocked, made, resetTo>>

\* logout, of this session or of all
Logout(c, all) ==
  LET u == conn[c].user
  IN /\ conn[c].at = "live"
     /\ tokens' = tokens \ (IF all THEN TokensOf(u) ELSE {conn[c].sess})
     /\ conn' = Doomed(IF all THEN RegisteredOf(u) ELSE {c})
     /\ UNCHANGED <<pass, blocked, made, resetTo>>

-----------------------------------------------------------------------------
(***************************************************************************)
(* Commands of an administrator on an account                              *)
(***************************************************************************)
\* History: the logins of u that are under way while it is cut off.
InFlight(u) == {c \in Conns : conn[c].user = u /\ conn[c].at \in {"checking", "authed"}}
CutOff(u) ==
  conn' = [c \in Conns |-> IF c \in InFlight(u) THEN [conn[c] EXCEPT !.raced = TRUE]
                           ELSE Doomed(RegisteredOf(u))[c]]

\* mutated: a reset leaves the saved sessions.
AdminReset_KeepsTokens(u) ==
  /\ PassLeft(u)
  /\ pass' = [pass EXCEPT ![u] = @ + 1]
  /\ resetTo' = [resetTo EXCEPT ![u] = pass[u] + 1]
  /\ CutOff(u)
  /\ UNCHANGED <<blocked, tokens, made>>

\* usermod pass=...
AdminReset(u) ==
  /\ PassLeft(u)
  /\ pass' = [pass EXCEPT ![u] = @ + 1]
  /\ resetTo' = [resetTo EXCEPT ![u] = pass[u] + 1]
  /\ tokens' = tokens \ TokensOf(u)
  /\ CutOff(u)
  /\ UNCHANGED <<blocked, made>>

\* userban, and usermod status=disabled; tokens stay, for when it is lifted.
Block(u) ==
  /\ blocked' = blocked \cup {u}
  /\ CutOff(u)
  /\ UNCHANGED <<pass, tokens, made, resetTo>>

\* userunban, usermod status=active, and a ban running out.
Unblock(u) ==
  /\ u \in blocked
  /\ blocked' = blocked \ {u}
  /\ UNCHANGED <<pass, tokens, made, conn, resetTo>>

-----------------------------------------------------------------------------
Step(c) ==
  \/ \E u \in Users, p \in Passwords : LoginStart(c, u, p)
  \/ \E t \in Tokens : TokenLogin(c, t) \/ Revoke(c, t)
  \/ LoginFail(c) \/ LoginFinish(c) \/ Register(c)
  \/ TimerClose(c) \/ Drop(c)
  \/ PasswdStart(c) \/ PasswdCommit(c)
  \/ \E all \in BOOLEAN : Logout(c, all)

Next ==
  \/ \E c \in Conns : Step(c)
  \/ \E u \in Users : AdminReset(u) \/ Block(u) \/ Unblock(u)
  \/ Restart

Spec == Init /\ [][Next]_vars

(***************************************************************************)
(* The 300 ms pass and an ended connection delivers no command, however    *)
(* many it has delivered before (so strong fairness); hashing a password   *)
(* ends; a handler goes on once it has the mutex.  Nobody need log in,     *)
(* drop a connection or command anything.                                  *)
(***************************************************************************)
Fairness ==
  \A c \in Conns :
    /\ SF_vars(TimerClose(c))
    /\ WF_vars(PasswdCommit(c))
    /\ WF_vars(LoginFail(c) \/ LoginFinish(c))
    /\ WF_vars(Register(c))

FairSpec == Spec /\ Fairness

-----------------------------------------------------------------------------
(***************************************************************************)
(* Properties                                                              *)
(***************************************************************************)
\* A user has at most sessions_max saved sessions, whatever logs in at once
\* (newSession).
SavedBound == SessionsMax > 0 => \A u \in Users : Cardinality(TokensOf(u)) <= SessionsMax

\* A password reset by an administrator "logs the user out everywhere"
\* (usermod): no saved session, and no connection that is not about to be
\* closed, rests on a password from before it.  Logins that were under way
\* during the reset are excepted: the code lets them through.
ResetCutsOff ==
  /\ \A t \in tokens : made[t].raced \/ made[t].proof >= resetTo[made[t].user]
  /\ \A c \in Conns : Registered(c) /\ ~conn[c].doomed =>
       conn[c].raced \/ conn[c].proof >= resetTo[conn[c].user]

\* While an account is banned or disabled, each of its connections is about to
\* be closed, with the same exception (userban, usermod, authenticate).
BlockCutsOff ==
  \A c \in Conns : Registered(c) /\ conn[c].user \in blocked => conn[c].doomed \/ conn[c].raced

\* An account that stays blocked ends without connections, except by a login
\* that was under way when it was blocked (kickSessions and its timers).
BlockedOut ==
  \A u \in Users :
    <>[](u \in blocked) => <>[](\A c \in RegisteredOf(u) : conn[c].raced)
=============================================================================
