------------------------------ MODULE Delivery ------------------------------
(***************************************************************************)
(* How the messages of one channel reach the devices of one member: what   *)
(* the hub pushes to a session and replays to a new one (post, toChan,     *)
(* subscribe, handleSub and handleRead of hub.go), and what the client     *)
(* does with it (connectLoop, onOK, applyInfo, onMsg, renderMsg, markRead  *)
(* and flushReads of client.go).                                           *)
(*                                                                         *)
(* A connection is a queue of frames each way.  When it ends, the client   *)
(* still handles the frames it had got so far: they wait in its channel    *)
(* `events`.  A frame pushed to a session whose queue is full is dropped   *)
(* and the connection closed, which is a Drop that comes just before it.   *)
(*                                                                         *)
(* Abstracted: the channel does not expire messages, and the hub keeps     *)
(* more of them than it replays (Store has both); the client is in this    *)
(* one channel, and looks at it or away; texts, files and unread counts.   *)
(***************************************************************************)
EXTENDS Integers, FiniteSetsExt, SequencesExt

CONSTANTS
  Devices,    (* devices of the member                                      *)
  Elsewhere,  (* another device of the member, if any                       *)
  ReplayCap,  (* replayCap                                                  *)
  MaxMsgs,    (* bound: messages posted                                     *)
  MaxQueue    (* bound: frames on their way to a device                     *)

ASSUME DeliveryAssumption ==
  /\ Elsewhere \notin Devices
  /\ {ReplayCap, MaxMsgs, MaxQueue} \subseteq Nat

Ids == 1 .. MaxMsgs

VARIABLES
  live,      \* the messages in the channel
  tomb,      \* the ids of those deleted or purged
  last,      \* the newest id posted
  read,      \* Membership.LastRead
  up,        \* of each device: the hub has a session for it
  subbed,    \* the session is subscribed (session.subs)
  toClient,  \* frames from the hub, including those in `events`
  toHub,     \* frames from the client
  lastID, lastRead, dirty,  \* chanState.lastID and .lastRead; readDirty, 0 if none
  active,    \* the channel is the one the user looks at
  view,      \* the messages in the scrollback
  base,      \* history: what the last subscription was asked to begin after
  unheard,   \* history: removals the device has not been told of
  readAt     \* history: LastRead when the session began

hubVars == <<live, tomb, last, read>>
chanVars == <<lastID, lastRead, dirty, active, view>>
history == <<base, unheard, readAt>>
vars == <<hubVars, up, subbed, toClient, toHub, chanVars, history>>

Frame == [t : {"ok", "msg", "gone", "synced", "read"}, n : 0 .. MaxMsgs,
          ids : SUBSET Ids, hist : BOOLEAN]
Request == [t : {"sub", "read"}, n : 0 .. MaxMsgs]

TypeOK ==
  /\ live \subseteq Ids /\ tomb \subseteq Ids /\ live \cap tomb = {}
  /\ last \in 0 .. MaxMsgs /\ read \in 0 .. MaxMsgs
  /\ up \in [Devices -> BOOLEAN] /\ subbed \in [Devices -> BOOLEAN]
  /\ toClient \in [Devices -> Seq(Frame)] /\ toHub \in [Devices -> Seq(Request)]
  /\ lastID \in [Devices -> 0 .. MaxMsgs] /\ lastRead \in [Devices -> 0 .. MaxMsgs]
  /\ dirty \in [Devices -> 0 .. MaxMsgs] /\ active \in [Devices -> BOOLEAN]
  /\ view \in [Devices -> SUBSET Ids] /\ unheard \in [Devices -> SUBSET Ids]
  /\ base \in [Devices -> 0 .. MaxMsgs] /\ readAt \in [Devices -> 0 .. MaxMsgs]

Info(t, n) == [t |-> t, n |-> n, ids |-> {}, hist |-> FALSE]
MsgFrame(m, hist) == [t |-> "msg", n |-> m, ids |-> {}, hist |-> hist]
Gone(M, hist) == [t |-> "gone", n |-> 0, ids |-> M, hist |-> hist]

\* Messages and tombstones make up h.msgs; lastID is the id of its last entry.
Log == live \cup tomb
Newest == Max(Log \cup {0})

Larger(a, b) == IF a > b THEN a ELSE b

Room(d) == Len(toClient[d]) < MaxQueue
Attached(d) == up[d] /\ subbed[d]

\* toChan
ToChan(f) ==
  toClient' = [d \in Devices |-> IF Attached(d) THEN Append(toClient[d], f) ELSE toClient[d]]

Init ==
  /\ live = {} /\ tomb = {} /\ last = 0 /\ read = 0
  /\ up = [d \in Devices |-> FALSE] /\ subbed = up
  /\ toClient = [d \in Devices |-> <<>>] /\ toHub = toClient
  /\ lastID = [d \in Devices |-> 0] /\ lastRead = lastID /\ dirty = lastID
  /\ active \in [Devices -> BOOLEAN]
  /\ view = [d \in Devices |-> {}] /\ unheard = view
  /\ base = lastID /\ readAt = lastID

-----------------------------------------------------------------------------
(***************************************************************************)
(* The hub                                                                 *)
(***************************************************************************)
\* post, whoever posts
Post ==
  /\ last < MaxMsgs /\ \A d \in Devices : Room(d)
  /\ last' = last + 1
  /\ live' = live \cup {last + 1}
  /\ ToChan(MsgFrame(last + 1, FALSE))
  /\ UNCHANGED <<tomb, read, up, subbed, toHub, chanVars, history>>

\* mutated: of several messages only one is announced.
Delete_OneTold(M) ==
  /\ M # {} /\ M \subseteq live /\ \A d \in Devices : Room(d)
  /\ live' = live \ M
  /\ tomb' = tomb \cup M
  /\ ToChan(Gone({Max(M)}, FALSE))
  /\ unheard' = [d \in Devices |-> unheard[d] \cup IF Attached(d) THEN {} ELSE M]
  /\ UNCHANGED <<last, read, up, subbed, toHub, chanVars, base, readAt>>

\* mutated: a tombstone is added, the message stays.
Delete_Keeps(M) ==
  /\ M # {} /\ M \subseteq live /\ \A d \in Devices : Room(d)
  /\ tomb' = tomb \cup M
  /\ ToChan(Gone(M, FALSE))
  /\ unheard' = [d \in Devices |-> unheard[d] \cup IF Attached(d) THEN {} ELSE M]
  /\ UNCHANGED <<live, last, read, up, subbed, toHub, chanVars, base, readAt>>

\* del and purge: each message becomes a tombstone in its place.
Delete(M) ==
  /\ M # {} /\ M \subseteq live /\ \A d \in Devices : Room(d)
  /\ live' = live \ M
  /\ tomb' = tomb \cup M
  /\ ToChan(Gone(M, FALSE))
  /\ unheard' = [d \in Devices |-> unheard[d] \cup IF Attached(d) THEN {} ELSE M]
  /\ UNCHANGED <<last, read, up, subbed, toHub, chanVars, base, readAt>>

\* A device connects and is told "ok", with the channel's newest id.
Connect(d) ==
  /\ ~up[d] /\ Room(d)
  /\ up' = [up EXCEPT ![d] = TRUE]
  /\ toClient' = [toClient EXCEPT ![d] = Append(@, Info("ok", Newest))]
  /\ readAt' = [readAt EXCEPT ![d] = read]
  /\ UNCHANGED <<hubVars, subbed, toHub, chanVars, base, unheard>>

\* History: the removals among frames that are lost.
Untold(fs) == UNION {fs[i].ids : i \in DOMAIN fs}

\* The connection ends: some of the frames had been received.
Drop(d, n) ==
  /\ up[d] /\ n \in 0 .. Len(toClient[d])
  /\ up' = [up EXCEPT ![d] = FALSE]
  /\ subbed' = [subbed EXCEPT ![d] = FALSE]
  /\ toClient' = [toClient EXCEPT ![d] = SubSeq(@, 1, n)]
  /\ toHub' = [toHub EXCEPT ![d] = <<>>]
  /\ unheard' = [unheard EXCEPT ![d] =
       @ \cup Untold(SubSeq(toClient[d], n + 1, Len(toClient[d])))]
  /\ base' = [base EXCEPT ![d] = 0]
  /\ readAt' = [readAt EXCEPT ![d] = 0]
  /\ UNCHANGED <<hubVars, chanVars>>

\* mutated: off by one.
After_Skips(since) == {m \in Log : m > since + 1}

\* subscribe: what comes after `since`, at most ReplayCap of it.
After(since) == {m \in Log : m > since}
Replayed(since) ==
  {m \in After(since) : Cardinality({x \in After(since) : x >= m}) <= ReplayCap}
ReplayFrame(m) == IF m \in live THEN MsgFrame(m, TRUE) ELSE Gone({m}, TRUE)
InOrder(S) ==
  CHOOSE s \in [1 .. Cardinality(S) -> S] : \A i, j \in DOMAIN s : i < j => s[i] < s[j]
Replay(since) ==
  LET ms == InOrder(Replayed(since))
  IN [i \in DOMAIN ms |-> ReplayFrame(ms[i])]

\* handleSub; the subscription reaches from there to the future.
HandleSub(d) ==
  LET since == Head(toHub[d]).n
      from == Max({0} \cup {m \in Log : m <= since} \cup (After(since) \ Replayed(since)))
  IN /\ up[d] /\ toHub[d] # <<>> /\ Head(toHub[d]).t = "sub"
     /\ toHub' = [toHub EXCEPT ![d] = Tail(@)]
     /\ subbed' = [subbed EXCEPT ![d] = TRUE]
     /\ toClient' = [toClient EXCEPT ![d] =
          Append(@ \o Replay(since), Info("synced", Newest))]
     /\ base' = [base EXCEPT ![d] = from]
     /\ unheard' = [unheard EXCEPT ![d] = {m \in @ : m <= from}]
     /\ UNCHANGED <<hubVars, up, chanVars, readAt>>

\* mutated: only devices that are subscribed are told.
Record_Subscribed(n, d) ==
  /\ read' = n
  /\ toClient' = [e \in Devices |->
       IF Attached(e) /\ e # d THEN Append(toClient[e], Info("read", n)) ELSE toClient[e]]

\* handleRead, where it is news; the other devices of the member are told.
Record(n, d) ==
  /\ read' = n
  /\ toClient' = [e \in Devices |->
       IF up[e] /\ e # d THEN Append(toClient[e], Info("read", n)) ELSE toClient[e]]

HandleRead(d) ==
  LET n == Head(toHub[d]).n
  IN /\ up[d] /\ toHub[d] # <<>> /\ Head(toHub[d]).t = "read"
     /\ toHub' = [toHub EXCEPT ![d] = Tail(@)]
     /\ IF n > read THEN Record(n, d) ELSE UNCHANGED <<read, toClient>>
     /\ UNCHANGED <<live, tomb, last, up, subbed, chanVars, history>>

\* The member reads on a device that is none of Devices.
ReadElsewhere(n) ==
  /\ read < n /\ n <= Newest /\ \A d \in Devices : Room(d)
  /\ Record(n, Elsewhere)
  /\ UNCHANGED <<live, tomb, last, up, subbed, toHub, chanVars, history>>

-----------------------------------------------------------------------------
(***************************************************************************)
(* The client: one goroutine handles frames, keys and the tick             *)
(***************************************************************************)
\* write: to the connection of the moment, if there is one.
Written(d, r) == IF up[d] THEN [toHub EXCEPT ![d] = Append(@, r)] ELSE toHub

Handles(d, t) ==
  /\ toClient[d] # <<>> /\ Head(toClient[d]).t = t
  /\ toClient' = [toClient EXCEPT ![d] = Tail(@)]
  /\ UNCHANGED <<hubVars, up, subbed, history, active>>

\* mutated: no subscription where nothing is new.
OnOK_IfNew(d) ==
  LET n == Larger(lastID[d], Head(toClient[d]).n)
  IN /\ Handles(d, "ok")
     /\ lastID' = [lastID EXCEPT ![d] = n]
     /\ toHub' = IF n > lastID[d] THEN Written(d, [t |-> "sub", n |-> n]) ELSE toHub
     /\ UNCHANGED <<lastRead, dirty, view>>

\* onOK and applyInfo: the subscription begins after the newest id there is.
OnOK(d) ==
  LET n == Larger(lastID[d], Head(toClient[d]).n)
  IN /\ Handles(d, "ok")
     /\ lastID' = [lastID EXCEPT ![d] = n]
     /\ toHub' = Written(d, [t |-> "sub", n |-> n])
     /\ UNCHANGED <<lastRead, dirty, view>>

\* markRead, once lastID is n
MarkRead(d, n) ==
  IF n > lastRead[d]
  THEN lastRead' = [lastRead EXCEPT ![d] = n] /\ dirty' = [dirty EXCEPT ![d] = n]
  ELSE UNCHANGED <<lastRead, dirty>>

OnMsg(d) ==
  LET f == Head(toClient[d])
      n == Larger(lastID[d], f.n)
  IN /\ Handles(d, "msg")
     /\ lastID' = [lastID EXCEPT ![d] = n]
     /\ view' = [view EXCEPT ![d] = @ \cup {f.n}]
     /\ IF active[d] /\ ~f.hist THEN MarkRead(d, n) ELSE UNCHANGED <<lastRead, dirty>>
     /\ UNCHANGED toHub

\* What has been marked is sent at once, as flushReads does on every tick.
OnSynced(d) ==
  LET n == Larger(lastID[d], Head(toClient[d]).n)
      r == IF n > lastRead[d] THEN n ELSE dirty[d]
  IN /\ Handles(d, "synced")
     /\ lastID' = [lastID EXCEPT ![d] = n]
     /\ IF active[d]
        THEN /\ lastRead' = [lastRead EXCEPT ![d] = Larger(@, n)]
             /\ toHub' = IF r > 0 THEN Written(d, [t |-> "read", n |-> r]) ELSE toHub
             /\ dirty' = [dirty EXCEPT ![d] = IF up[d] THEN 0 ELSE r]
        ELSE UNCHANGED <<lastRead, dirty, toHub>>
     /\ UNCHANGED view

\* deleted and purged, and tombstones that are replayed: forget
OnGone(d) ==
  /\ Handles(d, "gone")
  /\ view' = [view EXCEPT ![d] = @ \ Head(toClient[d]).ids]
  /\ UNCHANGED <<toHub, lastID, lastRead, dirty>>

OnRead(d) ==
  /\ Handles(d, "read")
  /\ lastRead' = [lastRead EXCEPT ![d] = Larger(@, Head(toClient[d]).n)]
  /\ UNCHANGED <<toHub, lastID, dirty, view>>

\* flushReads, every two seconds
Flush(d) ==
  /\ up[d] /\ dirty[d] > 0
  /\ toHub' = [toHub EXCEPT ![d] = Append(@, [t |-> "read", n |-> dirty[d]])]
  /\ dirty' = [dirty EXCEPT ![d] = 0]
  /\ UNCHANGED <<hubVars, up, subbed, toClient, lastID, lastRead, active, view, history>>

\* switchTo this channel, or another
Look(d) ==
  /\ active' = [active EXCEPT ![d] = ~@]
  /\ IF active[d] THEN UNCHANGED <<lastRead, dirty>> ELSE MarkRead(d, lastID[d])
  /\ UNCHANGED <<hubVars, up, subbed, toClient, toHub, lastID, view, history>>

\* The program ends and is started again; the scrollback is not kept.
Reopen(d) ==
  /\ ~up[d]
  /\ toClient' = [toClient EXCEPT ![d] = <<>>]
  /\ lastID' = [lastID EXCEPT ![d] = 0]
  /\ lastRead' = [lastRead EXCEPT ![d] = 0]
  /\ dirty' = [dirty EXCEPT ![d] = 0]
  /\ view' = [view EXCEPT ![d] = {}]
  /\ unheard' = [unheard EXCEPT ![d] = {}]
  /\ UNCHANGED <<hubVars, up, subbed, toHub, active, base, readAt>>

-----------------------------------------------------------------------------
HubStep(d) == HandleSub(d) \/ HandleRead(d)
ClientStep(d) == OnOK(d) \/ OnMsg(d) \/ OnSynced(d) \/ OnGone(d) \/ OnRead(d)

Next ==
  \/ Post
  \/ \E M \in SUBSET Ids : Delete(M)
  \/ \E n \in Ids : ReadElsewhere(n)
  \/ \E d \in Devices :
       \/ HubStep(d) \/ ClientStep(d)
       \/ Flush(d) \/ Look(d) \/ Reopen(d) \/ Connect(d)
       \/ \E n \in 0 .. Len(toClient[d]) : Drop(d, n)

Spec == Init /\ [][Next]_vars

\* The handlers of the hub go on once they have the mutex; the client handles
\* what has arrived.  Connections may come and go or stay away.
FairSpec == Spec /\ \A d \in Devices : WF_vars(HubStep(d)) /\ WF_vars(ClientStep(d))

-----------------------------------------------------------------------------
(***************************************************************************)
(* Properties                                                              *)
(***************************************************************************)
InFlight(d, t) == {i \in DOMAIN toClient[d] : toClient[d][i].t = t}
MsgsComing(d) == {toClient[d][i].n : i \in InFlight(d, "msg")}
GoneComing(d) == UNION {toClient[d][i].ids : i \in InFlight(d, "gone")}
ReadsComing(d) == {toClient[d][i].n : i \in InFlight(d, "read")}

\* A subscription leaves no gap between what it replays and what is pushed
\* from then on: every message after its beginning is shown or on its way
\* (subscribe and post, whatever comes between them).
NoGap ==
  \A d \in Devices : Attached(d) =>
    \A m \in live : m > base[d] => m \in view[d] \cup MsgsComing(d)

\* A message that is shown though it was removed is one whose removal is on its
\* way, or was sent while the device was not subscribed and not replayed since.
NoGhost == \A d \in Devices : view[d] \ live \subseteq GoneComing(d) \cup unheard[d]

\* The other devices of a member hear how far it has read: one that was
\* connected at the time has marked it, or will (handleRead, toUser).
ReadHeard ==
  \A d \in Devices : up[d] => read <= Max({readAt[d], lastRead[d]} \cup ReadsComing(d))

\* A device that stays connected ends subscribed, and shows everything after
\* the beginning of its subscription.
Settles ==
  \A d \in Devices :
    <>[]up[d] => <>[](subbed[d] /\ \A m \in live : m > base[d] => m \in view[d])

\* README.md:75 and 236: a device that comes back shows "exactly the gap".
\* Once all is quiet it shows whatever came after a message it has.
\* (Violated: applyInfo raises lastID to the newest id before the subscription
\* is asked to begin after lastID, so that what was missed is never replayed.)
Quiet(d) == Attached(d) /\ toClient[d] = <<>> /\ toHub[d] = <<>>
GapReplayed ==
  \A d \in Devices : Quiet(d) =>
    \A m \in live : (\E x \in view[d] : x < m) => m \in view[d]

\* The promise of Feed.
Promise == INSTANCE Feed WITH live <- live, last <- last, view <- view, read <- read
FeedSpec == Promise!Spec
=============================================================================
