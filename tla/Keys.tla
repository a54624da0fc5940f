-------------------------------- MODULE Keys --------------------------------
(***************************************************************************)
(* The key of an end-to-end encrypted channel: who makes it, how a device  *)
(* asks for it and is given it, and how it is rotated (e2e_client.go; what *)
(* the hub relays is in handleKeyReq and handleKeyShare of hub.go, and in  *)
(* create, e2epeers and e2erotate of cmds.go).                             *)
(*                                                                         *)
(* The hub counts epochs and never sees a key.  A device keeps the keys it *)
(* has by the channel's name and the epoch, for good; whether it has asked *)
(* for one it forgets only with the channel.  Requests and answers go      *)
(* through two queues each, and are lost with a connection.                *)
(*                                                                         *)
(* Abstracted: one channel name; wrapping (a wrapped key opens on the      *)
(* device it was wrapped for); rate limits on requests; messages; who may  *)
(* kick and add (Channels has that).  The rotation that follows a kick by  *)
(* itself is one of the Rotates.                                           *)
(***************************************************************************)
EXTENDS Integers, FiniteSetsExt, SequencesExt

CONSTANTS
  Devices, Users,
  Owner,      (* whose device each is                                      *)
  MaxEpoch,   (* bound: epochs                                             *)
  MaxKeys,    (* bound: keys made                                          *)
  MaxQueue,   (* bound: frames on their way to a device                    *)
  MaxCreates, (* bound: how often the channel is created                   *)
  MaxMoves    (* bound: commands given and connections lost                *)

ASSUME KeysAssumption ==
  /\ Owner \in [Devices -> Users] /\ IsFiniteSet(Devices)
  /\ {MaxEpoch, MaxKeys, MaxQueue, MaxCreates, MaxMoves} \subseteq Nat
  /\ MaxEpoch >= 1 /\ MaxKeys >= MaxEpoch * MaxCreates

None == 0
Keys == 1 .. MaxKeys
Epochs == 1 .. MaxEpoch

VARIABLES
  epoch,     \* Channel.KeyEpoch, 0 while there is no such channel
  members,   \* users of rank member and more
  up,        \* of each device: the hub has a session for it
  subbed,    \* the session is subscribed
  toClient,  \* frames from the hub
  toHub,     \* frames from the client
  know,      \* chanState.epoch, 0 while the client has no such channel
  asked,     \* chanState.keyReqSent
  keys,      \* Config.E2EKeys
  made,      \* history: how many keys have been made
  creates,   \* history: how often the channel has been created
  moves,     \* history: how many commands, and connections lost
  entitled   \* history: who has been a member in each epoch or a later one

hubVars == <<epoch, members, creates, entitled>>
clientVars == <<know, asked, keys, made>>
vars == <<moves, hubVars, clientVars, up, subbed, toClient, toHub>>

Frame ==
  [t : {"info", "created", "join", "keyreq", "keyshare", "rotated", "peers", "gone"},
   e : 0 .. MaxEpoch, k : {None} \cup Keys, who : SUBSET (Devices \cup Users)]
Request == [t : {"sub", "keyreq", "keyshare", "rotate", "peers"},
            e : 0 .. MaxEpoch, k : {None} \cup Keys, who : SUBSET Devices]

TypeOK ==
  /\ epoch \in 0 .. MaxEpoch /\ members \subseteq Users
  /\ up \in [Devices -> BOOLEAN] /\ subbed \in [Devices -> BOOLEAN]
  /\ \A d \in Devices : subbed[d] => up[d] /\ Owner[d] \in members /\ epoch > 0
  /\ toClient \in [Devices -> Seq(Frame)] /\ toHub \in [Devices -> Seq(Request)]
  /\ know \in [Devices -> 0 .. MaxEpoch] /\ asked \in [Devices -> BOOLEAN]
  /\ keys \in [Devices -> [Epochs -> {None} \cup Keys]]
  /\ made \in 0 .. MaxKeys /\ creates \in 0 .. MaxCreates /\ moves \in 0 .. MaxMoves
  /\ entitled \in [Epochs -> SUBSET Users]

F(t, e, k, who) == [t |-> t, e |-> e, k |-> k, who |-> who]
Room(d) == Len(toClient[d]) < MaxQueue
Has(d, e) == e \in Epochs /\ keys[d][e] # None
Member(d) == epoch > 0 /\ Owner[d] \in members
\* A step that is the user's or the network's.
Move == moves < MaxMoves /\ moves' = moves + 1

DevicesOf(u) == {d \in Devices : Owner[d] = u}

\* One frame for every device of a set.
Push(S, f) == toClient' = [d \in Devices |-> IF d \in S THEN Append(toClient[d], f) ELSE toClient[d]]

\* History: members count for every epoch up to the current one.
Entitle(ms, e) == entitled' = [x \in Epochs |-> entitled[x] \cup IF x <= e THEN ms ELSE {}]

Init ==
  /\ epoch = 0 /\ members = {} /\ creates = 0 /\ made = 0 /\ moves = 0
  /\ up = [d \in Devices |-> FALSE] /\ subbed = up /\ asked = up
  /\ toClient = [d \in Devices |-> <<>>] /\ toHub = toClient
  /\ know = [d \in Devices |-> 0]
  /\ keys = [d \in Devices |-> [e \in Epochs |-> None]]
  /\ entitled = [e \in Epochs |-> {}]

-----------------------------------------------------------------------------
(***************************************************************************)
(* Commands that change who is in the channel                              *)
(***************************************************************************)
\* create e2e=on
Create(d) ==
  /\ Move
  /\ epoch = 0 /\ up[d] /\ Room(d) /\ creates < MaxCreates
  /\ epoch' = 1 /\ members' = {Owner[d]} /\ creates' = creates + 1
  /\ Entitle({Owner[d]}, 1)
  /\ Push({d}, F("created", 1, None, {}))
  /\ UNCHANGED <<clientVars, up, subbed, toHub>>

\* delete: whoever is there is told that it is gone.
Delete ==
  /\ Move
  /\ epoch > 0 /\ \A d \in Devices : Room(d)
  /\ epoch' = 0 /\ members' = {}
  /\ subbed' = [d \in Devices |-> FALSE]
  /\ Push({d \in Devices : up[d] /\ Owner[d] \in members}, F("gone", 0, None, {}))
  /\ UNCHANGED <<clientVars, creates, entitled, up, toHub>>

\* add, and join for all it matters here
AddMember(u) ==
  /\ Move
  /\ epoch > 0 /\ u \notin members /\ \A d \in DevicesOf(u) : Room(d)
  /\ members' = members \cup {u}
  /\ Entitle({u}, epoch)
  /\ Push({d \in DevicesOf(u) : up[d]}, F("info", epoch, None, {}))
  /\ UNCHANGED <<clientVars, epoch, creates, up, subbed, toHub>>

\* mutated: the sessions of the one kicked stay subscribed.
Kick_StaysSubbed(u) ==
  /\ Move
  /\ u \in members /\ members # {u} /\ \A d \in DevicesOf(u) : Room(d)
  /\ members' = members \ {u}
  /\ Push({d \in DevicesOf(u) : up[d]}, F("gone", 0, None, {}))
  /\ UNCHANGED <<clientVars, epoch, creates, entitled, up, subbed, toHub>>

\* kick and ban; one member stays.
Kick(u) ==
  /\ Move
  /\ u \in members /\ members # {u} /\ \A d \in DevicesOf(u) : Room(d)
  /\ members' = members \ {u}
  /\ subbed' = [d \in Devices |-> subbed[d] /\ Owner[d] # u]
  /\ Push({d \in DevicesOf(u) : up[d]}, F("gone", 0, None, {}))
  /\ UNCHANGED <<clientVars, epoch, creates, entitled, up, toHub>>

-----------------------------------------------------------------------------
(***************************************************************************)
(* Connections                                                             *)
(***************************************************************************)
Connect(d) ==
  /\ ~up[d] /\ Room(d)
  /\ up' = [up EXCEPT ![d] = TRUE]
  /\ Push({d}, F("info", IF Member(d) THEN epoch ELSE 0, None, {}))
  /\ UNCHANGED <<hubVars, clientVars, subbed, toHub, moves>>

\* Some of the frames had been received.
Drop(d, n) ==
  /\ Move
  /\ up[d] /\ n \in 0 .. Len(toClient[d])
  /\ up' = [up EXCEPT ![d] = FALSE]
  /\ subbed' = [subbed EXCEPT ![d] = FALSE]
  /\ toClient' = [toClient EXCEPT ![d] = SubSeq(@, 1, n)]
  /\ toHub' = [toHub EXCEPT ![d] = <<>>]
  /\ UNCHANGED <<hubVars, clientVars>>

-----------------------------------------------------------------------------
(***************************************************************************)
(* The hub                                                                 *)
(***************************************************************************)
Serves(d, t) ==
  /\ up[d] /\ toHub[d] # <<>> /\ Head(toHub[d]).t = t
  /\ toHub' = [toHub EXCEPT ![d] = Tail(@)]
  /\ UNCHANGED <<clientVars, up, moves>>

\* subscribe: others hear of it if the user is there with no other device.
HandleSub(d) ==
  /\ Serves(d, "sub")
  /\ IF Member(d)
     THEN /\ subbed' = [subbed EXCEPT ![d] = TRUE]
          /\ IF \E x \in DevicesOf(Owner[d]) \ {d} : subbed[x]
             THEN UNCHANGED toClient
             ELSE Push({x \in Devices : subbed'[x]}, F("join", 0, None, {Owner[d]}))
     ELSE UNCHANGED <<subbed, toClient>>
  /\ UNCHANGED hubVars

HandleKeyReq(d) ==
  /\ Serves(d, "keyreq")
  /\ Push({x \in Devices \ {d} : Member(d) /\ subbed[x]},
          F("keyreq", Head(toHub[d]).e, None, {d}))
  /\ UNCHANGED <<hubVars, subbed>>

\* mutated: a key is passed on to sessions that are subscribed.
HandleKeyShare_Subscribed(d) ==
  LET r == Head(toHub[d])
  IN /\ Serves(d, "keyshare")
     /\ Push({x \in r.who : Member(d) /\ Member(x) /\ subbed[x]}, F("keyshare", r.e, r.k, {}))
     /\ UNCHANGED <<hubVars, subbed>>

\* Both the sender and the one it is for have to be members now.
HandleKeyShare(d) ==
  LET r == Head(toHub[d])
  IN /\ Serves(d, "keyshare")
     /\ Push({x \in r.who : Member(d) /\ Member(x) /\ up[x]}, F("keyshare", r.e, r.k, {}))
     /\ UNCHANGED <<hubVars, subbed>>

\* e2epeers: the devices of members that are connected, subscribed or not.
HandlePeers(d) ==
  LET r == Head(toHub[d])
  IN /\ Serves(d, "peers")
     /\ Push({x \in {d} : Member(d)}, F("peers", r.e, r.k, {x \in Devices : Member(x) /\ up[x]}))
     /\ UNCHANGED <<hubVars, subbed>>

\* mutated: the reply carries the epoch that was.
HandleRotate_Old(d) ==
  /\ Serves(d, "rotate")
  /\ IF Member(d) /\ epoch < MaxEpoch
     THEN /\ epoch' = epoch + 1
          /\ Entitle(members, epoch + 1)
          /\ Push({d}, F("rotated", epoch, None, {}))
     ELSE UNCHANGED <<epoch, entitled, toClient>>
  /\ UNCHANGED <<members, creates, subbed>>

\* e2erotate: only the one who asked is told.
HandleRotate(d) ==
  /\ Serves(d, "rotate")
  /\ IF Member(d) /\ epoch < MaxEpoch
     THEN /\ epoch' = epoch + 1
          /\ Entitle(members, epoch + 1)
          /\ Push({d}, F("rotated", epoch + 1, None, {}))
     ELSE UNCHANGED <<epoch, entitled, toClient>>
  /\ UNCHANGED <<members, creates, subbed>>

-----------------------------------------------------------------------------
(***************************************************************************)
(* The client                                                              *)
(***************************************************************************)
Write(d, rs) == toHub' = [toHub EXCEPT ![d] = IF up[d] THEN @ \o rs ELSE @]
Handles(d, t) ==
  /\ toClient[d] # <<>> /\ Head(toClient[d]).t = t
  /\ toClient' = [toClient EXCEPT ![d] = Tail(@)]
  /\ UNCHANGED <<hubVars, up, subbed, moves>>

Sub == <<F("sub", 0, None, {})>>
KeyReq(e) == <<F("keyreq", e, None, {})>>
Larger(a, b) == IF a > b THEN a ELSE b

\* maybeRequestKey, where `waiting` is keyReqSent and e the epoch it knows of;
\* `then` is what else is written.
MaybeRequestKey(d, e, waiting, then) ==
  LET ask == e > 0 /\ ~Has(d, e) /\ ~waiting
  IN /\ asked' = [asked EXCEPT ![d] = waiting \/ ask]
     /\ Write(d, IF ask THEN KeyReq(e) \o then ELSE then)

\* The channel in "ok" or "invited" (applyInfo), or "ok" without it.  The key is
\* asked for before the subscription.
OnInfo(d) ==
  LET e == Head(toClient[d]).e
      n == Larger(know[d], e)
  IN /\ Handles(d, "info")
     /\ IF e = 0
        THEN /\ know' = [know EXCEPT ![d] = 0]
             /\ asked' = [asked EXCEPT ![d] = FALSE]
             /\ UNCHANGED toHub
        ELSE /\ know' = [know EXCEPT ![d] = n]
             /\ MaybeRequestKey(d, n, asked[d], Sub)
     /\ UNCHANGED <<keys, made>>

\* kicked, banned, removed: dropChan
OnGone(d) ==
  /\ Handles(d, "gone")
  /\ know' = [know EXCEPT ![d] = 0]
  /\ asked' = [asked EXCEPT ![d] = FALSE]
  /\ UNCHANGED <<keys, made, toHub>>

NewKey(d, e) ==
  /\ made' = made + 1
  /\ keys' = [keys EXCEPT ![d][e] = made + 1]

\* onCreated: the first key
OnCreated(d) ==
  LET e == Head(toClient[d]).e
  IN /\ Handles(d, "created")
     /\ NewKey(d, e)
     /\ know' = [know EXCEPT ![d] = Larger(@, e)]
     /\ Write(d, Sub)
     /\ UNCHANGED asked

\* Someone came who may have the key.
OnJoin(d) ==
  /\ Handles(d, "join")
  /\ IF Head(toClient[d]).who # {Owner[d]} /\ know[d] > 0
     THEN MaybeRequestKey(d, know[d], FALSE, <<>>)
     ELSE UNCHANGED <<asked, toHub>>
  /\ UNCHANGED <<know, keys, made>>

OnKeyReq(d) ==
  LET f == Head(toClient[d])
  IN /\ Handles(d, "keyreq")
     /\ IF know[d] > 0 /\ Has(d, f.e)
        THEN Write(d, <<F("keyshare", f.e, keys[d][f.e], f.who)>>)
        ELSE UNCHANGED toHub
     /\ UNCHANGED clientVars

\* The last one to come is kept.
OnKeyShare(d) ==
  LET f == Head(toClient[d])
  IN /\ Handles(d, "keyshare")
     /\ keys' = [keys EXCEPT ![d][f.e] = f.k]
     /\ know' = [know EXCEPT ![d] = IF @ > 0 THEN Larger(@, f.e) ELSE 0]
     /\ asked' = [asked EXCEPT ![d] = @ /\ know[d] = 0]
     /\ UNCHANGED <<made, toHub>>

\* rotateAndReshare: ask the hub for an epoch; when told it, make its key and
\* ask who is there; and send it to them.
Rotate(d) ==
  /\ Move
  /\ up[d] /\ know[d] > 0 /\ toHub[d] = <<>>
  /\ Write(d, <<F("rotate", 0, None, {})>>)
  /\ UNCHANGED <<hubVars, clientVars, up, subbed, toClient>>

\* mutated: the key there is becomes that of the new epoch.
OnRotated_SameKey(d) ==
  LET e == Head(toClient[d]).e
  IN /\ Handles(d, "rotated")
     /\ IF know[d] > 0
        THEN /\ keys' = [keys EXCEPT ![d][e] = keys[d][know[d]]]
             /\ know' = [know EXCEPT ![d] = e]
             /\ Write(d, <<F("peers", e, keys[d][know[d]], {})>>)
        ELSE UNCHANGED <<know, keys, toHub>>
     /\ UNCHANGED <<asked, made>>

OnRotated(d) ==
  LET e == Head(toClient[d]).e
  IN /\ Handles(d, "rotated")
     /\ IF know[d] > 0
        THEN /\ NewKey(d, e)
             /\ know' = [know EXCEPT ![d] = e]
             /\ Write(d, <<F("peers", e, made + 1, {})>>)
        ELSE UNCHANGED <<know, keys, made, toHub>>
     /\ UNCHANGED asked

\* /e2e reshare
Reshare(d) ==
  /\ Move
  /\ up[d] /\ know[d] > 0 /\ Has(d, know[d]) /\ toHub[d] = <<>>
  /\ Write(d, <<F("peers", know[d], keys[d][know[d]], {})>>)
  /\ UNCHANGED <<hubVars, clientVars, up, subbed, toClient>>

OnPeers(d) ==
  LET f == Head(toClient[d])
      others == SetToSeq(f.who \ {d})
  IN /\ Handles(d, "peers")
     /\ Write(d, [i \in DOMAIN others |-> F("keyshare", f.e, f.k, {others[i]})])
     /\ UNCHANGED clientVars

-----------------------------------------------------------------------------
HubStep(d) ==
  HandleSub(d) \/ HandleKeyReq(d) \/ HandleKeyShare(d) \/ HandlePeers(d) \/ HandleRotate(d)
ClientStep(d) ==
  \/ OnInfo(d) \/ OnGone(d) \/ OnCreated(d) \/ OnJoin(d)
  \/ OnKeyReq(d) \/ OnKeyShare(d) \/ OnRotated(d) \/ OnPeers(d)

Next ==
  \/ Delete
  \/ \E u \in Users : AddMember(u) \/ Kick(u)
  \/ \E d \in Devices :
       \/ HubStep(d) \/ ClientStep(d)
       \/ Create(d) \/ Connect(d) \/ Rotate(d) \/ Reshare(d)
       \/ \E n \in 0 .. Len(toClient[d]) : Drop(d, n)

Spec == Init /\ [][Next]_vars

\* The hub handles what arrives and so does the client.
FairSpec == Spec /\ \A d \in Devices : WF_vars(HubStep(d)) /\ WF_vars(ClientStep(d))

-----------------------------------------------------------------------------
(***************************************************************************)
(* Properties                                                              *)
(***************************************************************************)
\* All devices that have a key for an epoch have the same one (which lets any
\* of them answer any request, and the last answer be kept).
OneKey ==
  \A d, x \in Devices, e \in Epochs : Has(d, e) /\ Has(x, e) => keys[d][e] = keys[x][e]

\* The key of an epoch is known only to users who have been members in it or
\* since: a rotation shuts out whoever was kicked before it (ENCRYPTION.md,
\* section 5), whatever requests and answers are under way.
OnlyEntitled ==
  \A d, x \in Devices, e, f \in Epochs :
    Has(x, e) /\ keys[d][f] = keys[x][e] => Owner[d] \in entitled[e]

\* A request that has reached a device with the key is answered, unless one of
\* the two goes.
Asks(d, f) == f.t = "keyreq" /\ f.who = {d}
Answered ==
  \A d \in Devices, e \in Epochs : \A x \in Devices \ {d} :
    (\E i \in DOMAIN toClient[x] : Asks(d, toClient[x][i]) /\ toClient[x][i].e = e) /\ Has(x, e)
      ~> Has(d, e) \/ ~up[d] \/ ~up[x] \/ ~Member(d) \/ ~Member(x)

\* ENCRYPTION.md:45: a channel without its key "stays locked for you until
\* someone is" online who has it.  (Violated: a request is made once; when
\* nobody could answer it, or the answer was lost, it is made again only when
\* somebody else is seen to join.)
Unlocked ==
  \A d \in Devices : \A x \in Devices \ {d} :
    <>[](subbed[d] /\ subbed[x] /\ Has(x, epoch)) => <>[]Has(d, epoch)
=============================================================================
