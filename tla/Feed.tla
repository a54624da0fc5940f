-------------------------------- MODULE Feed --------------------------------
(***************************************************************************)
(* What a channel promises to the devices of a member, whatever the        *)
(* network does: a device shows nothing but what was posted, takes away    *)
(* nothing but what was removed, and what the hub believes to have been    *)
(* read goes forward and never past the last message.                      *)
(*                                                                         *)
(* It does not promise that a device shows everything: Delivery states how *)
(* much the code does of that.                                             *)
(***************************************************************************)
EXTENDS Integers

CONSTANTS Devices, MaxMsgs

Ids == 1 .. MaxMsgs

VARIABLES
  live,  \* the messages in the channel
  last,  \* the id of the newest ever posted
  view,  \* of each device: the messages in its scrollback
  read   \* how far the member has read the channel

vars == <<live, last, view, read>>

Init == live = {} /\ last = 0 /\ view = [d \in Devices |-> {}] /\ read = 0

Post == last' = last + 1 /\ live' = live \cup {last + 1} /\ UNCHANGED <<view, read>>

Delete(M) == M \subseteq live /\ live' = live \ M /\ UNCHANGED <<last, view, read>>

\* It may have been removed since: the news of that is still to come.
Show(d, m) == m <= last /\ view' = [view EXCEPT ![d] = @ \cup {m}] /\ UNCHANGED <<live, last, read>>

Hide(d, M) ==
  M \cap live = {} /\ view' = [view EXCEPT ![d] = @ \ M] /\ UNCHANGED <<live, last, read>>

\* The program on a device starts anew.
Forget(d) == view' = [view EXCEPT ![d] = {}] /\ UNCHANGED <<live, last, read>>

ReadTo(n) == read < n /\ n <= last /\ read' = n /\ UNCHANGED <<live, last, view>>

Next ==
  \/ Post
  \/ \E M \in SUBSET Ids : Delete(M)
  \/ \E d \in Devices : (\E m \in Ids : Show(d, m)) \/ (\E M \in SUBSET Ids : Hide(d, M)) \/ Forget(d)
  \/ \E n \in Ids : ReadTo(n)

Spec == Init /\ [][Next]_vars
=============================================================================
