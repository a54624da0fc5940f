------------------------------- MODULE Flood -------------------------------
(***************************************************************************)
(* One sender in one channel against the message limits (limits.go): the   *)
(* token bucket of the pair, refills and changed rates, the refusals that  *)
(* are counted and turn into an automatic mute, mutes by moderators, and   *)
(* the hub's restarts, which keep the mutes that were saved and forget     *)
(* the rest.                                                               *)
(*                                                                         *)
(* Time is counted in ticks.  A message costs several tokens, so that a    *)
(* bucket may hold a fraction of one.  Abstracted: where an effective rate *)
(* comes from (server, channel or user, three times as much for            *)
(* moderators): it may change at any time.  A server admin speaks without  *)
(* being a member, and so does a guest.                                    *)
(***************************************************************************)
EXTENDS Integers, Sequences, FiniteSets

CONSTANTS
  Cost,      (* tokens for a message                                         *)
  MaxRate,   (* bound: effective rates are 1 .. MaxRate tokens per tick      *)
  MaxBurst,  (* bound: bucket sizes are Cost .. MaxBurst                     *)
  Hour,      (* idle time after which a bucket may be forgotten              *)
  Window,    (* how long a refusal counts: five minutes                      *)
  MaxHits,   (* Limits.AutoMuteHits                                          *)
  MuteFor,   (* Limits.AutoMuteMin                                           *)
  MuteTimes, (* for how long moderators mute                                 *)
  MaxTime    (* bound: the clock                                             *)

\* An idle hour fills the largest bucket at the slowest rate.
ASSUME FloodAssumption ==
  /\ {Cost, MaxRate, MaxBurst, Hour, Window, MaxHits, MuteFor, MaxTime} \subseteq Nat \ {0}
  /\ MuteTimes \subseteq Nat \ {0}
  /\ Hour >= MaxBurst

VARIABLES
  now,
  rate, burst,   \* what msgRateFor returns
  known,         \* the limiter has a bucket for the pair
  tokens, last,  \* bucket.tokens and .last
  hits,          \* hub.rateHits: when the sender was refused
  admin, member, \* the sender is a server admin; is a member
  mutedUntil,    \* Membership.MutedUntil
  onDisk,        \* what state.json says of the membership
  begun, count,  \* history: messages accepted since some moment, and the
  topRate, topBurst, \* largest rate and bucket size in force since then
  refused        \* history: when it was refused, since that was last answered

bucket == <<known, tokens, last>>
standing == <<admin, member, mutedUntil, onDisk>>
window == <<begun, count, topRate, topBurst>>
history == <<window, refused>>
vars == <<now, rate, burst, bucket, hits, standing, history>>

Times == 0 .. MaxTime
Record == [member : BOOLEAN, mutedUntil : Nat]

TypeOK ==
  /\ now \in Times /\ rate \in 1 .. MaxRate /\ burst \in Cost .. MaxBurst
  /\ known \in BOOLEAN /\ tokens \in 0 .. MaxBurst /\ last \in 0 .. now
  /\ hits \in Seq(0 .. now) /\ Len(hits) <= MaxHits
  /\ admin \in BOOLEAN /\ member \in BOOLEAN
  /\ mutedUntil \in Nat /\ onDisk \in Record
  /\ begun \in 0 .. now /\ count \in Nat
  /\ topRate \in rate .. MaxRate /\ topBurst \in burst .. MaxBurst
  /\ refused \in Seq(0 .. now)

Membership == [member |-> member, mutedUntil |-> mutedUntil]

Init ==
  /\ now = 0 /\ rate \in 1 .. MaxRate /\ burst \in Cost .. MaxBurst
  /\ known = FALSE /\ tokens = 0 /\ last = 0 /\ hits = <<>>
  /\ admin \in BOOLEAN /\ member \in BOOLEAN /\ mutedUntil = 0 /\ onDisk = Membership
  /\ begun = 0 /\ count = 0 /\ topRate = rate /\ topBurst = burst /\ refused = <<>>

-----------------------------------------------------------------------------
(***************************************************************************)
(* Messages                                                                *)
(***************************************************************************)
Smaller(a, b) == IF a < b THEN a ELSE b
Larger(a, b) == IF a > b THEN a ELSE b

\* take: the tokens there are now, all the time since counted at today's rate
Available == IF known THEN Smaller(burst, tokens + (now - last) * rate) ELSE burst

\* handleMsg accepts a message.
Accept ==
  /\ Available >= Cost
  /\ known' = TRUE /\ tokens' = Available - Cost /\ last' = now
  /\ count' = count + 1
  /\ UNCHANGED <<hits, mutedUntil, refused>>

\* The times in s after c, moved up to the places they have among themselves.
Later(s, c) ==
  LET kept == {i \in DOMAIN s : s[i] > c}
      place(i) == Cardinality({k \in kept : k <= i})
  IN [j \in 1 .. Cardinality(kept) |-> s[CHOOSE i \in kept : place(i) = j]]

\* The refusals that count.
Recent == Append(Later(hits, now - Window), now)

\* mutated: the refusals are not forgotten with the mute.
NoteRateHit_KeepsHits ==
  IF Len(Recent) > MaxHits
  THEN /\ hits' = SubSeq(Recent, 2, Len(Recent)) /\ refused' = <<>>
       /\ mutedUntil' = IF member THEN now + MuteFor ELSE mutedUntil
  ELSE hits' = Recent /\ refused' = Append(refused, now) /\ UNCHANGED mutedUntil

\* mutated: refusals are counted in the order they leave the window.
NoteRateHit_LastOnly ==
  LET recent == SubSeq(Recent, Len(Recent), Len(Recent))
  IN IF Len(recent) > MaxHits
     THEN hits' = <<>> /\ refused' = <<>> /\ mutedUntil' = now + MuteFor
     ELSE hits' = recent /\ refused' = Append(refused, now) /\ UNCHANGED mutedUntil

\* noteRateHit; who is no member cannot be muted.
NoteRateHit ==
  IF Len(Recent) > MaxHits
  THEN /\ hits' = <<>> /\ refused' = <<>>
       /\ mutedUntil' = IF member THEN now + MuteFor ELSE mutedUntil
  ELSE hits' = Recent /\ refused' = Append(refused, now) /\ UNCHANGED mutedUntil

\* mutated: what has been credited is credited again.
Refuse_KeepsLast ==
  /\ Available < Cost
  /\ known' = TRUE /\ tokens' = Available
  /\ last' = IF known THEN last ELSE now
  /\ NoteRateHit /\ UNCHANGED count

Refuse ==
  /\ Available < Cost
  /\ known' = TRUE /\ tokens' = Available /\ last' = now
  /\ NoteRateHit /\ UNCHANGED count

\* handleMsg
Send ==
  /\ admin \/ member
  /\ mutedUntil <= now
  /\ Accept \/ Refuse
  /\ UNCHANGED <<now, rate, burst, admin, member, onDisk, begun, topRate, topBurst>>

\* Another setting, another limit for the user or the channel, another role.
SetRate(r, b) ==
  /\ <<r, b>> # <<rate, burst>>
  /\ rate' = r /\ burst' = b
  /\ topRate' = Larger(topRate, r) /\ topBurst' = Larger(topBurst, b)
  /\ UNCHANGED <<now, bucket, hits, standing, begun, count, refused>>

\* allowRate, with many buckets: those of an hour ago go.
Forget ==
  /\ known /\ now - last > Hour
  /\ known' = FALSE /\ tokens' = 0 /\ last' = 0
  /\ UNCHANGED <<now, rate, burst, hits, standing, history>>

-----------------------------------------------------------------------------
(***************************************************************************)
(* Members                                                                 *)
(***************************************************************************)
Standing(m, until) ==
  /\ member' = m /\ mutedUntil' = until
  /\ onDisk' = [member |-> m, mutedUntil |-> until]
  /\ UNCHANGED <<now, rate, burst, bucket, hits, admin, history>>

\* mute, for n minutes; unmute for none
Mute(n) == member /\ Standing(TRUE, IF n = 0 THEN 0 ELSE now + n)

\* leave, kick: the mute goes with the membership
Leave == member /\ Standing(FALSE, 0)

\* join, add
Join == ~member /\ Standing(TRUE, 0)

\* usermod
Promote ==
  /\ admin' = ~admin
  /\ UNCHANGED <<now, rate, burst, bucket, hits, member, mutedUntil, onDisk, history>>

\* What noteRateHit marked dirty is saved.
Save ==
  /\ onDisk # Membership
  /\ onDisk' = Membership
  /\ UNCHANGED <<now, rate, burst, bucket, hits, admin, member, mutedUntil, history>>

\* History: a window of time begins.
WindowBegins == begun' = now /\ count' = 0 /\ topRate' = rate /\ topBurst' = burst

\* The hub crashes and is started again.
Restart ==
  /\ known' = FALSE /\ tokens' = 0 /\ last' = 0 /\ hits' = <<>>
  /\ member' = onDisk.member /\ mutedUntil' = onDisk.mutedUntil
  /\ WindowBegins /\ refused' = <<>>
  /\ UNCHANGED <<now, rate, burst, admin, onDisk>>

-----------------------------------------------------------------------------
Tick ==
  /\ now < MaxTime
  /\ now' = now + 1
  /\ UNCHANGED <<rate, burst, bucket, hits, standing, history>>

\* History: any moment may be the one a window begins at.
Watch ==
  /\ WindowBegins
  /\ UNCHANGED <<now, rate, burst, bucket, hits, standing, refused>>

Next ==
  \/ Send \/ Forget \/ Leave \/ Join \/ Promote \/ Save \/ Restart \/ Tick \/ Watch
  \/ \E r \in 1 .. MaxRate, b \in Cost .. MaxBurst : SetRate(r, b)
  \/ \E n \in MuteTimes \cup {0} : Mute(n)

Spec == Init /\ [][Next]_vars

-----------------------------------------------------------------------------
(***************************************************************************)
(* Properties                                                              *)
(***************************************************************************)
\* In any window of time no more is accepted than the largest bucket and the
\* highest rate in force in it allow (take, allowRate), though a new rate holds
\* for time that has passed and a bucket may be forgotten and made anew.
SendBound == Cost * count <= topBurst + topRate * (now - begun)

\* Refusals that count and that the hub has not answered yet.
Unanswered == Len(Later(refused, now - Window))

\* Nobody is refused more than MaxHits times within a Window without the hub
\* answering it (noteRateHit forgets no refusal that still counts).
FloodAnswered == Unanswered <= MaxHits

\* A message that is refused leads to a mute only after MaxHits others within a
\* Window, none of which has led to one before (noteRateHit).
MuteEarned == [][Send /\ mutedUntil' > mutedUntil => Unanswered >= MaxHits]_vars
=============================================================================
