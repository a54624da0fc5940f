------------------------------- MODULE Store -------------------------------
(***************************************************************************)
(* The hub's store: the messages served from memory, the append-only       *)
(* message log behind them, the files they refer to and state.json.        *)
(* (store.go, and the parts of hub.go, cmds.go, files.go and limits.go     *)
(* that write these.)                                                      *)
(*                                                                         *)
(* Every handler runs under h.mu, so handlers do not interleave with each  *)
(* other; but a handler touches the disk several times and the process may *)
(* die between two of those writes.  An action therefore performs a        *)
(* handler up to and including its first write to the disk and leaves the  *)
(* rest of it, one element per further write, in `rest'.  While `rest' is  *)
(* not empty the mutex is held: only the steps that need no mutex (the     *)
(* body of an upload arriving, the clock, the death of the process) can    *)
(* come between.                                                           *)
(*                                                                         *)
(* What is abstracted: names, texts and authors; who may call a command    *)
(* (a permitted call is any call); file ids are numbered in the order they *)
(* are drawn; the clock is a counter.                                      *)
(***************************************************************************)
EXTENDS Integers, Sequences, FiniteSets, FiniteSetsExt, Functions

CONSTANTS
  Channels,     (* channel ids                                             *)
  Default,      (* the default channel, which is never deleted             *)
  Users,        (* uploaders; the 0 owner of adopted files is Nobody       *)
  Guests,       (* the uploaders that are guests (legacy token)            *)
  Nobody,       (* owner id 0                                              *)
  Contents,     (* the byte contents there are to upload; also their hash  *)
  Size,         (* the length of each content                              *)
  Slots,        (* upload connections                                      *)
  Keep,         (* -history: messages kept per channel                     *)
  Expiries,     (* values of expire_sec that can be set; 0 is "off"        *)
  Quota,        (* storage quota of a user; 0 is unlimited                 *)
  MaxUploads,   (* limits.max_uploads; 0 is unlimited                      *)
  RemovedCap,   (* the 1000 of expireMessages                              *)
  LogSlack,     (* the 200 of loadMessages                                 *)
  MaxId,        (* bound: messages posted                                  *)
  MaxFid,       (* bound: uploads admitted                                 *)
  MaxTime,      (* bound: the clock                                        *)
  MaxCrashes    (* bound: times the process ends                           *)

Fids == 1 .. MaxFid
NoFid == 0
NoSha == ""
Partial == "partial"   \* a body that has not completely arrived

ASSUME StoreAssumption ==
  /\ Default \in Channels
  /\ Guests \subseteq Users
  /\ Nobody \notin Users
  /\ NoSha \notin Contents /\ Partial \notin Contents
  /\ IsFiniteSet(Contents) /\ Contents # {}
  /\ IsFiniteSet(Slots)
  /\ Size \in [Contents -> Nat \ {0}]
  /\ Keep \in Nat \ {0}
  /\ Expiries \subseteq Nat /\ 0 \in Expiries
  /\ {Quota, MaxUploads, RemovedCap, LogSlack} \subseteq Nat
  /\ {MaxId, MaxFid, MaxTime, MaxCrashes} \subseteq Nat

VARIABLES
  (*************************************************************************)
  (* The process                                                           *)
  (*************************************************************************)
  phase,     \* "down", "starting" (inside runHub) or "up"
  rest,      \* the writes the handler that holds h.mu has still to make
  uploads,   \* slot -> the upload it carries, or Idle
  (*************************************************************************)
  (* Memory: type hub and its State                                        *)
  (*************************************************************************)
  msgs,      \* h.msgs, of all channels together
  nextID,    \* h.nextID
  chans,     \* st.Channels: live channel -> ExpireSec
  made,      \* channel ids below st.NextChan
  files,     \* st.Files: fid -> FileMeta
  refs,      \* h.fileRefs; an absent entry counts 0
  used,      \* h.used
  total,     \* h.totalBytes
  hashes,    \* h.hashes: content hash -> fid
  dirty,     \* h.dirty
  removed,   \* h.removed: messages expired since the last compaction
  recent,    \* less than ten minutes since h.lastComp
  (*************************************************************************)
  (* Disk                                                                  *)
  (*************************************************************************)
  log,       \* the message lines of messages.jsonl
  dels,      \* the ids of its "del" lines
  blobs,     \* files/<fid>_<name>: fid -> content or Partial
  sides,     \* files/<fid>.sha256: fid -> hash
  saved,     \* state.json
  (*************************************************************************)
  (* Environment and observation                                           *)
  (*************************************************************************)
  now,       \* the clock
  drawn,     \* fids drawn so far
  crashes,   \* times the process ended
  gone,      \* ids whose deletion is recorded (and not issued again)
  expired    \* ids removed by expiry (and not issued again)

catalog == <<files, used, total, hashes>>
channelVars == <<chans, made>>
compaction == <<removed, recent>>
memory == <<msgs, nextID, channelVars, catalog, refs, dirty, compaction>>
logVars == <<log, dels>>
dirVars == <<blobs, sides>>
disk == <<logVars, dirVars, saved>>
env == <<now, drawn, crashes>>
ghosts == <<gone, expired>>
vars == <<phase, rest, uploads, memory, disk, env, ghosts>>

(***************************************************************************)
(* Types                                                                   *)
(***************************************************************************)
Message == [id : Nat, ch : Channels, ts : Nat,
            kind : {"msg", "file", "deleted"},
            fid : Fids \cup {NoFid}, sha : Contents \cup {NoSha}]

FileMeta == [sha : Contents \cup {NoSha}, size : Nat, owner : Users \cup {Nobody}]

Idle == [stage |-> "idle"]
Upload == [stage : {"receiving", "received"}, user : Users, ch : Channels,
           data : Contents, fid : Fids]

PendingWrite ==
  [do : {"save", "compact"}]
    \cup [do : {"post"}, ch : Channels, fid : Fids, sha : Contents]
    \cup [do : {"tombstone"}, ids : SUBSET Nat]
    \cup [do : {"remove"}, fids : SUBSET Fids]

\* a map from some of D to R
IsMap(m, D, R) ==
  /\ m = [x \in DOMAIN m |-> m[x]]
  /\ \A x \in DOMAIN m : x \in D /\ m[x] \in R

(***************************************************************************)
(* Operators on messages                                                   *)
(***************************************************************************)
InChan(ms, c) == {m \in ms : m.ch = c}
Ids(ms) == {m.id : m \in ms}
Referring(ms, f, c) == {m \in ms : m.kind = "file" /\ m.fid = f /\ m.ch = c}

\* the newest Keep messages of one channel
Newest(ms) == {m \in ms : Cardinality({x \in ms : x.id > m.id}) < Keep}

\* the message as `del' leaves it
Tombstone(m) == [m EXCEPT !.kind = "deleted", !.fid = NoFid, !.sha = NoSha]

\* what `post' leaves in memory: the slice is cut back only once it is a
\* quarter over Keep
WithPosted(ms, m) ==
  LET own == InChan(ms, m.ch) \cup {m} IN
  IF Cardinality(own) > Keep + (Keep \div 4)
    THEN (ms \ InChan(ms, m.ch)) \cup Newest(own)
    ELSE ms \cup {m}

\* the prefix of each channel that is past its expiry
Overdue(ms, cs) ==
  {m \in ms : /\ m.ch \in DOMAIN cs
              /\ cs[m.ch] > 0
              /\ \A x \in InChan(ms, m.ch) :
                   x.id <= m.id => x.ts + cs[m.ch] < now}

(***************************************************************************)
(* What a start would read back: the log's lines of channels that exist,   *)
(* tombstones applied, the newest Keep of each channel.                    *)
(***************************************************************************)
\* mutated: the loader does not apply the "del" lines
Replayed_IgnoresDels == log

\* mutated: the loader drops deleted messages instead of keeping tombstones
Replayed_DropsTombstones ==
  {m \in log : m.id \notin dels /\ m.kind # "deleted"}

Replayed == {IF m.id \in dels THEN Tombstone(m) ELSE m : m \in log}
Recovered == UNION {Newest(InChan(Replayed, c)) : c \in DOMAIN saved.chans}

Snapshot == [files |-> files, chans |-> chans, made |-> made]

\* the sum of the numbers that a map has for values: its units, counted
Units(w) == UNION {{x} \X (1 .. w[x]) : x \in DOMAIN w}
Total(w) == Cardinality(Units(w))

SumSizes(fs, F) == Total([f \in F |-> fs[f].size])
OwnedBy(fs, u) == {f \in DOMAIN fs : fs[f].owner = u}
DataSize(d) == IF d = Partial THEN 0 ELSE Size[d]

\* a map with one entry set, and without some of its entries
With(m, k, v) == [x \in DOMAIN m \cup {k} |-> IF x = k THEN v ELSE m[x]]
Without(m, S) == Restrict(m, DOMAIN m \ S)

(***************************************************************************)
(* Dropping references: unrefFile for every file message of R, and         *)
(* deleteFile for the files nothing refers to any more.                    *)
(***************************************************************************)
\* mutated: the channel's entry is deleted, not decremented
RefsWithout_DropsEntry(R) ==
  [f \in Fids |-> [c \in Channels |->
     IF Referring(R, f, c) # {} THEN 0 ELSE refs[f][c]]]

\* mutated: a count is decremented although there is no entry
RefsWithout_Underflow(R) ==
  [f \in Fids |-> [c \in Channels |->
     refs[f][c] - Cardinality({m \in R : m.kind = "file" /\ m.fid = f})]]

RefsWithout(R) ==
  [f \in Fids |-> [c \in Channels |->
     LET n == Cardinality(Referring(R, f, c)) IN
     IF n >= refs[f][c] THEN 0 ELSE refs[f][c] - n]]

\* mutated: other channels' references are not looked at
Unreferred_OneChannel(R) ==
  {f \in Fids : \E m \in R : /\ m.kind = "file" /\ m.fid = f
                           /\ RefsWithout(R)[f][m.ch] = 0}

\* mutated: the first reference dropped takes the file with it
Unreferred_FirstDrop(R) ==
  {f \in Fids : \E m \in R : m.kind = "file" /\ m.fid = f}

Unreferred(R) ==
  {f \in Fids : /\ \E m \in R : m.kind = "file" /\ m.fid = f
                /\ \A c \in Channels : RefsWithout(R)[f][c] = 0}

\* mutated: nothing is refunded
Forget_NoRefund(F) ==
  /\ files' = Without(files, F)
  /\ used' = used /\ total' = total
  /\ hashes' = Without(hashes, {files[f].sha : f \in F \cap DOMAIN files})

\* the bookkeeping of deleteFile for every file of F
Forget(F) ==
  LET known == F \cap DOMAIN files IN
  /\ files' = Without(files, known)
  /\ used' = [u \in Users |->
                LET back == SumSizes(files, OwnedBy(files, u) \cap known) IN
                IF back > used[u] THEN 0 ELSE used[u] - back]
  /\ total' = total - SumSizes(files, known)
  /\ hashes' = Without(hashes, {files[f].sha : f \in known})

Forgets(F) == F \cap DOMAIN files # {}

Removal(F) == IF F = {} THEN <<>> ELSE <<[do |-> "remove", fids |-> F]>>
Save == <<[do |-> "save"]>>
CompactIf(b) == IF b THEN <<[do |-> "compact"]>> ELSE <<>>

(***************************************************************************)
(* Initial state: the first start of a hub, once its state.json is there   *)
(***************************************************************************)
NewHub == [files |-> <<>>, chans |-> [c \in {Default} |-> 0], made |-> {Default}]

NoMemory ==
  /\ msgs = {} /\ nextID = 0
  /\ files = <<>> /\ hashes = <<>>
  /\ used = [u \in Users |-> 0] /\ total = 0
  /\ refs = [f \in Fids |-> [c \in Channels |-> 0]]
  /\ dirty = FALSE /\ removed = 0 /\ recent = FALSE

Init ==
  /\ phase = "up" /\ rest = <<>>
  /\ uploads = [s \in Slots |-> Idle]
  /\ NoMemory
  /\ chans = NewHub.chans /\ made = NewHub.made
  /\ log = {} /\ dels = {} /\ blobs = <<>> /\ sides = <<>>
  /\ saved = NewHub
  /\ now = 0 /\ drawn = 0 /\ crashes = 0
  /\ gone = {} /\ expired = {}

\* bound: there is an id left for one more message
IdLeft == nextID < MaxId

\* h.mu is free
Ready == phase = "up" /\ rest = <<>>

(***************************************************************************)
(* post: a message gets the next id, is served and is logged.              *)
(***************************************************************************)
Assign(c, kind, fid, sha) ==
  LET m == [id |-> nextID + 1, ch |-> c, ts |-> now,
            kind |-> kind, fid |-> fid, sha |-> sha] IN
  /\ nextID' = m.id
  /\ msgs' = WithPosted(msgs, m)
  /\ log' = log \cup {m}
  /\ gone' = gone \ {m.id}
  /\ expired' = expired \ {m.id}

\* handleMsg, admitted
PostText(c) ==
  /\ Ready /\ IdLeft
  /\ c \in DOMAIN chans
  /\ Assign(c, "msg", NoFid, NoSha)
  /\ UNCHANGED <<phase, rest, uploads, channelVars, catalog, refs, dirty,
                 compaction, dels, dirVars, saved, env>>

(***************************************************************************)
(* Uploads: admission under h.mu, the body without it, commit under it.    *)
(***************************************************************************)
Uploading(u) == {s \in Slots : uploads[s] # Idle /\ uploads[s].user = u}

\* mutated: what is stored already is not counted
QuotaAllows_OnlyThis(u, d) == u \in Guests \/ Quota = 0 \/ Size[d] <= Quota

QuotaAllows(u, d) == u \in Guests \/ Quota = 0 \/ used[u] + Size[d] <= Quota

UploadAdmit(s, u, c, d) ==
  /\ Ready
  /\ uploads[s] = Idle
  /\ c \in DOMAIN chans
  /\ QuotaAllows(u, d)
  /\ MaxUploads > 0 => Cardinality(Uploading(u)) < MaxUploads
  /\ drawn < MaxFid
  /\ drawn' = drawn + 1
  /\ uploads' = [uploads EXCEPT ![s] =
        [stage |-> "receiving", user |-> u, ch |-> c, data |-> d, fid |-> drawn']]
  /\ blobs' = With(blobs, drawn', Partial)
  /\ UNCHANGED <<phase, rest, memory, logVars, sides, saved, now, crashes, ghosts>>

\* io.Copy has written the whole body
UploadReceive(s) ==
  /\ phase = "up"
  /\ uploads[s].stage = "receiving"
  /\ uploads' = [uploads EXCEPT ![s].stage = "received"]
  /\ blobs' = [blobs EXCEPT ![uploads[s].fid] = uploads[s].data]
  /\ UNCHANGED <<phase, rest, memory, logVars, sides, saved, env, ghosts>>

\* the connection broke or was too slow
UploadAbort(s) ==
  /\ phase = "up"
  /\ uploads[s].stage = "receiving"
  /\ uploads' = [uploads EXCEPT ![s] = Idle]
  /\ blobs' = Without(blobs, {uploads[s].fid})
  /\ UNCHANGED <<phase, rest, memory, logVars, sides, saved, env, ghosts>>

\* the channel was deleted meanwhile
UploadOrphaned(s) ==
  /\ Ready
  /\ uploads[s].stage = "received"
  /\ uploads[s].ch \notin DOMAIN chans
  /\ uploads' = [uploads EXCEPT ![s] = Idle]
  /\ blobs' = Without(blobs, {uploads[s].fid})
  /\ UNCHANGED <<phase, rest, memory, logVars, sides, saved, env, ghosts>>

\* mutated: no dedup
Stored_Never(d) == d \notin Contents

Stored(d) == d \in DOMAIN hashes /\ hashes[d] \in DOMAIN files

\* identical bytes are already stored: drop the new ones, refer to the old
UploadDuplicate(s) ==
  /\ Ready /\ IdLeft
  /\ uploads[s].stage = "received"
  /\ uploads[s].ch \in DOMAIN chans
  /\ Stored(uploads[s].data)
  /\ blobs' = Without(blobs, {uploads[s].fid})
  /\ rest' = <<[do |-> "post", ch |-> uploads[s].ch,
                fid |-> hashes[uploads[s].data], sha |-> uploads[s].data]>>
  /\ uploads' = [uploads EXCEPT ![s] = Idle]
  /\ UNCHANGED <<phase, memory, logVars, sides, saved, env, ghosts>>

UploadNew(s) ==
  LET u == uploads[s] IN
  /\ Ready /\ IdLeft
  /\ u.stage = "received"
  /\ u.ch \in DOMAIN chans
  /\ ~ Stored(u.data)
  /\ hashes' = With(hashes, u.data, u.fid)
  /\ files' = With(files, u.fid,
       [sha |-> u.data, size |-> Size[u.data], owner |-> u.user])
  /\ used' = IF u.user \in Guests THEN used
             ELSE [used EXCEPT ![u.user] = @ + Size[u.data]]
  /\ total' = total + Size[u.data]
  /\ dirty' = TRUE
  /\ sides' = With(sides, u.fid, u.data)
  /\ rest' = <<[do |-> "post", ch |-> u.ch, fid |-> u.fid, sha |-> u.data]>>
  /\ uploads' = [uploads EXCEPT ![s] = Idle]
  /\ UNCHANGED <<phase, msgs, nextID, channelVars, refs, compaction,
                 logVars, blobs, saved, env, ghosts>>

(***************************************************************************)
(* del and purge                                                           *)
(***************************************************************************)
Live == {m \in msgs : m.kind # "deleted"}

\* h.tombstone: memory, the "del" line, and the reference if it had one.
\* What is still to do after it is `after'.
TombstoneThen(m, after) ==
  LET F == Unreferred({m}) IN
  /\ msgs' = (msgs \ {m}) \cup {Tombstone(m)}
  /\ dels' = dels \cup {m.id}
  /\ gone' = gone \cup {m.id}
  /\ refs' = RefsWithout({m})
  /\ Forget(F)
  /\ dirty' = (dirty \/ Forgets(F))
  /\ rest' = Removal(F) \o after
  /\ UNCHANGED <<phase, uploads, nextID, channelVars, compaction,
                 log, dirVars, saved, env, expired>>

Delete(m) == Ready /\ TombstoneThen(m, <<>>)

\* the chosen messages are those of a user, the last n, or those before an id:
\* as authors are not modelled, any of one channel
Purge(ids) ==
  /\ Ready
  /\ rest' = <<[do |-> "tombstone", ids |-> ids]>>
  /\ UNCHANGED <<phase, uploads, memory, disk, env, ghosts>>

(***************************************************************************)
(* Expiry: the janitor, the hourly sweep and `settings'                    *)
(***************************************************************************)
\* expireMessages when the channels are cs; `force' compacts whenever a
\* message was removed, `after' is what the caller does next
Expire(cs, wasDirty, force, after) ==
  LET R == Overdue(msgs, cs)
      F == Unreferred(R)
      n == removed + Cardinality(R)
      compact == n > RemovedCap \/ (n > 0 /\ (force \/ ~ recent))
  IN /\ msgs' = msgs \ R
     /\ refs' = RefsWithout(R)
     /\ Forget(F)
     /\ dirty' = (wasDirty \/ Forgets(F))
     /\ removed' = IF compact THEN 0 ELSE n
     /\ recent' = (recent \/ compact)
     /\ expired' = expired \cup Ids(R)
     /\ rest' = Removal(F) \o CompactIf(compact) \o after
     /\ UNCHANGED <<nextID, gone>>

\* mutated: nothing is done while nothing was removed before
Janitor_OnlyCompacts ==
  /\ Ready
  /\ removed > 0 /\ ~ recent
  /\ Expire(chans, dirty, FALSE, <<>>)
  /\ UNCHANGED <<phase, uploads, channelVars, disk, env>>

\* mutated: the log is only looked at when messages expire
Janitor_NoLateCompaction ==
  /\ Ready
  /\ Overdue(msgs, chans) # {}
  /\ Expire(chans, dirty, FALSE, <<>>)
  /\ UNCHANGED <<phase, uploads, channelVars, disk, env>>

Janitor ==
  /\ Ready
  /\ Overdue(msgs, chans) # {} \/ (removed > 0 /\ ~ recent)
  /\ Expire(chans, dirty, FALSE, <<>>)
  /\ UNCHANGED <<phase, uploads, channelVars, disk, env>>

\* the state is saved at the end if it is dirty by then
SweepThen(nextPhase) ==
  /\ phase' = nextPhase
  /\ Expire(chans, dirty, TRUE,
            IF dirty \/ Forgets(Unreferred(Overdue(msgs, chans))) THEN Save ELSE <<>>)
  /\ UNCHANGED <<uploads, channelVars, disk, env>>

Sweep == Ready /\ SweepThen("up")

\* `settings expire=': saved first, then applied
Settings(c, e) ==
  /\ Ready
  /\ c \in DOMAIN chans
  /\ chans' = [chans EXCEPT ![c] = e]
  /\ saved' = [Snapshot EXCEPT !.chans = chans']
  /\ Expire(chans', FALSE, FALSE, <<>>)
  /\ UNCHANGED <<phase, uploads, made, logVars, dirVars, env>>

(***************************************************************************)
(* Channels                                                                *)
(***************************************************************************)
Create(c, e) ==
  /\ Ready
  /\ c \notin made
  /\ chans' = With(chans, c, e)
  /\ made' = made \cup {c}
  /\ saved' = [Snapshot EXCEPT !.chans = chans', !.made = made']
  /\ dirty' = FALSE
  /\ UNCHANGED <<phase, rest, uploads, msgs, nextID, catalog, refs, compaction,
                 logVars, dirVars, env, ghosts>>

\* files first, then the channel, then state.json, then the log
DeleteChannel(c) ==
  LET R == InChan(msgs, c)
      F == Unreferred(R)
  IN /\ Ready
     /\ c \in DOMAIN chans \ {Default}
     /\ msgs' = msgs \ R
     /\ refs' = RefsWithout(R)
     /\ Forget(F)
     /\ chans' = Without(chans, {c})
     /\ dirty' = (dirty \/ Forgets(F))
     /\ rest' = Removal(F) \o Save \o CompactIf(TRUE)
     /\ UNCHANGED <<phase, uploads, nextID, made, compaction, disk, env, ghosts>>

(***************************************************************************)
(* prune, and the flusher                                                  *)
(***************************************************************************)
Prunable == {f \in DOMAIN files : \A c \in Channels : refs[f][c] = 0}

Prune ==
  /\ Ready
  /\ Forget(Prunable)
  /\ dirty' = (dirty \/ Forgets(Prunable))
  /\ rest' = Removal(Prunable) \o Save
  /\ UNCHANGED <<phase, uploads, msgs, nextID, channelVars, refs, compaction,
                 disk, env, ghosts>>

Flush ==
  /\ Ready
  /\ dirty
  /\ saved' = Snapshot
  /\ dirty' = FALSE
  /\ UNCHANGED <<phase, rest, uploads, msgs, nextID, channelVars, catalog, refs,
                 compaction, logVars, dirVars, env, ghosts>>

(***************************************************************************)
(* The rest of a handler                                                   *)
(***************************************************************************)
Holding(what) == phase # "down" /\ rest # <<>> /\ Head(rest).do = what

\* upload: post, then refFile
RestPost ==
  LET w == Head(rest) IN
  /\ Holding("post")
  /\ Assign(w.ch, "file", w.fid, w.sha)
  /\ refs' = [refs EXCEPT ![w.fid][w.ch] = @ + 1]
  /\ rest' = Tail(rest)
  /\ UNCHANGED <<phase, uploads, channelVars, catalog, dirty,
                 compaction, dels, dirVars, saved, env>>

\* purge: the next id of the list
RestTombstone ==
  /\ Holding("tombstone")
  /\ \E m \in Live :
       /\ m.id \in Head(rest).ids
       /\ TombstoneThen(m, LET left == Head(rest).ids \ {m.id} IN
            (IF left = {} THEN <<>> ELSE <<[do |-> "tombstone", ids |-> left]>>)
              \o Tail(rest))

\* deleteFile: the bytes of the next file ...
RestUnlink ==
  /\ Holding("remove")
  /\ \E f \in Head(rest).fids \cap DOMAIN blobs : blobs' = Without(blobs, {f})
  /\ UNCHANGED <<phase, rest, uploads, memory, logVars, sides, saved, env, ghosts>>

\* ... then its hash
RestUnlinkHash ==
  /\ Holding("remove")
  /\ \E f \in Head(rest).fids \ DOMAIN blobs :
       /\ sides' = Without(sides, {f})
       /\ rest' = Removal(Head(rest).fids \ {f}) \o Tail(rest)
  /\ UNCHANGED <<phase, uploads, memory, logVars, blobs, saved, env, ghosts>>

RestSave ==
  /\ Holding("save")
  /\ saved' = Snapshot
  /\ dirty' = FALSE
  /\ rest' = Tail(rest)
  /\ UNCHANGED <<phase, uploads, msgs, nextID, channelVars, catalog, refs,
                 compaction, logVars, dirVars, env, ghosts>>

\* compactLog: the log becomes what is served
RestCompact ==
  /\ Holding("compact")
  /\ log' = msgs
  /\ dels' = {}
  /\ rest' = Tail(rest)
  /\ UNCHANGED <<phase, uploads, memory, dirVars, saved, env, ghosts>>

HandlerStep ==
  \/ RestPost \/ RestTombstone \/ RestUnlink
  \/ RestUnlinkHash \/ RestSave \/ RestCompact

(***************************************************************************)
(* The end of the process and its next start                               *)
(***************************************************************************)
Die ==
  /\ crashes < MaxCrashes
  /\ crashes' = crashes + 1
  /\ phase' = "down" /\ rest' = <<>>
  /\ uploads' = [s \in Slots |-> Idle]
  /\ msgs' = {} /\ nextID' = 0
  /\ chans' = <<>> /\ made' = {}
  /\ files' = <<>> /\ hashes' = <<>>
  /\ used' = [u \in Users |-> 0] /\ total' = 0
  /\ refs' = [f \in Fids |-> [c \in Channels |-> 0]]
  /\ dirty' = FALSE /\ removed' = 0 /\ recent' = FALSE
  /\ UNCHANGED <<logVars, dirVars, now, drawn, ghosts>>

\* killed (SIGTERM has no handler): between any two steps
Crash == phase # "down" /\ Die /\ UNCHANGED saved

\* os.Interrupt: waits for h.mu, saves, exits
Interrupt == Ready /\ Die /\ saved' = Snapshot

\* indexFiles: files found in the directory that state.json does not know
Adopted == DOMAIN blobs \ DOMAIN saved.files

\* indexFiles: those belong to nobody; known files without a hash take the one
\* beside them
Indexed ==
  [f \in DOMAIN saved.files \cup Adopted |->
     IF f \in Adopted
       THEN [sha |-> NoSha, size |-> DataSize(blobs[f]), owner |-> Nobody]
     ELSE IF saved.files[f].sha = NoSha /\ f \in DOMAIN sides
       THEN [saved.files[f] EXCEPT !.sha = sides[f]]
     ELSE saved.files[f]]

\* the fids the dedup map may name for a hash: st.Files is read last, each in
\* an order of its own
FilesHashed(fs, d) == {f \in DOMAIN fs : fs[f].sha = d}
SidesHashed(d) == {f \in DOMAIN sides : sides[f] = d}
HashIndex(fs, h) ==
  \A d \in DOMAIN h : h[d] \in IF FilesHashed(fs, d) # {} THEN FilesHashed(fs, d)
                                                         ELSE SidesHashed(d)
Hashed(fs) == {d \in Contents : FilesHashed(fs, d) \cup SidesHashed(d) # {}}

\* mutated: lines of deleted channels are skipped before their id is read
HighestLogged_LiveOnly(n) ==
  /\ \A i \in Ids(Recovered) : i <= n
  /\ n \in Ids(Recovered) \cup {0}

\* loadMessages numbers on from the highest id of any line
HighestLogged(n) ==
  /\ \A i \in Ids(log) \cup dels : i <= n
  /\ n \in Ids(log) \cup dels \cup {0}

\* runHub: loadOrInit, loadMessages, indexFiles
Load ==
  /\ phase = "down"
  /\ phase' = "starting"
  /\ chans' = saved.chans /\ made' = saved.made
  /\ msgs' = Recovered
  /\ \E n \in 0 .. MaxId : HighestLogged(n) /\ nextID' = n
  /\ rest' = LET lines == Cardinality(log) + Cardinality(dels)
                 kept == Cardinality(Recovered)
             IN CompactIf(lines > kept + (kept \div 2) + LogSlack)
  /\ files' = Indexed
  /\ \E h \in [Hashed(Indexed) -> Fids] : HashIndex(Indexed, h) /\ hashes' = h
  /\ used' = [u \in Users |-> SumSizes(Indexed, OwnedBy(Indexed, u))]
  /\ total' = SumSizes(Indexed, DOMAIN Indexed)
  /\ refs' = [f \in Fids |-> [c \in Channels |-> Cardinality(Referring(Recovered, f, c))]]
  /\ dirty' = (Adopted # {})
  /\ UNCHANGED <<uploads, compaction, disk, env, ghosts>>

\* runHub: the sweep before the hub listens
StartSweep == phase = "starting" /\ rest = <<>> /\ SweepThen("up")

(***************************************************************************)
(* Time                                                                    *)
(***************************************************************************)
Tick ==
  /\ now < MaxTime
  /\ now' = now + 1
  /\ UNCHANGED <<phase, rest, uploads, memory, disk, drawn, crashes, ghosts>>

\* ten minutes since the last compaction of the janitor
Cool ==
  /\ recent
  /\ recent' = FALSE
  /\ UNCHANGED <<phase, rest, uploads, msgs, nextID, channelVars, catalog, refs,
                 dirty, removed, disk, env, ghosts>>

(***************************************************************************)
(* Next                                                                    *)
(***************************************************************************)
UploadSteps(s) ==
  \/ \E u \in Users, c \in Channels, d \in Contents : UploadAdmit(s, u, c, d)
  \/ UploadReceive(s) \/ UploadAbort(s)
  \/ UploadOrphaned(s) \/ UploadDuplicate(s) \/ UploadNew(s)

Commands ==
  \/ \E c \in Channels : PostText(c) \/ DeleteChannel(c)
  \/ \E c \in Channels, e \in Expiries : Settings(c, e) \/ Create(c, e)
  \/ \E m \in Live : Delete(m)
  \/ \E c \in Channels : \E ids \in SUBSET Ids(InChan(Live, c)) \ {{}} : Purge(ids)
  \/ Prune

Housekeeping == Janitor \/ Sweep \/ Flush

Lifecycle == Crash \/ Interrupt \/ Load \/ StartSweep

Next ==
  \/ Commands
  \/ \E s \in Slots : UploadSteps(s)
  \/ HandlerStep
  \/ Housekeeping
  \/ Lifecycle
  \/ Tick \/ Cool

Spec == Init /\ [][Next]_vars

(***************************************************************************)
(* Fairness.  The goroutine of a handler goes on once it has the mutex;    *)
(* the janitor wakes every 15 seconds and sync.Mutex starves nobody, so    *)
(* it gets the mutex although others take it in between; time passes.      *)
(***************************************************************************)
FairSpec == Spec /\ WF_vars(HandlerStep) /\ SF_vars(Janitor) /\ WF_vars(Cool)

-----------------------------------------------------------------------------
(***************************************************************************)
(* Properties                                                              *)
(***************************************************************************)

\* Every variable has its type; the stores of messages are finite.
TypeOK ==
  /\ phase \in {"down", "starting", "up"}
  /\ rest \in Seq(PendingWrite)
  /\ uploads \in [Slots -> Upload \cup {Idle}]
  /\ msgs \subseteq Message /\ IsFiniteSet(msgs)
  /\ nextID \in Nat
  /\ IsMap(chans, Channels, Nat)
  /\ made \subseteq Channels
  /\ IsMap(files, Fids, FileMeta)
  /\ refs \in [Fids -> [Channels -> Nat]]
  /\ DOMAIN used = Users
  /\ IsMap(hashes, Contents, Fids)
  /\ dirty \in BOOLEAN
  /\ removed \in Nat
  /\ recent \in BOOLEAN
  /\ log \subseteq Message /\ IsFiniteSet(log)
  /\ dels \subseteq Nat
  /\ IsMap(blobs, Fids, Contents \cup {Partial})
  /\ IsMap(sides, Fids, Contents)
  /\ saved = [files |-> saved.files, chans |-> saved.chans, made |-> saved.made]
  /\ IsMap(saved.files, Fids, FileMeta)
  /\ IsMap(saved.chans, Channels, Nat)
  /\ saved.made \subseteq Channels
  /\ now \in Nat /\ drawn \in 0 .. MaxFid /\ crashes \in Nat
  /\ gone \subseteq Nat /\ expired \subseteq Nat

\* h.fileRefs never counts fewer references than the messages served hold: the
\* count may be high (post cuts the history without unrefFile), never low.
RefsCover ==
  \A f \in Fids, c \in Channels :
    Cardinality(Referring(msgs, f, c)) <= refs[f][c]

\* deleteFile takes a file away only when no message that is still served shows
\* it, whichever of del, purge, expiry, channel deletion or prune asked for it.
NoPrematureDelete ==
  [][phase' # "down" =>
       \A f \in DOMAIN files \ DOMAIN files' :
         \A m \in msgs' : m.kind = "file" => m.fid # f]_vars

\* The bytes charged to an account are the sizes of the files it owns, and the
\* hub's total the sizes of all files: through upload, dedup, refund, restart.
UsedExact ==
  phase # "down" =>
    /\ total = SumSizes(files, DOMAIN files)
    /\ \A u \in Users \ Guests : used[u] = SumSizes(files, OwnedBy(files, u))

InFlight(u) == Total([s \in Uploading(u) |-> Size[uploads[s].data]])

LargestSize == Max({Size[d] : d \in Contents})

\* Quota is checked at admission only, so uploads admitted together may exceed
\* it, but never by more than what the other upload slots of the user can carry.
QuotaBound ==
  Quota > 0 /\ MaxUploads > 0 =>
    \A u \in Users \ Guests :
      used[u] + InFlight(u) <= Quota + (MaxUploads - 1) * LargestSize

\* A deletion that is in the log is final: the message is never served again,
\* not even after a crash at any point or a compaction.
DeletedStaysDeleted ==
  \A m \in msgs : m.id \in gone => m.kind = "deleted"

\* Whenever no handler is at work, a restart would serve what is served now: the
\* newest Keep messages of every channel, and besides them only messages that
\* expired since the last compaction.
Recoverable ==
  Ready =>
    /\ DOMAIN chans = DOMAIN saved.chans
    /\ \A c \in DOMAIN chans : Newest(InChan(msgs, c)) \subseteq Recovered
    /\ Ids(Recovered \ msgs) \subseteq expired

\* No two lines of the log carry the same id, nor do a line and the next message,
\* although ids are recomputed from the log at every start.
LogIdsUnique ==
  /\ \A m, n \in log : m.id = n.id => m = n
  /\ phase # "down" => \A m \in log \cup msgs : m.id <= nextID

\* As long as the process has not ended, every file message that is served can be
\* downloaded, and its bytes are the ones that were uploaded with it.
AttachmentsServed ==
  crashes = 0 =>
    \A m \in msgs : m.kind = "file" =>
      /\ m.fid \in DOMAIN files
      /\ m.fid \in DOMAIN blobs /\ blobs[m.fid] = m.sha

\* As long as the process has not ended, identical bytes are stored once, whichever
\* uploads overlap.  (If a file was removed, its bytes were uploaded again and the
\* process ended before the next save of state.json, the start finds the old entry there
\* and adopts the new file: two entries carry the same hash.)
StoredOnce ==
  crashes = 0 =>
    \A f, g \in DOMAIN files :
      files[f].sha = files[g].sha /\ files[f].sha # NoSha => f = g

\* A message past its expiry is removed, unless the expiry is lengthened first.
ExpiryHappens ==
  \A i \in 1 .. MaxId :
    (i \in Ids(Overdue(msgs, chans))) ~> (i \notin Ids(Overdue(msgs, chans)))

\* An expired message also leaves messages.jsonl.
ExpiredLeavesDisk ==
  \A i \in 1 .. MaxId : (i \in expired) ~> (i \notin Ids(log))

(***************************************************************************)
(* What a document or comment of the repository says and the code does not *)
(* keep                                                                    *)
(***************************************************************************)

\* files.go:13, PROTOCOL.md:164: identical content is stored once and the fid
\* reused: an upload that is announced has its bytes on the disk.
AnnouncedBytesStored ==
  [][phase = "up" =>
       \A m \in msgs' \ msgs : m.kind = "file" =>
         m.fid \in DOMAIN blobs /\ blobs[m.fid] = m.sha]_vars

=============================================================================
