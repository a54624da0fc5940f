---------------------------- MODULE StoreProofs ----------------------------
(***************************************************************************)
(* What holds of the store for every number of channels, users, files and  *)
(* messages, every history length and every pattern of crashes.            *)
(*                                                                         *)
(* The inductive invariant IInv is type correctness, RefsCover, the        *)
(* uniqueness of ids in the log and in memory, and the rule that an id     *)
(* whose deletion is recorded is a tombstone wherever it still occurs.     *)
(* Four more invariants rest on it or on its types:                        *)
(*   WhileUp (Shelves until the process ends): which files, bytes, uploads *)
(*   and pending removals belong together, for AttachmentsServed and       *)
(*   StoredOnce;                                                           *)
(*   Charted: channels in memory, in state.json and in the log;            *)
(*   Record: every message in memory has its line in the log, and every    *)
(*   line without a message expired or was cut off, for Recoverable;       *)
(*   Books: fids are drawn once, accounts are charged exactly, and what is *)
(*   saved is within the bound, for UsedExact and QuotaBound.              *)
(***************************************************************************)
EXTENDS Store, FiniteSetTheorems, SequenceTheorems, NaturalsInduction,
        WellFoundedInduction, TLAPS

-----------------------------------------------------------------------------
(***************************************************************************)
(* The operators the actions are built from                                *)
(***************************************************************************)

\* Setting one entry of a map and removing entries keep it a map.
LEMMA MapAdd ==
  ASSUME NEW D, NEW R, NEW m, IsMap(m, D, R), NEW k \in D, NEW v \in R
  PROVE  IsMap(With(m, k, v), D, R)
<1>. QED  BY DEF IsMap, With

LEMMA MapWithout ==
  ASSUME NEW D, NEW R, NEW m, IsMap(m, D, R), NEW S
  PROVE  /\ IsMap(Without(m, S), D, R)
         /\ DOMAIN Without(m, S) = DOMAIN m \ S
<1>. QED  BY DEF IsMap, Without, Restrict

\* The pending writes that handlers leave are sequences of pending writes.
LEMMA RestTypes ==
  ASSUME NEW F \in SUBSET Fids, NEW b \in BOOLEAN
  PROVE  /\ Removal(F) \in Seq(PendingWrite)
         /\ Save \in Seq(PendingWrite)
         /\ CompactIf(b) \in Seq(PendingWrite)
<1>1. [do |-> "remove", fids |-> F] \in PendingWrite
  BY DEF PendingWrite
<1>2. [do |-> "save"] \in PendingWrite /\ [do |-> "compact"] \in PendingWrite
  BY DEF PendingWrite
<1>3. \A w \in PendingWrite : <<w>> \in Seq(PendingWrite)
  OBVIOUS
<1>4. <<>> \in Seq(PendingWrite)
  OBVIOUS
<1>5. Removal(F) \in Seq(PendingWrite)
  BY <1>1, <1>3, <1>4 DEF Removal
<1>6. Save \in Seq(PendingWrite)
  BY <1>2, <1>3 DEF Save
<1>7. CompactIf(b) \in Seq(PendingWrite)
  BY <1>2, <1>3, <1>4 DEF CompactIf
<1>. QED  BY <1>5, <1>6, <1>7

\* Cutting a history never adds to it.
LEMMA WithPostedSubset ==
  ASSUME NEW ms, NEW m
  PROVE  WithPosted(ms, m) \subseteq ms \cup {m}
<1>. QED  BY DEF WithPosted, Newest, InChan

\* The messages that refer to a file are finitely many.
LEMMA ReferringFinite ==
  ASSUME NEW ms, IsFiniteSet(ms), NEW f, NEW c
  PROVE  /\ IsFiniteSet(Referring(ms, f, c))
         /\ Cardinality(Referring(ms, f, c)) \in Nat
<1>1. Referring(ms, f, c) \subseteq ms
  BY DEF Referring
<1>. QED  BY <1>1, FS_Subset, FS_CardinalityType

\* RefsWithout counts with natural numbers.
LEMMA RefsWithoutType ==
  ASSUME NEW R, IsFiniteSet(R), refs \in [Fids -> [Channels -> Nat]]
  PROVE  RefsWithout(R) \in [Fids -> [Channels -> Nat]]
<1>1. ASSUME NEW f \in Fids, NEW c \in Channels
      PROVE  (LET n == Cardinality(Referring(R, f, c)) IN
              IF n >= refs[f][c] THEN 0 ELSE refs[f][c] - n) \in Nat
  BY ReferringFinite
<1>. QED  BY <1>1 DEF RefsWithout

\* Dropping the references of messages that leave keeps every count high enough
\* for those that stay.
LEMMA RefsWithoutCovers ==
  ASSUME NEW ms, IsFiniteSet(ms), NEW R \in SUBSET ms, NEW left,
         refs \in [Fids -> [Channels -> Nat]],
         NEW f \in Fids, NEW c \in Channels,
         Cardinality(Referring(ms, f, c)) <= refs[f][c],
         Referring(left, f, c) = Referring(ms, f, c) \ Referring(R, f, c)
  PROVE  Cardinality(Referring(left, f, c)) <= RefsWithout(R)[f][c]
<1>. DEFINE A == Referring(ms, f, c)
            B == Referring(R, f, c)
<1>1. A \cap B = B
  BY DEF Referring
<1>2. IsFiniteSet(R)
  BY FS_Subset
<1>3. Cardinality(A) \in Nat /\ Cardinality(B) \in Nat /\ IsFiniteSet(A)
  BY <1>2, ReferringFinite
<1>4. Cardinality(A \ B) = Cardinality(A) - Cardinality(B)
  <2>. HIDE DEF A, B
  <2>1. Cardinality(A \ B) = Cardinality(A) - Cardinality(A \cap B)
    BY <1>3, FS_Difference
  <2>. QED  BY <1>1, <2>1
<1>5. RefsWithout(R)[f][c] = IF Cardinality(B) >= refs[f][c] THEN 0
                                                        ELSE refs[f][c] - Cardinality(B)
  BY DEF RefsWithout
<1>. QED  BY <1>3, <1>4, <1>5

-----------------------------------------------------------------------------
(***************************************************************************)
(* Type correctness                                                        *)
(***************************************************************************)
USE DEF memory, channelVars, catalog, compaction, logVars, dirVars, disk, env, ghosts

\* What a handler may leave to do is typed.
LEMMA RestTail ==
  ASSUME TypeOK, rest # <<>>
  PROVE  /\ Head(rest) \in PendingWrite
         /\ Tail(rest) \in Seq(PendingWrite)
<1>. QED  BY HeadTailProperties DEF TypeOK

\* A message given the next id keeps the types, whatever else the step does.
LEMMA AssignType ==
  ASSUME TypeOK, NEW c \in Channels, NEW kind \in {"msg", "file"},
         NEW fid \in Fids \cup {NoFid}, NEW sha \in Contents \cup {NoSha},
         Assign(c, kind, fid, sha)
  PROVE  /\ msgs' \subseteq Message /\ IsFiniteSet(msgs')
         /\ log' \subseteq Message /\ IsFiniteSet(log')
         /\ nextID' \in Nat
         /\ gone' \subseteq Nat /\ expired' \subseteq Nat
<1>. DEFINE m == [id |-> nextID + 1, ch |-> c, ts |-> now,
                  kind |-> kind, fid |-> fid, sha |-> sha]
<1>1. m \in Message /\ m.id \in Nat
  BY DEF TypeOK, Message
<1>2. msgs' \subseteq msgs \cup {m} /\ log' = log \cup {m}
  BY WithPostedSubset DEF Assign
<1>3. IsFiniteSet(msgs \cup {m}) /\ IsFiniteSet(log \cup {m})
  BY FS_AddElement DEF TypeOK
<1>4. IsFiniteSet(msgs')
  BY <1>2, <1>3, FS_Subset
<1>. QED  BY <1>1, <1>2, <1>3, <1>4 DEF Assign, TypeOK

\* Forgetting files keeps the types of the catalog.
LEMMA ForgetType ==
  ASSUME TypeOK, NEW F, Forget(F)
  PROVE  /\ IsMap(files', Fids, FileMeta)
         /\ DOMAIN used' = Users
         /\ IsMap(hashes', Contents, Fids)
<1>. QED  BY MapWithout DEF Forget, TypeOK

\* Only file ids of the model are ever unreferred.
LEMMA UnreferredType ==
  ASSUME NEW R
  PROVE  Unreferred(R) \in SUBSET Fids
<1>. QED  BY DEF Unreferred

\* A tombstone is a message with the id and place of the message it replaces.
LEMMA TombstoneFacts ==
  ASSUME NEW m \in Message
  PROVE  /\ Tombstone(m) \in Message
         /\ Tombstone(m).id = m.id
         /\ Tombstone(m).kind = "deleted"
<1>. QED  BY DEF Tombstone, Message

LEMMA TombstoneType ==
  ASSUME TypeOK, NEW m \in msgs, NEW after \in Seq(PendingWrite),
         TombstoneThen(m, after)
  PROVE  TypeOK'
<1>1. m \in Message /\ Tombstone(m) \in Message /\ m.id \in Nat
  BY TombstoneFacts DEF TypeOK, Message
<1>2. IsFiniteSet(msgs \ {m}) /\ IsFiniteSet({m})
  BY FS_RemoveElement, FS_Singleton DEF TypeOK
<1>3. IsFiniteSet(msgs')
  BY <1>2, FS_AddElement DEF TombstoneThen
<1>4. refs' \in [Fids -> [Channels -> Nat]]
  BY <1>2, RefsWithoutType DEF TombstoneThen, TypeOK
<1>5. /\ IsMap(files', Fids, FileMeta)
      /\ DOMAIN used' = Users
      /\ IsMap(hashes', Contents, Fids)
  BY ForgetType DEF TombstoneThen
<1>6. rest' \in Seq(PendingWrite)
  <2>1. Removal(Unreferred({m})) \in Seq(PendingWrite)
    BY UnreferredType, RestTypes
  <2>. QED  BY <2>1, ConcatProperties DEF TombstoneThen
<1>7. dirty' \in BOOLEAN
  BY DEF TombstoneThen, TypeOK, Forgets
<1>. QED  BY <1>1, <1>3, <1>4, <1>5, <1>6, <1>7 DEF TombstoneThen, TypeOK

LEMMA ExpireType ==
  ASSUME TypeOK, NEW cs, NEW wasDirty \in BOOLEAN, NEW force \in BOOLEAN,
         NEW after \in Seq(PendingWrite), Expire(cs, wasDirty, force, after)
  PROVE  /\ rest' \in Seq(PendingWrite)
         /\ msgs' \subseteq Message /\ IsFiniteSet(msgs')
         /\ nextID' \in Nat
         /\ IsMap(files', Fids, FileMeta)
         /\ refs' \in [Fids -> [Channels -> Nat]]
         /\ DOMAIN used' = Users
         /\ IsMap(hashes', Contents, Fids)
         /\ dirty' \in BOOLEAN /\ removed' \in Nat /\ recent' \in BOOLEAN
         /\ gone' \subseteq Nat /\ expired' \subseteq Nat
<1>. DEFINE R == Overdue(msgs, cs)
            F == Unreferred(R)
            n == removed + Cardinality(R)
            compact == n > RemovedCap \/ (n > 0 /\ (force \/ ~ recent))
<1>1. R \subseteq msgs
  BY DEF Overdue
<1>. HIDE DEF R
<1>2. IsFiniteSet(R) /\ Cardinality(R) \in Nat /\ IsFiniteSet(msgs \ R)
  BY <1>1, FS_Subset, FS_CardinalityType, FS_Difference DEF TypeOK
<1>3. compact \in BOOLEAN /\ n \in Nat
  BY <1>2 DEF TypeOK
<1>4. /\ msgs' = msgs \ R /\ refs' = RefsWithout(R) /\ Forget(F)
      /\ dirty' = (wasDirty \/ Forgets(F))
      /\ removed' = (IF compact THEN 0 ELSE n) /\ recent' = (recent \/ compact)
      /\ expired' = expired \cup Ids(R)
      /\ rest' = (Removal(F) \o CompactIf(compact)) \o after
      /\ UNCHANGED <<nextID, gone>>
  BY DEF Expire, R
<1>5. rest' \in Seq(PendingWrite)
  <2>. HIDE DEF F, compact
  <2>1. Removal(F) \in Seq(PendingWrite) /\ CompactIf(compact) \in Seq(PendingWrite)
    BY <1>3, UnreferredType, RestTypes DEF F
  <2>2. Removal(F) \o CompactIf(compact) \in Seq(PendingWrite)
    BY <2>1, ConcatProperties
  <2>. QED  BY <1>4, <2>2, ConcatProperties
<1>6. refs' \in [Fids -> [Channels -> Nat]]
  BY <1>2, <1>4, RefsWithoutType DEF TypeOK
<1>7. /\ IsMap(files', Fids, FileMeta)
      /\ DOMAIN used' = Users
      /\ IsMap(hashes', Contents, Fids)
  BY <1>4, ForgetType
<1>8. Ids(R) \subseteq Nat
  BY <1>1 DEF Ids, TypeOK, Message
<1>9. dirty' \in BOOLEAN /\ removed' \in Nat /\ recent' \in BOOLEAN
  <2>. HIDE DEF F, compact, n
  <2>. QED  BY <1>3, <1>4 DEF TypeOK, Forgets
<1>. QED  BY <1>1, <1>2, <1>4, <1>5, <1>6, <1>7, <1>8, <1>9 DEF TypeOK

\* A busy slot carries an upload.
LEMMA UploadType ==
  ASSUME TypeOK, NEW s \in Slots, uploads[s].stage \in {"receiving", "received"}
  PROVE  uploads[s] \in Upload
<1>. QED  BY DEF TypeOK, Idle

\* What the disk gives back is typed and finite.
LEMMA RecoveredType ==
  ASSUME TypeOK
  PROVE  /\ \A r \in Replayed : \E m \in log : r = IF m.id \in dels THEN Tombstone(m) ELSE m
         /\ Recovered \subseteq Replayed
         /\ Recovered \subseteq Message
         /\ IsFiniteSet(Recovered)
<1>. DEFINE back(m) == IF m.id \in dels THEN Tombstone(m) ELSE m
            f == [m \in log |-> back(m)]
<1>1. \A m \in log : back(m) \in Message
  BY TombstoneFacts DEF TypeOK
<1>2. Replayed = {back(m) : m \in log}
  BY DEF Replayed
<1>3. f \in Surjection(log, Replayed)
  BY <1>2 DEF Surjection
<1>4. IsFiniteSet(Replayed)
  BY <1>3, FS_Surjection DEF TypeOK
<1>5. Recovered \subseteq Replayed
  BY DEF Recovered, Newest, InChan
<1>6. IsFiniteSet(Recovered)
  BY <1>4, <1>5, FS_Subset
<1>. QED  BY <1>1, <1>2, <1>5, <1>6

\* The sizes of what lies on the disk are numbers, and so the metadata of adopted
\* files is metadata.
LEMMA IndexedType ==
  ASSUME TypeOK
  PROVE  IsMap(Indexed, Fids, FileMeta)
<1>. DEFINE fresh(f) == [sha |-> NoSha, size |-> DataSize(blobs[f]), owner |-> Nobody]
            filled(f) == [saved.files[f] EXCEPT !.sha = sides[f]]
<1>1. ASSUME NEW f \in Adopted  PROVE f \in Fids /\ fresh(f) \in FileMeta
  <2>1. blobs[f] \in Contents \cup {Partial} /\ f \in Fids
    BY <1>1 DEF Adopted, TypeOK, IsMap
  <2>2. DataSize(blobs[f]) \in Nat
    BY <2>1, StoreAssumption DEF DataSize
  <2>. QED  BY <2>1, <2>2 DEF FileMeta
<1>2. ASSUME NEW f \in DOMAIN saved.files
      PROVE  f \in Fids /\ saved.files[f] \in FileMeta
  BY <1>2 DEF TypeOK, IsMap
<1>3. ASSUME NEW f \in DOMAIN saved.files, f \in DOMAIN sides
      PROVE  filled(f) \in FileMeta
  BY <1>2, <1>3, ZenonT(60) DEF TypeOK, IsMap, FileMeta
<1>4. DOMAIN Indexed = DOMAIN saved.files \cup Adopted
  BY DEF Indexed
<1>5. \A f \in DOMAIN Indexed :
        \/ f \in Adopted /\ Indexed[f] = fresh(f)
        \/ f \in DOMAIN saved.files /\ f \in DOMAIN sides /\ Indexed[f] = filled(f)
        \/ f \in DOMAIN saved.files /\ Indexed[f] = saved.files[f]
  BY DEF Indexed
<1>6. Indexed = [f \in DOMAIN Indexed |-> Indexed[f]]
  BY DEF Indexed
<1>. QED  BY <1>1, <1>2, <1>3, <1>4, <1>5, <1>6 DEF IsMap

\* Reading everything back after the process ended keeps the types.
LEMMA LoadType ==
  ASSUME TypeOK, Load
  PROVE  TypeOK'
<1>1. msgs' \subseteq Message /\ IsFiniteSet(msgs')
  BY RecoveredType DEF Load
<1>2. IsMap(files', Fids, FileMeta)
  BY IndexedType DEF Load
<1>3. refs' \in [Fids -> [Channels -> Nat]]
  <2>1. \A f, c : Cardinality(Referring(Recovered, f, c)) \in Nat
    BY RecoveredType, ReferringFinite
  <2>. QED  BY <2>1 DEF Load
<1>4. IsMap(hashes', Contents, Fids)
  BY DEF Load, IsMap, Hashed
<1>5. rest' \in Seq(PendingWrite)
  <2>. DEFINE b == Cardinality(log) + Cardinality(dels) >
                     Cardinality(Recovered) + (Cardinality(Recovered) \div 2) + LogSlack
  <2>1. rest' = CompactIf(b)
    BY DEF Load
  <2>2. CompactIf(b) = IF b THEN <<[do |-> "compact"]>> ELSE <<>>
    BY DEF CompactIf
  <2>. HIDE DEF b
  <2>3. CompactIf(TRUE) = <<[do |-> "compact"]>> /\ CompactIf(FALSE) = <<>>
    BY DEF CompactIf
  <2>4. CompactIf(TRUE) \in Seq(PendingWrite) /\ CompactIf(FALSE) \in Seq(PendingWrite)
    BY RestTypes
  <2>. QED  BY <2>1, <2>2, <2>3, <2>4
<1>6. nextID' \in Nat
  BY StoreAssumption DEF Load
<1>7. DOMAIN used' = Users /\ dirty' \in BOOLEAN
  BY DEF Load
<1>8. phase' = "starting" /\ chans' = saved.chans /\ made' = saved.made
  BY DEF Load
<1>9. UNCHANGED <<uploads, compaction, disk, env, ghosts>>
  BY DEF Load
<1>. QED  BY <1>1, <1>2, <1>3, <1>4, <1>5, <1>6, <1>7, <1>8, <1>9 DEF TypeOK

LEMMA InitType == Init => TypeOK
<1>. SUFFICES ASSUME Init PROVE TypeOK
  OBVIOUS
<1>1. IsFiniteSet({})
  BY FS_EmptySet
<1>2. IsMap(chans, Channels, Nat) /\ IsMap(saved.chans, Channels, Nat)
  BY StoreAssumption DEF Init, NewHub, IsMap
<1>3. /\ IsMap(files, Fids, FileMeta) /\ IsMap(saved.files, Fids, FileMeta)
      /\ IsMap(hashes, Contents, Fids)
      /\ IsMap(blobs, Fids, Contents \cup {Partial}) /\ IsMap(sides, Fids, Contents)
  BY DEF Init, NoMemory, NewHub, IsMap
<1>4. rest \in Seq(PendingWrite)
  BY DEF Init
<1>5. uploads \in [Slots -> Upload \cup {Idle}] /\ DOMAIN used = Users
  BY DEF Init, NoMemory
<1>6. refs \in [Fids -> [Channels -> Nat]]
  BY DEF Init, NoMemory
<1>7. drawn \in 0 .. MaxFid /\ now \in Nat /\ crashes \in Nat
  BY StoreAssumption DEF Init
<1>8. /\ saved = [files |-> saved.files, chans |-> saved.chans, made |-> saved.made]
      /\ saved.made \subseteq Channels /\ made \subseteq Channels
  BY StoreAssumption DEF Init, NewHub
<1>. QED  BY <1>1, <1>2, <1>3, <1>4, <1>5, <1>6, <1>7, <1>8 DEF Init, NoMemory, TypeOK

\* Taking a snapshot of memory for state.json is typed.
LEMMA SnapshotType ==
  ASSUME TypeOK, saved' = Snapshot
  PROVE  /\ saved' = [files |-> saved'.files, chans |-> saved'.chans, made |-> saved'.made]
         /\ IsMap(saved'.files, Fids, FileMeta)
         /\ IsMap(saved'.chans, Channels, Nat)
         /\ saved'.made \subseteq Channels
<1>. QED  BY DEF Snapshot, TypeOK

LEMMA DieType ==
  ASSUME TypeOK, Die,
         saved' = saved \/ saved' = Snapshot
  PROVE  TypeOK'
<1>1. IsFiniteSet({})
  BY FS_EmptySet
<1>2. /\ IsMap(chans', Channels, Nat) /\ IsMap(files', Fids, FileMeta)
      /\ IsMap(hashes', Contents, Fids)
  BY DEF Die, IsMap
<1>3. /\ saved' = [files |-> saved'.files, chans |-> saved'.chans, made |-> saved'.made]
      /\ IsMap(saved'.files, Fids, FileMeta)
      /\ IsMap(saved'.chans, Channels, Nat)
      /\ saved'.made \subseteq Channels
  BY SnapshotType DEF TypeOK
<1>4. rest' \in Seq(PendingWrite)
  BY DEF Die
<1>5. uploads' \in [Slots -> Upload \cup {Idle}] /\ DOMAIN used' = Users
  BY DEF Die
<1>6. refs' \in [Fids -> [Channels -> Nat]]
  BY DEF Die
<1>7. /\ phase' = "down" /\ msgs' = {} /\ nextID' \in Nat /\ made' \subseteq Channels
      /\ dirty' \in BOOLEAN /\ removed' \in Nat /\ recent' \in BOOLEAN
  BY DEF Die
<1>8. crashes' \in Nat
  BY DEF Die, TypeOK
<1>9. UNCHANGED <<logVars, dirVars, now, drawn, ghosts>>
  BY DEF Die
<1>. QED  BY <1>1, <1>2, <1>3, <1>4, <1>5, <1>6, <1>7, <1>8, <1>9 DEF TypeOK

\* Every step keeps the types.
LEMMA NextType == TypeOK /\ [Next]_vars => TypeOK'
<1>. SUFFICES ASSUME TypeOK, [Next]_vars PROVE TypeOK'
  OBVIOUS
<1>1. ASSUME NEW c \in Channels, PostText(c) PROVE TypeOK'
  <2>1. Assign(c, "msg", NoFid, NoSha)
    BY <1>1 DEF PostText
  <2>. QED  BY <1>1, <2>1, AssignType DEF PostText, TypeOK
<1>2. ASSUME NEW c \in Channels, DeleteChannel(c) PROVE TypeOK'
  <2>. DEFINE R == InChan(msgs, c)
              F == Unreferred(R)
  <2>1. R \subseteq msgs /\ IsFiniteSet(R) /\ IsFiniteSet(msgs \ R)
    BY FS_Subset, FS_Difference DEF InChan, TypeOK
  <2>2. refs' \in [Fids -> [Channels -> Nat]]
    BY <1>2, <2>1, RefsWithoutType DEF DeleteChannel, TypeOK
  <2>3. rest' \in Seq(PendingWrite)
    <3>1. /\ Removal(F) \in Seq(PendingWrite) /\ Save \in Seq(PendingWrite)
          /\ CompactIf(TRUE) \in Seq(PendingWrite)
      BY UnreferredType, RestTypes
    <3>2. rest' = (Removal(F) \o Save) \o CompactIf(TRUE)
      BY <1>2 DEF DeleteChannel
    <3>. HIDE DEF F
    <3>3. Removal(F) \o Save \in Seq(PendingWrite)
      BY <3>1, ConcatProperties
    <3>. QED  BY <3>1, <3>2, <3>3, ConcatProperties
  <2>4. /\ IsMap(files', Fids, FileMeta) /\ DOMAIN used' = Users
        /\ IsMap(hashes', Contents, Fids)
    BY <1>2, ForgetType DEF DeleteChannel
  <2>5. IsMap(chans', Channels, Nat)
    BY <1>2, MapWithout DEF DeleteChannel, TypeOK
  <2>6. dirty' \in BOOLEAN
    BY <1>2 DEF DeleteChannel, TypeOK, Forgets
  <2>. QED  BY <1>2, <2>1, <2>2, <2>3, <2>4, <2>5, <2>6 DEF DeleteChannel, TypeOK
<1>3. ASSUME NEW c \in Channels, NEW e \in Expiries, Settings(c, e) PROVE TypeOK'
  <2>1. <<>> \in Seq(PendingWrite)
    OBVIOUS
  <2>2. Expire(chans', FALSE, FALSE, <<>>)
    BY <1>3 DEF Settings
  <2>3. IsMap(chans', Channels, Nat)
    BY <1>3, StoreAssumption, ZenonT(60) DEF Settings, TypeOK, IsMap
  <2>4. /\ saved' = [files |-> saved'.files, chans |-> saved'.chans, made |-> saved'.made]
        /\ saved'.files = files /\ saved'.chans = chans' /\ saved'.made = made
    BY <1>3 DEF Settings, Snapshot
  <2>. HIDE DEF Expire
  <2>. QED  BY <1>3, <2>1, <2>2, <2>3, <2>4, ExpireType DEF Settings, TypeOK
<1>4. ASSUME NEW c \in Channels, NEW e \in Expiries, Create(c, e) PROVE TypeOK'
  <2>1. IsMap(chans', Channels, Nat)
    BY <1>4, MapAdd, StoreAssumption DEF Create, TypeOK
  <2>2. /\ saved' = [files |-> saved'.files, chans |-> saved'.chans, made |-> saved'.made]
        /\ saved'.files = files /\ saved'.chans = chans' /\ saved'.made = made'
    BY <1>4 DEF Create, Snapshot
  <2>. QED  BY <1>4, <2>1, <2>2 DEF Create, TypeOK
<1>5. ASSUME NEW m \in Live, Delete(m) PROVE TypeOK'
  <2>1. m \in msgs /\ <<>> \in Seq(PendingWrite)
    BY DEF Live
  <2>. QED  BY <1>5, <2>1, TombstoneType DEF Delete
<1>6. ASSUME NEW c \in Channels, NEW ids \in SUBSET Ids(InChan(Live, c)), Purge(ids)
      PROVE  TypeOK'
  <2>1. ids \subseteq Nat
    BY DEF Ids, InChan, Live, TypeOK, Message
  <2>2. [do |-> "tombstone", ids |-> ids] \in PendingWrite
    BY <2>1 DEF PendingWrite
  <2>3. rest' \in Seq(PendingWrite)
    BY <1>6, <2>2 DEF Purge
  <2>. QED  BY <1>6, <2>3 DEF Purge, TypeOK
<1>7. CASE Prune
  <2>1. Prunable \subseteq Fids
    BY DEF Prunable, TypeOK, IsMap
  <2>2. rest' \in Seq(PendingWrite)
    <3>1. Removal(Prunable) \in Seq(PendingWrite) /\ Save \in Seq(PendingWrite)
      BY <2>1, RestTypes
    <3>. QED  BY <1>7, <3>1, ConcatProperties DEF Prune
  <2>3. /\ IsMap(files', Fids, FileMeta) /\ DOMAIN used' = Users
        /\ IsMap(hashes', Contents, Fids)
    BY <1>7, ForgetType DEF Prune
  <2>4. dirty' \in BOOLEAN
    BY <1>7 DEF Prune, TypeOK, Forgets
  <2>. QED  BY <1>7, <2>2, <2>3, <2>4 DEF Prune, TypeOK
<1>8. ASSUME NEW s \in Slots, UploadSteps(s) PROVE TypeOK'
  <2>1. ASSUME NEW u \in Users, NEW c \in Channels, NEW d \in Contents,
               UploadAdmit(s, u, c, d)
        PROVE  TypeOK'
    <3>1. drawn' \in Fids /\ drawn' \in 0 .. MaxFid
      BY <2>1, StoreAssumption, SMTT(60) DEF UploadAdmit, TypeOK, Fids
    <3>2. [stage |-> "receiving", user |-> u, ch |-> c, data |-> d, fid |-> drawn'] \in Upload
      BY <3>1 DEF Upload
    <3>3. uploads' \in [Slots -> Upload \cup {Idle}]
      BY <2>1, <3>2 DEF UploadAdmit, TypeOK
    <3>4. IsMap(blobs', Fids, Contents \cup {Partial})
      BY <2>1, <3>1, MapAdd DEF UploadAdmit, TypeOK
    <3>. QED  BY <2>1, <3>1, <3>3, <3>4 DEF UploadAdmit, TypeOK
  <2>2. CASE UploadReceive(s)
    <3>1. uploads[s] \in Upload
      BY <2>2, UploadType DEF UploadReceive
    <3>2. [uploads[s] EXCEPT !.stage = "received"] \in Upload
      BY <3>1 DEF Upload
    <3>3. uploads' \in [Slots -> Upload \cup {Idle}]
      BY <2>2, <3>2 DEF UploadReceive, TypeOK
    <3>4. IsMap(blobs', Fids, Contents \cup {Partial})
      BY <2>2, <3>1 DEF UploadReceive, TypeOK, IsMap, Upload
    <3>. QED  BY <2>2, <3>3, <3>4 DEF UploadReceive, TypeOK
  <2>3. CASE UploadAbort(s) \/ UploadOrphaned(s)
    <3>. DEFINE left == Without(blobs, {uploads[s].fid})
    <3>1. IsMap(blobs, Fids, Contents \cup {Partial})
      BY DEF TypeOK
    <3>2. blobs' = left
      BY <2>3 DEF UploadAbort, UploadOrphaned
    <3>3. IsMap(left, Fids, Contents \cup {Partial})
      BY <3>1, MapWithout
    <3>. HIDE DEF left
    <3>4. IsMap(blobs', Fids, Contents \cup {Partial})
      BY <3>2, <3>3
    <3>5. uploads' \in [Slots -> Upload \cup {Idle}]
      BY <2>3 DEF UploadAbort, UploadOrphaned, TypeOK
    <3>. QED  BY <2>3, <3>4, <3>5 DEF UploadAbort, UploadOrphaned, TypeOK
  <2>4. CASE UploadDuplicate(s)
    <3>1. uploads[s] \in Upload
      BY <2>4, UploadType DEF UploadDuplicate
    <3>2. hashes[uploads[s].data] \in Fids
      BY <2>4 DEF UploadDuplicate, Stored, TypeOK, IsMap
    <3>3. [do |-> "post", ch |-> uploads[s].ch, fid |-> hashes[uploads[s].data],
           sha |-> uploads[s].data] \in PendingWrite
      BY <3>1, <3>2 DEF PendingWrite, Upload
    <3>4. rest' \in Seq(PendingWrite)
      BY <2>4, <3>3 DEF UploadDuplicate
    <3>5. IsMap(blobs', Fids, Contents \cup {Partial})
      BY <2>4, MapWithout DEF UploadDuplicate, TypeOK
    <3>6. uploads' \in [Slots -> Upload \cup {Idle}]
      BY <2>4 DEF UploadDuplicate, TypeOK
    <3>. QED  BY <2>4, <3>4, <3>5, <3>6 DEF UploadDuplicate, TypeOK
  <2>5. CASE UploadNew(s)
    <3>1. uploads[s] \in Upload
      BY <2>5, UploadType DEF UploadNew
    <3>2. /\ uploads[s].data \in Contents /\ uploads[s].fid \in Fids
          /\ uploads[s].user \in Users /\ uploads[s].ch \in Channels
          /\ Size[uploads[s].data] \in Nat
      BY <3>1, StoreAssumption DEF Upload
    <3>3. IsMap(hashes', Contents, Fids) /\ IsMap(sides', Fids, Contents)
      BY <2>5, <3>2, MapAdd DEF UploadNew, TypeOK
    <3>4. [sha |-> uploads[s].data, size |-> Size[uploads[s].data],
           owner |-> uploads[s].user] \in FileMeta
      BY <3>2 DEF FileMeta
    <3>5. IsMap(files', Fids, FileMeta)
      BY <2>5, <3>2, <3>4, MapAdd DEF UploadNew, TypeOK
    <3>6. [do |-> "post", ch |-> uploads[s].ch, fid |-> uploads[s].fid,
           sha |-> uploads[s].data] \in PendingWrite
      BY <3>2 DEF PendingWrite
    <3>7. rest' \in Seq(PendingWrite)
      BY <2>5, <3>6 DEF UploadNew
    <3>8. uploads' \in [Slots -> Upload \cup {Idle}]
      BY <2>5 DEF UploadNew, TypeOK
    <3>9. DOMAIN used' = Users
      BY <2>5 DEF UploadNew, TypeOK
    <3>. QED  BY <2>5, <3>3, <3>5, <3>7, <3>8, <3>9 DEF UploadNew, TypeOK
  <2>. QED  BY <1>8, <2>1, <2>2, <2>3, <2>4, <2>5 DEF UploadSteps
<1>9. CASE HandlerStep
  <2>1. CASE RestPost
    <3>. DEFINE w == Head(rest)
    <3>1. w \in PendingWrite /\ w.do = "post" /\ Tail(rest) \in Seq(PendingWrite)
      BY <2>1, RestTail DEF RestPost, Holding
    <3>2. w.ch \in Channels /\ w.fid \in Fids /\ w.sha \in Contents
      BY <3>1 DEF PendingWrite
    <3>3. Assign(w.ch, "file", w.fid, w.sha)
      BY <2>1 DEF RestPost
    <3>4. refs' \in [Fids -> [Channels -> Nat]]
      BY <2>1, <3>2 DEF RestPost, TypeOK
    <3>. HIDE DEF w
    <3>5. rest' \in Seq(PendingWrite)
      BY <2>1, <3>1 DEF RestPost
    <3>. QED  BY <2>1, <3>2, <3>3, <3>4, <3>5, AssignType DEF RestPost, TypeOK
  <2>2. CASE RestTombstone
    <3>1. PICK m \in Live :
            TombstoneThen(m, LET left == Head(rest).ids \ {m.id} IN
              (IF left = {} THEN <<>> ELSE <<[do |-> "tombstone", ids |-> left]>>)
                \o Tail(rest))
      BY <2>2 DEF RestTombstone
    <3>. DEFINE left == Head(rest).ids \ {m.id}
                first == IF left = {} THEN <<>> ELSE <<[do |-> "tombstone", ids |-> left]>>
    <3>2. /\ Head(rest) \in PendingWrite /\ Head(rest).do = "tombstone"
          /\ Tail(rest) \in Seq(PendingWrite)
      BY <2>2, RestTail DEF RestTombstone, Holding
    <3>3. left \subseteq Nat
      BY <3>2 DEF PendingWrite
    <3>4. [do |-> "tombstone", ids |-> left] \in PendingWrite
      BY <3>3 DEF PendingWrite
    <3>5. first \in Seq(PendingWrite)
      BY <3>4
    <3>6. TombstoneThen(m, first \o Tail(rest))
      BY <3>1
    <3>. HIDE DEF first
    <3>7. first \o Tail(rest) \in Seq(PendingWrite)
      BY <3>2, <3>5, ConcatProperties
    <3>8. m \in msgs
      BY DEF Live
    <3>. QED  BY <3>6, <3>7, <3>8, TombstoneType
  <2>3. CASE RestUnlink
    <3>1. PICK f : blobs' = Without(blobs, {f})
      BY <2>3 DEF RestUnlink
    <3>2. IsMap(blobs, Fids, Contents \cup {Partial})
      BY DEF TypeOK
    <3>3. IsMap(blobs', Fids, Contents \cup {Partial})
      BY <3>1, <3>2, MapWithout
    <3>. QED  BY <2>3, <3>3 DEF RestUnlink, TypeOK
  <2>4. CASE RestUnlinkHash
    <3>1. /\ Head(rest) \in PendingWrite /\ Head(rest).do = "remove"
          /\ Tail(rest) \in Seq(PendingWrite)
      BY <2>4, RestTail DEF RestUnlinkHash, Holding
    <3>2. PICK f : /\ sides' = Without(sides, {f})
                   /\ rest' = Removal(Head(rest).fids \ {f}) \o Tail(rest)
      BY <2>4 DEF RestUnlinkHash
    <3>3. Head(rest).fids \ {f} \subseteq Fids
      BY <3>1 DEF PendingWrite
    <3>4. Removal(Head(rest).fids \ {f}) \in Seq(PendingWrite)
      BY <3>3, RestTypes
    <3>5. rest' \in Seq(PendingWrite)
      BY <3>1, <3>2, <3>4, ConcatProperties
    <3>6. IsMap(sides', Fids, Contents)
      BY <3>2, MapWithout DEF TypeOK
    <3>. QED  BY <2>4, <3>5, <3>6 DEF RestUnlinkHash, TypeOK
  <2>5. CASE RestSave
    <3>1. saved' = Snapshot /\ rest' \in Seq(PendingWrite)
      BY <2>5, RestTail DEF RestSave, Holding
    <3>. QED  BY <2>5, <3>1, SnapshotType DEF RestSave, TypeOK
  <2>6. CASE RestCompact
    <3>1. rest' \in Seq(PendingWrite)
      BY <2>6, RestTail DEF RestCompact, Holding
    <3>. QED  BY <2>6, <3>1 DEF RestCompact, TypeOK
  <2>. QED  BY <1>9, <2>1, <2>2, <2>3, <2>4, <2>5, <2>6, SMTT(60) DEF HandlerStep
<1>10. CASE Janitor
  <2>1. Expire(chans, dirty, FALSE, <<>>)
    BY <1>10 DEF Janitor
  <2>2. <<>> \in Seq(PendingWrite)
    OBVIOUS
  <2>3. dirty \in BOOLEAN
    BY DEF TypeOK
  <2>. HIDE DEF Expire
  <2>. QED  BY <1>10, <2>1, <2>2, <2>3, ExpireType DEF Janitor, TypeOK
<1>11. CASE Sweep \/ StartSweep
  <2>. DEFINE after == IF dirty \/ Forgets(Unreferred(Overdue(msgs, chans)))
                         THEN Save ELSE <<>>
  <2>1. after \in Seq(PendingWrite)
    <3>1. Save \in Seq(PendingWrite)
      BY RestTypes
    <3>2. <<>> \in Seq(PendingWrite)
      OBVIOUS
    <3>. HIDE DEF Save
    <3>. QED  BY <3>1, <3>2
  <2>2. SweepThen("up")
    BY <1>11 DEF Sweep, StartSweep
  <2>3. Expire(chans, dirty, TRUE, after) /\ dirty \in BOOLEAN
    BY <2>2 DEF SweepThen, TypeOK
  <2>. HIDE DEF after
  <2>. QED  BY <2>1, <2>2, <2>3, ExpireType DEF SweepThen, TypeOK
<1>12. CASE Flush
  BY <1>12, SnapshotType DEF Flush, TypeOK
<1>13. CASE Crash \/ Interrupt
  BY <1>13, DieType DEF Crash, Interrupt
<1>14. CASE Load
  BY <1>14, LoadType
<1>15. CASE Tick \/ Cool
  <2>1. CASE Tick
    <3>1. now' \in Nat
      BY <2>1 DEF Tick, TypeOK
    <3>. QED  BY <2>1, <3>1 DEF Tick, TypeOK
  <2>2. CASE Cool
    BY <2>2 DEF Cool, TypeOK
  <2>. QED  BY <1>15, <2>1, <2>2
<1>16. CASE UNCHANGED vars
  BY <1>16 DEF vars, TypeOK
<1>. QED  BY <1>1, <1>2, <1>3, <1>4, <1>5, <1>6, <1>7, <1>8, <1>9, <1>10, <1>11,
             <1>12, <1>13, <1>14, <1>15, <1>16
          DEF Next, Commands, Housekeeping, Lifecycle

\* Type correctness: in every behaviour, crashes included, every variable keeps
\* its type and the stores of messages stay finite.
THEOREM StoreTypeOK == Spec => []TypeOK
<1>. QED  BY InitType, NextType, PTL DEF Spec

-----------------------------------------------------------------------------
(***************************************************************************)
(* What a step may do to the messages and to the references: eight kinds.  *)
(***************************************************************************)

\* one message more
Posts(c, kind, fid, sha) ==
  /\ phase # "down" /\ UNCHANGED <<phase, files, dels>>
  /\ Assign(c, kind, fid, sha)
  /\ \/ kind = "msg" /\ UNCHANGED refs
     \/ kind = "file" /\ fid \in Fids /\ refs' = [refs EXCEPT ![fid][c] = @ + 1]

PostsOne ==
  \E c \in Channels, kind \in {"msg", "file"},
     fid \in Fids \cup {NoFid}, sha \in Contents \cup {NoSha} : Posts(c, kind, fid, sha)

\* the messages R leave, with the files only they referred to
Drops(R) ==
  /\ phase # "down" /\ phase' # "down"
  /\ msgs' = msgs \ R
  /\ refs' = RefsWithout(R)
  /\ Forget(Unreferred(R))
  /\ UNCHANGED <<nextID, log, dels, gone>>

\* one message becomes a tombstone
Deletes(m) ==
  /\ phase # "down"
  /\ msgs' = (msgs \ {m}) \cup {Tombstone(m)}
  /\ dels' = dels \cup {m.id}
  /\ gone' = gone \cup {m.id}
  /\ refs' = RefsWithout({m})
  /\ Forget(Unreferred({m}))
  /\ UNCHANGED <<phase, nextID, log>>

Compacts ==
  /\ phase # "down"
  /\ log' = msgs /\ dels' = {}
  /\ UNCHANGED <<phase, msgs, refs, gone, nextID, files>>

Prunes ==
  /\ phase # "down"
  /\ Forget(Prunable)
  /\ UNCHANGED <<phase, msgs, refs, log, dels, gone, nextID>>

\* neither messages nor references change
Quiet ==
  /\ UNCHANGED <<phase, msgs, refs, log, dels, gone, nextID>>
  /\ DOMAIN files \subseteq DOMAIN files'
  /\ phase = "down" => UNCHANGED files

\* Expiry, whoever asks for it, drops the overdue messages.
LEMMA ExpireDrops ==
  ASSUME NEW cs, NEW wasDirty, NEW force, NEW after, Expire(cs, wasDirty, force, after),
         phase # "down", phase' # "down", UNCHANGED <<log, dels>>
  PROVE  \E R \in SUBSET msgs : Drops(R)
<1>1. Overdue(msgs, cs) \in SUBSET msgs
  BY DEF Overdue
<1>2. Drops(Overdue(msgs, cs))
  BY DEF Expire, Drops
<1>. QED  BY <1>1, <1>2

\* A step of the hub is of one of the eight kinds.
LEMMA StepKinds ==
  ASSUME TypeOK, [Next]_vars
  PROVE  \/ PostsOne
         \/ \E R \in SUBSET msgs : Drops(R)
         \/ \E m \in msgs : Deletes(m)
         \/ Compacts \/ Prunes \/ Die \/ Load \/ Quiet
<1>1. ASSUME NEW c \in Channels, PostText(c) PROVE PostsOne
  <2>1. Posts(c, "msg", NoFid, NoSha)
    BY <1>1 DEF PostText, Posts, Ready
  <2>. QED  BY <2>1 DEF PostsOne
<1>2. ASSUME NEW c \in Channels, DeleteChannel(c) PROVE \E R \in SUBSET msgs : Drops(R)
  <2>1. InChan(msgs, c) \in SUBSET msgs
    BY DEF InChan
  <2>2. Drops(InChan(msgs, c))
    BY <1>2 DEF DeleteChannel, Drops, Ready
  <2>. QED  BY <2>1, <2>2
<1>3. ASSUME NEW c \in Channels, NEW e \in Expiries, Settings(c, e)
      PROVE  \E R \in SUBSET msgs : Drops(R)
  <2>1. /\ Expire(chans', FALSE, FALSE, <<>>)
        /\ phase # "down" /\ phase' # "down" /\ UNCHANGED <<log, dels>>
    BY <1>3 DEF Settings, Ready
  <2>. QED  BY <2>1, ExpireDrops
<1>4. ASSUME NEW c \in Channels, NEW e \in Expiries, Create(c, e) PROVE Quiet
  BY <1>4 DEF Create, Quiet, Ready
<1>5. ASSUME NEW m \in Live, Delete(m) PROVE \E n \in msgs : Deletes(n)
  <2>1. m \in msgs /\ Deletes(m)
    BY <1>5 DEF Live, Delete, TombstoneThen, Deletes, Ready
  <2>. QED  BY <2>1
<1>6. ASSUME NEW ids, Purge(ids) PROVE Quiet
  BY <1>6 DEF Purge, Quiet, Ready
<1>7. CASE Prune
  BY <1>7 DEF Prune, Prunes, Ready
<1>8. ASSUME NEW s \in Slots, UploadSteps(s) PROVE Quiet
  <2>1. ASSUME NEW u, NEW c, NEW d, UploadAdmit(s, u, c, d) PROVE Quiet
    BY <2>1 DEF UploadAdmit, Quiet
  <2>2. CASE UploadReceive(s) \/ UploadAbort(s) \/ UploadOrphaned(s) \/ UploadDuplicate(s)
    BY <2>2 DEF UploadReceive, UploadAbort, UploadOrphaned, UploadDuplicate, Quiet
  <2>3. CASE UploadNew(s)
    BY <2>3 DEF UploadNew, Quiet, Ready, With
  <2>. QED  BY <1>8, <2>1, <2>2, <2>3 DEF UploadSteps
<1>9. CASE RestPost
  <2>. DEFINE w == Head(rest)
  <2>1. w.ch \in Channels /\ w.fid \in Fids /\ w.sha \in Contents
    BY <1>9, RestTail DEF RestPost, Holding, PendingWrite
  <2>2. Posts(w.ch, "file", w.fid, w.sha)
    BY <1>9, <2>1 DEF RestPost, Posts, Holding
  <2>. HIDE DEF w
  <2>. QED  BY <2>1, <2>2 DEF PostsOne
<1>10. CASE RestTombstone
  <2>1. PICK m \in Live : \E after : TombstoneThen(m, after)
    BY <1>10 DEF RestTombstone
  <2>2. m \in msgs /\ Deletes(m)
    BY <1>10, <2>1 DEF Live, RestTombstone, Holding, TombstoneThen, Deletes
  <2>. QED  BY <2>2
<1>11. CASE RestUnlink \/ RestUnlinkHash \/ RestSave
  BY <1>11 DEF RestUnlink, RestUnlinkHash, RestSave, Quiet
<1>12. CASE RestCompact
  BY <1>12 DEF RestCompact, Compacts, Holding
<1>13. CASE Janitor
  <2>1. /\ Expire(chans, dirty, FALSE, <<>>)
        /\ phase # "down" /\ phase' # "down" /\ UNCHANGED <<log, dels>>
    BY <1>13 DEF Janitor, Ready
  <2>. QED  BY <2>1, ExpireDrops
<1>14. CASE Sweep \/ StartSweep
  <2>1. /\ \E after : Expire(chans, dirty, TRUE, after)
        /\ phase # "down" /\ phase' # "down" /\ UNCHANGED <<log, dels>>
    BY <1>14 DEF Sweep, StartSweep, SweepThen, Ready
  <2>. QED  BY <2>1, ExpireDrops
<1>15. CASE Flush \/ Tick \/ Cool \/ UNCHANGED vars
  BY <1>15 DEF Flush, Tick, Cool, vars, Quiet
<1>16. CASE Crash \/ Interrupt
  BY <1>16 DEF Crash, Interrupt
<1>. QED  BY <1>1, <1>2, <1>3, <1>4, <1>5, <1>6, <1>7, <1>8, <1>9, <1>10, <1>11,
             <1>12, <1>13, <1>14, <1>15, <1>16
          DEF Next, Commands, Housekeeping, Lifecycle, HandlerStep

-----------------------------------------------------------------------------
(***************************************************************************)
(* The inductive invariant.  RefsCover is inductive with the types; that   *)
(* deletions are final needs that no two served messages share an id (or   *)
(* deleting one would leave the other), and that the log knows of every    *)
(* deletion of a message it still holds (or a restart would bring it       *)
(* back); that log ids are unique needs the former when the log is         *)
(* rewritten from memory.                                                  *)
(***************************************************************************)
ServedIdsUnique == \A m, n \in msgs : m.id = n.id => m = n

LoggedDeletions ==
  \A m \in log : m.id \in gone => m.kind = "deleted" \/ m.id \in dels

NoFilesWhenDown == phase = "down" => DOMAIN files = {}

IInv ==
  /\ TypeOK
  /\ RefsCover
  /\ LogIdsUnique
  /\ ServedIdsUnique
  /\ DeletedStaysDeleted
  /\ LoggedDeletions
  /\ NoFilesWhenDown

LEMMA InitIInv == Init => IInv
<1>. SUFFICES ASSUME Init PROVE IInv
  OBVIOUS
<1>1. TypeOK
  BY InitType
<1>2. RefsCover
  <2>1. \A f \in Fids, c \in Channels : Referring(msgs, f, c) = {} /\ refs[f][c] = 0
    BY DEF Init, NoMemory, Referring
  <2>2. Cardinality({}) = 0
    BY FS_EmptySet
  <2>. QED  BY <2>1, <2>2 DEF RefsCover
<1>. QED  BY <1>1, <1>2
          DEF Init, NoMemory, IInv, LogIdsUnique, ServedIdsUnique,
              DeletedStaysDeleted, LoggedDeletions, NoFilesWhenDown

\* Every kind of step keeps the counts of references high enough.
LEMMA RefsCoverStep == TypeOK /\ RefsCover /\ [Next]_vars => RefsCover'
<1>. SUFFICES ASSUME TypeOK, RefsCover, [Next]_vars,
                     NEW f \in Fids, NEW c \in Channels
              PROVE  Cardinality(Referring(msgs', f, c)) <= refs'[f][c]
  BY DEF RefsCover, Referring
<1>. DEFINE A == Referring(msgs, f, c)
<1>0. /\ IsFiniteSet(msgs) /\ IsFiniteSet(A) /\ Cardinality(A) \in Nat
      /\ Cardinality(A) <= refs[f][c]
      /\ refs \in [Fids -> [Channels -> Nat]] /\ refs[f][c] \in Nat
  BY ReferringFinite DEF TypeOK, RefsCover
<1>1. CASE PostsOne
  <2>1. PICK ch \in Channels, kind \in {"msg", "file"},
             fid \in Fids \cup {NoFid}, sha \in Contents \cup {NoSha} :
               Posts(ch, kind, fid, sha)
    BY <1>1 DEF PostsOne
  <2>. DEFINE m == [id |-> nextID + 1, ch |-> ch, ts |-> now,
                    kind |-> kind, fid |-> fid, sha |-> sha]
              B == Referring(msgs', f, c)
  <2>2. msgs' \subseteq msgs \cup {m}
    BY <2>1, WithPostedSubset DEF Posts, Assign
  <2>3. m.kind = kind /\ m.fid = fid /\ m.ch = ch
    OBVIOUS
  <2>. HIDE DEF m
  <2>4. CASE kind = "file" /\ fid = f /\ ch = c
    <3>1. B \subseteq A \cup {m}
      BY <2>2 DEF Referring
    <3>. HIDE DEF A, B
    <3>2. /\ IsFiniteSet(A \cup {m})
          /\ Cardinality(A \cup {m}) <= Cardinality(A) + 1
          /\ Cardinality(A \cup {m}) \in Nat
      <4>1. IsFiniteSet(A)
        BY <1>0
      <4>2. /\ IsFiniteSet(A \cup {m})
            /\ Cardinality(A \cup {m}) = IF m \in A THEN Cardinality(A) ELSE Cardinality(A) + 1
        BY <4>1, FS_AddElement
      <4>. QED  BY <1>0, <4>2
    <3>3. Cardinality(B) <= Cardinality(A \cup {m}) /\ Cardinality(B) \in Nat
      BY <3>1, <3>2, FS_Subset, FS_CardinalityType
    <3>4. refs'[f][c] = refs[f][c] + 1
      BY <1>0, <2>1, <2>4 DEF Posts
    <3>. QED  BY <1>0, <3>2, <3>3, <3>4 DEF B
  <2>5. CASE ~ (kind = "file" /\ fid = f /\ ch = c)
    <3>1. B \subseteq A
      BY <2>2, <2>3, <2>5 DEF Referring
    <3>2. refs'[f][c] = refs[f][c]
      BY <1>0, <2>1, <2>5 DEF Posts
    <3>. HIDE DEF A, B
    <3>3. Cardinality(B) <= Cardinality(A) /\ Cardinality(B) \in Nat
      BY <1>0, <3>1, FS_Subset, FS_CardinalityType
    <3>. QED  BY <1>0, <3>2, <3>3 DEF B
  <2>. QED  BY <2>4, <2>5
<1>2. ASSUME NEW R \in SUBSET msgs, Drops(R)
      PROVE  Cardinality(Referring(msgs', f, c)) <= refs'[f][c]
  <2>1. Referring(msgs', f, c) = A \ Referring(R, f, c)
    BY <1>2 DEF Drops, Referring
  <2>2. refs' = RefsWithout(R)
    BY <1>2 DEF Drops
  <2>. QED  BY <1>0, <2>1, <2>2, RefsWithoutCovers
<1>3. ASSUME NEW m \in msgs, Deletes(m)
      PROVE  Cardinality(Referring(msgs', f, c)) <= refs'[f][c]
  <2>1. Tombstone(m).kind # "file"
    BY TombstoneFacts DEF TypeOK
  <2>2. Referring(msgs', f, c) = A \ Referring({m}, f, c)
    BY <1>3, <2>1 DEF Deletes, Referring
  <2>3. refs' = RefsWithout({m})
    BY <1>3 DEF Deletes
  <2>. QED  BY <1>0, <2>2, <2>3, RefsWithoutCovers
<1>4. CASE Compacts \/ Prunes \/ Quiet
  <2>1. msgs' = msgs /\ refs' = refs
    BY <1>4 DEF Compacts, Prunes, Quiet
  <2>. QED  BY <1>0, <2>1
<1>5. CASE Die
  <2>1. Referring(msgs', f, c) = {} /\ refs'[f][c] = 0
    BY <1>5 DEF Die, Referring
  <2>. QED  BY <2>1, FS_EmptySet
<1>6. CASE Load
  <2>1. msgs' = Recovered /\ refs'[f][c] = Cardinality(Referring(Recovered, f, c))
    BY <1>6 DEF Load
  <2>2. Cardinality(Referring(Recovered, f, c)) \in Nat
    BY RecoveredType, ReferringFinite
  <2>. QED  BY <2>1, <2>2
<1>. QED  BY <1>1, <1>2, <1>3, <1>4, <1>5, <1>6, StepKinds

\* The ids of what a start reads back are ids of the log, each of one message.
LEMMA RecoveredIds ==
  ASSUME TypeOK, LogIdsUnique
  PROVE  /\ \A r \in Recovered : \E m \in log :
              /\ r.id = m.id
              /\ r = IF m.id \in dels THEN Tombstone(m) ELSE m
         /\ \A r, q \in Recovered : r.id = q.id => r = q
<1>1. ASSUME NEW r \in Recovered
      PROVE  \E m \in log : r.id = m.id /\ r = IF m.id \in dels THEN Tombstone(m) ELSE m
  BY RecoveredType, TombstoneFacts DEF TypeOK
<1>. QED  BY <1>1 DEF LogIdsUnique

\* Every kind of step keeps ids unique, and numbering ahead of them.
LEMMA IdsStep ==
  TypeOK /\ LogIdsUnique /\ ServedIdsUnique /\ [Next]_vars
    => LogIdsUnique' /\ ServedIdsUnique'
<1>. SUFFICES ASSUME TypeOK, LogIdsUnique, ServedIdsUnique, [Next]_vars
              PROVE  LogIdsUnique' /\ ServedIdsUnique'
  OBVIOUS
<1>0. nextID \in Nat /\ \A m \in msgs \cup log : m \in Message /\ m.id \in Nat
  BY DEF TypeOK, Message
<1>1. CASE PostsOne
  <2>1. PICK c, kind, fid, sha : Posts(c, kind, fid, sha)
    BY <1>1 DEF PostsOne
  <2>. DEFINE m == [id |-> nextID + 1, ch |-> c, ts |-> now,
                    kind |-> kind, fid |-> fid, sha |-> sha]
  <2>2. /\ msgs' \subseteq msgs \cup {m} /\ log' = log \cup {m} /\ nextID' = nextID + 1
        /\ phase # "down" /\ m.id = nextID + 1
    BY <2>1, WithPostedSubset DEF Posts, Assign
  <2>. HIDE DEF m
  <2>3. \A x \in msgs \cup log : x.id < m.id /\ x.id <= nextID'
    BY <1>0, <2>2 DEF LogIdsUnique
  <2>. QED  BY <1>0, <2>2, <2>3 DEF LogIdsUnique, ServedIdsUnique
<1>2. ASSUME NEW R \in SUBSET msgs, Drops(R) PROVE LogIdsUnique' /\ ServedIdsUnique'
  BY <1>2 DEF Drops, LogIdsUnique, ServedIdsUnique
<1>3. ASSUME NEW m \in msgs, Deletes(m) PROVE LogIdsUnique' /\ ServedIdsUnique'
  <2>1. Tombstone(m).id = m.id
    BY <1>0, TombstoneFacts
  <2>2. /\ msgs' = (msgs \ {m}) \cup {Tombstone(m)}
        /\ log' = log /\ nextID' = nextID /\ phase' = phase
    BY <1>3 DEF Deletes
  <2>. QED  BY <2>1, <2>2 DEF LogIdsUnique, ServedIdsUnique
<1>4. CASE Compacts
  BY <1>4 DEF Compacts, LogIdsUnique, ServedIdsUnique
<1>5. CASE Prunes \/ Quiet
  BY <1>5 DEF Prunes, Quiet, LogIdsUnique, ServedIdsUnique
<1>6. CASE Die
  BY <1>6 DEF Die, LogIdsUnique, ServedIdsUnique
<1>7. CASE Load
  <2>1. /\ msgs' = Recovered /\ log' = log
        /\ HighestLogged(nextID')
    BY <1>7 DEF Load
  <2>2. \A x \in log : x.id <= nextID'
    BY <2>1 DEF HighestLogged, Ids
  <2>. QED  BY <2>1, <2>2, RecoveredIds DEF LogIdsUnique, ServedIdsUnique
<1>. QED  BY <1>1, <1>2, <1>3, <1>4, <1>5, <1>6, <1>7, StepKinds

\* Every kind of step keeps deletions final, in memory and on the disk.
LEMMA DeletionsStep ==
  /\ TypeOK /\ LogIdsUnique /\ ServedIdsUnique
  /\ DeletedStaysDeleted /\ LoggedDeletions
  /\ [Next]_vars
  => DeletedStaysDeleted' /\ LoggedDeletions'
<1>. SUFFICES ASSUME TypeOK, LogIdsUnique, ServedIdsUnique,
                     DeletedStaysDeleted, LoggedDeletions, [Next]_vars
              PROVE  DeletedStaysDeleted' /\ LoggedDeletions'
  OBVIOUS
<1>0. \A m \in msgs \cup log : m \in Message
  BY DEF TypeOK
<1>1. CASE PostsOne
  <2>1. PICK c, kind, fid, sha : Posts(c, kind, fid, sha)
    BY <1>1 DEF PostsOne
  <2>. DEFINE m == [id |-> nextID + 1, ch |-> c, ts |-> now,
                    kind |-> kind, fid |-> fid, sha |-> sha]
  <2>2. /\ msgs' \subseteq msgs \cup {m} /\ log' = log \cup {m}
        /\ gone' = gone \ {m.id} /\ dels' = dels
    BY <2>1, WithPostedSubset DEF Posts, Assign
  <2>. HIDE DEF m
  <2>. QED  BY <2>2 DEF DeletedStaysDeleted, LoggedDeletions
<1>2. ASSUME NEW R \in SUBSET msgs, Drops(R)
      PROVE  DeletedStaysDeleted' /\ LoggedDeletions'
  BY <1>2 DEF Drops, DeletedStaysDeleted, LoggedDeletions
<1>3. ASSUME NEW m \in msgs, Deletes(m)
      PROVE  DeletedStaysDeleted' /\ LoggedDeletions'
  <2>1. Tombstone(m).id = m.id /\ Tombstone(m).kind = "deleted"
    BY <1>0, TombstoneFacts
  <2>2. /\ msgs' = (msgs \ {m}) \cup {Tombstone(m)} /\ log' = log
        /\ gone' = gone \cup {m.id} /\ dels' = dels \cup {m.id}
    BY <1>3 DEF Deletes
  <2>3. \A x \in msgs \ {m} : x.id # m.id
    BY DEF ServedIdsUnique
  <2>. QED  BY <2>1, <2>2, <2>3 DEF DeletedStaysDeleted, LoggedDeletions
<1>4. CASE Compacts
  BY <1>4 DEF Compacts, DeletedStaysDeleted, LoggedDeletions
<1>5. CASE Prunes \/ Quiet
  BY <1>5 DEF Prunes, Quiet, DeletedStaysDeleted, LoggedDeletions
<1>6. CASE Die
  BY <1>6 DEF Die, DeletedStaysDeleted, LoggedDeletions
<1>7. CASE Load
  <2>1. msgs' = Recovered /\ log' = log /\ dels' = dels /\ gone' = gone
    BY <1>7 DEF Load
  <2>2. ASSUME NEW r \in Recovered, r.id \in gone PROVE r.kind = "deleted"
    <3>1. PICK m \in log : r.id = m.id /\ r = IF m.id \in dels THEN Tombstone(m) ELSE m
      BY RecoveredIds
    <3>2. m.kind = "deleted" \/ m.id \in dels
      BY <2>2, <3>1 DEF LoggedDeletions
    <3>. QED  BY <1>0, <3>1, <3>2, TombstoneFacts
  <2>. QED  BY <2>1, <2>2 DEF DeletedStaysDeleted, LoggedDeletions
<1>. QED  BY <1>1, <1>2, <1>3, <1>4, <1>5, <1>6, <1>7, StepKinds

LEMMA NoFilesWhenDownStep ==
  ASSUME TypeOK, NoFilesWhenDown, [Next]_vars
  PROVE  NoFilesWhenDown'
<1>1. Load => phase' # "down"
  BY DEF Load
<1>2. Die => DOMAIN files' = {}
  BY DEF Die
<1>. QED  BY <1>1, <1>2, StepKinds
          DEF NoFilesWhenDown, PostsOne, Posts, Drops, Deletes, Compacts, Prunes, Quiet

LEMMA NextIInv == IInv /\ [Next]_vars => IInv'
<1>. QED  BY NextType, RefsCoverStep, IdsStep, DeletionsStep, NoFilesWhenDownStep DEF IInv

THEOREM StoreIInv == Spec => []IInv
<1>. QED  BY InitIInv, NextIInv, PTL DEF Spec

\* The count kept for a file is never below the number of served messages that
\* show it, however del, purge, expiry, channel deletion and restarts interleave.
THEOREM StoreRefsCover == Spec => []RefsCover
<1>1. IInv => RefsCover
  BY DEF IInv
<1>. QED  BY <1>1, StoreIInv, PTL

\* No two lines of the log share an id, and the next id is above all of them.
THEOREM StoreLogIdsUnique == Spec => []LogIdsUnique
<1>1. IInv => LogIdsUnique
  BY DEF IInv
<1>. QED  BY <1>1, StoreIInv, PTL

\* A deletion that reached the log survives every crash and every compaction.
THEOREM StoreDeletedStaysDeleted == Spec => []DeletedStaysDeleted
<1>1. IInv => DeletedStaysDeleted
  BY DEF IInv
<1>. QED  BY <1>1, StoreIInv, PTL

-----------------------------------------------------------------------------
(***************************************************************************)
(* No file goes while a served message shows it                            *)
(***************************************************************************)

\* A file whose counts are all zero is shown by no message.
LEMMA ZeroMeansUnshown ==
  ASSUME TypeOK', RefsCover', NEW f \in Fids, \A c \in Channels : refs'[f][c] = 0
  PROVE  \A m \in msgs' : m.kind = "file" => m.fid # f
<1>. SUFFICES ASSUME NEW m \in msgs', m.kind = "file", m.fid = f PROVE FALSE
  OBVIOUS
<1>1. IsFiniteSet(msgs') /\ m.ch \in Channels
  BY DEF TypeOK, Message
<1>2. m \in Referring(msgs', f, m.ch)
  BY DEF Referring
<1>3. Cardinality(Referring(msgs', f, m.ch)) <= 0
  BY <1>1 DEF RefsCover, Referring
<1>4. /\ IsFiniteSet(Referring(msgs', f, m.ch))
      /\ Cardinality(Referring(msgs', f, m.ch)) \in Nat
  BY <1>1, ReferringFinite
<1>. QED  BY <1>2, <1>3, <1>4, FS_EmptySet

\* A step that forgets files forgets unshown ones.
LEMMA NoPrematureDeleteStep ==
  ASSUME IInv, [Next]_vars, phase' # "down",
         NEW f \in DOMAIN files \ DOMAIN files'
  PROVE  \A m \in msgs' : m.kind = "file" => m.fid # f
<1>1. TypeOK' /\ RefsCover'
  BY NextIInv DEF IInv
<1>2. f \in Fids
  BY DEF IInv, TypeOK, IsMap
<1>3. ASSUME NEW F, Forget(F) PROVE f \in F
  <2>1. files' = Without(files, F \cap DOMAIN files)
    BY <1>3 DEF Forget
  <2>. QED  BY <2>1 DEF Without, Restrict
<1>4. ASSUME NEW R, Forget(Unreferred(R)), refs' = RefsWithout(R)
      PROVE  \A c \in Channels : refs'[f][c] = 0
  BY <1>3, <1>4 DEF Unreferred
<1>5. CASE Prunes
  <2>1. refs' = refs /\ f \in Prunable
    BY <1>3, <1>5 DEF Prunes
  <2>2. \A c \in Channels : refs'[f][c] = 0
    BY <2>1 DEF Prunable
  <2>. QED  BY <1>1, <1>2, <2>2, ZeroMeansUnshown
<1>6. ASSUME NEW R, Drops(R) PROVE \A c \in Channels : refs'[f][c] = 0
  BY <1>4, <1>6 DEF Drops
<1>7. ASSUME NEW m, Deletes(m) PROVE \A c \in Channels : refs'[f][c] = 0
  BY <1>4, <1>7 DEF Deletes
<1>8. CASE Load
  <2>1. DOMAIN files = {}
    BY <1>8 DEF Load, IInv, NoFilesWhenDown
  <2>. QED  BY <2>1
<1>9. ~ PostsOne /\ ~ Compacts /\ ~ Die /\ ~ Quiet
  BY DEF PostsOne, Posts, Compacts, Die, Quiet
<1>. QED  BY <1>1, <1>2, <1>5, <1>6, <1>7, <1>8, <1>9, StepKinds, ZeroMeansUnshown DEF IInv

\* deleteFile takes a file away only when no message that is still served shows
\* it, whatever asked for the deletion and whatever crashed before.
THEOREM StoreNoPrematureDelete == Spec => NoPrematureDelete
<1>. DEFINE Safe == phase' # "down" =>
              \A f \in DOMAIN files \ DOMAIN files' :
                \A m \in msgs' : m.kind = "file" => m.fid # f
<1>1. IInv /\ [Next]_vars => [Safe]_vars
  BY NoPrematureDeleteStep
<1>. HIDE DEF Safe
<1>2. Spec => [][Safe]_vars
  BY <1>1, StoreIInv, PTL DEF Spec
<1>. QED  BY <1>2 DEF Safe, NoPrematureDelete

-----------------------------------------------------------------------------
(***************************************************************************)
(* What handlers have still to write                                       *)
(***************************************************************************)
LEMMA RestRange ==
  ASSUME NEW T, NEW s \in Seq(T), NEW t \in Seq(T)
  PROVE  /\ \A w : w \in Range(s \o t) <=> w \in Range(s) \/ w \in Range(t)
         /\ Range(<<>>) = {}
         /\ \A w : Range(<<w>>) = {w}
<1>1. /\ DOMAIN s = 1 .. Len(s) /\ Len(s) \in Nat
      /\ DOMAIN t = 1 .. Len(t) /\ Len(t) \in Nat
  BY LenProperties
<1>2. /\ s \o t \in Seq(T) /\ Len(s \o t) = Len(s) + Len(t)
      /\ \A i \in 1 .. Len(s) + Len(t) :
           (s \o t)[i] = IF i <= Len(s) THEN s[i] ELSE t[i - Len(s)]
  BY ConcatProperties
<1>3. DOMAIN (s \o t) = 1 .. Len(s) + Len(t)
  BY <1>2, LenProperties
<1>4. ASSUME NEW i \in 1 .. Len(s) + Len(t)
      PROVE  (s \o t)[i] \in Range(s) \/ (s \o t)[i] \in Range(t)
  <2>1. CASE i <= Len(s)
    <3>1. i \in DOMAIN s /\ (s \o t)[i] = s[i]
      BY <1>1, <1>2, <2>1
    <3>. QED  BY <3>1 DEF Range
  <2>2. CASE ~ (i <= Len(s))
    <3>1. i - Len(s) \in DOMAIN t /\ (s \o t)[i] = t[i - Len(s)]
      BY <1>1, <1>2, <2>2
    <3>. QED  BY <3>1 DEF Range
  <2>. QED  BY <2>1, <2>2
<1>5. \A w \in Range(s \o t) : w \in Range(s) \/ w \in Range(t)
  BY <1>3, <1>4, Zenon DEF Range
<1>6. \A i \in DOMAIN s : s[i] \in Range(s \o t)
  <2>1. \A i \in DOMAIN s : i \in DOMAIN (s \o t) /\ (s \o t)[i] = s[i]
    BY <1>1, <1>2, <1>3
  <2>. QED  BY <2>1 DEF Range
<1>7. \A i \in DOMAIN t : t[i] \in Range(s \o t)
  <2>1. \A i \in DOMAIN t : /\ Len(s) + i \in DOMAIN (s \o t)
                            /\ (s \o t)[Len(s) + i] = t[i]
    BY <1>1, <1>2, <1>3
  <2>. QED  BY <2>1 DEF Range
<1>8. \A w : w \in Range(s) \/ w \in Range(t) => w \in Range(s \o t)
  BY <1>6, <1>7, Zenon DEF Range
<1>9. Range(<<>>) = {} /\ \A w : Range(<<w>>) = {w}
  BY DEF Range
<1>. QED  BY <1>5, <1>8, <1>9

LEMMA RestHead ==
  ASSUME NEW T, NEW s \in Seq(T), s # <<>>
  PROVE  /\ Head(s) \in Range(s) /\ Head(s) \in T
         /\ Tail(s) \in Seq(T) /\ \A w \in Range(Tail(s)) : w \in Range(s)
         /\ \A w \in Range(s) : w = Head(s) \/ w \in Range(Tail(s))
<1>1. DOMAIN s = 1 .. Len(s) /\ Len(s) \in Nat /\ Len(s) >= 1
  BY LenProperties, EmptySeq
<1>2. /\ Tail(s) \in Seq(T) /\ Len(Tail(s)) = Len(s) - 1 /\ Head(s) \in T
      /\ \A i \in 1 .. Len(Tail(s)) : Tail(s)[i] = s[i + 1]
  BY HeadTailProperties
<1>3. DOMAIN Tail(s) = 1 .. Len(s) - 1
  BY <1>2, LenProperties
<1>4. Head(s) = s[1] /\ 1 \in DOMAIN s
  BY <1>1
<1>5. \A i \in 1 .. Len(s) - 1 : Tail(s)[i] \in Range(s)
  <2>1. \A i \in 1 .. Len(s) - 1 : Tail(s)[i] = s[i + 1] /\ i + 1 \in DOMAIN s
    BY <1>1, <1>2
  <2>. QED  BY <2>1 DEF Range
<1>6. \A w \in Range(Tail(s)) : w \in Range(s)
  BY <1>3, <1>5, Zenon DEF Range
<1>7. Head(s) \in Range(s)
  BY <1>4 DEF Range
<1>8. \A i \in DOMAIN s : s[i] = Head(s) \/ s[i] \in Range(Tail(s))
  <2>1. \A i \in DOMAIN s : i = 1 \/ (i - 1 \in DOMAIN Tail(s) /\ Tail(s)[i - 1] = s[i])
    BY <1>1, <1>2, <1>3
  <2>. QED  BY <1>4, <2>1 DEF Range
<1>9. \A w \in Range(s) : w = Head(s) \/ w \in Range(Tail(s))
  BY <1>8, Zenon DEF Range
<1>. QED  BY <1>2, <1>6, <1>7, <1>9

\* A write that posts nothing and removes nothing.
Plain(w) == w.do # "remove" /\ w.do # "post"

LEMMA RestKinds ==
  ASSUME NEW F \in SUBSET Fids, NEW b \in BOOLEAN
  PROVE  /\ \A w \in Range(Removal(F)) : w.do = "remove" /\ w.fids = F
         /\ \A w \in Range(Save) : Plain(w) /\ w.do = "save"
         /\ \A w \in Range(CompactIf(b)) : Plain(w) /\ w.do # "save"
         /\ [do |-> "save"] \in Range(Save)
<1>1. \A w : Range(<<w>>) = {w}
  BY DEF Range
<1>2. Range(<<>>) = {}
  BY DEF Range
<1>3. Range(Save) = {[do |-> "save"]}
  BY <1>1 DEF Save
<1>4. Range(Removal(F)) \subseteq {[do |-> "remove", fids |-> F]}
  <2>1. CASE F = {}
    BY <1>2, <2>1 DEF Removal
  <2>2. CASE F # {}
    <3>1. Removal(F) = <<[do |-> "remove", fids |-> F]>>
      BY <2>2 DEF Removal
    <3>. QED  BY <1>1, <3>1
  <2>. QED  BY <2>1, <2>2
<1>5. Range(CompactIf(b)) \subseteq {[do |-> "compact"]}
  <2>1. CASE b
    <3>1. CompactIf(b) = <<[do |-> "compact"]>>
      BY <2>1 DEF CompactIf
    <3>. QED  BY <1>1, <3>1
  <2>2. CASE ~b
    BY <1>2, <2>2 DEF CompactIf
  <2>. QED  BY <2>1, <2>2
<1>. QED  BY <1>3, <1>4, <1>5 DEF Plain

LEMMA ExpireRest ==
  ASSUME NEW cs, NEW wasDirty, NEW force \in BOOLEAN, NEW after \in Seq(PendingWrite),
         Expire(cs, wasDirty, force, after)
  PROVE  \A w \in Range(rest') :
           \/ Plain(w) /\ w.do # "save"
           \/ w.do = "remove" /\ w.fids = Unreferred(Overdue(msgs, cs))
           \/ w \in Range(after)
<1>. DEFINE R == Overdue(msgs, cs)
            F == Unreferred(R)
            n == removed + Cardinality(R)
            compact == n > RemovedCap \/ (n > 0 /\ (force \/ ~ recent))
<1>1. F \in SUBSET Fids
  BY UnreferredType
<1>2. rest' = (Removal(F) \o CompactIf(compact)) \o after
  BY DEF Expire
<1>3. compact \in BOOLEAN
  OBVIOUS
<1>. HIDE DEF F, R, compact
<1>4. /\ Removal(F) \in Seq(PendingWrite) /\ CompactIf(compact) \in Seq(PendingWrite)
      /\ Removal(F) \o CompactIf(compact) \in Seq(PendingWrite)
  BY <1>1, <1>3, RestTypes, ConcatProperties
<1>5. \A w \in Range(rest') :
        w \in Range(Removal(F)) \/ w \in Range(CompactIf(compact)) \/ w \in Range(after)
  <2>1. PICK x : x = Removal(F) \o CompactIf(compact)
    OBVIOUS
  <2>2. x \in Seq(PendingWrite) /\ rest' = x \o after
    BY <1>2, <1>4, <2>1
  <2>3. \A w \in Range(x) : w \in Range(Removal(F)) \/ w \in Range(CompactIf(compact))
    BY <1>4, <2>1, RestRange
  <2>4. \A w \in Range(x \o after) : w \in Range(x) \/ w \in Range(after)
    BY <2>2, RestRange
  <2>. QED  BY <2>2, <2>3, <2>4
<1>6. \A w \in Range(rest') :
        \/ Plain(w) /\ w.do # "save"
        \/ w.do = "remove" /\ w.fids = F
        \/ w \in Range(after)
  <2>1. /\ \A w \in Range(Removal(F)) : w.do = "remove" /\ w.fids = F
        /\ \A w \in Range(CompactIf(compact)) : Plain(w) /\ w.do # "save"
    BY <1>1, <1>3, RestKinds
  <2>. QED  BY <1>5, <2>1
<1>. QED  BY <1>6 DEF F, R

LEMMA TombstoneRest ==
  ASSUME NEW m, NEW after \in Seq(PendingWrite), TombstoneThen(m, after)
  PROVE  /\ \A w \in Range(rest') :
              (w.do = "remove" /\ w.fids = Unreferred({m})) \/ w \in Range(after)
         /\ \A w \in Range(after) : w \in Range(rest')
<1>. DEFINE F == Unreferred({m})
<1>1. F \in SUBSET Fids
  BY UnreferredType
<1>2. rest' = Removal(F) \o after
  BY DEF TombstoneThen
<1>. HIDE DEF F
<1>3. Removal(F) \in Seq(PendingWrite)
  BY <1>1, RestTypes
<1>4. \A w : w \in Range(rest') <=> w \in Range(Removal(F)) \/ w \in Range(after)
  BY <1>2, <1>3, RestRange
<1>5. \A w \in Range(rest') : (w.do = "remove" /\ w.fids = F) \/ w \in Range(after)
  BY <1>1, <1>4, RestKinds
<1>. QED  BY <1>4, <1>5 DEF F

\* What is left of a purge after one of its messages.
PurgeLeft(m) ==
  LET left == Head(rest).ids \ {m.id} IN
  IF left = {} THEN <<>> ELSE <<[do |-> "tombstone", ids |-> left]>>

LEMMA PurgeRest ==
  ASSUME TypeOK, RestTombstone
  PROVE  \E m \in Live, after \in Seq(PendingWrite) :
           /\ TombstoneThen(m, after)
           /\ \A w \in Range(after) : (Plain(w) /\ w.do # "save") \/ w \in Range(rest)
           /\ \A w \in Range(rest) : w = Head(rest) \/ w \in Range(after)
           /\ Head(rest).do = "tombstone" /\ rest # <<>>
<1>1. PICK m \in Live : TombstoneThen(m, PurgeLeft(m) \o Tail(rest))
  BY DEF RestTombstone, PurgeLeft
<1>2. rest # <<>> /\ Head(rest).do = "tombstone" /\ rest \in Seq(PendingWrite)
  BY DEF RestTombstone, Holding, TypeOK
<1>3. /\ Head(rest) \in PendingWrite /\ Tail(rest) \in Seq(PendingWrite)
      /\ \A w \in Range(Tail(rest)) : w \in Range(rest)
      /\ \A w \in Range(rest) : w = Head(rest) \/ w \in Range(Tail(rest))
  BY <1>2, RestHead
<1>4. PICK p : p = PurgeLeft(m)
  OBVIOUS
<1>5. p \in Seq(PendingWrite) /\ \A w \in Range(p) : Plain(w) /\ w.do # "save"
  <2>1. PICK w : w = [do |-> "tombstone", ids |-> Head(rest).ids \ {m.id}]
    OBVIOUS
  <2>2. w \in PendingWrite /\ Plain(w) /\ w.do # "save"
    <3>1. Head(rest).ids \ {m.id} \in SUBSET Nat
      BY <1>2, <1>3 DEF PendingWrite
    <3>. QED  BY <2>1, <3>1 DEF PendingWrite, Plain
  <2>3. p = <<>> \/ p = <<w>>
    BY <1>4, <2>1 DEF PurgeLeft
  <2>4. /\ <<>> \in Seq(PendingWrite) /\ \A x \in PendingWrite : <<x>> \in Seq(PendingWrite)
        /\ Range(<<>>) = {} /\ \A x : Range(<<x>>) = {x}
    BY DEF Range
  <2>. QED  BY <2>2, <2>3, <2>4
<1>6. /\ p \o Tail(rest) \in Seq(PendingWrite)
      /\ \A w : w \in Range(p \o Tail(rest)) <=> w \in Range(p) \/ w \in Range(Tail(rest))
  BY <1>3, <1>5, ConcatProperties, RestRange
<1>7. PICK after : after = p \o Tail(rest)
  OBVIOUS
<1>8. after \in Seq(PendingWrite) /\ TombstoneThen(m, after)
  BY <1>1, <1>4, <1>6, <1>7
<1>9. /\ \A w \in Range(after) : (Plain(w) /\ w.do # "save") \/ w \in Range(rest)
      /\ \A w \in Range(rest) : w = Head(rest) \/ w \in Range(after)
  BY <1>3, <1>5, <1>6, <1>7
<1>. QED  BY <1>2, <1>8, <1>9

\* Deleting a channel leaves state.json to be saved.
LEMMA DeleteChannelRest ==
  ASSUME NEW c, DeleteChannel(c)
  PROVE  /\ \A w \in Range(rest') :
              Plain(w) \/ (w.do = "remove" /\ w.fids = Unreferred(InChan(msgs, c)))
         /\ \E w \in Range(rest') : w.do = "save"
<1>. DEFINE F == Unreferred(InChan(msgs, c))
<1>1. F \in SUBSET Fids
  BY UnreferredType
<1>2. rest' = (Removal(F) \o Save) \o CompactIf(TRUE)
  BY DEF DeleteChannel
<1>. HIDE DEF F
<1>3. /\ Removal(F) \in Seq(PendingWrite) /\ Save \in Seq(PendingWrite)
      /\ CompactIf(TRUE) \in Seq(PendingWrite)
      /\ Removal(F) \o Save \in Seq(PendingWrite)
  BY <1>1, RestTypes, ConcatProperties
<1>4. PICK x, y : x = Removal(F) \o Save /\ y = CompactIf(TRUE)
  OBVIOUS
<1>5. \A w : w \in Range(x) <=> w \in Range(Removal(F)) \/ w \in Range(Save)
  BY <1>3, <1>4, RestRange
<1>6. \A w : w \in Range(x \o y) <=> w \in Range(x) \/ w \in Range(y)
  <2>1. x \in Seq(PendingWrite) /\ y \in Seq(PendingWrite)
    BY <1>3, <1>4
  <2>. QED  BY <2>1, RestRange
<1>7. rest' = x \o y
  BY <1>2, <1>4
<1>8. /\ \A w \in Range(Removal(F)) : w.do = "remove" /\ w.fids = F
      /\ \A w \in Range(Save) : Plain(w) /\ w.do = "save"
      /\ \A w \in Range(y) : Plain(w)
      /\ [do |-> "save"] \in Range(Save)
  BY <1>1, <1>4, RestKinds
<1>9. \A w \in Range(rest') : Plain(w) \/ (w.do = "remove" /\ w.fids = F)
  BY <1>5, <1>6, <1>7, <1>8
<1>10. \E w \in Range(rest') : w.do = "save"
  BY <1>5, <1>6, <1>7, <1>8
<1>. QED  BY <1>9, <1>10 DEF F

-----------------------------------------------------------------------------
(***************************************************************************)
(* Files, their bytes and the uploads, while the process has not ended     *)
(***************************************************************************)
Busy(s) == uploads[s] # Idle

\* A file of the catalog has its bytes, and the index of contents leads to it.
Shelved(f) ==
  /\ f <= drawn /\ f \in DOMAIN blobs /\ blobs[f] = files[f].sha
  /\ files[f].sha \in DOMAIN hashes /\ hashes[files[f].sha] = f

Leads(d) == hashes[d] \in DOMAIN files /\ files[hashes[d]].sha = d

\* A busy connection writes to a file of its own that is not in the catalog.
Carried(s) ==
  /\ uploads[s].fid <= drawn /\ uploads[s].fid \notin DOMAIN files
  /\ uploads[s].fid \in DOMAIN blobs
  /\ uploads[s].stage = "received" => blobs[uploads[s].fid] = uploads[s].data
  /\ \A t \in Slots : Busy(t) /\ uploads[t].fid = uploads[s].fid => t = s

Cleared(f) ==
  /\ f <= drawn /\ f \notin DOMAIN files
  /\ \A s \in Slots : Busy(s) => uploads[s].fid # f

\* Only files nobody needs wait for being unlinked; a message is posted last, of a file
\* that is there.
Entrusted(w) ==
  /\ w.do = "remove" => \A f \in w.fids : Cleared(f)
  /\ w.do = "post" => rest = <<w>> /\ w.fid \in DOMAIN files /\ files[w.fid].sha = w.sha

Shown(m) == m.kind = "file" => m.fid \in DOMAIN files /\ files[m.fid].sha = m.sha

Shelves ==
  /\ phase # "down"
  /\ \A f \in DOMAIN files : Shelved(f)
  /\ \A d \in DOMAIN hashes : Leads(d)
  /\ \A s \in Slots : Busy(s) => Carried(s)
  /\ \A w \in Range(rest) : Entrusted(w)
  /\ \A m \in msgs : Shown(m)

\* The steps that move no file.
Aside ==
  /\ phase' # "down"
  /\ UNCHANGED <<files, hashes, blobs, uploads, drawn>>
  /\ \A w \in Range(rest') : w \in Range(rest) \/ Plain(w)
  /\ \A w \in Range(rest') : w.do = "post" => rest' = rest
  /\ \A m \in msgs' : m.kind = "file" => m \in msgs

\* The steps that take the files F out of the catalog.
Clears(F) ==
  /\ phase' # "down"
  /\ Forget(F)
  /\ UNCHANGED <<blobs, uploads, drawn>>
  /\ \A w \in Range(rest') :
       \/ Plain(w) \/ (w \in Range(rest) /\ w.do # "post")
       \/ w.do = "remove" /\ w.fids = F
  /\ \A f \in F : f \in DOMAIN files \/ \E m \in msgs : m.kind = "file" /\ m.fid = f
  /\ \A m \in msgs' : m.kind = "file" => m \in msgs

LEMMA UnreferredShown ==
  ASSUME NEW R \in SUBSET msgs
  PROVE  \A f \in Unreferred(R) : \E m \in msgs : m.kind = "file" /\ m.fid = f
BY DEF Unreferred

LEMMA ExpireClears ==
  ASSUME NEW cs, NEW wasDirty, NEW force \in BOOLEAN, NEW after \in Seq(PendingWrite),
         Expire(cs, wasDirty, force, after), \A w \in Range(after) : Plain(w),
         phase' # "down", UNCHANGED <<blobs, uploads, drawn>>
  PROVE  \E F \in SUBSET Fids : Clears(F)
<1>. DEFINE F == Unreferred(Overdue(msgs, cs))
<1>1. Overdue(msgs, cs) \in SUBSET msgs
  BY DEF Overdue
<1>2. F \in SUBSET Fids /\ \A f \in F : \E m \in msgs : m.kind = "file" /\ m.fid = f
  BY <1>1, UnreferredType, UnreferredShown
<1>3. msgs' = msgs \ Overdue(msgs, cs) /\ Forget(F)
  BY DEF Expire
<1>4. \A w \in Range(rest') : Plain(w) \/ (w.do = "remove" /\ w.fids = F)
  BY ExpireRest
<1>. HIDE DEF F
<1>5. Clears(F)
  BY <1>2, <1>3, <1>4 DEF Clears
<1>. QED  BY <1>2, <1>5

LEMMA TombstoneClears ==
  ASSUME TypeOK, NEW m \in msgs, NEW after \in Seq(PendingWrite), TombstoneThen(m, after),
         \A w \in Range(after) : Plain(w) \/ (w \in Range(rest) /\ w.do # "post"),
         phase # "down"
  PROVE  \E F \in SUBSET Fids : Clears(F)
<1>. DEFINE F == Unreferred({m})
<1>1. F \in SUBSET Fids /\ \A f \in F : \E x \in msgs : x.kind = "file" /\ x.fid = f
  <2>1. {m} \in SUBSET msgs
    OBVIOUS
  <2>. QED  BY <2>1, UnreferredType, UnreferredShown
<1>2. /\ msgs' = (msgs \ {m}) \cup {Tombstone(m)} /\ Forget(F)
      /\ UNCHANGED <<phase, blobs, uploads, drawn>>
  BY DEF TombstoneThen
<1>3. \A x \in msgs' : x.kind = "file" => x \in msgs
  BY <1>2, TombstoneFacts DEF TypeOK
<1>4. \A w \in Range(rest') : (w.do = "remove" /\ w.fids = F) \/ w \in Range(after)
  BY TombstoneRest
<1>. HIDE DEF F
<1>5. Clears(F)
  BY <1>1, <1>2, <1>3, <1>4 DEF Clears
<1>. QED  BY <1>1, <1>5

\* What the steps of the hub do to files.
LEMMA ShelfKinds ==
  ASSUME TypeOK, Shelves, [Next]_vars, crashes' = 0
  PROVE  \/ Aside
         \/ \E F \in SUBSET Fids : Clears(F)
         \/ \E s \in Slots : UploadSteps(s)
         \/ RestPost \/ RestUnlink \/ RestUnlinkHash
<1>0. rest \in Seq(PendingWrite) /\ Range(<<>>) = {} /\ \A w : Range(<<w>>) = {w}
  <2>1. rest \in Seq(PendingWrite)
    BY DEF TypeOK
  <2>. QED  BY <2>1, RestRange
<1>1. ASSUME NEW c \in Channels, PostText(c) PROVE Aside
  <2>. DEFINE m == [id |-> nextID + 1, ch |-> c, ts |-> now,
                    kind |-> "msg", fid |-> NoFid, sha |-> NoSha]
  <2>1. msgs' \subseteq msgs \cup {m}
    BY <1>1, WithPostedSubset DEF PostText, Assign
  <2>2. m.kind # "file"
    OBVIOUS
  <2>. HIDE DEF m
  <2>. QED  BY <1>1, <2>1, <2>2 DEF PostText, Aside, Ready
<1>2. ASSUME NEW c \in Channels, DeleteChannel(c) PROVE \E F \in SUBSET Fids : Clears(F)
  <2>. DEFINE F == Unreferred(InChan(msgs, c))
  <2>1. F \in SUBSET Fids /\ \A f \in F : \E m \in msgs : m.kind = "file" /\ m.fid = f
    <3>1. InChan(msgs, c) \in SUBSET msgs
      BY DEF InChan
    <3>. QED  BY <3>1, UnreferredType, UnreferredShown
  <2>2. msgs' \subseteq msgs /\ Forget(F) /\ UNCHANGED <<phase, blobs, uploads, drawn>>
    BY <1>2 DEF DeleteChannel
  <2>3. \A w \in Range(rest') : Plain(w) \/ (w.do = "remove" /\ w.fids = F)
    BY <1>2, DeleteChannelRest
  <2>. HIDE DEF F
  <2>4. Clears(F)
    BY <2>1, <2>2, <2>3 DEF Clears, Shelves
  <2>. QED  BY <2>1, <2>4
<1>3. ASSUME NEW c \in Channels, NEW e \in Expiries, Settings(c, e)
      PROVE  \E F \in SUBSET Fids : Clears(F)
  <2>1. /\ Expire(chans', FALSE, FALSE, <<>>) /\ UNCHANGED <<blobs, uploads, drawn>>
        /\ phase' # "down"
    BY <1>3 DEF Settings, Ready
  <2>2. <<>> \in Seq(PendingWrite) /\ \A w \in Range(<<>>) : Plain(w)
    BY <1>0
  <2>. QED  BY <2>1, <2>2, ExpireClears
<1>4. ASSUME NEW c \in Channels, NEW e \in Expiries, Create(c, e) PROVE Aside
  BY <1>4 DEF Create, Aside, Ready
<1>5. ASSUME NEW m \in Live, Delete(m) PROVE \E F \in SUBSET Fids : Clears(F)
  <2>1. m \in msgs /\ TombstoneThen(m, <<>>) /\ phase # "down"
    BY <1>5 DEF Live, Delete, Ready
  <2>2. <<>> \in Seq(PendingWrite) /\ \A w \in Range(<<>>) : Plain(w)
    BY <1>0
  <2>. QED  BY <2>1, <2>2, TombstoneClears
<1>6. ASSUME NEW ids, Purge(ids) PROVE Aside
  <2>1. Range(rest') = {[do |-> "tombstone", ids |-> ids]}
    BY <1>0, <1>6 DEF Purge
  <2>2. \A w \in Range(rest') : Plain(w)
    BY <2>1 DEF Plain
  <2>. QED  BY <1>6, <2>2 DEF Purge, Aside, Ready, Plain
<1>7. CASE Prune
  <2>1. Prunable \in SUBSET Fids /\ \A f \in Prunable : f \in DOMAIN files
    BY DEF Prunable, TypeOK, IsMap
  <2>2. /\ Forget(Prunable) /\ UNCHANGED <<phase, msgs, blobs, uploads, drawn>>
        /\ rest' = Removal(Prunable) \o Save
    BY <1>7 DEF Prune
  <2>3. Removal(Prunable) \in Seq(PendingWrite) /\ Save \in Seq(PendingWrite)
    BY <2>1, RestTypes
  <2>4. \A w \in Range(rest') : w \in Range(Removal(Prunable)) \/ w \in Range(Save)
    BY <2>2, <2>3, RestRange
  <2>5. \A w \in Range(rest') : Plain(w) \/ (w.do = "remove" /\ w.fids = Prunable)
    BY <2>1, <2>4, RestKinds
  <2>6. Clears(Prunable)
    BY <2>1, <2>2, <2>5 DEF Clears, Shelves
  <2>. QED  BY <2>1, <2>6
<1>8. CASE RestTombstone
  <2>1. PICK m \in Live, after \in Seq(PendingWrite) :
          /\ TombstoneThen(m, after)
          /\ \A w \in Range(after) : (Plain(w) /\ w.do # "save") \/ w \in Range(rest)
          /\ Head(rest).do = "tombstone" /\ rest # <<>>
    BY <1>8, PurgeRest
  <2>2. \A w \in Range(rest) : w.do # "post"
    <3>1. SUFFICES ASSUME NEW w \in Range(rest), w.do = "post" PROVE FALSE
      OBVIOUS
    <3>2. rest = <<w>>
      BY <3>1 DEF Shelves, Entrusted
    <3>3. Head(rest) = w
      BY <3>2
    <3>. QED  BY <2>1, <3>1, <3>3
  <2>3. \A w \in Range(after) : Plain(w) \/ (w \in Range(rest) /\ w.do # "post")
    BY <2>1, <2>2
  <2>4. m \in msgs /\ phase # "down"
    BY DEF Live, Shelves
  <2>. QED  BY <2>1, <2>3, <2>4, TombstoneClears
<1>9. CASE RestSave \/ RestCompact
  <2>1. rest # <<>> /\ rest' = Tail(rest) /\ Head(rest).do # "post"
    BY <1>9 DEF RestSave, RestCompact, Holding
  <2>2. /\ UNCHANGED <<files, hashes, blobs, uploads, drawn, msgs>> /\ phase' # "down"
    BY <1>9 DEF RestSave, RestCompact, Holding
  <2>3. \A w \in Range(rest') : w \in Range(rest)
    BY <1>0, <2>1, RestHead
  <2>4. \A w \in Range(rest) : w.do # "post"
    <3>1. SUFFICES ASSUME NEW w \in Range(rest), w.do = "post" PROVE FALSE
      OBVIOUS
    <3>2. rest = <<w>>
      BY <3>1 DEF Shelves, Entrusted
    <3>3. Head(rest) = w
      BY <3>2
    <3>. QED  BY <2>1, <3>1, <3>3
  <2>. QED  BY <2>2, <2>3, <2>4 DEF Aside
<1>10. CASE Janitor
  <2>1. /\ Expire(chans, dirty, FALSE, <<>>) /\ UNCHANGED <<blobs, uploads, drawn>>
        /\ phase' # "down"
    BY <1>10 DEF Janitor, Ready
  <2>2. <<>> \in Seq(PendingWrite) /\ \A w \in Range(<<>>) : Plain(w)
    BY <1>0
  <2>. QED  BY <2>1, <2>2, ExpireClears
<1>11. CASE Sweep \/ StartSweep
  <2>. DEFINE after == IF dirty \/ Forgets(Unreferred(Overdue(msgs, chans)))
                         THEN Save ELSE <<>>
  <2>1. after = Save \/ after = <<>>
    OBVIOUS
  <2>2. SweepThen("up")
    BY <1>11 DEF Sweep, StartSweep
  <2>3. /\ Expire(chans, dirty, TRUE, after) /\ UNCHANGED <<blobs, uploads, drawn>>
        /\ phase' # "down"
    BY <2>2 DEF SweepThen
  <2>. HIDE DEF after
  <2>4. Save \in Seq(PendingWrite) /\ \A w \in Range(Save) : Plain(w)
    <3>1. {} \in SUBSET Fids
      OBVIOUS
    <3>. QED  BY <3>1, RestTypes, RestKinds
  <2>5. <<>> \in Seq(PendingWrite) /\ \A w \in Range(<<>>) : Plain(w)
    BY <1>0
  <2>6. after \in Seq(PendingWrite) /\ \A w \in Range(after) : Plain(w)
    BY <2>1, <2>4, <2>5
  <2>. QED  BY <2>3, <2>6, ExpireClears
<1>12. CASE Flush \/ Tick \/ Cool \/ UNCHANGED vars
  BY <1>12 DEF Flush, Tick, Cool, vars, Aside, Shelves
<1>13. ~ Crash /\ ~ Interrupt
  BY DEF Crash, Interrupt, Die, TypeOK
<1>14. ~ Load
  BY DEF Load, Shelves
<1>. QED  BY <1>1, <1>2, <1>3, <1>4, <1>5, <1>6, <1>7, <1>8, <1>9, <1>10, <1>11,
             <1>12, <1>13, <1>14
          DEF Next, Commands, Housekeeping, Lifecycle, HandlerStep

LEMMA AsideShelves == ASSUME Shelves, Aside PROVE Shelves'
<1>1. \A f \in DOMAIN files' : Shelved(f)'
  BY DEF Aside, Shelves, Shelved
<1>2. \A s \in Slots : Busy(s)' => Carried(s)'
  BY DEF Aside, Shelves, Carried, Busy
<1>3. ASSUME NEW w \in Range(rest') PROVE Entrusted(w)'
  <2>1. CASE Plain(w)
    BY <2>1 DEF Plain, Entrusted
  <2>2. CASE w \in Range(rest)
    <3>1. Entrusted(w)
      BY <2>2 DEF Shelves
    <3>. QED  BY <3>1 DEF Aside, Entrusted, Cleared, Busy
  <2>. QED  BY <2>1, <2>2 DEF Aside
<1>4. \A m \in msgs' : Shown(m)'
  BY DEF Aside, Shelves, Shown
<1>5. \A d \in DOMAIN hashes' : Leads(d)'
  BY DEF Aside, Shelves, Leads
<1>. QED  BY <1>1, <1>2, <1>3, <1>4, <1>5, Zenon DEF Shelves, Aside

LEMMA ClearsShelves ==
  ASSUME IInv, Shelves, [Next]_vars, NEW F \in SUBSET Fids, Clears(F)
  PROVE  Shelves'
<1>1. F \subseteq DOMAIN files
  BY DEF Clears, Shelves, Shown
<1>2. /\ files' = Without(files, F)
      /\ hashes' = Without(hashes, {files[f].sha : f \in F})
      /\ UNCHANGED <<blobs, uploads, drawn>> /\ phase' # "down"
  <2>1. F \cap DOMAIN files = F
    BY <1>1
  <2>. QED  BY <2>1 DEF Clears, Forget
<1>3. /\ DOMAIN files' = DOMAIN files \ F
      /\ \A f \in DOMAIN files' : f \in DOMAIN files /\ f \notin F /\ files'[f] = files[f]
  BY <1>2 DEF Without, Restrict
<1>4. /\ DOMAIN hashes' = DOMAIN hashes \ {files[f].sha : f \in F}
      /\ \A d \in DOMAIN hashes' : hashes'[d] = hashes[d]
  BY <1>2 DEF Without, Restrict
<1>5. ASSUME NEW f \in DOMAIN files' PROVE Shelved(f)'
  <2>1. Shelved(f) /\ files'[f] = files[f] /\ f \notin F
    BY <1>3 DEF Shelves
  <2>2. \A g \in F : files[g].sha # files[f].sha
    <3>1. \A g \in F : hashes[files[g].sha] = g
      BY <1>1 DEF Shelves, Shelved
    <3>. QED  BY <2>1, <3>1 DEF Shelved
  <2>3. files[f].sha \in DOMAIN hashes'
    BY <1>4, <2>1, <2>2 DEF Shelved
  <2>. QED  BY <1>2, <1>4, <2>1, <2>3 DEF Shelved
<1>6. \A s \in Slots : Busy(s)' => Carried(s)'
  BY <1>2, <1>3 DEF Shelves, Carried, Busy
<1>7. ASSUME NEW f, Cleared(f) PROVE Cleared(f)'
  BY <1>2, <1>3, <1>7 DEF Cleared, Busy
<1>8. ASSUME NEW f \in F PROVE Cleared(f)'
  <2>1. Shelved(f)
    BY <1>1 DEF Shelves
  <2>2. \A s \in Slots : Busy(s) => uploads[s].fid # f
    BY <1>1 DEF Shelves, Carried
  <2>. QED  BY <1>2, <1>3, <2>1, <2>2 DEF Shelved, Cleared, Busy
<1>9. ASSUME NEW w \in Range(rest') PROVE Entrusted(w)'
  <2>1. CASE Plain(w)
    BY <2>1 DEF Plain, Entrusted
  <2>2. CASE w \in Range(rest) /\ w.do # "post"
    <3>1. w.do = "remove" => \A f \in w.fids : Cleared(f)
      BY <2>2 DEF Shelves, Entrusted
    <3>2. w.do = "remove" => \A f \in w.fids : Cleared(f)'
      BY <1>7, <3>1
    <3>. QED  BY <2>2, <3>2, Zenon DEF Entrusted
  <2>3. CASE w.do = "remove" /\ w.fids = F
    <3>1. \A f \in w.fids : Cleared(f)'
      BY <1>8, <2>3
    <3>2. w.do # "post"
      BY <2>3
    <3>. QED  BY <3>1, <3>2, Zenon DEF Entrusted
  <2>. QED  BY <2>1, <2>2, <2>3 DEF Clears
<1>10. ASSUME NEW m \in msgs' PROVE Shown(m)'
  <2>1. SUFFICES ASSUME m.kind = "file"
                 PROVE  m.fid \in DOMAIN files' /\ files'[m.fid].sha = m.sha
    BY DEF Shown
  <2>2. m.fid \in DOMAIN files /\ files[m.fid].sha = m.sha
    BY <2>1 DEF Clears, Shelves, Shown
  <2>3. m.fid \in DOMAIN files'
    <3>1. SUFFICES ASSUME m.fid \notin DOMAIN files' PROVE FALSE
      OBVIOUS
    <3>2. \A x \in msgs' : x.kind = "file" => x.fid # m.fid
      BY <1>2, <2>2, <3>1, NoPrematureDeleteStep
    <3>. QED  BY <2>1, <3>2
  <2>. QED  BY <1>3, <2>2, <2>3
<1>11. ASSUME NEW d \in DOMAIN hashes' PROVE Leads(d)'
  <2>1. d \in DOMAIN hashes /\ Leads(d) /\ \A f \in F : files[f].sha # d
    BY <1>4 DEF Shelves
  <2>2. hashes[d] \in DOMAIN files'
    BY <1>3, <2>1 DEF Leads
  <2>. QED  BY <1>3, <1>4, <2>1, <2>2 DEF Leads
<1>. QED  BY <1>2, <1>5, <1>6, <1>9, <1>10, <1>11, Zenon DEF Shelves

LEMMA AdmitShelves ==
  ASSUME TypeOK, Shelves, NEW s \in Slots, NEW u, NEW c, NEW d, UploadAdmit(s, u, c, d)
  PROVE  Shelves'
<1>1. /\ drawn \in Nat /\ drawn' = drawn + 1 /\ drawn' \notin DOMAIN files /\ rest' = rest
      /\ files' = files /\ hashes' = hashes /\ msgs' = msgs /\ phase' # "down"
      /\ rest = <<>> /\ \A f \in DOMAIN files : f \in Nat
  <2>1. drawn \in Nat /\ \A f \in DOMAIN files : f \in Nat /\ f <= drawn
    BY DEF TypeOK, IsMap, Fids, Shelves, Shelved
  <2>. QED  BY <2>1 DEF UploadAdmit, Ready, Shelves
<1>2. PICK n : n = drawn'
  OBVIOUS
<1>3. /\ uploads[s] = Idle /\ blobs' = With(blobs, n, Partial)
      /\ uploads' = [uploads EXCEPT ![s] = [stage |-> "receiving", user |-> u, ch |-> c,
                                           data |-> d, fid |-> n]]
  BY <1>2 DEF UploadAdmit
<1>4. /\ DOMAIN blobs' = DOMAIN blobs \cup {n} /\ blobs'[n] = Partial
      /\ \A f \in DOMAIN blobs : f # n => blobs'[f] = blobs[f]
  BY <1>3 DEF With
<1>5. /\ uploads'[s].stage = "receiving" /\ uploads'[s].fid = n
      /\ \A t \in Slots : t # s => uploads'[t] = uploads[t]
  BY <1>3 DEF TypeOK
<1>6. ASSUME NEW f \in DOMAIN files' PROVE Shelved(f)'
  <2>1. Shelved(f) /\ f \in Nat /\ f # n
    BY <1>1, <1>2 DEF Shelves
  <2>2. f <= drawn'
    BY <1>1, <2>1 DEF Shelved
  <2>. QED  BY <1>1, <1>4, <2>1, <2>2 DEF Shelved
<1>7. ASSUME NEW t \in Slots, t # s, Busy(t)
      PROVE  uploads[t].fid # n /\ uploads[t].fid <= n
  <2>1. uploads[t] \in Upload
    BY <1>7 DEF Busy, TypeOK
  <2>2. uploads[t].fid \in Nat
    BY <2>1 DEF Upload, Fids
  <2>3. uploads[t].fid <= drawn
    BY <1>7 DEF Shelves, Carried
  <2>. QED  BY <1>1, <1>2, <2>2, <2>3
<1>8. ASSUME NEW t \in Slots, Busy(t)' PROVE Carried(t)'
  <2>1. CASE t = s
    <3>1. \A r \in Slots : Busy(r)' /\ uploads'[r].fid = n => r = s
      <4>1. \A r \in Slots : r # s /\ Busy(r)' => Busy(r) /\ uploads'[r] = uploads[r]
        BY <1>5 DEF Busy
      <4>. QED  BY <1>7, <4>1
    <3>2. uploads'[t].stage # "received"
      BY <1>5, <2>1
    <3>3. uploads'[t].fid = n /\ n <= drawn' /\ n \notin DOMAIN files' /\ n \in DOMAIN blobs'
      BY <1>1, <1>2, <1>4, <1>5, <2>1
    <3>. QED  BY <2>1, <3>1, <3>2, <3>3, Zenon DEF Carried
  <2>2. CASE t # s
    <3>1. Busy(t) /\ uploads'[t] = uploads[t]
      BY <1>5, <1>8, <2>2 DEF Busy
    <3>2. Carried(t) /\ uploads[t].fid # n /\ uploads[t].fid <= drawn'
      BY <1>2, <1>7, <2>2, <3>1 DEF Shelves
    <3>3. ASSUME NEW r \in Slots, Busy(r)', uploads'[r].fid = uploads'[t].fid PROVE r = t
      <4>1. r # s
        BY <1>5, <3>1, <3>2, <3>3
      <4>2. Busy(r) /\ uploads'[r] = uploads[r]
        BY <1>5, <3>3, <4>1 DEF Busy
      <4>. QED  BY <3>1, <3>2, <3>3, <4>2 DEF Carried
    <3>4. /\ uploads'[t].fid <= drawn' /\ uploads'[t].fid \notin DOMAIN files'
          /\ uploads'[t].fid \in DOMAIN blobs'
          /\ uploads'[t].stage = "received" => blobs'[uploads'[t].fid] = uploads'[t].data
      BY <1>1, <1>4, <3>1, <3>2 DEF Carried
    <3>. QED  BY <3>3, <3>4, Zenon DEF Carried
  <2>. QED  BY <2>1, <2>2
<1>9. \A w \in Range(rest') : Entrusted(w)'
  <2>1. Range(rest') = {}
    BY <1>1 DEF Range
  <2>. QED  BY <2>1
<1>10. \A m \in msgs' : Shown(m)'
  BY <1>1 DEF Shelves, Shown
<1>11. \A h \in DOMAIN hashes' : Leads(h)'
  BY <1>1 DEF Shelves, Leads
<1>. QED  BY <1>1, <1>6, <1>8, <1>9, <1>10, <1>11, Zenon DEF Shelves

LEMMA ReceiveShelves ==
  ASSUME TypeOK, Shelves, NEW s \in Slots, UploadReceive(s)
  PROVE  Shelves'
<1>1. /\ uploads[s].stage = "receiving" /\ UNCHANGED <<phase, rest, files, hashes, msgs, drawn>>
      /\ uploads' = [uploads EXCEPT ![s].stage = "received"]
      /\ blobs' = [blobs EXCEPT ![uploads[s].fid] = uploads[s].data]
  BY DEF UploadReceive
<1>2. Busy(s) /\ uploads[s] \in Upload
  BY <1>1, UploadType DEF Busy, Idle
<1>3. Carried(s)
  BY <1>2 DEF Shelves
<1>4. /\ \A t \in Slots : /\ uploads'[t].fid = uploads[t].fid
                          /\ uploads'[t].data = uploads[t].data
                          /\ Busy(t)' => Busy(t)
                          /\ t # s => uploads'[t] = uploads[t]
  <2>1. /\ uploads'[s].fid = uploads[s].fid /\ uploads'[s].data = uploads[s].data
    BY <1>1, <1>2 DEF TypeOK, Upload
  <2>2. \A t \in Slots : t # s => uploads'[t] = uploads[t]
    BY <1>1 DEF TypeOK
  <2>. QED  BY <1>2, <2>1, <2>2 DEF Busy
<1>5. /\ DOMAIN blobs' = DOMAIN blobs /\ blobs'[uploads[s].fid] = uploads[s].data
      /\ \A f \in DOMAIN blobs : f # uploads[s].fid => blobs'[f] = blobs[f]
  BY <1>1, <1>3 DEF TypeOK, IsMap, Carried
<1>6. \A f \in DOMAIN files' : Shelved(f)'
  BY <1>1, <1>3, <1>5 DEF Shelves, Shelved, Carried
<1>7. ASSUME NEW t \in Slots, Busy(t)' PROVE Carried(t)'
  <2>1. Busy(t) /\ Carried(t)
    BY <1>4, <1>7 DEF Shelves
  <2>2. /\ uploads'[t].fid <= drawn' /\ uploads'[t].fid \notin DOMAIN files'
        /\ uploads'[t].fid \in DOMAIN blobs'
    BY <1>1, <1>4, <1>5, <2>1 DEF Carried
  <2>3. uploads'[t].stage = "received" => blobs'[uploads'[t].fid] = uploads'[t].data
    <3>1. CASE t = s
      BY <1>4, <1>5, <3>1
    <3>2. CASE t # s
      <4>1. uploads[t].fid # uploads[s].fid
        BY <1>2, <2>1, <3>2 DEF Carried
      <4>. QED  BY <1>4, <1>5, <2>1, <3>2, <4>1 DEF Carried
    <3>. QED  BY <3>1, <3>2
  <2>4. \A r \in Slots : Busy(r)' /\ uploads'[r].fid = uploads'[t].fid => r = t
    BY <1>4, <2>1 DEF Carried
  <2>. QED  BY <2>2, <2>3, <2>4, Zenon DEF Carried
<1>8. ASSUME NEW w \in Range(rest') PROVE Entrusted(w)'
  <2>1. Entrusted(w)
    BY <1>1 DEF Shelves
  <2>2. \A f : Cleared(f) => Cleared(f)'
    BY <1>1, <1>4 DEF Cleared
  <2>. QED  BY <1>1, <2>1, <2>2 DEF Entrusted
<1>9. \A m \in msgs' : Shown(m)'
  BY <1>1 DEF Shelves, Shown
<1>10. \A d \in DOMAIN hashes' : Leads(d)'
  BY <1>1 DEF Shelves, Leads
<1>. QED  BY <1>1, <1>6, <1>7, <1>8, <1>9, <1>10, Zenon DEF Shelves

\* A connection that is done takes the bytes it wrote with it.
LEMMA FreesSlot ==
  ASSUME TypeOK, Shelves, NEW s \in Slots, Busy(s), UNCHANGED <<phase, files, hashes, msgs, drawn>>,
         uploads' = [uploads EXCEPT ![s] = Idle], blobs' = Without(blobs, {uploads[s].fid}),
         \/ rest' = rest
         \/ \E w : /\ rest' = <<w>> /\ w.do = "post"
                  /\ w.fid \in DOMAIN files /\ files[w.fid].sha = w.sha
  PROVE  Shelves'
<1>1. Carried(s)
  BY DEF Shelves
<1>2. \A t \in Slots : IF t = s THEN uploads'[t] = Idle ELSE uploads'[t] = uploads[t]
  BY DEF TypeOK
<1>3. PICK n : n = uploads[s].fid
  OBVIOUS
<1>4. /\ DOMAIN blobs' = DOMAIN blobs \ {n}
      /\ \A f \in DOMAIN blobs' : blobs'[f] = blobs[f]
  BY <1>3 DEF Without, Restrict
<1>5. \A f \in DOMAIN files' : Shelved(f)'
  BY <1>1, <1>3, <1>4 DEF Shelves, Shelved, Carried
<1>6. ASSUME NEW t \in Slots, Busy(t)' PROVE Carried(t)'
  <2>1. t # s /\ Busy(t) /\ uploads'[t] = uploads[t]
    BY <1>2, <1>6 DEF Busy
  <2>2. Carried(t) /\ uploads[t].fid # n
    BY <1>3, <2>1 DEF Shelves, Carried
  <2>3. \A r \in Slots : Busy(r)' => Busy(r) /\ uploads'[r] = uploads[r]
    BY <1>2 DEF Busy
  <2>. QED  BY <1>4, <2>1, <2>2, <2>3, ZenonT(60) DEF Carried
<1>7. \A f : Cleared(f) => Cleared(f)'
  BY <1>2 DEF Cleared, Busy
<1>8. ASSUME NEW w \in Range(rest') PROVE Entrusted(w)'
  <2>1. CASE rest' = rest
    <3>1. Entrusted(w)
      BY <2>1 DEF Shelves
    <3>. QED  BY <1>7, <2>1, <3>1 DEF Entrusted
  <2>2. ASSUME NEW x, rest' = <<x>>, x.do = "post", x.fid \in DOMAIN files,
               files[x.fid].sha = x.sha
        PROVE  Entrusted(w)'
    <3>1. w = x
      BY <2>2 DEF Range
    <3>. QED  BY <2>2, <3>1 DEF Entrusted
  <2>. QED  BY <2>1, <2>2
<1>9. \A m \in msgs' : Shown(m)'
  BY DEF Shelves, Shown
<1>10. \A d \in DOMAIN hashes' : Leads(d)'
  BY DEF Shelves, Leads
<1>. QED  BY <1>5, <1>6, <1>8, <1>9, <1>10 DEF Shelves

LEMMA NewShelves ==
  ASSUME TypeOK, Shelves, NEW s \in Slots, UploadNew(s)
  PROVE  Shelves'
<1>1. PICK u : u = uploads[s]
  OBVIOUS
<1>2. /\ u.stage = "received" /\ phase' # "down" /\ UNCHANGED <<blobs, drawn, msgs>>
      /\ ~ Stored(u.data) /\ uploads' = [uploads EXCEPT ![s] = Idle]
      /\ hashes' = With(hashes, u.data, u.fid)
      /\ files' = With(files, u.fid, [sha |-> u.data, size |-> Size[u.data], owner |-> u.user])
      /\ rest' = <<[do |-> "post", ch |-> u.ch, fid |-> u.fid, sha |-> u.data]>>
  BY <1>1 DEF UploadNew, Shelves
<1>3. Busy(s) /\ Carried(s)
  BY <1>1, <1>2 DEF Shelves, Busy, Idle
<1>4. u.fid \notin DOMAIN files /\ u.fid <= drawn /\ u.fid \in DOMAIN blobs /\ blobs[u.fid] = u.data
  BY <1>1, <1>2, <1>3 DEF Carried
<1>5. /\ DOMAIN files' = DOMAIN files \cup {u.fid} /\ files'[u.fid].sha = u.data
      /\ \A f \in DOMAIN files : files'[f] = files[f]
  <2>1. files'[u.fid] = [sha |-> u.data, size |-> Size[u.data], owner |-> u.user]
    BY <1>2 DEF With
  <2>2. DOMAIN files' = DOMAIN files \cup {u.fid} /\ \A f \in DOMAIN files : files'[f] = files[f]
    BY <1>2, <1>4 DEF With
  <2>. QED  BY <2>1, <2>2
<1>6. /\ DOMAIN hashes' = DOMAIN hashes \cup {u.data} /\ hashes'[u.data] = u.fid
      /\ \A d \in DOMAIN hashes : d # u.data => hashes'[d] = hashes[d]
  BY <1>2 DEF With
<1>7. ASSUME NEW f \in DOMAIN files' PROVE Shelved(f)'
  <2>1. CASE f = u.fid
    BY <1>2, <1>4, <1>5, <1>6, <2>1 DEF Shelved
  <2>2. CASE f # u.fid
    <3>1. f \in DOMAIN files /\ Shelved(f) /\ files'[f] = files[f]
      BY <1>5, <2>2 DEF Shelves
    <3>2. files[f].sha # u.data
      BY <1>2, <3>1 DEF Stored, Shelved
    <3>. QED  BY <1>2, <1>6, <3>1, <3>2 DEF Shelved
  <2>. QED  BY <2>1, <2>2
<1>8. \A t \in Slots : IF t = s THEN uploads'[t] = Idle ELSE uploads'[t] = uploads[t]
  BY <1>2 DEF TypeOK
<1>9. ASSUME NEW t \in Slots, Busy(t)' PROVE Carried(t)'
  <2>1. t # s /\ Busy(t) /\ uploads'[t] = uploads[t]
    BY <1>8, <1>9 DEF Busy
  <2>2. Carried(t) /\ uploads[t].fid # u.fid
    BY <1>1, <1>3, <2>1 DEF Shelves, Carried
  <2>3. \A r \in Slots : Busy(r)' => Busy(r) /\ uploads'[r] = uploads[r]
    BY <1>8 DEF Busy
  <2>. QED  BY <1>2, <1>5, <2>1, <2>2, <2>3 DEF Carried
<1>10. ASSUME NEW w \in Range(rest') PROVE Entrusted(w)'
  <2>1. w = [do |-> "post", ch |-> u.ch, fid |-> u.fid, sha |-> u.data]
    BY <1>2 DEF Range
  <2>2. w.do = "post" /\ rest' = <<w>> /\ w.fid = u.fid /\ w.sha = u.data
    BY <1>2, <2>1
  <2>. QED  BY <1>5, <2>2 DEF Entrusted
<1>11. \A m \in msgs' : Shown(m)'
  BY <1>2, <1>5 DEF Shelves, Shown
<1>12. ASSUME NEW d \in DOMAIN hashes' PROVE Leads(d)'
  <2>1. CASE d = u.data
    BY <1>5, <1>6, <2>1 DEF Leads
  <2>2. CASE d # u.data
    <3>1. d \in DOMAIN hashes /\ Leads(d) /\ hashes'[d] = hashes[d]
      BY <1>6, <2>2 DEF Shelves
    <3>. QED  BY <1>5, <3>1 DEF Leads
  <2>. QED  BY <2>1, <2>2
<1>. QED  BY <1>2, <1>7, <1>9, <1>10, <1>11, <1>12 DEF Shelves

LEMMA UploadShelves ==
  ASSUME TypeOK, Shelves, NEW s \in Slots, UploadSteps(s)
  PROVE  Shelves'
<1>1. ASSUME NEW u, NEW c, NEW d, UploadAdmit(s, u, c, d) PROVE Shelves'
  BY <1>1, AdmitShelves
<1>2. CASE UploadReceive(s)
  BY <1>2, ReceiveShelves
<1>3. CASE UploadAbort(s) \/ UploadOrphaned(s)
  <2>1. /\ Busy(s) /\ UNCHANGED <<phase, files, hashes, msgs, drawn, rest>>
        /\ uploads' = [uploads EXCEPT ![s] = Idle]
        /\ blobs' = Without(blobs, {uploads[s].fid})
    BY <1>3 DEF UploadAbort, UploadOrphaned, Busy, Idle
  <2>. QED  BY <2>1, FreesSlot
<1>4. CASE UploadDuplicate(s)
  <2>1. PICK d : d = uploads[s].data
    OBVIOUS
  <2>2. /\ Busy(s) /\ UNCHANGED <<phase, files, hashes, msgs, drawn>>
        /\ uploads' = [uploads EXCEPT ![s] = Idle]
        /\ blobs' = Without(blobs, {uploads[s].fid})
        /\ rest' = <<[do |-> "post", ch |-> uploads[s].ch, fid |-> hashes[d], sha |-> d]>>
        /\ d \in DOMAIN hashes /\ hashes[d] \in DOMAIN files
    BY <1>4, <2>1 DEF UploadDuplicate, Busy, Idle, Stored
  <2>3. \E w : rest' = <<w>> /\ w.do = "post" /\ w.fid \in DOMAIN files /\ files[w.fid].sha = w.sha
    <3>1. PICK w : w = [do |-> "post", ch |-> uploads[s].ch, fid |-> hashes[d], sha |-> d]
      OBVIOUS
    <3>2. rest' = <<w>> /\ w.do = "post" /\ w.fid = hashes[d] /\ w.sha = d
      BY <2>2, <3>1
    <3>3. files[hashes[d]].sha = d
      <4>1. hashes[d] \in DOMAIN files
        BY <2>2
      <4>. QED  BY <2>2, <4>1 DEF Shelves, Leads
    <3>. QED  BY <2>2, <3>2, <3>3
  <2>. QED  BY <2>2, <2>3, FreesSlot
<1>5. CASE UploadNew(s)
  BY <1>5, NewShelves
<1>. QED  BY <1>1, <1>2, <1>3, <1>4, <1>5 DEF UploadSteps

LEMMA PostShelves ==
  ASSUME TypeOK, Shelves, RestPost
  PROVE  Shelves'
<1>1. PICK w : w = Head(rest)
  OBVIOUS
<1>2. /\ rest # <<>> /\ w.do = "post" /\ Assign(w.ch, "file", w.fid, w.sha)
      /\ rest' = Tail(rest) /\ UNCHANGED <<phase, uploads, files, hashes, blobs, drawn>>
  BY <1>1 DEF RestPost, Holding
<1>3. Head(rest) \in Range(rest)
  <2>1. rest \in Seq(PendingWrite)
    BY DEF TypeOK
  <2>. QED  BY <1>2, <2>1, RestHead
<1>4. rest = <<w>> /\ w.fid \in DOMAIN files /\ files[w.fid].sha = w.sha
  BY <1>1, <1>2, <1>3 DEF Shelves, Entrusted
<1>5. rest' = <<>>
  BY <1>2, <1>4
<1>6. \A x \in Range(rest') : Entrusted(x)'
  BY <1>5 DEF Range
<1>7. ASSUME NEW m \in msgs' PROVE Shown(m)'
  <2>. DEFINE p == [id |-> nextID + 1, ch |-> w.ch, ts |-> now,
                    kind |-> "file", fid |-> w.fid, sha |-> w.sha]
  <2>1. msgs' \subseteq msgs \cup {p}
    BY <1>2, WithPostedSubset DEF Assign
  <2>2. CASE m = p
    BY <1>2, <1>4, <2>2 DEF Shown
  <2>3. CASE m \in msgs
    BY <1>2, <2>3 DEF Shelves, Shown
  <2>. QED  BY <2>1, <2>2, <2>3
<1>8. \A f \in DOMAIN files' : Shelved(f)'
  BY <1>2 DEF Shelves, Shelved
<1>9. \A s \in Slots : Busy(s)' => Carried(s)'
  BY <1>2 DEF Shelves, Carried, Busy
<1>10. \A d \in DOMAIN hashes' : Leads(d)'
  BY <1>2 DEF Shelves, Leads
<1>. QED  BY <1>2, <1>6, <1>7, <1>8, <1>9, <1>10 DEF Shelves

LEMMA UnlinkShelves ==
  ASSUME TypeOK, Shelves, RestUnlink
  PROVE  Shelves'
<1>1. /\ rest # <<>> /\ Head(rest).do = "remove"
      /\ UNCHANGED <<phase, rest, uploads, files, hashes, msgs, drawn>>
  BY DEF RestUnlink, Holding
<1>2. PICK f \in Head(rest).fids : blobs' = Without(blobs, {f})
  BY DEF RestUnlink
<1>3. Cleared(f)
  <2>1. rest \in Seq(PendingWrite)
    BY DEF TypeOK
  <2>2. Head(rest) \in Range(rest)
    BY <1>1, <2>1, RestHead
  <2>. QED  BY <1>1, <2>2 DEF Shelves, Entrusted
<1>4. DOMAIN blobs' = DOMAIN blobs \ {f} /\ \A g \in DOMAIN blobs' : blobs'[g] = blobs[g]
  BY <1>2 DEF Without, Restrict
<1>5. \A g \in DOMAIN files' : Shelved(g)'
  BY <1>1, <1>3, <1>4 DEF Shelves, Shelved, Cleared
<1>6. \A s \in Slots : Busy(s)' => Carried(s)'
  BY <1>1, <1>3, <1>4 DEF Shelves, Carried, Busy, Cleared
<1>7. \A w \in Range(rest') : Entrusted(w)'
  BY <1>1 DEF Shelves, Entrusted, Cleared, Busy
<1>8. /\ \A m \in msgs' : Shown(m)'
      /\ \A d \in DOMAIN hashes' : Leads(d)'
  BY <1>1 DEF Shelves, Shown, Leads
<1>. QED  BY <1>1, <1>5, <1>6, <1>7, <1>8 DEF Shelves

LEMMA UnlinkHashShelves ==
  ASSUME TypeOK, Shelves, RestUnlinkHash
  PROVE  Shelves'
<1>1. /\ rest # <<>> /\ Head(rest).do = "remove"
      /\ UNCHANGED <<phase, uploads, files, hashes, blobs, msgs, drawn>>
  BY DEF RestUnlinkHash, Holding
<1>2. PICK f : rest' = Removal(Head(rest).fids \ {f}) \o Tail(rest)
  BY DEF RestUnlinkHash
<1>3. /\ Head(rest) \in Range(rest) /\ Head(rest) \in PendingWrite
      /\ Tail(rest) \in Seq(PendingWrite) /\ \A w \in Range(Tail(rest)) : w \in Range(rest)
  <2>1. rest \in Seq(PendingWrite)
    BY DEF TypeOK
  <2>. QED  BY <1>1, <2>1, RestHead
<1>4. PICK F : F = Head(rest).fids \ {f}
  OBVIOUS
<1>5. F \in SUBSET Fids /\ \A g \in F : Cleared(g)
  <2>1. Head(rest).fids \in SUBSET Fids
    BY <1>1, <1>3 DEF PendingWrite
  <2>2. \A g \in Head(rest).fids : Cleared(g)
    BY <1>1, <1>3 DEF Shelves, Entrusted
  <2>. QED  BY <1>4, <2>1, <2>2
<1>6. \A w \in Range(rest') : w \in Range(Removal(F)) \/ w \in Range(Tail(rest))
  <2>1. Removal(F) \in Seq(PendingWrite)
    BY <1>5, RestTypes
  <2>2. rest' = Removal(F) \o Tail(rest)
    BY <1>2, <1>4
  <2>. QED  BY <1>3, <2>1, <2>2, RestRange
<1>7. \A w \in Range(rest) : w.do # "post"
  <2>1. SUFFICES ASSUME NEW w \in Range(rest), w.do = "post" PROVE FALSE
    OBVIOUS
  <2>2. rest = <<w>>
    BY <2>1 DEF Shelves, Entrusted
  <2>3. Head(rest) = w
    BY <2>2
  <2>. QED  BY <1>1, <2>1, <2>3
<1>8. \A g : Cleared(g) => Cleared(g)'
  BY <1>1 DEF Cleared, Busy
<1>9. ASSUME NEW w \in Range(rest') PROVE Entrusted(w)'
  <2>1. CASE w \in Range(Removal(F))
    <3>1. w.do = "remove" /\ w.fids = F
      BY <1>5, <2>1, RestKinds
    <3>2. w.do # "post" /\ \A g \in w.fids : Cleared(g)'
      BY <1>5, <1>8, <3>1
    <3>. QED  BY <3>2, Zenon DEF Entrusted
  <2>2. CASE w \in Range(Tail(rest))
    <3>1. w \in Range(rest) /\ w.do # "post"
      BY <1>3, <1>7, <2>2
    <3>2. w.do = "remove" => \A g \in w.fids : Cleared(g)
      BY <3>1 DEF Shelves, Entrusted
    <3>3. w.do = "remove" => \A g \in w.fids : Cleared(g)'
      BY <1>8, <3>2
    <3>. QED  BY <3>1, <3>3, Zenon DEF Entrusted
  <2>. QED  BY <1>6, <2>1, <2>2
<1>10. /\ \A m \in msgs' : Shown(m)'
       /\ \A d \in DOMAIN hashes' : Leads(d)'
       /\ \A g \in DOMAIN files' : Shelved(g)'
       /\ \A s \in Slots : Busy(s)' => Carried(s)'
  BY <1>1 DEF Shelves, Shown, Leads, Shelved, Carried, Busy
<1>. QED  BY <1>1, <1>9, <1>10 DEF Shelves

LEMMA ShelvesStep ==
  ASSUME IInv, Shelves, [Next]_vars, crashes' = 0
  PROVE  Shelves'
<1>0. TypeOK
  BY DEF IInv
<1>. QED  BY <1>0, ShelfKinds, AsideShelves, ClearsShelves, UploadShelves, PostShelves,
             UnlinkShelves, UnlinkHashShelves

WhileUp == crashes = 0 => Shelves

\* The count of ends never falls.
LEMMA CrashesGrow ==
  ASSUME TypeOK, [Next]_vars, crashes' = 0
  PROVE  crashes = 0
<1>1. crashes \in Nat
  BY DEF TypeOK
<1>2. crashes' = crashes \/ crashes' = crashes + 1
  <2>1. CASE Crash \/ Interrupt
    BY <2>1 DEF Crash, Interrupt, Die
  <2>2. CASE Commands
    BY <2>2 DEF Commands, PostText, DeleteChannel, Settings, Create, Delete, TombstoneThen,
                Purge, Prune
  <2>3. ASSUME NEW s \in Slots, UploadSteps(s) PROVE crashes' = crashes
    BY <2>3 DEF UploadSteps, UploadAdmit, UploadReceive, UploadAbort, UploadOrphaned,
                UploadDuplicate, UploadNew
  <2>4. CASE HandlerStep
    BY <2>4 DEF HandlerStep, RestPost, RestTombstone, TombstoneThen, RestUnlink,
                RestUnlinkHash, RestSave, RestCompact
  <2>5. CASE Housekeeping
    BY <2>5 DEF Housekeeping, Janitor, Sweep, SweepThen, Flush
  <2>6. CASE Load \/ StartSweep \/ Tick \/ Cool \/ UNCHANGED vars
    BY <2>6 DEF Load, StartSweep, SweepThen, Tick, Cool, vars
  <2>. QED  BY <2>1, <2>2, <2>3, <2>4, <2>5, <2>6 DEF Next, Lifecycle
<1>. QED  BY <1>1, <1>2

LEMMA ShelvesAlways == Spec => []WhileUp
<1>1. Init => WhileUp
  BY DEF Init, NoMemory, WhileUp, Shelves, Range, Busy
<1>2. IInv /\ WhileUp /\ [Next]_vars => WhileUp'
  BY CrashesGrow, ShelvesStep DEF WhileUp, IInv
<1>. QED  BY <1>1, <1>2, StoreIInv, PTL DEF Spec

\* While the hub runs, every file message it serves has its file in the catalog and the
\* bytes that were uploaded with it on the disk, whatever uploads, aborts, duplicates,
\* deletions and removals overlap (files.go, deleteFile).
THEOREM StoreAttachmentsServed == Spec => []AttachmentsServed
<1>1. WhileUp => AttachmentsServed
  BY DEF WhileUp, Shelves, Shown, Shelved, AttachmentsServed
<1>. QED  BY <1>1, ShelvesAlways, PTL

\* While the hub runs, the same bytes are never stored twice, whichever uploads of them
\* arrive at the same time (Commit compares again under the mutex).
THEOREM StoreStoredOnce == Spec => []StoredOnce
<1>1. WhileUp => StoredOnce
  BY DEF WhileUp, Shelves, Shelved, StoredOnce
<1>. QED  BY <1>1, ShelvesAlways, PTL

-----------------------------------------------------------------------------
(***************************************************************************)
(* Channels in memory, in state.json and in the log                        *)
(***************************************************************************)

\* Every message belongs to a channel that state.json knows was made; the channels of
\* state.json are those in memory unless a handler is going to save it.
Charted ==
  /\ DOMAIN saved.chans \subseteq saved.made
  /\ \A x \in log : x.ch \in saved.made
  /\ phase # "down" =>
       /\ made = saved.made /\ DOMAIN chans \subseteq made
       /\ \A m \in msgs : m.ch \in made
       /\ \A w \in Range(rest) : w.do = "post" => w.ch \in made
       /\ DOMAIN chans = DOMAIN saved.chans \/ \E w \in Range(rest) : w.do = "save"

\* The steps that leave channels alone.
Uncharted ==
  /\ UNCHANGED <<chans, made, saved>>
  /\ phase' = "down" <=> phase = "down"
  /\ log' = log \/ (phase # "down" /\ log' = msgs)
  /\ \A m \in msgs' : \E y \in msgs : y.ch = m.ch
  /\ \A w \in Range(rest') : w.do = "post" => w \in Range(rest) \/ w.ch \in made
  /\ \A w \in Range(rest) : w.do = "save" => w \in Range(rest')

LEMMA UnchartedKeeps == ASSUME Charted, Uncharted PROVE Charted'
BY DEF Charted, Uncharted

\* The steps that save state.json as it is in memory.
LEMMA SavingKeeps ==
  ASSUME Charted, phase # "down", UNCHANGED <<phase, chans, made, log, msgs>>, saved' = Snapshot,
         \A w \in Range(rest') : w.do = "post" => w \in Range(rest)
  PROVE  Charted'
<1>1. saved'.chans = chans /\ saved'.made = made
  BY DEF Snapshot
<1>. QED  BY <1>1 DEF Charted

\* The steps that post a message.
LEMMA PostingKeeps ==
  ASSUME Charted, phase # "down", UNCHANGED <<phase, chans, made, saved>>,
         NEW c \in made, NEW kind, NEW fid, NEW sha, Assign(c, kind, fid, sha),
         \A w \in Range(rest') : w.do = "post" => w \in Range(rest),
         \A w \in Range(rest) : w.do = "save" => w \in Range(rest')
  PROVE  Charted'
<1>. DEFINE m == [id |-> nextID + 1, ch |-> c, ts |-> now,
                  kind |-> kind, fid |-> fid, sha |-> sha]
<1>1. msgs' \subseteq msgs \cup {m} /\ log' = log \cup {m}
  BY WithPostedSubset DEF Assign
<1>2. m.ch = c
  OBVIOUS
<1>. HIDE DEF m
<1>. QED  BY <1>1, <1>2 DEF Charted

LEMMA ExpiringKeeps ==
  ASSUME Charted, phase # "down", phase' # "down", rest = <<>>,
         NEW cs, NEW wasDirty, NEW force \in BOOLEAN, NEW after \in Seq(PendingWrite),
         Expire(cs, wasDirty, force, after), \A w \in Range(after) : Plain(w),
         UNCHANGED <<made, log>>, saved'.made = saved.made,
         DOMAIN chans' = DOMAIN chans, DOMAIN saved'.chans = DOMAIN chans
  PROVE  Charted'
<1>1. \A w \in Range(rest') : w.do # "post"
  BY ExpireRest DEF Plain
<1>2. msgs' \subseteq msgs
  BY DEF Expire
<1>. QED  BY <1>1, <1>2 DEF Charted

LEMMA ReadyCharts ==
  ASSUME Charted, rest = <<>>, phase # "down"
  PROVE  /\ Range(rest) = {} /\ Range(<<>>) = {} /\ \A w : Range(<<w>>) = {w}
         /\ <<>> \in Seq(PendingWrite)
         /\ DOMAIN saved.chans = DOMAIN chans
<1>1. Range(rest) = {} /\ \A w : Range(<<w>>) = {w}
  BY DEF Range
<1>. QED  BY <1>1 DEF Charted

LEMMA ChartedInit == ASSUME Init PROVE Charted
<1>1. /\ saved.chans = [c \in {Default} |-> 0] /\ saved.made = {Default}
      /\ chans = [c \in {Default} |-> 0] /\ made = {Default}
      /\ log = {} /\ msgs = {} /\ rest = <<>>
  BY DEF Init, NoMemory, NewHub
<1>2. Range(rest) = {}
  BY <1>1 DEF Range
<1>. QED  BY <1>1, <1>2 DEF Charted

LEMMA ChartedStep ==
  ASSUME TypeOK, Charted, [Next]_vars
  PROVE  Charted'
<1>0. rest \in Seq(PendingWrite)
  BY DEF TypeOK
<1>1. ASSUME NEW c \in Channels, PostText(c) PROVE Charted'
  <2>1. /\ phase # "down" /\ UNCHANGED <<phase, chans, made, saved, rest>>
        /\ c \in DOMAIN chans /\ Assign(c, "msg", NoFid, NoSha)
    BY <1>1 DEF PostText, Ready
  <2>2. c \in made
    BY <2>1 DEF Charted
  <2>. QED  BY <2>1, <2>2, PostingKeeps
<1>2. ASSUME NEW c \in Channels, DeleteChannel(c) PROVE Charted'
  <2>1. /\ DOMAIN chans' \subseteq DOMAIN chans /\ msgs' \subseteq msgs
        /\ phase # "down" /\ UNCHANGED <<phase, made, saved, log>>
    BY <1>2 DEF DeleteChannel, Ready, Without, Restrict
  <2>2. /\ \A w \in Range(rest') : w.do # "post"
        /\ \E w \in Range(rest') : w.do = "save"
    BY <1>2, DeleteChannelRest DEF Plain
  <2>. QED  BY <2>1, <2>2 DEF Charted
<1>3. ASSUME NEW c \in Channels, NEW e \in Expiries, Settings(c, e) PROVE Charted'
  <2>1. /\ Expire(chans', FALSE, FALSE, <<>>) /\ phase # "down" /\ phase' # "down"
        /\ rest = <<>> /\ UNCHANGED <<made, log>> /\ DOMAIN chans' = DOMAIN chans
    BY <1>3 DEF Settings, Ready
  <2>2. saved'.made = made /\ saved'.chans = chans'
    BY <1>3 DEF Settings, Snapshot
  <2>3. made = saved.made
    BY <2>1 DEF Charted
  <2>4. <<>> \in Seq(PendingWrite) /\ \A w \in Range(<<>>) : Plain(w)
    BY <2>1, ReadyCharts
  <2>. QED  BY <2>1, <2>2, <2>3, <2>4, ExpiringKeeps
<1>4. ASSUME NEW c \in Channels, NEW e \in Expiries, Create(c, e) PROVE Charted'
  <2>1. /\ DOMAIN chans' = DOMAIN chans \cup {c} /\ made' = made \cup {c}
        /\ phase # "down" /\ UNCHANGED <<phase, rest, msgs, log>> /\ rest = <<>>
    BY <1>4 DEF Create, Ready, With
  <2>2. saved'.made = made' /\ saved'.chans = chans'
    BY <1>4 DEF Create, Snapshot
  <2>3. Range(rest) = {}
    BY <2>1, ReadyCharts
  <2>. QED  BY <2>1, <2>2, <2>3 DEF Charted
<1>5. ASSUME NEW m \in Live, Delete(m) PROVE Charted'
  <2>1. /\ TombstoneThen(m, <<>>) /\ phase # "down" /\ rest = <<>> /\ m \in msgs
    BY <1>5 DEF Delete, Ready, Live
  <2>2. Range(rest) = {} /\ <<>> \in Seq(PendingWrite) /\ Range(<<>>) = {}
    BY <2>1, ReadyCharts
  <2>3. \A w \in Range(rest') : w.do # "post"
    BY <2>1, <2>2, TombstoneRest
  <2>4. /\ UNCHANGED <<chans, made, saved, log, phase>>
        /\ msgs' = (msgs \ {m}) \cup {Tombstone(m)}
    BY <2>1 DEF TombstoneThen
  <2>5. Tombstone(m).ch = m.ch
    BY <2>1 DEF TypeOK, Message, Tombstone
  <2>6. Uncharted
    BY <2>1, <2>2, <2>3, <2>4, <2>5 DEF Uncharted
  <2>. QED  BY <2>6, UnchartedKeeps
<1>6. ASSUME NEW ids, Purge(ids) PROVE Charted'
  <2>1. /\ phase # "down" /\ rest = <<>> /\ rest' = <<[do |-> "tombstone", ids |-> ids]>>
        /\ UNCHANGED <<chans, made, saved, log, phase, msgs>>
    BY <1>6 DEF Purge, Ready
  <2>2. Range(rest) = {} /\ Range(rest') = {[do |-> "tombstone", ids |-> ids]}
    BY <2>1, ReadyCharts
  <2>3. Uncharted
    BY <2>1, <2>2 DEF Uncharted
  <2>. QED  BY <2>3, UnchartedKeeps
<1>7. CASE Prune
  <2>1. /\ phase # "down" /\ rest = <<>> /\ rest' = Removal(Prunable) \o Save
        /\ UNCHANGED <<chans, made, saved, log, phase, msgs>>
    BY <1>7 DEF Prune, Ready
  <2>2. Prunable \in SUBSET Fids
    BY DEF Prunable, TypeOK, IsMap
  <2>3. Removal(Prunable) \in Seq(PendingWrite) /\ Save \in Seq(PendingWrite)
    BY <2>2, RestTypes
  <2>4. \A w \in Range(rest') : w \in Range(Removal(Prunable)) \/ w \in Range(Save)
    BY <2>1, <2>3, RestRange
  <2>5. \A w \in Range(rest') : w.do # "post"
    BY <2>2, <2>4, RestKinds DEF Plain
  <2>6. Range(rest) = {}
    BY <2>1, ReadyCharts
  <2>7. Uncharted
    BY <2>1, <2>5, <2>6 DEF Uncharted
  <2>. QED  BY <2>7, UnchartedKeeps
<1>8. ASSUME NEW s \in Slots, UploadSteps(s) PROVE Charted'
  <2>1. UNCHANGED <<chans, made, saved, log, phase, msgs>>
    BY <1>8 DEF UploadSteps, UploadAdmit, UploadReceive, UploadAbort, UploadOrphaned,
                UploadDuplicate, UploadNew
  <2>2. CASE rest' = rest
    <3>1. Uncharted
      BY <2>1, <2>2 DEF Uncharted
    <3>. QED  BY <3>1, UnchartedKeeps
  <2>3. CASE UploadDuplicate(s) \/ UploadNew(s)
    <3>1. /\ phase # "down" /\ rest = <<>> /\ uploads[s].ch \in DOMAIN chans
      BY <2>3 DEF UploadDuplicate, UploadNew, Ready
    <3>2. \E w : rest' = <<w>> /\ w.ch = uploads[s].ch
      BY <2>3 DEF UploadDuplicate, UploadNew
    <3>3. PICK w : rest' = <<w>> /\ w.ch = uploads[s].ch
      BY <3>2
    <3>4. Range(rest) = {} /\ Range(rest') = {w}
      BY <3>1, <3>3, ReadyCharts
    <3>5. w.ch \in made
      BY <3>1, <3>3 DEF Charted
    <3>6. Uncharted
      BY <2>1, <3>4, <3>5 DEF Uncharted
    <3>. QED  BY <3>6, UnchartedKeeps
  <2>. QED  BY <1>8, <2>2, <2>3
            DEF UploadSteps, UploadAdmit, UploadReceive, UploadAbort, UploadOrphaned
<1>9. CASE RestPost
  <2>1. PICK w : w = Head(rest)
    OBVIOUS
  <2>2. /\ phase # "down" /\ UNCHANGED <<phase, chans, made, saved>>
        /\ Assign(w.ch, "file", w.fid, w.sha) /\ w.do = "post" /\ rest' = Tail(rest)
        /\ rest # <<>>
    BY <1>9, <2>1 DEF RestPost, Holding
  <2>3. /\ w \in Range(rest) /\ \A x \in Range(rest') : x \in Range(rest)
        /\ \A x \in Range(rest) : x = w \/ x \in Range(rest')
    BY <1>0, <2>1, <2>2, RestHead
  <2>4. w.ch \in made
    BY <2>2, <2>3 DEF Charted
  <2>. QED  BY <2>2, <2>3, <2>4, PostingKeeps
<1>10. CASE RestTombstone
  <2>1. PICK m \in Live, after \in Seq(PendingWrite) :
           /\ TombstoneThen(m, after)
           /\ \A w \in Range(after) : (Plain(w) /\ w.do # "save") \/ w \in Range(rest)
           /\ \A w \in Range(rest) : w = Head(rest) \/ w \in Range(after)
           /\ Head(rest).do = "tombstone" /\ rest # <<>>
    BY <1>10, PurgeRest
  <2>2. /\ \A w \in Range(rest') : w.do = "remove" \/ w \in Range(after)
        /\ \A w \in Range(after) : w \in Range(rest')
    BY <2>1, TombstoneRest
  <2>3. /\ UNCHANGED <<chans, made, saved, log, phase>> /\ m \in msgs
        /\ msgs' = (msgs \ {m}) \cup {Tombstone(m)}
    BY <2>1 DEF TombstoneThen, Live
  <2>4. Tombstone(m).ch = m.ch
    BY <2>3 DEF TypeOK, Message, Tombstone
  <2>5. \A w \in Range(rest') : w.do = "post" => w \in Range(rest)
    BY <2>1, <2>2 DEF Plain
  <2>6. \A w \in Range(rest) : w.do = "save" => w \in Range(rest')
    BY <2>1, <2>2
  <2>7. Uncharted
    BY <2>3, <2>4, <2>5, <2>6 DEF Uncharted
  <2>. QED  BY <2>7, UnchartedKeeps
<1>11. CASE RestUnlink
  <2>1. Uncharted
    BY <1>11 DEF RestUnlink, Uncharted
  <2>. QED  BY <2>1, UnchartedKeeps
<1>12. CASE RestUnlinkHash
  <2>1. PICK f : rest' = Removal(Head(rest).fids \ {f}) \o Tail(rest)
    BY <1>12 DEF RestUnlinkHash
  <2>2. /\ rest # <<>> /\ Head(rest).do = "remove"
        /\ UNCHANGED <<chans, made, saved, log, phase, msgs>>
    BY <1>12 DEF RestUnlinkHash, Holding
  <2>3. /\ Head(rest) \in PendingWrite /\ Tail(rest) \in Seq(PendingWrite)
        /\ \A w \in Range(Tail(rest)) : w \in Range(rest)
        /\ \A w \in Range(rest) : w = Head(rest) \/ w \in Range(Tail(rest))
    BY <1>0, <2>2, RestHead
  <2>4. PICK F : F = Head(rest).fids \ {f}
    OBVIOUS
  <2>5. F \in SUBSET Fids
    BY <2>2, <2>3, <2>4 DEF PendingWrite
  <2>6. \A w : w \in Range(rest') <=> w \in Range(Removal(F)) \/ w \in Range(Tail(rest))
    <3>1. Removal(F) \in Seq(PendingWrite)
      BY <2>5, RestTypes
    <3>2. PICK x, y : x = Removal(F) /\ y = Tail(rest)
      OBVIOUS
    <3>3. x \in Seq(PendingWrite) /\ y \in Seq(PendingWrite) /\ rest' = x \o y
      BY <2>1, <2>3, <2>4, <3>1, <3>2
    <3>4. \A w : w \in Range(x \o y) <=> w \in Range(x) \/ w \in Range(y)
      BY <3>3, RestRange
    <3>. QED  BY <3>2, <3>3, <3>4
  <2>7. \A w \in Range(Removal(F)) : w.do = "remove"
    BY <2>5, RestKinds
  <2>8. \A w \in Range(rest') : w.do = "post" => w \in Range(rest)
    BY <2>3, <2>6, <2>7
  <2>9. \A w \in Range(rest) : w.do = "save" => w \in Range(rest')
    BY <2>2, <2>3, <2>6
  <2>10. Uncharted
    BY <2>2, <2>8, <2>9 DEF Uncharted
  <2>. QED  BY <2>10, UnchartedKeeps
<1>13. CASE RestSave
  <2>1. /\ phase # "down" /\ UNCHANGED <<phase, chans, made, log, msgs>> /\ saved' = Snapshot
        /\ rest # <<>> /\ rest' = Tail(rest)
    BY <1>13 DEF RestSave, Holding
  <2>2. \A w \in Range(rest') : w \in Range(rest)
    BY <1>0, <2>1, RestHead
  <2>. QED  BY <2>1, <2>2, SavingKeeps
<1>14. CASE RestCompact
  <2>1. /\ phase # "down" /\ UNCHANGED <<phase, chans, made, saved, msgs>> /\ log' = msgs
        /\ rest # <<>> /\ rest' = Tail(rest) /\ Head(rest).do = "compact"
    BY <1>14 DEF RestCompact, Holding
  <2>2. /\ \A w \in Range(rest') : w \in Range(rest)
        /\ \A w \in Range(rest) : w = Head(rest) \/ w \in Range(rest')
    BY <1>0, <2>1, RestHead
  <2>3. Uncharted
    BY <2>1, <2>2 DEF Uncharted
  <2>. QED  BY <2>3, UnchartedKeeps
<1>15. CASE Janitor
  <2>1. /\ Expire(chans, dirty, FALSE, <<>>) /\ phase # "down" /\ phase' # "down"
        /\ rest = <<>> /\ UNCHANGED <<made, log, chans, saved>>
    BY <1>15 DEF Janitor, Ready
  <2>2. /\ <<>> \in Seq(PendingWrite) /\ \A w \in Range(<<>>) : Plain(w)
        /\ DOMAIN saved'.chans = DOMAIN chans
    BY <2>1, ReadyCharts
  <2>. QED  BY <2>1, <2>2, ExpiringKeeps
<1>16. CASE Sweep \/ StartSweep
  <2>1. PICK after :
          /\ after = Save \/ after = <<>>
          /\ Expire(chans, dirty, TRUE, after)
    BY <1>16 DEF Sweep, StartSweep, SweepThen
  <2>2. /\ phase # "down" /\ phase' # "down" /\ rest = <<>>
        /\ UNCHANGED <<made, log, chans, saved>>
    BY <1>16 DEF Sweep, StartSweep, SweepThen, Ready
  <2>3. /\ <<>> \in Seq(PendingWrite) /\ \A w \in Range(<<>>) : Plain(w)
        /\ DOMAIN saved'.chans = DOMAIN chans
    BY <2>2, ReadyCharts
  <2>4. Save \in Seq(PendingWrite) /\ \A w \in Range(Save) : Plain(w)
    <3>1. {} \in SUBSET Fids
      OBVIOUS
    <3>. QED  BY <3>1, RestTypes, RestKinds
  <2>5. after \in Seq(PendingWrite) /\ \A w \in Range(after) : Plain(w)
    BY <2>1, <2>3, <2>4
  <2>. QED  BY <2>1, <2>2, <2>3, <2>5, ExpiringKeeps
<1>17. CASE Flush
  <2>1. /\ phase # "down" /\ UNCHANGED <<phase, chans, made, log, msgs, rest>> /\ saved' = Snapshot
    BY <1>17 DEF Flush, Ready
  <2>. QED  BY <2>1, SavingKeeps
<1>18. CASE Crash \/ Interrupt
  <2>1. phase' = "down" /\ log' = log
    BY <1>18 DEF Crash, Interrupt, Die
  <2>2. CASE saved' = saved
    BY <2>1, <2>2 DEF Charted
  <2>3. CASE saved' = Snapshot /\ phase # "down"
    <3>1. saved'.chans = chans /\ saved'.made = made
      BY <2>3 DEF Snapshot
    <3>. QED  BY <2>1, <2>3, <3>1 DEF Charted
  <2>. QED  BY <1>18, <2>2, <2>3 DEF Crash, Interrupt, Ready
<1>19. CASE Load
  <2>1. /\ chans' = saved.chans /\ made' = saved.made /\ msgs' = Recovered
        /\ UNCHANGED <<saved, log>> /\ phase' # "down"
    BY <1>19 DEF Load
  <2>2. \A r \in Recovered : r.ch \in saved.made
    <3>1. \A r \in Recovered : \E m \in log : r = IF m.id \in dels THEN Tombstone(m) ELSE m
      BY RecoveredType
    <3>2. \A m \in log : Tombstone(m).ch = m.ch
      BY DEF TypeOK, Message, Tombstone
    <3>. QED  BY <3>1, <3>2 DEF Charted
  <2>3. \A w \in Range(rest') : w.do # "post"
    <3>1. rest' = <<>> \/ rest' = <<[do |-> "compact"]>>
      BY <1>19 DEF Load, CompactIf
    <3>2. Range(<<>>) = {} /\ \A w : Range(<<w>>) = {w}
      BY DEF Range
    <3>. QED  BY <3>1, <3>2
  <2>. QED  BY <2>1, <2>2, <2>3 DEF Charted
<1>20. CASE Tick \/ Cool \/ UNCHANGED vars
  <2>1. UNCHANGED <<chans, made, saved, log, phase, msgs, rest>>
    BY <1>20 DEF Tick, Cool, vars
  <2>2. Uncharted
    BY <2>1 DEF Uncharted
  <2>. QED  BY <2>2, UnchartedKeeps
<1>. QED  BY <1>1, <1>2, <1>3, <1>4, <1>5, <1>6, <1>7, <1>8, <1>9, <1>10, <1>11,
             <1>12, <1>13, <1>14, <1>15, <1>16, <1>17, <1>18, <1>19, <1>20
          DEF Next, Commands, Housekeeping, Lifecycle, HandlerStep

-----------------------------------------------------------------------------
(***************************************************************************)
(* The messages in memory and the log                                      *)
(***************************************************************************)

\* A line of the log as a start reads it when D is deleted.
Told(D, x) == IF x.id \in D THEN Tombstone(x) ELSE x

LoggedAfter(L, c, i) == {x \in L : x.ch = c /\ x.id > i}
ToldAfter(L, D, c, i) == {y \in {Told(D, x) : x \in L} : y.ch = c /\ y.id > i}

\* A line whose message is not in memory any more.
Absent(r) == r.ch \in DOMAIN chans /\ r.id \notin Ids(msgs)

\* It expired or the history has been cut behind it; and it is older than all that is left.
Accounted(r) ==
  Absent(r) =>
    /\ r.id \in expired \/ Cardinality(LoggedAfter(log, r.ch, r.id)) >= Keep
    /\ \A m \in msgs : m.ch = r.ch => r.id < m.id

Record ==
  phase # "down" =>
    /\ \A m \in msgs : \E x \in log : m = Told(dels, x)
    /\ \A i \in dels : i <= nextID
    /\ \A r \in log : Accounted(r)

LEMMA ToldFacts ==
  ASSUME NEW x \in Message, NEW D
  PROVE  Told(D, x) \in Message /\ Told(D, x).id = x.id /\ Told(D, x).ch = x.ch
<1>1. Tombstone(x) \in Message /\ Tombstone(x).id = x.id /\ Tombstone(x).ch = x.ch
  BY DEF Tombstone, Message
<1>. QED  BY <1>1 DEF Told

\* As many messages are read back as lines were written, whatever was deleted.
LEMMA SameCount ==
  ASSUME NEW L \in SUBSET Message, IsFiniteSet(L), \A x, y \in L : x.id = y.id => x = y,
         NEW D, NEW c, NEW i
  PROVE  /\ IsFiniteSet(ToldAfter(L, D, c, i))
         /\ Cardinality(ToldAfter(L, D, c, i)) = Cardinality(LoggedAfter(L, c, i))
         /\ IsFiniteSet(LoggedAfter(L, c, i))
         /\ Cardinality(LoggedAfter(L, c, i)) \in Nat
<1>. DEFINE A == LoggedAfter(L, c, i)
            P == ToldAfter(L, D, c, i)
            f == [x \in A |-> Told(D, x)]
<1>1. \A x \in L : Told(D, x).id = x.id /\ Told(D, x).ch = x.ch
  BY ToldFacts
<1>2. A \in SUBSET L /\ \A x \in A : x.ch = c /\ x.id > i
  BY DEF LoggedAfter
<1>3. IsFiniteSet(A) /\ Cardinality(A) \in Nat
  BY <1>2, FS_Subset, FS_CardinalityType
<1>4. f \in [A -> P]
  BY <1>1, <1>2 DEF ToldAfter
<1>5. \A x, y \in A : f[x] = f[y] => x = y
  BY <1>1, <1>2
<1>6. f \in Injection(A, P)
  BY <1>4, <1>5 DEF Injection, IsInjective
<1>7. \A y \in P : \E x \in A : f[x] = y
  <2>1. TAKE y \in P
  <2>2. PICK x \in L : y = Told(D, x) /\ y.ch = c /\ y.id > i
    BY DEF ToldAfter
  <2>3. x \in A
    BY <1>1, <2>2 DEF LoggedAfter
  <2>. QED  BY <2>2, <2>3
<1>8. f \in Surjection(A, P)
  BY <1>4, <1>7 DEF Surjection
<1>. HIDE DEF A, P, f
<1>9. IsFiniteSet(P) /\ Cardinality(P) = Cardinality(A)
  BY <1>3, <1>6, <1>8, FS_Surjection
<1>. QED  BY <1>3, <1>9 DEF A, P

LEMMA ReplayedTold == Replayed = {Told(dels, x) : x \in log}
BY DEF Replayed, Told

\* The newest of a set of messages are newer than the others.
LEMMA NewestAbove ==
  ASSUME NEW S \in SUBSET Message, IsFiniteSet(S), NEW m \in Newest(S), NEW y \in S \ Newest(S)
  PROVE  /\ y.id < m.id
         /\ Cardinality({x \in S : x.id > y.id}) \in Nat
         /\ Cardinality({x \in S : x.id > y.id}) >= Keep
<1>. DEFINE A == {x \in S : x.id > m.id}
            B == {x \in S : x.id > y.id}
<1>1. IsFiniteSet(A) /\ IsFiniteSet(B) /\ Cardinality(A) \in Nat /\ Cardinality(B) \in Nat
  <2>1. A \in SUBSET S /\ B \in SUBSET S
    OBVIOUS
  <2>. QED  BY <2>1, FS_Subset, FS_CardinalityType
<1>2. Cardinality(A) < Keep /\ ~(Cardinality(B) < Keep) /\ Keep \in Nat /\ m \in S
  BY StoreAssumption DEF Newest
<1>3. \A x \in S : x.id \in Nat
  BY DEF Message
<1>4. SUFFICES ASSUME ~(y.id < m.id) PROVE FALSE
  BY <1>1, <1>2
<1>5. m.id <= y.id
  BY <1>2, <1>3, <1>4
<1>6. B \in SUBSET A
  BY <1>2, <1>3, <1>5
<1>. HIDE DEF A, B
<1>7. Cardinality(B) <= Cardinality(A)
  BY <1>1, <1>6, FS_Subset
<1>. QED  BY <1>1, <1>2, <1>7

LEMMA StillKeeps ==
  ASSUME Record, Charted, phase # "down", UNCHANGED <<msgs, log, dels, nextID, expired>>,
         \A c \in DOMAIN chans' : c \in DOMAIN chans \/ c \notin made
  PROVE  Record'
<1>1. ASSUME NEW r \in log, Absent(r)' PROVE Absent(r)
  <2>1. r.ch \in made
    BY DEF Charted
  <2>. QED  BY <1>1, <2>1 DEF Absent
<1>2. ASSUME NEW r \in log PROVE Accounted(r)'
  <2>1. Accounted(r)
    BY DEF Record
  <2>. QED  BY <1>1, <2>1 DEF Accounted
<1>. QED  BY <1>2 DEF Record

LEMMA PostKeepsRecord ==
  ASSUME IInv, Record, phase # "down", UNCHANGED <<phase, dels, chans>>,
         NEW c \in Channels, NEW kind \in {"msg", "file"},
         NEW fid \in Fids \cup {NoFid}, NEW sha \in Contents \cup {NoSha},
         Assign(c, kind, fid, sha)
  PROVE  Record'
<1>1. PICK p : p = [id |-> nextID + 1, ch |-> c, ts |-> now,
                    kind |-> kind, fid |-> fid, sha |-> sha]
  OBVIOUS
<1>2. /\ nextID' = nextID + 1 /\ msgs' = WithPosted(msgs, p) /\ log' = log \cup {p}
      /\ expired' = expired \ {p.id} /\ p.id = nextID + 1 /\ p.ch = c
  BY <1>1 DEF Assign
<1>3. /\ nextID \in Nat /\ p \in Message
      /\ \A x \in msgs \cup log : x \in Message /\ x.id \in Nat /\ x.id <= nextID /\ x.id < p.id
      /\ IsFiniteSet(msgs) /\ IsFiniteSet(log)
  <2>1. nextID \in Nat /\ now \in Nat /\ \A x \in msgs \cup log : x \in Message /\ x.id \in Nat
    BY DEF IInv, TypeOK, Message
  <2>2. p \in Message
    BY <1>1, <2>1 DEF Message
  <2>3. \A x \in msgs \cup log : x.id <= nextID
    BY DEF IInv, LogIdsUnique
  <2>. QED  BY <1>2, <2>1, <2>2, <2>3 DEF IInv, TypeOK
<1>4. /\ \A i \in dels : i <= nextID /\ i \in Nat
      /\ \A m \in msgs : \E x \in log : m = Told(dels, x)
      /\ \A r \in log : Accounted(r)
  BY DEF Record, IInv, TypeOK
<1>5. Told(dels, p) = p
  BY <1>2, <1>3, <1>4 DEF Told
<1>6. log \cup {p} \in SUBSET Message /\ IsFiniteSet(log \cup {p})
  BY <1>3, FS_AddElement
<1>7. \A x, y \in log \cup {p} : x.id = y.id => x = y
  BY <1>3 DEF IInv, LogIdsUnique
<1>. DEFINE own == InChan(msgs, c) \cup {p}
<1>8. own \in SUBSET Message /\ IsFiniteSet(own) /\ own \subseteq msgs \cup {p}
  <2>1. InChan(msgs, c) \in SUBSET msgs
    BY DEF InChan
  <2>2. IsFiniteSet(InChan(msgs, c))
    BY <1>3, <2>1, FS_Subset
  <2>. QED  BY <1>3, <2>1, <2>2, FS_AddElement
<1>9. \/ msgs' = msgs \cup {p}
      \/ msgs' = (msgs \ InChan(msgs, c)) \cup Newest(own)
  BY <1>2 DEF WithPosted
<1>10. p \in msgs'
  <2>1. {x \in own : x.id > p.id} = {}
    BY <1>2, <1>3, <1>8
  <2>2. p \in Newest(own)
    <3>1. Cardinality({x \in own : x.id > p.id}) = 0
      BY <2>1, FS_EmptySet
    <3>2. 0 < Keep /\ p \in own
      BY StoreAssumption
    <3>. QED  BY <3>1, <3>2 DEF Newest
  <2>. QED  BY <1>9, <2>2
<1>11. msgs' \subseteq msgs \cup {p}
  BY <1>2, WithPostedSubset
\* what has been cut off
<1>12. ASSUME NEW y \in msgs, y \notin msgs'
       PROVE  /\ y \in own \ Newest(own) /\ y.ch = c
              /\ \A m \in msgs' : m.ch = c => m \in Newest(own)
              /\ p \in Newest(own)
  <2>1. msgs' = (msgs \ InChan(msgs, c)) \cup Newest(own)
    BY <1>9, <1>12
  <2>2. y \in InChan(msgs, c) /\ y \notin Newest(own)
    BY <1>12, <2>1
  <2>3. \A m \in msgs' : m.ch = c => m \in Newest(own)
    BY <2>1 DEF InChan
  <2>. QED  BY <1>2, <1>10, <2>2, <2>3 DEF InChan
<1>13. ASSUME NEW y \in msgs, y \notin msgs', NEW r \in log, r.id = y.id
       PROVE  /\ r.ch = c /\ Cardinality(LoggedAfter(log \cup {p}, r.ch, r.id)) >= Keep
              /\ \A m \in msgs' : m.ch = c => r.id < m.id
  <2>1. PICK x \in log : y = Told(dels, x)
    BY <1>4
  <2>2. x = r /\ y.ch = r.ch
    <3>1. x \in Message
      BY <1>3
    <3>2. y.id = x.id /\ y.ch = x.ch
      BY <2>1, <3>1, ToldFacts
    <3>. QED  BY <1>7, <1>13, <3>2
  <2>3. y \in own \ Newest(own) /\ y.ch = c /\ p \in Newest(own)
    BY <1>12, <1>13
  <2>4. \A m \in msgs' : m.ch = c => y.id < m.id
    <3>1. \A m \in msgs' : m.ch = c => m \in Newest(own)
      BY <1>12, <1>13
    <3>. QED  BY <1>8, <2>3, <3>1, NewestAbove
  <2>. DEFINE S == {z \in own : z.id > y.id}
              P == ToldAfter(log \cup {p}, dels, c, y.id)
  <2>5. Cardinality(S) \in Nat /\ Cardinality(S) >= Keep
    BY <1>8, <2>3, NewestAbove
  <2>6. /\ IsFiniteSet(P) /\ Cardinality(P) = Cardinality(LoggedAfter(log \cup {p}, c, y.id))
        /\ Cardinality(LoggedAfter(log \cup {p}, c, y.id)) \in Nat
    BY <1>6, <1>7, SameCount
  <2>7. S \in SUBSET P
    <3>1. \A z \in own : z.ch = c
      BY <1>2 DEF InChan
    <3>2. \A z \in own : \E v \in log \cup {p} : z = Told(dels, v)
      BY <1>4, <1>5, <1>8
    <3>. QED  BY <3>1, <3>2 DEF ToldAfter
  <2>. HIDE DEF S, P
  <2>8. Cardinality(S) <= Cardinality(P)
    BY <2>6, <2>7, FS_Subset
  <2>9. Cardinality(LoggedAfter(log \cup {p}, c, y.id)) >= Keep
    BY <2>5, <2>6, <2>8, StoreAssumption
  <2>. QED  BY <1>13, <2>2, <2>3, <2>4, <2>9
<1>14. ASSUME NEW r \in log', Absent(r)'
       PROVE  /\ r.id \in expired' \/ Cardinality(LoggedAfter(log', r.ch, r.id)) >= Keep
              /\ \A m \in msgs' : m.ch = r.ch => r.id < m.id
  <2>1. r \in log /\ r.id # p.id
    <3>1. r # p
      BY <1>10, <1>14 DEF Absent, Ids
    <3>. QED  BY <1>2, <1>3, <3>1
  <2>2. CASE r.id \in Ids(msgs)
    <3>1. PICK y \in msgs : y.id = r.id
      BY <2>2 DEF Ids
    <3>2. y \notin msgs'
      BY <1>14, <3>1 DEF Absent, Ids
    <3>. QED  BY <1>2, <1>13, <2>1, <3>1, <3>2
  <2>3. CASE r.id \notin Ids(msgs)
    <3>1. Absent(r)
      BY <1>14, <2>3 DEF Absent
    <3>2. /\ r.id \in expired \/ Cardinality(LoggedAfter(log, r.ch, r.id)) >= Keep
          /\ \A m \in msgs : m.ch = r.ch => r.id < m.id
      BY <1>4, <2>1, <3>1 DEF Accounted
    <3>3. \A m \in msgs' : m.ch = r.ch => r.id < m.id
      BY <1>3, <1>11, <2>1, <3>2
    <3>4. CASE r.id \in expired
      BY <1>2, <2>1, <3>3, <3>4
    <3>5. CASE Cardinality(LoggedAfter(log, r.ch, r.id)) >= Keep
      <4>. DEFINE A == LoggedAfter(log, r.ch, r.id)
                  B == LoggedAfter(log \cup {p}, r.ch, r.id)
      <4>1. A \in SUBSET B /\ B \in SUBSET (log \cup {p})
        BY DEF LoggedAfter
      <4>. HIDE DEF A, B
      <4>2. IsFiniteSet(B)
        BY <1>6, <4>1, FS_Subset
      <4>3. Cardinality(A) <= Cardinality(B) /\ Cardinality(A) \in Nat /\ Cardinality(B) \in Nat
        BY <4>1, <4>2, FS_Subset, FS_CardinalityType
      <4>4. Cardinality(B) >= Keep
        BY <3>5, <4>3, StoreAssumption DEF A
      <4>. QED  BY <1>2, <3>3, <4>4 DEF B
    <3>. QED  BY <3>2, <3>4, <3>5
  <2>. QED  BY <2>2, <2>3
<1>15. \A r \in log' : Accounted(r)'
  BY <1>14 DEF Accounted
<1>16. \A m \in msgs' : \E x \in log' : m = Told(dels', x)
  BY <1>2, <1>4, <1>5, <1>11
<1>17. \A i \in dels' : i <= nextID'
  BY <1>2, <1>3, <1>4
<1>. QED  BY <1>15, <1>16, <1>17 DEF Record

\* The line behind a message in memory is the one with its id.
LEMMA OwnLine ==
  ASSUME IInv, Record, phase # "down", NEW y \in msgs, NEW r \in log, r.id = y.id
  PROVE  y = Told(dels, r) /\ y.ch = r.ch
<1>1. PICK x \in log : y = Told(dels, x)
  BY DEF Record
<1>2. x \in Message
  BY DEF IInv, TypeOK
<1>3. y.id = x.id /\ y.ch = x.ch
  BY <1>1, <1>2, ToldFacts
<1>. QED  BY <1>1, <1>3 DEF IInv, LogIdsUnique

\* The steps that take messages out of memory: each is of a deleted channel, or is overdue
\* and with it all that is older.
Leave(R) ==
  /\ msgs' = msgs \ R
  /\ UNCHANGED <<log, dels, nextID>>
  /\ DOMAIN chans' \subseteq DOMAIN chans
  /\ \A i \in expired : i \in expired'
  /\ \A y \in R : y.ch \in DOMAIN chans' =>
       y.id \in expired' /\ \A m \in msgs \ R : m.ch = y.ch => y.id < m.id

LEMMA LeaveKeepsRecord ==
  ASSUME IInv, Record, phase # "down", NEW R, Leave(R)
  PROVE  Record'
<1>1. ASSUME NEW r \in log, Absent(r)'
      PROVE  /\ r.id \in expired' \/ Cardinality(LoggedAfter(log, r.ch, r.id)) >= Keep
             /\ \A m \in msgs' : m.ch = r.ch => r.id < m.id
  <2>1. r.ch \in DOMAIN chans' /\ r.ch \in DOMAIN chans
    BY <1>1 DEF Absent, Leave
  <2>2. CASE r.id \in Ids(msgs)
    <3>1. PICK y \in msgs : y.id = r.id
      BY <2>2 DEF Ids
    <3>2. y \in R /\ y.ch = r.ch
      BY <1>1, <3>1, OwnLine DEF Absent, Ids, Leave
    <3>. QED  BY <2>1, <3>1, <3>2 DEF Leave
  <2>3. CASE r.id \notin Ids(msgs)
    <3>1. Accounted(r) /\ Absent(r)
      BY <2>1, <2>3 DEF Record, Absent
    <3>. QED  BY <3>1 DEF Accounted, Leave
  <2>. QED  BY <2>2, <2>3
<1>2. \A r \in log' : Accounted(r)'
  BY <1>1 DEF Accounted, Leave
<1>. QED  BY <1>2 DEF Record, Leave

LEMMA ExpireLeaves ==
  ASSUME TypeOK, NEW wasDirty, NEW force, NEW after,
         Expire(chans', wasDirty, force, after), UNCHANGED <<log, dels>>,
         DOMAIN chans' = DOMAIN chans
  PROVE  \E R : Leave(R)
<1>. DEFINE R == Overdue(msgs, chans')
<1>1. msgs' = msgs \ R /\ nextID' = nextID /\ expired' = expired \cup Ids(R)
  BY DEF Expire
<1>2. ASSUME NEW y \in R, NEW m \in msgs \ R, m.ch = y.ch PROVE y.id < m.id
  <2>1. y \in msgs /\ y.id \in Nat /\ m.id \in Nat
    BY <1>2 DEF Overdue, TypeOK, Message
  <2>2. SUFFICES ASSUME m.id <= y.id PROVE FALSE
    BY <2>1
  <2>3. \A x \in InChan(msgs, m.ch) : x.id <= m.id => x.id <= y.id
    BY <2>1, <2>2 DEF InChan, TypeOK, Message
  <2>4. m \in R
    BY <1>2, <2>3 DEF Overdue
  <2>. QED  BY <1>2, <2>4
<1>3. \A y \in R : y.id \in expired'
  BY <1>1 DEF Ids
<1>. HIDE DEF R
<1>4. Leave(R)
  BY <1>1, <1>2, <1>3 DEF Leave
<1>. QED  BY <1>4

LEMMA TombstoneKeepsRecord ==
  ASSUME IInv, Record, phase # "down", UNCHANGED <<chans, expired>>,
         NEW m \in msgs, Deletes(m)
  PROVE  Record'
<1>1. /\ msgs' = (msgs \ {m}) \cup {Tombstone(m)} /\ dels' = dels \cup {m.id}
      /\ UNCHANGED <<log, nextID>>
  BY DEF Deletes
<1>2. \A x \in msgs \cup log : /\ x \in Message /\ Tombstone(x).id = x.id
                               /\ Tombstone(x).ch = x.ch
                               /\ Tombstone(Tombstone(x)) = Tombstone(x)
  BY DEF IInv, TypeOK, Message, Tombstone
<1>3. ASSUME NEW y \in msgs' PROVE \E x \in log : y = Told(dels', x)
  <2>1. CASE y \in msgs \ {m}
    <3>1. PICK x \in log : y = Told(dels, x)
      BY <2>1 DEF Record
    <3>2. x.id = y.id
      BY <1>2, <3>1, ToldFacts
    <3>3. x.id # m.id
      BY <2>1, <3>2 DEF IInv, ServedIdsUnique
    <3>. QED  BY <1>1, <3>1, <3>3 DEF Told
  <2>2. CASE y = Tombstone(m)
    <3>1. PICK x \in log : m = Told(dels, x)
      BY DEF Record
    <3>2. x.id = m.id
      BY <1>2, <3>1, ToldFacts
    <3>3. Told(dels', x) = Tombstone(x)
      BY <1>1, <3>2 DEF Told
    <3>4. Tombstone(m) = Tombstone(x)
      BY <1>2, <3>1 DEF Told
    <3>. QED  BY <2>2, <3>3, <3>4
  <2>. QED  BY <1>1, <2>1, <2>2
<1>4. \A i \in dels' : i <= nextID'
  BY <1>1 DEF Record, IInv, LogIdsUnique
<1>5. \A y \in msgs' : \E z \in msgs : y.id = z.id /\ y.ch = z.ch
  BY <1>1, <1>2
<1>6. \A y \in msgs : \E z \in msgs' : y.id = z.id
  BY <1>1, <1>2
<1>7. ASSUME NEW r \in log PROVE Accounted(r)'
  <2>1. Accounted(r)
    BY DEF Record
  <2>2. Absent(r)' => Absent(r)
    BY <1>6 DEF Absent, Ids
  <2>3. (\A y \in msgs : y.ch = r.ch => r.id < y.id) =>
        (\A y \in msgs' : y.ch = r.ch => r.id < y.id)
    BY <1>5
  <2>. QED  BY <1>1, <2>1, <2>2, <2>3 DEF Accounted
<1>8. \A r \in log' : Accounted(r)'
  BY <1>1, <1>7
<1>9. \A y \in msgs' : \E x \in log' : y = Told(dels', x)
  BY <1>1, <1>3
<1>. QED  BY <1>4, <1>8, <1>9 DEF Record

LEMMA CompactKeepsRecord ==
  ASSUME Record, log' = msgs, dels' = {}, msgs' = msgs
  PROVE  Record'
<1>1. \A x : Told(dels', x) = x
  BY DEF Told
<1>2. \A r \in log' : ~ Absent(r)'
  BY DEF Absent, Ids
<1>. QED  BY <1>1, <1>2 DEF Record, Accounted

\* What a start reads of one channel, and how much of it is newer than a line.
LEMMA ReadBack ==
  ASSUME TypeOK, LogIdsUnique, NEW c
  PROVE  /\ InChan(Replayed, c) \in SUBSET Message /\ IsFiniteSet(InChan(Replayed, c))
         /\ \A i : /\ {y \in InChan(Replayed, c) : y.id > i} = ToldAfter(log, dels, c, i)
                   /\ IsFiniteSet(ToldAfter(log, dels, c, i))
                   /\ Cardinality(ToldAfter(log, dels, c, i))
                        = Cardinality(LoggedAfter(log, c, i))
                   /\ Cardinality(LoggedAfter(log, c, i)) \in Nat
<1>1. log \in SUBSET Message /\ IsFiniteSet(log) /\ \A x, y \in log : x.id = y.id => x = y
  BY DEF TypeOK, LogIdsUnique
<1>2. Replayed = {Told(dels, x) : x \in log} /\ Replayed \in SUBSET Message
  BY <1>1, ReplayedTold, ToldFacts
<1>3. InChan(Replayed, c) \in SUBSET Replayed
  BY DEF InChan
<1>4. IsFiniteSet(InChan(Replayed, c))
  <2>1. IsFiniteSet(Replayed)
    <3>. DEFINE f == [x \in log |-> Told(dels, x)]
    <3>1. f \in Surjection(log, Replayed)
      BY <1>2 DEF Surjection
    <3>. QED  BY <1>1, <3>1, FS_Surjection
  <2>. QED  BY <1>3, <2>1, FS_Subset
<1>5. ASSUME NEW i PROVE {y \in InChan(Replayed, c) : y.id > i} = ToldAfter(log, dels, c, i)
  BY <1>2 DEF InChan, ToldAfter
<1>6. \A i : /\ IsFiniteSet(ToldAfter(log, dels, c, i))
             /\ Cardinality(ToldAfter(log, dels, c, i)) = Cardinality(LoggedAfter(log, c, i))
             /\ Cardinality(LoggedAfter(log, c, i)) \in Nat
  BY <1>1, SameCount
<1>. QED  BY <1>2, <1>3, <1>4, <1>5, <1>6

\* What a start keeps of a channel.
LEMMA RecoveredChan ==
  ASSUME TypeOK
  PROVE  /\ \A r \in Recovered : /\ r.ch \in DOMAIN saved.chans
                                 /\ r \in Newest(InChan(Replayed, r.ch))
         /\ \A c \in DOMAIN saved.chans : Newest(InChan(Replayed, c)) \subseteq Recovered
<1>1. \A c : \A r \in Newest(InChan(Replayed, c)) : r.ch = c
  BY DEF Newest, InChan
<1>. QED  BY <1>1 DEF Recovered

LEMMA LoadRecords ==
  ASSUME IInv, Load
  PROVE  Record'
<1>0. TypeOK /\ LogIdsUnique /\ \A x \in log : x \in Message
  BY DEF IInv, TypeOK
<1>1. /\ msgs' = Recovered /\ chans' = saved.chans /\ UNCHANGED <<log, dels, expired>>
      /\ HighestLogged(nextID')
  BY DEF Load
<1>2. \A m \in Recovered : \E x \in log : m = Told(dels, x)
  BY <1>0, RecoveredType, ReplayedTold
<1>3. \A i \in dels : i <= nextID'
  BY <1>1 DEF HighestLogged
<1>4. ASSUME NEW r \in log, r.ch \in DOMAIN saved.chans, r.id \notin Ids(Recovered)
      PROVE  /\ Cardinality(LoggedAfter(log, r.ch, r.id)) >= Keep
             /\ \A m \in Recovered : m.ch = r.ch => r.id < m.id
  <2>1. PICK S, y : S = InChan(Replayed, r.ch) /\ y = Told(dels, r)
    OBVIOUS
  <2>2. y.id = r.id /\ y.ch = r.ch
    BY <1>0, <2>1, ToldFacts
  <2>3. y \in S
    BY <2>1, <2>2, ReplayedTold DEF InChan
  <2>4. y \notin Newest(S)
    <3>1. y \notin Recovered
      BY <1>4, <2>2 DEF Ids
    <3>. QED  BY <1>0, <1>4, <2>1, <3>1, RecoveredChan
  <2>5. S \in SUBSET Message /\ IsFiniteSet(S)
    BY <1>0, <2>1, ReadBack
  <2>6. \A m \in Recovered : m.ch = r.ch => m \in Newest(S)
    BY <1>0, <2>1, RecoveredChan
  <2>7. \A m \in Newest(S) : y.id < m.id
    BY <2>3, <2>4, <2>5, NewestAbove
  <2>8. ~(Cardinality({x \in S : x.id > y.id}) < Keep)
    BY <2>3, <2>4 DEF Newest
  <2>9. /\ Cardinality({x \in S : x.id > r.id}) = Cardinality(LoggedAfter(log, r.ch, r.id))
        /\ Cardinality(LoggedAfter(log, r.ch, r.id)) \in Nat
    BY <1>0, <2>1, ReadBack
  <2>10. Cardinality(LoggedAfter(log, r.ch, r.id)) >= Keep
    BY <2>2, <2>8, <2>9, StoreAssumption
  <2>. QED  BY <2>2, <2>6, <2>7, <2>10
<1>5. ASSUME NEW r \in log' PROVE Accounted(r)'
  <2>1. r \in log /\ (Absent(r)' => r.ch \in DOMAIN saved.chans /\ r.id \notin Ids(Recovered))
    BY <1>1, <1>5 DEF Absent
  <2>2. Absent(r)' => /\ Cardinality(LoggedAfter(log, r.ch, r.id)) >= Keep
                      /\ \A m \in Recovered : m.ch = r.ch => r.id < m.id
    BY <1>4, <2>1
  <2>. QED  BY <1>1, <2>2 DEF Accounted
<1>6. \A m \in msgs' : \E x \in log' : m = Told(dels', x)
  BY <1>1, <1>2
<1>7. \A i \in dels' : i <= nextID'
  BY <1>1, <1>3
<1>. QED  BY <1>5, <1>6, <1>7 DEF Record

\* The steps that leave the messages and their record alone.
Still ==
  /\ UNCHANGED <<phase, msgs, log, dels, nextID, expired>>
  /\ \A c \in DOMAIN chans' : c \in DOMAIN chans \/ c \notin made

LEMMA StillRecord == ASSUME Record, Charted, Still PROVE Record'
<1>1. CASE phase = "down"
  BY <1>1 DEF Record, Still
<1>2. CASE phase # "down"
  BY <1>2, StillKeeps DEF Still
<1>. QED  BY <1>1, <1>2

\* What a step does to the messages and the lines behind them.
LEMMA RecordKinds ==
  ASSUME IInv, Charted, [Next]_vars
  PROVE  \/ /\ phase # "down" /\ UNCHANGED <<phase, dels, chans>>
            /\ \E c \in Channels, kind \in {"msg", "file"},
                  fid \in Fids \cup {NoFid}, sha \in Contents \cup {NoSha} :
                    Assign(c, kind, fid, sha)
         \/ phase # "down" /\ \E R : Leave(R)
         \/ phase # "down" /\ UNCHANGED <<chans, expired>> /\ \E m \in msgs : Deletes(m)
         \/ log' = msgs /\ dels' = {} /\ msgs' = msgs
         \/ Load \/ phase' = "down" \/ Still
<1>0. TypeOK /\ rest \in Seq(PendingWrite)
  BY DEF IInv, TypeOK
<1>1. ASSUME NEW c \in Channels, PostText(c)
      PROVE  /\ phase # "down" /\ UNCHANGED <<phase, dels, chans>>
             /\ Assign(c, "msg", NoFid, NoSha)
  BY <1>1 DEF PostText, Ready
<1>2. ASSUME NEW c \in Channels, DeleteChannel(c) PROVE phase # "down" /\ \E R : Leave(R)
  <2>1. /\ msgs' = msgs \ InChan(msgs, c) /\ DOMAIN chans' = DOMAIN chans \ {c}
        /\ UNCHANGED <<log, dels, nextID, expired>> /\ phase # "down"
    BY <1>2 DEF DeleteChannel, Ready, Without, Restrict
  <2>2. \A y \in InChan(msgs, c) : y.ch = c
    BY DEF InChan
  <2>3. Leave(InChan(msgs, c))
    BY <2>1, <2>2 DEF Leave
  <2>. QED  BY <2>1, <2>3
<1>3. ASSUME NEW c \in Channels, NEW e \in Expiries, Settings(c, e)
      PROVE  phase # "down" /\ \E R : Leave(R)
  <2>1. /\ Expire(chans', FALSE, FALSE, <<>>) /\ UNCHANGED <<log, dels>>
        /\ DOMAIN chans' = DOMAIN chans /\ phase # "down"
    BY <1>3 DEF Settings, Ready
  <2>. QED  BY <1>0, <2>1, ExpireLeaves
<1>4. ASSUME NEW c \in Channels, NEW e \in Expiries, Create(c, e) PROVE Still
  BY <1>4 DEF Create, Still, With
<1>5. ASSUME NEW m \in Live, Delete(m)
      PROVE  phase # "down" /\ UNCHANGED <<chans, expired>> /\ \E n \in msgs : Deletes(n)
  <2>1. m \in msgs /\ Deletes(m) /\ phase # "down" /\ UNCHANGED <<chans, expired>>
    BY <1>5 DEF Live, Delete, TombstoneThen, Deletes, Ready
  <2>. QED  BY <2>1
<1>6. ASSUME NEW ids, Purge(ids) PROVE Still
  BY <1>6 DEF Purge, Still
<1>7. CASE Prune
  BY <1>7 DEF Prune, Still
<1>8. ASSUME NEW s \in Slots, UploadSteps(s) PROVE Still
  BY <1>8 DEF UploadSteps, UploadAdmit, UploadReceive, UploadAbort, UploadOrphaned,
              UploadDuplicate, UploadNew, Still
<1>9. CASE RestPost
  <2>1. PICK w : w = Head(rest)
    OBVIOUS
  <2>2. w.ch \in Channels /\ w.fid \in Fids /\ w.sha \in Contents
    BY <1>0, <1>9, <2>1, RestTail DEF RestPost, Holding, PendingWrite
  <2>3. /\ phase # "down" /\ UNCHANGED <<phase, dels, chans>>
        /\ Assign(w.ch, "file", w.fid, w.sha)
    BY <1>9, <2>1 DEF RestPost, Holding
  <2>. QED  BY <2>2, <2>3
<1>10. CASE RestTombstone
  <2>1. PICK m \in Live : \E after : TombstoneThen(m, after)
    BY <1>10 DEF RestTombstone
  <2>2. m \in msgs /\ Deletes(m) /\ phase # "down" /\ UNCHANGED <<chans, expired>>
    BY <1>10, <2>1 DEF Live, RestTombstone, Holding, TombstoneThen, Deletes
  <2>. QED  BY <2>2
<1>11. CASE RestUnlink \/ RestUnlinkHash \/ RestSave
  BY <1>11 DEF RestUnlink, RestUnlinkHash, RestSave, Still
<1>12. CASE RestCompact
  BY <1>12 DEF RestCompact
<1>13. CASE Janitor
  <2>1. /\ Expire(chans', dirty, FALSE, <<>>) /\ UNCHANGED <<log, dels, chans>>
        /\ phase # "down"
    BY <1>13 DEF Janitor, Ready
  <2>. QED  BY <1>0, <2>1, ExpireLeaves
<1>14. CASE Sweep \/ StartSweep
  <2>1. PICK after : Expire(chans', dirty, TRUE, after)
    BY <1>14 DEF Sweep, StartSweep, SweepThen
  <2>2. UNCHANGED <<log, dels, chans>> /\ phase # "down"
    BY <1>14 DEF Sweep, StartSweep, SweepThen, Ready
  <2>. QED  BY <1>0, <2>1, <2>2, ExpireLeaves
<1>15. CASE Flush \/ Tick \/ Cool \/ UNCHANGED vars
  BY <1>15 DEF Flush, Tick, Cool, vars, Still
<1>16. CASE Crash \/ Interrupt
  BY <1>16 DEF Crash, Interrupt, Die
<1>. QED  BY <1>1, <1>2, <1>3, <1>4, <1>5, <1>6, <1>7, <1>8, <1>9, <1>10, <1>11,
             <1>12, <1>13, <1>14, <1>15, <1>16
          DEF Next, Commands, Housekeeping, Lifecycle, HandlerStep

LEMMA RecordStep ==
  ASSUME IInv, Charted, Record, [Next]_vars
  PROVE  Record'
<1>1. CASE phase' = "down"
  BY <1>1 DEF Record
<1>2. ASSUME phase # "down", NEW m \in msgs, Deletes(m), UNCHANGED <<chans, expired>>
      PROVE  Record'
  BY <1>2, TombstoneKeepsRecord
<1>3. ASSUME phase # "down", NEW R, Leave(R) PROVE Record'
  BY <1>3, LeaveKeepsRecord
<1>4. ASSUME phase # "down", UNCHANGED <<phase, dels, chans>>,
             NEW c \in Channels, NEW kind \in {"msg", "file"},
             NEW fid \in Fids \cup {NoFid}, NEW sha \in Contents \cup {NoSha},
             Assign(c, kind, fid, sha)
      PROVE  Record'
  BY <1>4, PostKeepsRecord
<1>5. CASE Load
  BY <1>5, LoadRecords
<1>6. CASE log' = msgs /\ dels' = {} /\ msgs' = msgs
  BY <1>6, CompactKeepsRecord
<1>7. CASE Still
  BY <1>7, StillRecord
<1>. QED  BY <1>1, <1>2, <1>3, <1>4, <1>5, <1>6, <1>7, RecordKinds

LEMMA RecordAlways == Spec => [](IInv /\ Charted /\ Record)
<1>1. Init => Record
  BY DEF Init, NoMemory, Record
<1>2. IInv /\ Charted /\ Record /\ [Next]_vars => IInv' /\ Charted' /\ Record'
  BY NextIInv, ChartedStep, RecordStep DEF IInv
<1>. QED  BY <1>1, <1>2, InitIInv, ChartedInit, PTL DEF Spec

LEMMA RecordRecovers ==
  ASSUME IInv, Charted, Record, Ready
  PROVE  /\ DOMAIN chans = DOMAIN saved.chans
         /\ \A c \in DOMAIN chans : Newest(InChan(msgs, c)) \subseteq Recovered
         /\ Ids(Recovered \ msgs) \subseteq expired
<1>0. /\ TypeOK /\ LogIdsUnique /\ phase # "down" /\ rest = <<>>
      /\ IsFiniteSet(msgs) /\ \A x \in msgs \cup log : x \in Message /\ x.id \in Nat
  BY DEF IInv, TypeOK, Ready, Message
<1>1. DOMAIN chans = DOMAIN saved.chans
  BY <1>0, ReadyCharts
<1>2. \A m \in msgs : \E x \in log : m = Told(dels, x)
  BY <1>0 DEF Record
<1>3. ASSUME NEW v \in log, v.ch \in DOMAIN chans, Told(dels, v) \notin msgs
      PROVE  /\ v.id \in expired \/ Cardinality(LoggedAfter(log, v.ch, v.id)) >= Keep
             /\ \A m \in msgs : m.ch = v.ch => v.id < m.id
  <2>1. v.id \notin Ids(msgs)
    BY <1>0, <1>3, OwnLine DEF Ids
  <2>. QED  BY <1>0, <1>3, <2>1 DEF Record, Accounted, Absent
<1>4. ASSUME NEW c \in DOMAIN chans, NEW m \in Newest(InChan(msgs, c)) PROVE m \in Recovered
  <2>1. PICK S : S = InChan(Replayed, c)
    OBVIOUS
  <2>2. m \in msgs /\ m.ch = c /\ Cardinality({x \in InChan(msgs, c) : x.id > m.id}) < Keep
    BY DEF Newest, InChan
  <2>3. m \in S
    BY <1>2, <2>1, <2>2, ReplayedTold DEF InChan
  <2>4. \A z \in S : z.id > m.id => z \in InChan(msgs, c)
    <3>1. SUFFICES ASSUME NEW z \in S, z.id > m.id, z \notin msgs PROVE FALSE
      BY <2>1 DEF InChan
    <3>2. PICK v \in log : z = Told(dels, v)
      BY <2>1, ReplayedTold DEF InChan
    <3>3. v.id = z.id /\ v.ch = c
      BY <1>0, <2>1, <3>2, ToldFacts DEF InChan
    <3>4. v.id < m.id
      BY <1>3, <2>2, <3>1, <3>2, <3>3
    <3>. QED  BY <1>0, <2>2, <3>1, <3>3, <3>4
  <2>. DEFINE A == {x \in S : x.id > m.id}
              B == {x \in InChan(msgs, c) : x.id > m.id}
  <2>5. A \in SUBSET B /\ B \in SUBSET msgs
    BY <2>4 DEF InChan
  <2>6. Cardinality(B) < Keep
    BY <2>2
  <2>7. m \in Newest(S) <=> Cardinality(A) < Keep
    BY <2>3 DEF Newest
  <2>. HIDE DEF A, B
  <2>8. IsFiniteSet(B)
    BY <1>0, <2>5, FS_Subset
  <2>9. Cardinality(A) <= Cardinality(B) /\ Cardinality(A) \in Nat /\ Cardinality(B) \in Nat
    BY <2>5, <2>8, FS_Subset, FS_CardinalityType
  <2>10. m \in Newest(S)
    BY <2>6, <2>7, <2>9, StoreAssumption
  <2>. QED  BY <1>0, <1>1, <2>1, <2>10, RecoveredChan
<1>5. ASSUME NEW r \in Recovered, r \notin msgs PROVE r.id \in expired
  <2>1. PICK S : S = InChan(Replayed, r.ch)
    OBVIOUS
  <2>2. r.ch \in DOMAIN chans /\ r \in Newest(S)
    BY <1>0, <1>1, <2>1, RecoveredChan
  <2>3. Cardinality({x \in S : x.id > r.id}) < Keep /\ r \in Replayed
    BY <2>1, <2>2 DEF Newest, InChan
  <2>4. PICK v \in log : r = Told(dels, v)
    BY <2>3, ReplayedTold
  <2>5. v.id = r.id /\ v.ch = r.ch
    BY <1>0, <2>4, ToldFacts
  <2>6. v.id \in expired \/ Cardinality(LoggedAfter(log, r.ch, r.id)) >= Keep
    BY <1>3, <1>5, <2>2, <2>4, <2>5
  <2>7. /\ Cardinality({x \in S : x.id > r.id}) = Cardinality(LoggedAfter(log, r.ch, r.id))
        /\ Cardinality(LoggedAfter(log, r.ch, r.id)) \in Nat
    BY <1>0, <2>1, ReadBack
  <2>. QED  BY <2>3, <2>5, <2>6, <2>7, StoreAssumption
<1>6. Ids(Recovered \ msgs) \subseteq expired
  BY <1>5 DEF Ids
<1>. QED  BY <1>1, <1>4, <1>6

\* Whenever no handler is at work, a crash loses nothing that is served and brings nothing
\* back but messages that expired since the last compaction: the next start reads the same
\* channels and the newest Keep messages of each (loadMessages after post, del, expiry,
\* channel deletion, compaction and earlier crashes in any order).
THEOREM StoreRecoverable == Spec => []Recoverable
<1>1. IInv /\ Charted /\ Record => Recoverable
  BY RecordRecovers DEF Recoverable
<1>. QED  BY <1>1, RecordAlways, PTL

-----------------------------------------------------------------------------
(***************************************************************************)
(* Sums                                                                    *)
(***************************************************************************)

\* A map of numbers over a finite set has finitely many units.
LEMMA UnitsFinite ==
  ASSUME NEW S, IsFiniteSet(S), NEW w \in [S -> Nat]
  PROVE  IsFiniteSet(Units(w)) /\ Total(w) \in Nat
<1>. DEFINE parts == {{x} \X (1 .. w[x]) : x \in S}
            f == [x \in S |-> {x} \X (1 .. w[x])]
<1>1. f \in Surjection(S, parts)
  BY DEF Surjection
<1>2. IsFiniteSet(parts)
  BY <1>1, FS_Surjection
<1>3. \A x \in S : IsFiniteSet({x} \X (1 .. w[x]))
  <2>. TAKE x \in S
  <2>1. PICK n \in Nat : n = w[x]
    OBVIOUS
  <2>2. IsFiniteSet(1 .. n) /\ IsFiniteSet({x})
    <3>1. n \in Int /\ 1 \in Int
      OBVIOUS
    <3>2. IsFiniteSet(1 .. n)
      BY ONLY <3>1, FS_Interval
    <3>. QED  BY <3>2, FS_Singleton
  <2>. QED  BY <2>1, <2>2, FS_Product
<1>4. Units(w) = UNION parts
  BY DEF Units
<1>5. IsFiniteSet(UNION parts)
  BY <1>2, <1>3, FS_UNION
<1>. QED  BY <1>4, <1>5, FS_CardinalityType DEF Total

\* A sum is the sum over a part and the sum over the rest.
LEMMA TotalSplit ==
  ASSUME NEW S, IsFiniteSet(S), NEW w \in [S -> Nat], NEW T \in SUBSET S
  PROVE  /\ Total(w) = Total([x \in T |-> w[x]]) + Total([x \in S \ T |-> w[x]])
         /\ Total(w) \in Nat
         /\ Total([x \in T |-> w[x]]) \in Nat
         /\ Total([x \in S \ T |-> w[x]]) \in Nat
<1>. DEFINE a == [x \in T |-> w[x]]
            b == [x \in S \ T |-> w[x]]
<1>1. IsFiniteSet(T) /\ IsFiniteSet(S \ T) /\ a \in [T -> Nat] /\ b \in [S \ T -> Nat]
  BY FS_Subset
<1>2. /\ IsFiniteSet(Units(a)) /\ IsFiniteSet(Units(b))
      /\ Total(a) \in Nat /\ Total(b) \in Nat /\ Total(w) \in Nat
  <2>. HIDE DEF a, b
  <2>. QED  BY <1>1, UnitsFinite
<1>3. Units(w) = Units(a) \cup Units(b)
  BY DEF Units
<1>4. Units(a) \cap Units(b) = {}
  BY DEF Units
<1>. HIDE DEF a, b
<1>5. Cardinality(Units(w)) = Cardinality(Units(a)) + Cardinality(Units(b))
  <2>1. Cardinality({}) = 0
    BY FS_EmptySet
  <2>2. Cardinality(Units(a) \cup Units(b))
          = Cardinality(Units(a)) + Cardinality(Units(b)) - Cardinality(Units(a) \cap Units(b))
    BY <1>2, FS_Union
  <2>3. Cardinality(Units(a)) \in Nat /\ Cardinality(Units(b)) \in Nat
    BY <1>2 DEF Total
  <2>4. PICK p \in Nat, q \in Nat : p = Cardinality(Units(a)) /\ q = Cardinality(Units(b))
    BY <2>3
  <2>5. Cardinality(Units(w)) = p + q - 0
    BY <1>3, <1>4, <2>1, <2>2, <2>4
  <2>. QED  BY <2>4, <2>5
<1>. QED  BY <1>2, <1>5 DEF Total, a, b

LEMMA TotalNone == ASSUME NEW w, DOMAIN w = {} PROVE Total(w) = 0
<1>1. Units(w) = {}
  BY DEF Units
<1>. QED  BY <1>1, FS_EmptySet DEF Total

LEMMA TotalOne ==
  ASSUME NEW x, NEW n \in Nat
  PROVE  Total([y \in {x} |-> n]) = n
<1>1. Units([y \in {x} |-> n]) = {x} \X (1 .. n)
  BY DEF Units
<1>2. /\ IsFiniteSet({x}) /\ Cardinality({x}) = 1
      /\ IsFiniteSet(1 .. n) /\ Cardinality(1 .. n) = n
  <2>1. IsFiniteSet({x}) /\ Cardinality({x}) = 1
    BY FS_Singleton
  <2>2. IsFiniteSet(1 .. n) /\ Cardinality(1 .. n) = IF 1 > n THEN 0 ELSE n - 1 + 1
    BY FS_Interval
  <2>. QED  BY <2>1, <2>2
<1>3. Cardinality({x} \X (1 .. n)) = n
  <2>1. Cardinality({x} \X (1 .. n)) = Cardinality({x}) * Cardinality(1 .. n)
    BY <1>2, FS_Product
  <2>. QED  BY <1>2, <2>1
<1>. QED  BY <1>1, <1>3 DEF Total

\* A sum of numbers of at most b each.
LEMMA TotalBound ==
  ASSUME NEW S, IsFiniteSet(S), NEW w \in [S -> Nat], NEW b \in Nat, \A x \in S : w[x] <= b,
         NEW n \in Nat, Cardinality(S) <= n
  PROVE  Total(w) <= n * b
<1>1. IsFiniteSet(1 .. b) /\ Cardinality(1 .. b) = b
  BY FS_Interval
<1>2. IsFiniteSet(S \X (1 .. b)) /\ Cardinality(S \X (1 .. b)) = Cardinality(S) * b
  BY <1>1, FS_Product
<1>3. Units(w) \subseteq S \X (1 .. b)
  BY DEF Units
<1>4. Total(w) <= Cardinality(S) * b
  BY <1>2, <1>3, FS_Subset DEF Total
<1>5. Total(w) \in Nat /\ Cardinality(S) \in Nat
  BY UnitsFinite, FS_CardinalityType
<1>6. PICK k \in Nat : k = Cardinality(S)
  BY <1>5
<1>7. k * b <= n * b
  <2>1. k <= n
    BY <1>6
  <2>2. n * b = k * b + (n - k) * b /\ n - k \in Nat
    BY <2>1
  <2>3. (n - k) * b \in Nat /\ k * b \in Nat
    BY <2>2
  <2>. QED  BY <2>2, <2>3
<1>8. k * b \in Nat /\ n * b \in Nat
  OBVIOUS
<1>. QED  BY <1>4, <1>5, <1>6, <1>7, <1>8

\* Every set of numbers has a least one, and a finite one a greatest.
LEMMA LeastExists ==
  ASSUME NEW S \in SUBSET Nat, S # {}
  PROVE  \E m \in S : \A x \in S : m <= x
<1>. DEFINE R == {p \in Nat \X Nat : p[1] < p[2]}
<1>1. IsWellFoundedOn(R, Nat)
  BY NatLessThanWellFounded DEF OpToRel
<1>2. PICK m \in S : \A x \in S : ~ (<<x, m>> \in R)
  BY <1>1, WFMin
<1>3. \A x \in S : x < m => <<x, m>> \in R
  OBVIOUS
<1>. HIDE DEF R
<1>4. \A x \in S : ~(x < m)
  BY <1>2, <1>3
<1>. QED  BY <1>4

LEMMA GreatestExists ==
  ASSUME NEW S \in SUBSET Nat, S # {}, IsFiniteSet(S)
  PROVE  \E m \in S : \A x \in S : m >= x
<1>. DEFINE above(x) == {y \in S : y > x}
            counts == {Cardinality(above(x)) : x \in S}
<1>1. \A x \in S : IsFiniteSet(above(x)) /\ Cardinality(above(x)) \in Nat
  <2>1. TAKE x \in S
  <2>2. above(x) \in SUBSET S
    OBVIOUS
  <2>. QED  BY <2>2, FS_Subset, FS_CardinalityType
<1>2. counts \in SUBSET Nat /\ counts # {}
  BY <1>1
<1>3. PICK m \in S : \A x \in S : Cardinality(above(m)) <= Cardinality(above(x))
  <2>1. PICK n \in counts : \A k \in counts : n <= k
    <3>. HIDE DEF counts
    <3>. QED  BY <1>2, LeastExists
  <2>. QED  BY <2>1
<1>4. ASSUME NEW x \in S, x > m PROVE FALSE
  <2>0. \A y \in S : y > x => y > m
    BY <1>4
  <2>1. above(x) \in SUBSET above(m)
    BY <2>0
  <2>4. x \in above(m) /\ x \notin above(x)
    BY <1>4
  <2>2. above(x) # above(m)
    BY <2>4
  <2>. HIDE DEF above
  <2>3. Cardinality(above(x)) < Cardinality(above(m))
    BY <1>1, <2>1, <2>2, FS_Subset
  <2>. QED  BY <1>1, <1>3, <2>3
<1>. QED  BY <1>4

LEMMA LargestSizeBounds ==
  /\ LargestSize \in Nat
  /\ \A d \in Contents : Size[d] \in Nat /\ Size[d] <= LargestSize
<1>. DEFINE sizes == {Size[d] : d \in Contents}
            f == [d \in Contents |-> Size[d]]
<1>1. sizes \in SUBSET Nat /\ sizes # {}
  BY StoreAssumption
<1>2. IsFiniteSet(sizes)
  <2>1. f \in Surjection(Contents, sizes)
    BY DEF Surjection
  <2>. QED  BY <2>1, FS_Surjection, StoreAssumption
<1>. HIDE DEF sizes
<1>3. \E m \in sizes : \A x \in sizes : m >= x
  BY <1>1, <1>2, GreatestExists
<1>4. LargestSize \in sizes /\ \A x \in sizes : LargestSize >= x
  BY <1>3 DEF LargestSize, Max, sizes
<1>. QED  BY <1>1, <1>4 DEF sizes

\* The sizes of some files are the sizes of a part of them and of the rest.
LEMMA SumSplit ==
  ASSUME NEW fs, IsMap(fs, Fids, FileMeta), NEW F \in SUBSET DOMAIN fs, NEW G \in SUBSET F
  PROVE  /\ SumSizes(fs, F) = SumSizes(fs, G) + SumSizes(fs, F \ G)
         /\ SumSizes(fs, F) \in Nat /\ SumSizes(fs, G) \in Nat /\ SumSizes(fs, F \ G) \in Nat
<1>. DEFINE w == [f \in F |-> fs[f].size]
<1>1. IsFiniteSet(Fids)
  <2>1. 1 \in Int /\ MaxFid \in Int
    BY StoreAssumption
  <2>. QED  BY <2>1, FS_Interval DEF Fids
<1>2. F \in SUBSET Fids /\ IsFiniteSet(F)
  <2>1. F \in SUBSET Fids
    BY DEF IsMap
  <2>. QED  BY <1>1, <2>1, FS_Subset
<1>3. w \in [F -> Nat]
  BY DEF IsMap, FileMeta
<1>4. /\ [f \in G |-> w[f]] = [f \in G |-> fs[f].size]
      /\ [f \in F \ G |-> w[f]] = [f \in F \ G |-> fs[f].size]
  OBVIOUS
<1>5. SumSizes(fs, F) = Total(w)
  BY DEF SumSizes
<1>. HIDE DEF w
<1>6. /\ Total(w) = Total([f \in G |-> w[f]]) + Total([f \in F \ G |-> w[f]])
      /\ Total(w) \in Nat
      /\ Total([f \in G |-> w[f]]) \in Nat
      /\ Total([f \in F \ G |-> w[f]]) \in Nat
  BY <1>2, <1>3, TotalSplit
<1>. QED  BY <1>4, <1>5, <1>6 DEF SumSizes

\* A sum does not depend on the files left out of it.
LEMMA SumAgree ==
  ASSUME NEW fs, NEW gs, NEW F, \A f \in F : fs[f].size = gs[f].size
  PROVE  SumSizes(fs, F) = SumSizes(gs, F)
<1>1. [f \in F |-> fs[f].size] = [f \in F |-> gs[f].size]
  OBVIOUS
<1>. QED  BY <1>1 DEF SumSizes

\* One more file adds its size.
LEMMA SumAdds ==
  ASSUME NEW fs, IsMap(fs, Fids, FileMeta), NEW f \in Fids \ DOMAIN fs, NEW meta \in FileMeta,
         NEW F \in SUBSET DOMAIN fs
  PROVE  /\ SumSizes(With(fs, f, meta), F \cup {f}) = SumSizes(fs, F) + meta.size
         /\ SumSizes(With(fs, f, meta), F) = SumSizes(fs, F)
<1>1. PICK gs : gs = With(fs, f, meta)
  OBVIOUS
<1>2. IsMap(gs, Fids, FileMeta)
  BY <1>1, MapAdd
<1>3. DOMAIN gs = DOMAIN fs \cup {f} /\ gs[f] = meta /\ \A g \in DOMAIN fs : gs[g] = fs[g]
  BY <1>1 DEF With
<1>4. PICK H : H = F \cup {f}
  OBVIOUS
<1>5. H \in SUBSET DOMAIN gs /\ H \ {f} = F /\ {f} \in SUBSET H
  BY <1>3, <1>4
<1>6. /\ SumSizes(gs, H) = SumSizes(gs, {f}) + SumSizes(gs, F)
      /\ SumSizes(gs, {f}) \in Nat /\ SumSizes(gs, F) \in Nat
  <2>1. /\ SumSizes(gs, H) = SumSizes(gs, {f}) + SumSizes(gs, H \ {f})
        /\ SumSizes(gs, {f}) \in Nat /\ SumSizes(gs, H \ {f}) \in Nat
    BY <1>2, <1>5, SumSplit, ZenonT(60)
  <2>. QED  BY <1>5, <2>1
<1>7. SumSizes(gs, {f}) = meta.size
  <2>1. meta.size \in Nat
    BY DEF FileMeta
  <2>2. [g \in {f} |-> gs[g].size] = [g \in {f} |-> meta.size]
    BY <1>3
  <2>. QED  BY <2>1, <2>2, TotalOne DEF SumSizes
<1>8. SumSizes(gs, F) = SumSizes(fs, F)
  BY <1>3, SumAgree
<1>. QED  BY <1>1, <1>4, <1>6, <1>7, <1>8

-----------------------------------------------------------------------------
(***************************************************************************)
(* What uploads carry                                                      *)
(***************************************************************************)
Carrying(up, u) == {s \in Slots : up[s] # Idle /\ up[s].user = u}
Flight(up, u) == Total([s \in Carrying(up, u) |-> Size[up[s].data]])

LEMMA FlightType ==
  ASSUME NEW up \in [Slots -> Upload \cup {Idle}], NEW u
  PROVE  /\ IsFiniteSet(Carrying(up, u))
         /\ [s \in Carrying(up, u) |-> Size[up[s].data]] \in [Carrying(up, u) -> Nat]
         /\ Flight(up, u) \in Nat
<1>1. IsFiniteSet(Carrying(up, u))
  <2>1. Carrying(up, u) \in SUBSET Slots
    BY DEF Carrying
  <2>. QED  BY <2>1, FS_Subset, StoreAssumption
<1>2. [s \in Carrying(up, u) |-> Size[up[s].data]] \in [Carrying(up, u) -> Nat]
  <2>1. \A s \in Carrying(up, u) : up[s].data \in Contents
    BY DEF Carrying, Upload
  <2>. QED  BY <2>1, LargestSizeBounds
<1>. QED  BY <1>1, <1>2, UnitsFinite DEF Flight

Lighter(up, after, u, s) ==
  /\ Flight(after, u) \in Nat /\ Flight(up, u) \in Nat
  /\ s \in Carrying(up, u) =>
       /\ Size[up[s].data] \in Nat
       /\ Flight(up, u) = Flight(after, u) + Size[up[s].data]
  /\ s \notin Carrying(up, u) => Flight(up, u) = Flight(after, u)

\* An upload that ends takes its size away; the uploads of others do not count.
LEMMA FlightDrops ==
  ASSUME NEW up \in [Slots -> Upload \cup {Idle}], NEW u, NEW s \in Slots,
         NEW after \in [Slots -> Upload \cup {Idle}],
         after[s] = Idle, \A x \in Slots \ {s} : after[x] = up[x]
  PROVE  Lighter(up, after, u, s)
<1>1. Flight(after, u) \in Nat /\ Flight(up, u) \in Nat
  BY FlightType
<1>2. Carrying(after, u) = Carrying(up, u) \ {s}
  BY DEF Carrying
<1>3. \A x \in Carrying(after, u) : after[x] = up[x]
  BY <1>2 DEF Carrying
<1>. DEFINE w == [x \in Carrying(up, u) |-> Size[up[x].data]]
<1>4. Flight(after, u) = Total([x \in Carrying(up, u) \ {s} |-> w[x]])
  <2>1. [x \in Carrying(after, u) |-> Size[after[x].data]]
          = [x \in Carrying(up, u) \ {s} |-> w[x]]
    <3>1. \A x \in Carrying(up, u) \ {s} : w[x] = Size[after[x].data]
      BY <1>2, <1>3
    <3>. HIDE DEF w
    <3>. QED  BY <1>2, <3>1
  <2>. QED  BY <2>1 DEF Flight
<1>5. CASE s \in Carrying(up, u)
  <2>1. {s} \in SUBSET Carrying(up, u) /\ IsFiniteSet(Carrying(up, u))
        /\ w \in [Carrying(up, u) -> Nat] /\ w[s] = Size[up[s].data] /\ w[s] \in Nat
    BY <1>5, FlightType
  <2>2. [x \in {s} |-> w[x]] = [x \in {s} |-> w[s]]
    OBVIOUS
  <2>3. Flight(up, u) = Total(w)
    BY DEF Flight
  <2>. HIDE DEF w
  <2>4. Total(w) = Total([x \in {s} |-> w[x]]) + Total([x \in Carrying(up, u) \ {s} |-> w[x]])
    BY <2>1, TotalSplit, SMTT(60)
  <2>5. Total([x \in {s} |-> w[s]]) = w[s]
    BY <2>1, TotalOne
  <2>6. Flight(up, u) = w[s] + Flight(after, u)
    BY <1>4, <2>2, <2>3, <2>4, <2>5
  <2>. QED  BY <1>1, <1>5, <2>1, <2>6 DEF Lighter
<1>6. CASE s \notin Carrying(up, u)
  <2>1. Carrying(after, u) = Carrying(up, u)
    BY <1>2, <1>6
  <2>2. [x \in Carrying(after, u) |-> Size[after[x].data]] = w
    <3>1. \A x \in Carrying(up, u) : Size[up[x].data] = Size[after[x].data]
      BY <1>3, <2>1
    <3>. QED  BY <2>1, <3>1
  <2>. QED  BY <1>1, <1>6, <2>2 DEF Flight, Lighter
<1>. QED  BY <1>1, <1>5, <1>6 DEF Lighter

\* An upload that has completely arrived carries what it carried.
LEMMA FlightArrives ==
  ASSUME NEW up \in [Slots -> Upload \cup {Idle}], NEW u, NEW s \in Slots, up[s] # Idle,
         NEW after, after = [up EXCEPT ![s].stage = "received"]
  PROVE  Flight(after, u) = Flight(up, u)
<1>1. up[s] \in Upload
  OBVIOUS
<1>2. /\ after[s].user = up[s].user /\ after[s].data = up[s].data /\ after[s] # Idle
      /\ \A x \in Slots \ {s} : after[x] = up[x]
  BY <1>1 DEF Upload, Idle
<1>3. Carrying(after, u) = Carrying(up, u)
  BY <1>2 DEF Carrying
<1>4. \A x \in Carrying(up, u) : after[x].data = up[x].data
  BY <1>2 DEF Carrying
<1>5. [x \in Carrying(after, u) |-> Size[after[x].data]]
        = [x \in Carrying(up, u) |-> Size[up[x].data]]
  BY <1>3, <1>4
<1>. QED  BY <1>5 DEF Flight

LEMMA FlightBound ==
  ASSUME NEW up \in [Slots -> Upload \cup {Idle}], NEW u, NEW n \in Nat,
         Cardinality(Carrying(up, u)) <= n
  PROVE  Flight(up, u) <= n * LargestSize
<1>. DEFINE w == [s \in Carrying(up, u) |-> Size[up[s].data]]
<1>1. IsFiniteSet(Carrying(up, u)) /\ w \in [Carrying(up, u) -> Nat]
  BY FlightType
<1>2. \A s \in Carrying(up, u) : w[s] <= LargestSize
  <2>1. \A s \in Carrying(up, u) : up[s].data \in Contents
    BY DEF Carrying, Upload
  <2>. QED  BY <2>1, LargestSizeBounds
<1>3. Flight(up, u) = Total(w)
  BY DEF Flight
<1>. HIDE DEF w
<1>. QED  BY <1>1, <1>2, <1>3, TotalBound, LargestSizeBounds

-----------------------------------------------------------------------------
(***************************************************************************)
(* The accounts                                                            *)
(***************************************************************************)

\* Fids are drawn once: an upload's file is nobody else's and not in the catalog yet.
Fresh ==
  /\ \A f \in DOMAIN files \cup DOMAIN blobs \cup DOMAIN saved.files : f <= drawn
  /\ phase = "down" => \A s \in Slots : uploads[s] = Idle
  /\ \A s \in Slots : Busy(s) =>
       /\ uploads[s].fid <= drawn /\ uploads[s].fid \notin DOMAIN files
       /\ \A t \in Slots : Busy(t) /\ uploads[s].fid = uploads[t].fid => s = t

\* state.json is as it was, or has the catalog as it is.
Saves == saved' = saved \/ (phase # "down" /\ saved'.files = files)

\* Files are forgotten.
Refunds(F) ==
  /\ phase # "down" /\ phase' # "down"
  /\ Forget(F) /\ Saves
  /\ UNCHANGED <<uploads, drawn, blobs>>

\* Accounts are left alone.
Settled ==
  /\ UNCHANGED <<phase, files, used, total, uploads, drawn>>
  /\ DOMAIN blobs' \subseteq DOMAIN blobs
  /\ Saves

\* An upload arrives completely, or ends without a new file.
Arrives(s) ==
  /\ phase # "down" /\ uploads[s] # Idle
  /\ \/ uploads' = [uploads EXCEPT ![s] = Idle]
     \/ uploads' = [uploads EXCEPT ![s].stage = "received"]
  /\ UNCHANGED <<phase, files, used, total, saved, drawn>>
  /\ DOMAIN blobs' \subseteq DOMAIN blobs

\* The process ends.
Ends ==
  /\ phase' = "down"
  /\ files' = <<>> /\ used' = [u \in Users |-> 0]
  /\ uploads' = [s \in Slots |-> Idle]
  /\ UNCHANGED <<drawn, blobs>>
  /\ Saves

LEMMA ExpireRefunds ==
  ASSUME NEW cs, NEW wasDirty, NEW force, NEW after, Expire(cs, wasDirty, force, after),
         phase # "down", phase' # "down", UNCHANGED <<uploads, drawn, blobs>>, Saves
  PROVE  \E F : Refunds(F)
<1>1. Refunds(Unreferred(Overdue(msgs, cs)))
  BY DEF Expire, Refunds
<1>. QED  BY <1>1

\* What a step does to the accounts.
LEMMA AccountKinds ==
  ASSUME [Next]_vars
  PROVE  \/ \E s \in Slots, u \in Users, c \in Channels, d \in Contents : UploadAdmit(s, u, c, d)
         \/ \E s \in Slots : Arrives(s) \/ UploadNew(s)
         \/ \E F : Refunds(F)
         \/ Settled \/ Ends \/ Load
<1>1. ASSUME NEW c \in Channels, PostText(c) PROVE Settled
  BY <1>1 DEF PostText, Settled, Saves
<1>2. ASSUME NEW c \in Channels, DeleteChannel(c) PROVE \E F : Refunds(F)
  <2>1. Refunds(Unreferred(InChan(msgs, c)))
    BY <1>2 DEF DeleteChannel, Refunds, Saves, Ready
  <2>. QED  BY <2>1
<1>3. ASSUME NEW c \in Channels, NEW e \in Expiries, Settings(c, e) PROVE \E F : Refunds(F)
  <2>1. /\ Expire(chans', FALSE, FALSE, <<>>) /\ phase # "down" /\ phase' # "down"
        /\ UNCHANGED <<uploads, drawn, blobs>>
    BY <1>3 DEF Settings, Ready
  <2>2. Saves
    BY <1>3 DEF Settings, Snapshot, Saves, Ready
  <2>. QED  BY <2>1, <2>2, ExpireRefunds
<1>4. ASSUME NEW c \in Channels, NEW e \in Expiries, Create(c, e) PROVE Settled
  BY <1>4 DEF Create, Settled, Saves, Snapshot, Ready
<1>5. ASSUME NEW m \in Live, Delete(m) PROVE \E F : Refunds(F)
  <2>1. Refunds(Unreferred({m}))
    BY <1>5 DEF Delete, TombstoneThen, Refunds, Saves, Ready
  <2>. QED  BY <2>1
<1>6. ASSUME NEW ids, Purge(ids) PROVE Settled
  BY <1>6 DEF Purge, Settled, Saves
<1>7. CASE Prune
  <2>1. Refunds(Prunable)
    BY <1>7 DEF Prune, Refunds, Saves, Ready
  <2>. QED  BY <2>1
<1>8. ASSUME NEW s \in Slots, UploadReceive(s) PROVE Arrives(s)
  BY <1>8 DEF UploadReceive, Arrives, Idle
<1>9. ASSUME NEW s \in Slots, UploadAbort(s) PROVE Arrives(s)
  BY <1>9 DEF UploadAbort, Arrives, Idle, Without, Restrict
<1>10. ASSUME NEW s \in Slots, UploadOrphaned(s) PROVE Arrives(s)
  BY <1>10 DEF UploadOrphaned, Arrives, Idle, Without, Restrict, Ready
<1>11. ASSUME NEW s \in Slots, UploadDuplicate(s) PROVE Arrives(s)
  BY <1>11 DEF UploadDuplicate, Arrives, Idle, Without, Restrict, Ready
<1>12. CASE RestPost
  BY <1>12 DEF RestPost, Settled, Saves
<1>13. CASE RestTombstone
  <2>1. PICK m \in Live : \E after : TombstoneThen(m, after)
    BY <1>13 DEF RestTombstone
  <2>2. Refunds(Unreferred({m}))
    BY <1>13, <2>1 DEF RestTombstone, Holding, TombstoneThen, Refunds, Saves
  <2>. QED  BY <2>2
<1>14. CASE RestUnlink \/ RestUnlinkHash
  BY <1>14 DEF RestUnlink, RestUnlinkHash, Settled, Saves, Without, Restrict
<1>15. CASE RestSave \/ RestCompact \/ Flush
  BY <1>15 DEF RestSave, RestCompact, Flush, Settled, Saves, Snapshot, Holding, Ready
<1>16. CASE Janitor
  <2>1. /\ Expire(chans, dirty, FALSE, <<>>) /\ phase # "down" /\ phase' # "down"
        /\ UNCHANGED <<uploads, drawn, blobs>> /\ Saves
    BY <1>16 DEF Janitor, Ready, Saves
  <2>. QED  BY <2>1, ExpireRefunds
<1>17. CASE Sweep \/ StartSweep
  <2>1. PICK after : Expire(chans, dirty, TRUE, after)
    BY <1>17 DEF Sweep, StartSweep, SweepThen
  <2>2. phase # "down" /\ phase' # "down" /\ UNCHANGED <<uploads, drawn, blobs>> /\ Saves
    BY <1>17 DEF Sweep, StartSweep, SweepThen, Ready, Saves
  <2>. QED  BY <2>1, <2>2, ExpireRefunds
<1>18. CASE Tick \/ Cool \/ UNCHANGED vars
  BY <1>18 DEF Tick, Cool, vars, Settled, Saves
<1>19. CASE Crash \/ Interrupt
  BY <1>19 DEF Crash, Interrupt, Die, Ends, Saves, Snapshot, Ready
<1>. QED  BY <1>1, <1>2, <1>3, <1>4, <1>5, <1>6, <1>7, <1>8, <1>9, <1>10, <1>11, <1>12,
             <1>13, <1>14, <1>15, <1>16, <1>17, <1>18, <1>19
          DEF Next, Commands, Housekeeping, Lifecycle, HandlerStep, UploadSteps

LEMMA FreshInit == ASSUME Init PROVE Fresh
<1>1. DOMAIN files = {} /\ DOMAIN blobs = {} /\ DOMAIN saved.files = {}
  BY DEF Init, NoMemory, NewHub
<1>2. \A s \in Slots : uploads[s] = Idle
  BY DEF Init
<1>. QED  BY <1>1, <1>2 DEF Fresh, Busy

LEMMA FreshStep ==
  ASSUME TypeOK, TypeOK', Fresh, [Next]_vars
  PROVE  Fresh'
<1>0. /\ uploads \in [Slots -> Upload \cup {Idle}] /\ drawn \in Nat
      /\ DOMAIN files \subseteq Fids /\ DOMAIN blobs \subseteq Fids
      /\ DOMAIN saved.files \subseteq Fids /\ \A f \in Fids : f \in Int
      /\ \A s \in Slots : Busy(s) => uploads[s] \in Upload /\ uploads[s].fid \in Int
  <2>1. \A f \in Fids : f \in Int
    BY StoreAssumption DEF Fids
  <2>2. uploads \in [Slots -> Upload \cup {Idle}] /\ drawn \in Nat
    BY DEF TypeOK
  <2>3. \A s \in Slots : Busy(s) => uploads[s] \in Upload /\ uploads[s].fid \in Fids
    BY <2>2 DEF Busy, Upload
  <2>. QED  BY <2>1, <2>2, <2>3 DEF TypeOK, IsMap
<1>1. ASSUME NEW s \in Slots, NEW u, NEW c, NEW d, UploadAdmit(s, u, c, d) PROVE Fresh'
  <2>1. /\ drawn' = drawn + 1 /\ DOMAIN blobs' = DOMAIN blobs \cup {drawn + 1}
        /\ UNCHANGED <<files, saved, phase>> /\ phase # "down"
    BY <1>1 DEF UploadAdmit, With, Ready
  <2>2. /\ Busy(s)' /\ uploads'[s].fid = drawn + 1
        /\ \A t \in Slots \ {s} : uploads'[t] = uploads[t]
    BY <1>0, <1>1 DEF UploadAdmit, Busy, Idle
  <2>3. \A t \in Slots \ {s} : Busy(t)' => Busy(t) /\ uploads'[t].fid <= drawn
    BY <2>2 DEF Busy, Fresh
  <2>4. \A f \in DOMAIN files' \cup DOMAIN blobs' \cup DOMAIN saved'.files : f <= drawn'
    BY <1>0, <2>1 DEF Fresh
  <2>5. ASSUME NEW t \in Slots, Busy(t)'
        PROVE  /\ uploads'[t].fid <= drawn' /\ uploads'[t].fid \notin DOMAIN files'
               /\ \A x \in Slots : Busy(x)' /\ uploads'[t].fid = uploads'[x].fid => t = x
    <3>1. CASE t = s
      <4>1. \A x \in Slots \ {s} : Busy(x)' => uploads'[x].fid # drawn + 1
        BY <1>0, <2>2, <2>3
      <4>2. drawn + 1 \notin DOMAIN files
        BY <1>0 DEF Fresh
      <4>. QED  BY <1>0, <2>1, <2>2, <3>1, <4>1, <4>2
    <3>2. CASE t # s
      <4>1. Busy(t) /\ uploads'[t].fid = uploads[t].fid /\ uploads[t].fid <= drawn
        BY <2>2, <2>3, <2>5, <3>2
      <4>2. \A x \in Slots : Busy(x)' /\ uploads'[t].fid = uploads'[x].fid => t = x
        BY <1>0, <2>2, <2>3, <4>1 DEF Fresh
      <4>. QED  BY <1>0, <2>1, <4>1, <4>2 DEF Fresh
    <3>. QED  BY <3>1, <3>2
  <2>. QED  BY <2>1, <2>4, <2>5 DEF Fresh
<1>2. ASSUME NEW s \in Slots, Arrives(s) PROVE Fresh'
  <2>1. /\ UNCHANGED <<phase, files, saved, drawn>> /\ DOMAIN blobs' \subseteq DOMAIN blobs
        /\ phase # "down" /\ Busy(s)
    BY <1>2 DEF Arrives, Busy
  <2>2. \A t \in Slots : Busy(t)' => Busy(t) /\ uploads'[t].fid = uploads[t].fid
    <3>1. CASE uploads' = [uploads EXCEPT ![s] = Idle]
      BY <1>0, <3>1 DEF Busy
    <3>2. CASE uploads' = [uploads EXCEPT ![s].stage = "received"]
      <4>1. uploads'[s].fid = uploads[s].fid
        BY <1>0, <2>1, <3>2 DEF Upload
      <4>2. \A t \in Slots \ {s} : uploads'[t] = uploads[t]
        BY <1>0, <3>2
      <4>. QED  BY <2>1, <4>1, <4>2 DEF Busy
    <3>. QED  BY <1>2, <3>1, <3>2 DEF Arrives
  <2>. QED  BY <2>1, <2>2 DEF Fresh
<1>3. ASSUME NEW s \in Slots, UploadNew(s) PROVE Fresh'
  <2>1. /\ DOMAIN files' = DOMAIN files \cup {uploads[s].fid} /\ Busy(s) /\ phase # "down"
        /\ UNCHANGED <<phase, blobs, saved, drawn>>
        /\ uploads' = [uploads EXCEPT ![s] = Idle]
    BY <1>3 DEF UploadNew, With, Busy, Idle, Ready
  <2>2. /\ ~ Busy(s)'
        /\ \A t \in Slots \ {s} : uploads'[t] = uploads[t] /\ (Busy(t)' => Busy(t))
    BY <1>0, <2>1 DEF Busy
  <2>3. \A t \in Slots \ {s} : Busy(t) => uploads[t].fid # uploads[s].fid
    BY <2>1 DEF Fresh
  <2>. QED  BY <2>1, <2>2, <2>3 DEF Fresh
<1>4. ASSUME NEW F, Refunds(F) PROVE Fresh'
  <2>1. DOMAIN files' \subseteq DOMAIN files
    BY <1>4 DEF Refunds, Forget, Without, Restrict
  <2>2. /\ UNCHANGED <<uploads, drawn, blobs>> /\ phase' # "down"
        /\ saved' = saved \/ saved'.files = files
    BY <1>4 DEF Refunds, Saves
  <2>. QED  BY <2>1, <2>2 DEF Fresh, Busy
<1>5. CASE Settled
  BY <1>5 DEF Settled, Saves, Fresh, Busy
<1>6. CASE Ends
  <2>1. DOMAIN files' = {} /\ \A s \in Slots : uploads'[s] = Idle
    BY <1>6 DEF Ends
  <2>. QED  BY <1>6, <2>1 DEF Ends, Saves, Fresh, Busy
<1>7. CASE Load
  <2>1. /\ \A s \in Slots : uploads[s] = Idle
        /\ UNCHANGED <<uploads, blobs, saved, drawn>> /\ phase' # "down"
    BY <1>7 DEF Load, Fresh
  <2>2. DOMAIN files' \subseteq DOMAIN saved.files \cup DOMAIN blobs
    BY <1>7 DEF Load, Indexed, Adopted
  <2>. QED  BY <2>1, <2>2 DEF Fresh, Busy
<1>. QED  BY <1>1, <1>2, <1>3, <1>4, <1>5, <1>6, <1>7, AccountKinds

\* What an account is charged and the hub's total are numbers.
LEMMA AccountTypes ==
  ASSUME TypeOK, UsedExact, phase # "down"
  PROVE  /\ IsMap(files, Fids, FileMeta)
         /\ total = SumSizes(files, DOMAIN files) /\ total \in Nat
         /\ \A u \in Users \ Guests :
              used[u] = SumSizes(files, OwnedBy(files, u)) /\ used[u] \in Nat
<1>1. IsMap(files, Fids, FileMeta)
  BY DEF TypeOK
<1>2. \A F \in SUBSET DOMAIN files : SumSizes(files, F) \in Nat
  BY <1>1, SumSplit
<1>3. \A u : OwnedBy(files, u) \in SUBSET DOMAIN files
  BY DEF OwnedBy
<1>. QED  BY <1>1, <1>2, <1>3 DEF UsedExact

LEMMA UsedInit == ASSUME Init PROVE UsedExact
<1>1. \A F : F = {} => SumSizes(files, F) = 0
  BY TotalNone DEF SumSizes
<1>2. DOMAIN files = {} /\ \A u : OwnedBy(files, u) = {}
  BY DEF Init, NoMemory, OwnedBy
<1>3. total = 0 /\ \A u \in Users : used[u] = 0
  BY DEF Init, NoMemory
<1>. QED  BY <1>1, <1>2, <1>3 DEF UsedExact

\* Forgetting files refunds exactly what they cost.
LEMMA RefundsExact ==
  ASSUME TypeOK, UsedExact, NEW F, Refunds(F)
  PROVE  /\ UsedExact'
         /\ \A u \in Users \ Guests : used'[u] <= used[u]
<1>0. phase # "down" /\ Forget(F)
  BY DEF Refunds
<1>1. PICK K : K = F \cap DOMAIN files
  OBVIOUS
<1>2. /\ files' = Without(files, K) /\ total' = total - SumSizes(files, K)
      /\ used' = [u \in Users |->
                    LET back == SumSizes(files, OwnedBy(files, u) \cap K) IN
                    IF back > used[u] THEN 0 ELSE used[u] - back]
  BY <1>0, <1>1 DEF Forget
<1>3. DOMAIN files' = DOMAIN files \ K /\ \A f \in DOMAIN files' : files'[f] = files[f]
  BY <1>2 DEF Without, Restrict
<1>4. \A G : G \in SUBSET DOMAIN files' => SumSizes(files', G) = SumSizes(files, G)
  BY <1>3, SumAgree
<1>5. total' = SumSizes(files', DOMAIN files')
  <2>1. PICK D : D = DOMAIN files
    OBVIOUS
  <2>2. /\ SumSizes(files, D) = SumSizes(files, K) + SumSizes(files, D \ K)
        /\ SumSizes(files, D) \in Nat /\ SumSizes(files, K) \in Nat
        /\ SumSizes(files, D \ K) \in Nat
    <3>1. IsMap(files, Fids, FileMeta) /\ D \in SUBSET DOMAIN files /\ K \in SUBSET D
      BY <1>0, <1>1, <2>1, AccountTypes
    <3>. QED  BY <3>1, SumSplit
  <2>3. total = SumSizes(files, D)
    BY <1>0, <2>1, AccountTypes
  <2>4. SumSizes(files', DOMAIN files') = SumSizes(files, D \ K)
    BY <1>3, <1>4, <2>1
  <2>. QED  BY <1>2, <2>2, <2>3, <2>4
<1>6. ASSUME NEW u \in Users \ Guests
      PROVE  used'[u] = SumSizes(files', OwnedBy(files', u)) /\ used'[u] <= used[u]
  <2>1. PICK O, G : O = OwnedBy(files, u) /\ G = OwnedBy(files, u) \cap K
    OBVIOUS
  <2>2. O \in SUBSET DOMAIN files /\ G \in SUBSET O
    BY <2>1 DEF OwnedBy
  <2>3. /\ SumSizes(files, O) = SumSizes(files, G) + SumSizes(files, O \ G)
        /\ SumSizes(files, O) \in Nat /\ SumSizes(files, G) \in Nat
        /\ SumSizes(files, O \ G) \in Nat
    BY <1>0, <2>2, AccountTypes, SumSplit
  <2>4. used[u] = SumSizes(files, O)
    BY <1>0, <2>1, AccountTypes
  <2>5. used'[u] = IF SumSizes(files, G) > used[u] THEN 0 ELSE used[u] - SumSizes(files, G)
    BY <1>2, <2>1
  <2>6. OwnedBy(files', u) = O \ G
    BY <1>1, <1>3, <2>1 DEF OwnedBy
  <2>7. SumSizes(files', OwnedBy(files', u)) = SumSizes(files, O \ G)
    <3>1. OwnedBy(files', u) \in SUBSET DOMAIN files'
      BY DEF OwnedBy
    <3>. QED  BY <1>4, <2>6, <3>1
  <2>. QED  BY <2>3, <2>4, <2>5, <2>7
<1>. QED  BY <1>5, <1>6 DEF UsedExact

\* A new file is charged to its owner.
LEMMA NewFileCharged ==
  ASSUME TypeOK, Fresh, UsedExact, NEW s \in Slots, UploadNew(s)
  PROVE  /\ UsedExact'
         /\ \A u \in Users \ Guests :
              used'[u] = IF u = uploads[s].user THEN used[u] + Size[uploads[s].data] ELSE used[u]
<1>1. PICK f, d, v, meta : /\ f = uploads[s].fid /\ d = uploads[s].data /\ v = uploads[s].user
                           /\ meta = [sha |-> d, size |-> Size[d], owner |-> v]
  OBVIOUS
<1>2. uploads[s] \in Upload /\ phase # "down" /\ Busy(s)
  BY DEF UploadNew, Ready, TypeOK, Idle, Busy
<1>3. /\ f \in Fids \ DOMAIN files /\ d \in Contents /\ v \in Users
      /\ Size[d] \in Nat /\ meta \in FileMeta /\ meta.size = Size[d] /\ meta.owner = v
  <2>1. f \in Fids /\ d \in Contents /\ v \in Users
    BY <1>1, <1>2 DEF Upload
  <2>2. f \notin DOMAIN files
    BY <1>1, <1>2 DEF Fresh
  <2>3. Size[d] \in Nat
    BY <2>1, LargestSizeBounds
  <2>. QED  BY <1>1, <2>1, <2>2, <2>3 DEF FileMeta
<1>4. /\ files' = With(files, f, meta) /\ total' = total + Size[d]
      /\ used' = IF v \in Guests THEN used ELSE [used EXCEPT ![v] = @ + Size[d]]
  BY <1>1 DEF UploadNew
<1>5. /\ DOMAIN files' = DOMAIN files \cup {f}
      /\ files'[f] = meta /\ \A g \in DOMAIN files : files'[g] = files[g]
  BY <1>3, <1>4 DEF With
<1>6. ASSUME NEW G \in SUBSET DOMAIN files
      PROVE  /\ SumSizes(files', G \cup {f}) = SumSizes(files, G) + Size[d]
             /\ SumSizes(files', G) = SumSizes(files, G)
  <2>1. IsMap(files, Fids, FileMeta)
    BY <1>2, AccountTypes
  <2>2. /\ SumSizes(With(files, f, meta), G \cup {f}) = SumSizes(files, G) + meta.size
        /\ SumSizes(With(files, f, meta), G) = SumSizes(files, G)
    BY <1>3, <2>1, SumAdds
  <2>. QED  BY <1>3, <1>4, <2>2
<1>7. total' = SumSizes(files', DOMAIN files')
  BY <1>2, <1>4, <1>5, <1>6, AccountTypes
<1>8. ASSUME NEW u \in Users \ Guests
      PROVE  /\ used'[u] = SumSizes(files', OwnedBy(files', u))
             /\ used'[u] = IF u = v THEN used[u] + Size[d] ELSE used[u]
  <2>1. OwnedBy(files, u) \in SUBSET DOMAIN files
    BY DEF OwnedBy
  <2>2. used[u] = SumSizes(files, OwnedBy(files, u)) /\ DOMAIN used = Users
    BY <1>2, AccountTypes DEF TypeOK
  <2>3. CASE u = v
    <3>1. OwnedBy(files', u) = OwnedBy(files, u) \cup {f}
      BY <1>3, <1>5, <2>3 DEF OwnedBy
    <3>2. used'[u] = used[u] + Size[d]
      BY <1>4, <2>2, <2>3
    <3>. QED  BY <1>6, <2>1, <2>2, <2>3, <3>1, <3>2
  <2>4. CASE u # v
    <3>1. OwnedBy(files', u) = OwnedBy(files, u)
      BY <1>3, <1>5, <2>4 DEF OwnedBy
    <3>2. used'[u] = used[u]
      BY <1>4, <2>2, <2>4
    <3>. QED  BY <1>6, <2>1, <2>2, <2>4, <3>1, <3>2
  <2>. QED  BY <2>3, <2>4
<1>. QED  BY <1>1, <1>7, <1>8 DEF UsedExact

LEMMA UsedStep ==
  ASSUME TypeOK, Fresh, UsedExact, [Next]_vars
  PROVE  UsedExact'
<1>1. ASSUME NEW s, NEW u, NEW c, NEW d, UploadAdmit(s, u, c, d) PROVE UsedExact'
  BY <1>1 DEF UploadAdmit, UsedExact
<1>2. ASSUME NEW s, Arrives(s) PROVE UsedExact'
  BY <1>2 DEF Arrives, UsedExact
<1>3. CASE Settled
  BY <1>3 DEF Settled, UsedExact
<1>4. CASE Ends
  BY <1>4 DEF Ends, UsedExact
<1>5. CASE Load
  <2>1. /\ total' = SumSizes(files', DOMAIN files')
        /\ \A u \in Users : used'[u] = SumSizes(files', OwnedBy(files', u))
    BY <1>5 DEF Load
  <2>. QED  BY <2>1 DEF UsedExact
<1>. QED  BY <1>1, <1>2, <1>3, <1>4, <1>5, RefundsExact, NewFileCharged, AccountKinds

-----------------------------------------------------------------------------
(***************************************************************************)
(* The quota                                                               *)
(***************************************************************************)
Ceiling == Quota + (MaxUploads - 1) * LargestSize

\* The bound, in memory and for what a restart would charge.
Within(u) ==
  /\ used[u] + InFlight(u) <= Ceiling
  /\ SumSizes(saved.files, OwnedBy(saved.files, u)) <= Ceiling

Limited == Quota > 0 /\ MaxUploads > 0 => \A u \in Users \ Guests : Within(u)

LEMMA CeilingType ==
  ASSUME MaxUploads > 0
  PROVE  /\ Quota \in Nat /\ MaxUploads - 1 \in Nat /\ LargestSize \in Nat
         /\ (MaxUploads - 1) * LargestSize \in Nat
         /\ Ceiling \in Nat /\ Ceiling = Quota + (MaxUploads - 1) * LargestSize
<1>1. Quota \in Nat /\ MaxUploads - 1 \in Nat /\ LargestSize \in Nat
  BY StoreAssumption, LargestSizeBounds
<1>2. (MaxUploads - 1) * LargestSize \in Nat
  BY <1>1
<1>. QED  BY <1>1, <1>2 DEF Ceiling

LEMMA InFlightIsFlight ==
  ASSUME TypeOK, NEW u
  PROVE  /\ uploads \in [Slots -> Upload \cup {Idle}]
         /\ InFlight(u) = Flight(uploads, u) /\ Uploading(u) = Carrying(uploads, u)
         /\ InFlight(u) \in Nat
<1>1. uploads \in [Slots -> Upload \cup {Idle}]
  BY DEF TypeOK
<1>2. InFlight(u) = Flight(uploads, u) /\ Uploading(u) = Carrying(uploads, u)
  BY DEF InFlight, Flight, Uploading, Carrying
<1>. QED  BY <1>1, <1>2, FlightType

LEMMA NothingInFlight ==
  ASSUME TypeOK, NEW u, \A s \in Slots : uploads[s] = Idle
  PROVE  InFlight(u) = 0
<1>1. Uploading(u) = {}
  BY DEF Uploading
<1>2. DOMAIN [s \in Uploading(u) |-> Size[uploads[s].data]] = {}
  BY <1>1
<1>. QED  BY <1>2, TotalNone DEF InFlight

\* What is saved is not more than what is charged.
LEMMA SavesWithin ==
  ASSUME TypeOK, UsedExact, NEW u \in Users \ Guests, Within(u), Saves, MaxUploads > 0
  PROVE  SumSizes(saved'.files, OwnedBy(saved'.files, u)) <= Ceiling
<1>1. CASE saved' = saved
  BY <1>1 DEF Within
<1>2. CASE phase # "down" /\ saved'.files = files
  <2>1. used[u] = SumSizes(saved'.files, OwnedBy(saved'.files, u)) /\ used[u] \in Nat
    BY <1>2, AccountTypes
  <2>2. InFlight(u) \in Nat /\ used[u] + InFlight(u) <= Ceiling /\ Ceiling \in Nat
    BY InFlightIsFlight, CeilingType DEF Within
  <2>. QED  BY <2>1, <2>2
<1>. QED  BY <1>1, <1>2 DEF Saves

\* An upload is admitted within the quota, and beside fewer than MaxUploads others.
LEMMA AdmitWithin ==
  ASSUME TypeOK, TypeOK', Limited, UsedExact, Quota > 0, MaxUploads > 0,
         NEW s \in Slots, NEW v \in Users, NEW c \in Channels, NEW d \in Contents,
         UploadAdmit(s, v, c, d), NEW u \in Users \ Guests
  PROVE  Within(u)'
<1>1. /\ uploads[s] = Idle /\ phase # "down" /\ UNCHANGED <<used, saved>>
      /\ uploads' = [uploads EXCEPT ![s] =
           [stage |-> "receiving", user |-> v, ch |-> c, data |-> d, fid |-> drawn']]
      /\ Cardinality(Uploading(v)) < MaxUploads
      /\ QuotaAllows(v, d)
  BY DEF UploadAdmit, Ready
<1>2. Within(u)
  BY DEF Limited
<1>3. PICK up, after : up = uploads' /\ after = uploads
  OBVIOUS
<1>4. /\ up \in [Slots -> Upload \cup {Idle}] /\ after = [up EXCEPT ![s] = Idle]
      /\ up[s].user = v /\ up[s].data = d /\ up[s] # Idle
  <2>1. /\ up \in [Slots -> Upload \cup {Idle}]
        /\ uploads \in [Slots -> Upload \cup {Idle}]
    BY <1>3 DEF TypeOK
  <2>2. [up EXCEPT ![s] = Idle] = uploads
    BY <1>1, <1>3, <2>1
  <2>. QED  BY <1>1, <1>3, <2>1, <2>2 DEF Idle
<1>5. /\ InFlight(u)' = Flight(up, u) /\ InFlight(u) = Flight(after, u)
      /\ Uploading(v) = Carrying(after, v)
  BY <1>3 DEF InFlight, Flight, Uploading, Carrying
<1>6. /\ Flight(after, u) \in Nat /\ Flight(up, u) \in Nat
      /\ s \in Carrying(up, u) => /\ Size[up[s].data] \in Nat
                                  /\ Flight(up, u) = Flight(after, u) + Size[up[s].data]
      /\ s \notin Carrying(up, u) => Flight(up, u) = Flight(after, u)
  <2>1. /\ up \in [Slots -> Upload \cup {Idle}]
        /\ after \in [Slots -> Upload \cup {Idle}] /\ after[s] = Idle
        /\ \A x \in Slots \ {s} : after[x] = up[x]
    BY <1>4
  <2>2. Lighter(up, after, u, s)
    BY <2>1, FlightDrops
  <2>. QED  BY <2>2 DEF Lighter
<1>7. CASE u # v
  <2>1. s \notin Carrying(up, u)
    BY <1>4, <1>7 DEF Carrying
  <2>. QED  BY <1>1, <1>2, <1>5, <1>6, <2>1 DEF Within
<1>8. CASE u = v
  <2>1. s \in Carrying(up, u)
    BY <1>4, <1>8 DEF Carrying
  <2>2. used[u] + Size[d] <= Quota /\ Size[d] \in Nat /\ used[u] \in Nat
    BY <1>1, <1>8, AccountTypes, LargestSizeBounds DEF QuotaAllows
  <2>3. Flight(after, u) <= (MaxUploads - 1) * LargestSize
    <3>1. after \in [Slots -> Upload \cup {Idle}]
      BY <1>4
    <3>2. MaxUploads - 1 \in Nat /\ Cardinality(Carrying(after, u)) <= MaxUploads - 1
      <4>1. Cardinality(Carrying(after, u)) \in Nat
        BY <3>1, FlightType, FS_CardinalityType
      <4>2. Cardinality(Carrying(after, u)) < MaxUploads /\ MaxUploads \in Nat
        BY <1>1, <1>5, <1>8, StoreAssumption
      <4>. QED  BY <4>1, <4>2
    <3>. QED  BY <3>1, <3>2, FlightBound
  <2>4. InFlight(u)' = Flight(after, u) + Size[d]
    BY <1>4, <1>5, <1>6, <2>1
  <2>5. PICK p \in Nat : p = (MaxUploads - 1) * LargestSize
    BY CeilingType
  <2>6. used'[u] + InFlight(u)' <= Ceiling
    <3>1. Ceiling = Quota + p /\ Quota \in Nat
      BY <2>5, CeilingType
    <3>2. used'[u] = used[u] /\ Flight(after, u) <= p
      BY <1>1, <2>3, <2>5
    <3>. QED  BY <1>6, <2>2, <2>4, <3>1, <3>2
  <2>. QED  BY <1>1, <1>2, <2>6 DEF Within
<1>. QED  BY <1>7, <1>8

\* An upload that arrives, or ends without a file, charges nothing.
LEMMA ArrivesWithin ==
  ASSUME TypeOK, UsedExact, NEW s \in Slots, Arrives(s), NEW u \in Users \ Guests, Within(u),
         MaxUploads > 0
  PROVE  Within(u)'
<1>1. PICK up, after : up = uploads /\ after = uploads'
  OBVIOUS
<1>2. /\ up \in [Slots -> Upload \cup {Idle}] /\ up[s] # Idle
      /\ after = [up EXCEPT ![s] = Idle] \/ after = [up EXCEPT ![s].stage = "received"]
      /\ phase # "down" /\ UNCHANGED <<used, saved>>
  BY <1>1 DEF Arrives, TypeOK
<1>3. InFlight(u) = Flight(up, u) /\ InFlight(u)' = Flight(after, u)
  BY <1>1 DEF InFlight, Flight, Uploading, Carrying
<1>4. /\ Flight(after, u) \in Nat /\ Flight(up, u) \in Nat
      /\ Flight(after, u) <= Flight(up, u)
  <2>1. CASE after = [up EXCEPT ![s] = Idle]
    <3>1. /\ Flight(after, u) \in Nat /\ Flight(up, u) \in Nat
          /\ s \in Carrying(up, u) => /\ Size[up[s].data] \in Nat
                                      /\ Flight(up, u) = Flight(after, u) + Size[up[s].data]
          /\ s \notin Carrying(up, u) => Flight(up, u) = Flight(after, u)
      <4>1. /\ up \in [Slots -> Upload \cup {Idle}]
            /\ after \in [Slots -> Upload \cup {Idle}] /\ after[s] = Idle
            /\ \A x \in Slots \ {s} : after[x] = up[x]
        BY <1>2, <2>1
      <4>2. Lighter(up, after, u, s)
        BY <4>1, FlightDrops
      <4>. QED  BY <4>2 DEF Lighter
    <3>. QED  BY <3>1
  <2>2. CASE after = [up EXCEPT ![s].stage = "received"]
    <3>1. Flight(after, u) = Flight(up, u) /\ Flight(up, u) \in Nat
      BY <1>2, <2>2, FlightArrives, FlightType
    <3>. QED  BY <3>1
  <2>. QED  BY <1>2, <2>1, <2>2
<1>5. used[u] \in Nat /\ Ceiling \in Nat
  BY <1>2, AccountTypes, CeilingType
<1>6. used'[u] + InFlight(u)' <= Ceiling
  BY <1>2, <1>3, <1>4, <1>5 DEF Within
<1>. QED  BY <1>2, <1>6 DEF Within

\* A new file moves its size from what is in flight to what is charged.
LEMMA NewWithin ==
  ASSUME TypeOK, Fresh, UsedExact, NEW s \in Slots, UploadNew(s),
         NEW u \in Users \ Guests, Within(u), MaxUploads > 0
  PROVE  Within(u)'
<1>1. PICK up, after : up = uploads /\ after = uploads'
  OBVIOUS
<1>2. /\ up \in [Slots -> Upload \cup {Idle}] /\ after = [up EXCEPT ![s] = Idle]
      /\ up[s] # Idle /\ phase # "down" /\ UNCHANGED saved
  BY <1>1 DEF UploadNew, TypeOK, Ready, Idle
<1>3. InFlight(u) = Flight(up, u) /\ InFlight(u)' = Flight(after, u)
  BY <1>1 DEF InFlight, Flight, Uploading, Carrying
<1>4. /\ Flight(after, u) \in Nat /\ Flight(up, u) \in Nat
      /\ s \in Carrying(up, u) => /\ Size[up[s].data] \in Nat
                                  /\ Flight(up, u) = Flight(after, u) + Size[up[s].data]
      /\ s \notin Carrying(up, u) => Flight(up, u) = Flight(after, u)
  <2>1. /\ up \in [Slots -> Upload \cup {Idle}]
        /\ after \in [Slots -> Upload \cup {Idle}] /\ after[s] = Idle
        /\ \A x \in Slots \ {s} : after[x] = up[x]
    BY <1>2
  <2>2. Lighter(up, after, u, s)
    BY <2>1, FlightDrops
  <2>. QED  BY <2>2 DEF Lighter
<1>5. used'[u] = IF u = up[s].user THEN used[u] + Size[up[s].data] ELSE used[u]
  BY <1>1, NewFileCharged
<1>6. s \in Carrying(up, u) <=> u = up[s].user
  BY <1>2 DEF Carrying
<1>7. used[u] \in Nat /\ Ceiling \in Nat
  BY <1>2, AccountTypes, CeilingType
<1>8. used'[u] + InFlight(u)' <= Ceiling
  <2>1. used[u] + Flight(up, u) <= Ceiling
    BY <1>3 DEF Within
  <2>2. CASE u = up[s].user
    <3>1. /\ Size[up[s].data] \in Nat /\ Flight(up, u) = Flight(after, u) + Size[up[s].data]
          /\ used'[u] = used[u] + Size[up[s].data]
      BY <1>4, <1>5, <1>6, <2>2
    <3>. QED  BY <1>3, <1>4, <1>7, <2>1, <3>1
  <2>3. CASE u # up[s].user
    BY <1>3, <1>4, <1>5, <1>6, <1>7, <2>1, <2>3
  <2>. QED  BY <2>2, <2>3
<1>. QED  BY <1>2, <1>8 DEF Within

LEMMA LimitedStep ==
  ASSUME TypeOK, TypeOK', Fresh, UsedExact, UsedExact', Limited, [Next]_vars
  PROVE  Limited'
<1>. SUFFICES ASSUME Quota > 0, MaxUploads > 0, NEW u \in Users \ Guests
              PROVE  Within(u)'
  BY DEF Limited
<1>0. Within(u) /\ Ceiling \in Nat
  BY CeilingType DEF Limited
<1>1. ASSUME NEW s \in Slots, NEW v \in Users, NEW c \in Channels, NEW d \in Contents,
             UploadAdmit(s, v, c, d)
      PROVE  Within(u)'
  BY <1>1, AdmitWithin
<1>2. ASSUME NEW s \in Slots, Arrives(s) PROVE Within(u)'
  BY <1>0, <1>2, ArrivesWithin
<1>3. ASSUME NEW s \in Slots, UploadNew(s) PROVE Within(u)'
  BY <1>0, <1>3, NewWithin
<1>4. ASSUME NEW F, Refunds(F) PROVE Within(u)'
  <2>1. used'[u] <= used[u]
    BY <1>4, RefundsExact
  <2>2. Saves /\ UNCHANGED uploads /\ phase # "down" /\ phase' # "down"
    BY <1>4 DEF Refunds
  <2>3. InFlight(u)' = InFlight(u)
    BY <2>2 DEF InFlight, Uploading
  <2>4. used[u] \in Nat /\ InFlight(u) \in Nat /\ used'[u] \in Nat
    <3>1. used'[u] \in Nat
      <4>1. used'[u] = SumSizes(files', OwnedBy(files', u))
        BY <2>2 DEF UsedExact
      <4>2. IsMap(files', Fids, FileMeta)
        BY DEF TypeOK
      <4>3. OwnedBy(files', u) \in SUBSET DOMAIN files'
        BY DEF OwnedBy
      <4>. QED  BY <4>1, <4>2, <4>3, SumSplit
    <3>. QED  BY <2>2, <3>1, AccountTypes, InFlightIsFlight
  <2>5. SumSizes(saved'.files, OwnedBy(saved'.files, u)) <= Ceiling
    BY <1>0, <2>2, SavesWithin
  <2>6. used'[u] + InFlight(u)' <= Ceiling
    BY <1>0, <2>1, <2>3, <2>4 DEF Within
  <2>. QED  BY <2>5, <2>6 DEF Within
<1>5. CASE Settled
  <2>1. used' = used /\ uploads' = uploads /\ Saves
    BY <1>5 DEF Settled
  <2>2. InFlight(u)' = InFlight(u)
    BY <2>1 DEF InFlight, Uploading
  <2>3. SumSizes(saved'.files, OwnedBy(saved'.files, u)) <= Ceiling
    BY <1>0, <2>1, SavesWithin
  <2>. QED  BY <1>0, <2>1, <2>2, <2>3 DEF Within
<1>6. CASE Ends
  <2>1. used'[u] = 0 /\ Saves /\ \A s \in Slots : uploads'[s] = Idle
    BY <1>6 DEF Ends
  <2>2. InFlight(u)' = 0
    <3>1. Uploading(u)' = {}
      BY <2>1 DEF Uploading
    <3>2. DOMAIN [s \in Uploading(u)' |-> Size[uploads'[s].data]] = {}
      BY <3>1
    <3>. QED  BY <3>2, TotalNone DEF InFlight
  <2>3. SumSizes(saved'.files, OwnedBy(saved'.files, u)) <= Ceiling
    BY <1>0, <2>1, SavesWithin
  <2>. QED  BY <1>0, <2>1, <2>2, <2>3 DEF Within
<1>7. CASE Load
  <2>1. /\ files' = Indexed /\ saved' = saved /\ uploads' = uploads
        /\ used'[u] = SumSizes(Indexed, OwnedBy(Indexed, u))
        /\ \A s \in Slots : uploads[s] = Idle
    BY <1>7 DEF Load, Fresh
  <2>2. /\ \A f \in DOMAIN saved.files : /\ f \in DOMAIN Indexed
                                         /\ Indexed[f].size = saved.files[f].size
                                         /\ Indexed[f].owner = saved.files[f].owner
        /\ \A f \in DOMAIN Indexed \ DOMAIN saved.files : Indexed[f].owner = Nobody
    BY DEF Indexed, Adopted, TypeOK, IsMap, FileMeta
  <2>3. OwnedBy(Indexed, u) = OwnedBy(saved.files, u)
    <3>1. DOMAIN saved.files \subseteq DOMAIN Indexed /\ u # Nobody
      BY StoreAssumption DEF Indexed
    <3>. QED  BY <2>2, <3>1 DEF OwnedBy
  <2>4. used'[u] = SumSizes(saved.files, OwnedBy(saved.files, u))
    <3>1. \A f \in OwnedBy(saved.files, u) : Indexed[f].size = saved.files[f].size
      BY <2>2 DEF OwnedBy
    <3>. QED  BY <2>1, <2>3, <3>1, SumAgree
  <2>5. InFlight(u)' = 0
    <3>1. Uploading(u)' = {}
      BY <2>1 DEF Uploading
    <3>2. DOMAIN [s \in Uploading(u)' |-> Size[uploads'[s].data]] = {}
      BY <3>1
    <3>. QED  BY <3>2, TotalNone DEF InFlight
  <2>6. used'[u] \in Nat
    <3>1. /\ IsMap(saved.files, Fids, FileMeta)
          /\ OwnedBy(saved.files, u) \in SUBSET DOMAIN saved.files
      BY DEF TypeOK, OwnedBy
    <3>. QED  BY <2>4, <3>1, SumSplit
  <2>. QED  BY <1>0, <2>1, <2>4, <2>5, <2>6 DEF Within
<1>. QED  BY <1>1, <1>2, <1>3, <1>4, <1>5, <1>6, <1>7, AccountKinds

LEMMA LimitedInit == ASSUME Init PROVE Limited
<1>. SUFFICES ASSUME Quota > 0, MaxUploads > 0, NEW u \in Users \ Guests
              PROVE  Within(u)
  BY DEF Limited
<1>1. /\ used[u] = 0 /\ DOMAIN saved.files = {} /\ \A s \in Slots : uploads[s] = Idle
  BY DEF Init, NoMemory, NewHub
<1>2. TypeOK /\ Ceiling \in Nat
  BY InitType, CeilingType
<1>3. SumSizes(saved.files, OwnedBy(saved.files, u)) = 0
  <2>1. OwnedBy(saved.files, u) = {}
    BY <1>1 DEF OwnedBy
  <2>2. DOMAIN [f \in OwnedBy(saved.files, u) |-> saved.files[f].size] = {}
    BY <2>1
  <2>. QED  BY <2>2, TotalNone DEF SumSizes
<1>. QED  BY <1>1, <1>2, <1>3, NothingInFlight DEF Within

Books == TypeOK /\ Fresh /\ UsedExact /\ Limited

LEMMA BooksAlways == Spec => []Books
<1>1. Init => Books
  BY InitType, FreshInit, UsedInit, LimitedInit DEF Books
<1>2. Books /\ [Next]_vars => Books'
  <2>1. SUFFICES ASSUME TypeOK, Fresh, UsedExact, Limited, [Next]_vars PROVE Books'
    BY DEF Books
  <2>2. TypeOK'
    BY <2>1, NextType
  <2>3. UsedExact' /\ Fresh'
    BY <2>1, <2>2, UsedStep, FreshStep
  <2>. QED  BY <2>1, <2>2, <2>3, LimitedStep DEF Books
<1>. QED  BY <1>1, <1>2, PTL DEF Spec

\* The bytes charged to an account are exactly the sizes of the files it owns, and the total
\* exactly the sizes of all files, whatever uploads, duplicates, deletions, prunes, crashes
\* and restarts come in whatever order (files.go Commit, deleteFile, indexFiles).
THEOREM StoreUsedExact == Spec => []UsedExact
<1>1. Books => UsedExact
  BY DEF Books
<1>. QED  BY <1>1, BooksAlways, PTL

\* Admission looks at what is charged and not at what is on its way: an account may pass its
\* quota, but by no more than its other upload slots carry, restarts included.
THEOREM StoreQuotaBound == Spec => []QuotaBound
<1>1. Books => QuotaBound
  BY DEF Books, Limited, Within, QuotaBound, Ceiling
<1>. QED  BY <1>1, BooksAlways, PTL

=============================================================================
