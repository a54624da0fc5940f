--------------------------- MODULE DeliveryProofs ---------------------------
(***************************************************************************)
(* What a device shows and how far the member has read, for every number   *)
(* of devices and messages, queues of any length and any replay cap; and   *)
(* that Delivery keeps the promise of Feed.                                *)
(***************************************************************************)
EXTENDS Delivery, FiniteSetTheorems, SequenceTheorems, TLAPS

\* A frame tells of nothing that has not happened.
GoodFrame(f) ==
  /\ f.t = "msg" => f.n \in 1 .. last
  /\ f.t = "gone" => f.ids \subseteq tomb
  /\ f.t \in {"ok", "synced", "read"} => f.n <= last

FramesGood == \A d \in Devices : \A f \in Range(toClient[d]) : GoodFrame(f)

\* A device asks for nothing, and has read nothing, that it has not heard of.
RequestsGood ==
  \A d \in Devices : \A r \in Range(toHub[d]) :
    r.n <= last /\ (r.t = "read" => r.n <= lastRead[d])

Complete == live \cup tomb = 1 .. last

ClientBounds ==
  \A d \in Devices :
    /\ lastID[d] <= last /\ lastRead[d] <= last /\ dirty[d] <= lastRead[d]
    /\ view[d] \subseteq 1 .. last

HubBounds ==
  /\ read <= last
  /\ \A d \in Devices : (subbed[d] => up[d]) /\ (~up[d] => toHub[d] = <<>>)

TypeInv == TypeOK /\ FramesGood /\ RequestsGood /\ Complete /\ ClientBounds /\ HubBounds

-----------------------------------------------------------------------------
(***************************************************************************)
(* Sets of numbers                                                         *)
(***************************************************************************)
LEMMA Constants == ReplayCap \in Nat /\ MaxMsgs \in Nat /\ Elsewhere \notin Devices
BY DeliveryAssumption

LEMMA LeastExists ==
  ASSUME NEW S \in SUBSET Nat, S # {}
  PROVE  \E m \in S : \A x \in S : m <= x
<1> DEFINE R == {ss \in Nat \X Nat : ss[1] < ss[2]}
<1>1. IsWellFoundedOn(R, Nat)
  BY NatLessThanWellFounded DEF OpToRel
<1>2. PICK m \in S : \A x \in S : ~ (<<x, m>> \in R)
  BY <1>1, WFMin
<1>3. ASSUME NEW x \in S, x < m
      PROVE  FALSE
  <2>1. <<x, m>> \in R
    BY <1>3
  <2>. QED  BY <1>2, <2>1
<1>. QED  BY <1>3

LEMMA MaxIs ==
  ASSUME NEW S \in SUBSET Nat, S # {}, NEW n \in Nat, \A x \in S : x <= n
  PROVE  Max(S) \in S /\ Max(S) \in Nat /\ \A x \in S : x <= Max(S)
<1> DEFINE D == {y \in Nat : n - y \in S}
<1>1. PICK x \in S : TRUE
  OBVIOUS
<1>2. n - x \in D
  <2>1. n - x \in Nat /\ n - (n - x) = x
    BY <1>1
  <2>. QED  BY <1>1, <2>1
<1>3. D \in SUBSET Nat /\ D # {}
  BY <1>2
<1>4. PICK y \in D : \A z \in D : y <= z
  BY <1>3, LeastExists
<1>5. ASSUME NEW z \in S
      PROVE  z <= n - y
  <2>1. n - z \in Nat /\ n - (n - z) = z
    OBVIOUS
  <2>2. n - z \in D
    BY <2>1
  <2>3. z \in Nat /\ y \in Nat /\ y <= n - z
    BY <1>4, <2>2
  <2>. QED  BY <2>3
<1>6. n - y \in S /\ \A z \in S : n - y >= z
  BY <1>4, <1>5
<1>7. Max(S) \in S /\ \A z \in S : Max(S) >= z
  BY <1>6 DEF Max
<1>. QED  BY <1>7

\* There is a sequence of the members of a set in order: the place of a member is the
\* number of those up to it.
LEMMA InOrderIs ==
  ASSUME NEW S \in SUBSET Nat, IsFiniteSet(S)
  PROVE  /\ Cardinality(S) \in Nat
         /\ InOrder(S) \in [1 .. Cardinality(S) -> S]
         /\ Range(InOrder(S)) = S
<1> DEFINE U(m) == {x \in S : x <= m}
           n == Cardinality(S)
           rank == [m \in S |-> Cardinality(U(m))]
<1>1. n \in Nat
  BY FS_CardinalityType
<1>2. ASSUME NEW m \in S
      PROVE  IsFiniteSet(U(m)) /\ Cardinality(U(m)) \in 1 .. n
  <2>1. IsFiniteSet(U(m)) /\ Cardinality(U(m)) <= n /\ Cardinality(U(m)) \in Nat
    BY FS_Subset, FS_CardinalityType
  <2>2. U(m) # {}
    OBVIOUS
  <2>3. Cardinality(U(m)) # 0
    BY <2>1, <2>2, FS_EmptySet
  <2>. QED  BY <1>1, <2>1, <2>3
<1>3. ASSUME NEW l \in S, NEW m \in S, l < m
      PROVE  rank[l] < rank[m]
  <2>1. U(l) \in SUBSET U(m) /\ U(l) # U(m)
    <3>1. \A x \in S : x <= l => x <= m
      <4>1. \A x \in S : x \in Nat
        OBVIOUS
      <4>2. l \in Nat /\ m \in Nat /\ l < m
        BY <1>3
      <4>. QED  BY <4>1, <4>2
    <3>2. m \in U(m) /\ m \notin U(l)
      BY <1>3
    <3>. QED  BY <3>1, <3>2
  <2>2. IsFiniteSet(U(m)) /\ Cardinality(U(l)) \in Nat /\ Cardinality(U(m)) \in Nat
    BY <1>1, <1>2
  <2>3. Cardinality(U(l)) <= Cardinality(U(m)) /\ Cardinality(U(l)) # Cardinality(U(m))
    BY <2>1, <2>2, FS_Subset
  <2>. QED  BY <2>2, <2>3
<1>4. rank \in [S -> 1 .. n]
  BY <1>2
<1>5. \A l, m \in S : rank[l] = rank[m] => l = m
  <2>1. SUFFICES ASSUME NEW l \in S, NEW m \in S, l # m PROVE rank[l] # rank[m]
    OBVIOUS
  <2>2. rank[l] \in Nat /\ rank[m] \in Nat
    BY <1>4
  <2>3. l < m \/ m < l
    BY <2>1
  <2>. QED  BY <1>3, <2>2, <2>3
<1>6. rank \in Injection(S, 1 .. n)
  BY <1>4, <1>5 DEF Injection, IsInjective
<1>7. IsFiniteSet(1 .. n) /\ Cardinality(1 .. n) = n
  BY <1>1, FS_Interval
<1>8. rank \in Surjection(S, 1 .. n)
  BY <1>6, <1>7, FS_Injection
<1>9. \A i \in 1 .. n : \E m \in S : rank[m] = i
  BY <1>8 DEF Surjection
<1>. HIDE DEF rank
<1> DEFINE s == [i \in 1 .. n |-> CHOOSE m \in S : rank[m] = i]
<1>10. \A i \in 1 .. n : s[i] \in S /\ rank[s[i]] = i
  BY <1>9
<1>11. s \in [1 .. n -> S]
  BY <1>10
<1>12. ASSUME NEW i \in 1 .. n, NEW j \in 1 .. n, i < j
       PROVE  s[i] < s[j]
  <2>1. s[i] \in S /\ s[j] \in S /\ rank[s[i]] = i /\ rank[s[j]] = j
    BY <1>10
  <2>. HIDE DEF s
  <2>2. s[i] # s[j]
    BY <1>12, <2>1
  <2>3. ~(s[j] < s[i])
    <3>1. SUFFICES ASSUME s[j] < s[i] PROVE FALSE
      OBVIOUS
    <3>2. rank[s[j]] < rank[s[i]]
      BY <1>3, <2>1, <3>1
    <3>. QED  BY <1>12, <2>1, <3>2
  <2>4. s[i] \in Nat /\ s[j] \in Nat
    BY <2>1
  <2>. QED  BY <2>2, <2>3, <2>4
<1>13. \E t \in [1 .. n -> S] : \A i, j \in DOMAIN t : i < j => t[i] < t[j]
  <2>. HIDE DEF s
  <2>1. DOMAIN s = 1 .. n
    BY <1>11
  <2>. QED  BY <1>11, <1>12, <2>1
<1>14. PICK o : o = InOrder(S)
  OBVIOUS
<1>15. o \in [1 .. n -> S] /\ \A i, j \in DOMAIN o : i < j => o[i] < o[j]
  BY <1>13, <1>14 DEF InOrder
<1>16. \A i, j \in 1 .. n : o[i] = o[j] => i = j
  <2>1. SUFFICES ASSUME NEW i \in 1 .. n, NEW j \in 1 .. n, i # j PROVE o[i] # o[j]
    OBVIOUS
  <2>2. o[i] \in S /\ o[j] \in S /\ DOMAIN o = 1 .. n
    BY <1>15
  <2>3. o[i] \in Nat /\ o[j] \in Nat /\ (i < j \/ j < i)
    <3>1. i \in Int /\ j \in Int
      BY <1>1
    <3>. HIDE DEF n
    <3>2. o[i] \in Nat /\ o[j] \in Nat
      BY <2>2, Zenon
    <3>. QED  BY <2>1, <3>1, <3>2
  <2>4. o[i] < o[j] \/ o[j] < o[i]
    BY <1>15, <2>2, <2>3
  <2>. QED  BY <2>3, <2>4
<1>17. o \in Injection(1 .. n, S)
  BY <1>15, <1>16 DEF Injection, IsInjective
<1>18. o \in Surjection(1 .. n, S)
  BY <1>7, <1>17, FS_Injection
<1>19. Range(o) = S
  BY <1>15, <1>18 DEF Surjection, Range
<1>. QED  BY <1>1, <1>14, <1>15, <1>19

-----------------------------------------------------------------------------
(***************************************************************************)
(* The queues                                                              *)
(***************************************************************************)
LEMMA RangeTail ==
  ASSUME NEW T, NEW s \in Seq(T), s # <<>>
  PROVE  /\ Range(Tail(s)) \subseteq Range(s)
         /\ Head(s) \in Range(s) /\ Head(s) \in T
         /\ Tail(s) \in Seq(T) /\ Head(s) = s[1]
         /\ DOMAIN s = 1 .. Len(s) /\ Len(s) \in Nat /\ Len(s) >= 1
         /\ DOMAIN Tail(s) = 1 .. Len(s) - 1
         /\ \A i \in 1 .. Len(s) - 1 : Tail(s)[i] = s[i + 1]
<1>1. DOMAIN s = 1 .. Len(s) /\ Len(s) \in Nat /\ Len(s) >= 1
  BY LenProperties, EmptySeq
<1>2. /\ Tail(s) \in Seq(T) /\ Len(Tail(s)) = Len(s) - 1 /\ Head(s) \in T
      /\ \A i \in 1 .. Len(Tail(s)) : Tail(s)[i] = s[i + 1]
  BY HeadTailProperties
<1>3. DOMAIN Tail(s) = 1 .. Len(s) - 1
  BY <1>2, LenProperties
<1>4. Head(s) = s[1]
  BY HeadTailOfSubSeq, SubSeqFull, <1>1
<1>5. \A i \in 1 .. Len(s) - 1 : Tail(s)[i] \in Range(s)
  BY <1>1, <1>2 DEF Range
<1>6. Range(Tail(s)) \subseteq Range(s)
  BY <1>3, <1>5, Zenon DEF Range
<1>7. Head(s) \in Range(s)
  BY <1>1, <1>4 DEF Range
<1>. QED  BY <1>1, <1>2, <1>3, <1>4, <1>6, <1>7

LEMMA RangeCut ==
  ASSUME NEW T, NEW s \in Seq(T), NEW n \in 0 .. Len(s)
  PROVE  /\ SubSeq(s, 1, n) \in Seq(T)
         /\ DOMAIN s = 1 .. Len(s) /\ Len(s) \in Nat
         /\ DOMAIN SubSeq(s, 1, n) = 1 .. n
         /\ \A i \in 1 .. n : SubSeq(s, 1, n)[i] = s[i]
         /\ Range(SubSeq(s, 1, n)) \subseteq Range(s)
<1>1. DOMAIN s = 1 .. Len(s) /\ Len(s) \in Nat
  BY LenProperties
<1>2. \A i \in 1 .. n : s[i] \in T
  BY <1>1, ElementOfSeq
<1>3. /\ SubSeq(s, 1, n) \in Seq(T) /\ Len(SubSeq(s, 1, n)) = n
      /\ \A i \in 1 .. n : SubSeq(s, 1, n)[i] = s[i]
  BY <1>1, <1>2, SubSeqProperties
<1>4. DOMAIN SubSeq(s, 1, n) = 1 .. n
  BY <1>3, LenProperties
<1>5. \A i \in 1 .. n : SubSeq(s, 1, n)[i] \in Range(s)
  BY <1>1, <1>3 DEF Range
<1>6. Range(SubSeq(s, 1, n)) \subseteq Range(s)
  BY <1>4, <1>5, Zenon DEF Range
<1>. QED  BY <1>1, <1>3, <1>4, <1>6

LEMMA RangeAppend ==
  ASSUME NEW T, NEW s \in Seq(T), NEW f \in T
  PROVE  /\ Append(s, f) \in Seq(T)
         /\ Range(Append(s, f)) = Range(s) \cup {f}
<1>1. DOMAIN s = 1 .. Len(s) /\ Len(s) \in Nat
  BY LenProperties
<1>2. Append(s, f) \in Seq(T) /\ DOMAIN Append(s, f) = 1 .. Len(s) + 1
  BY AppendProperties, LenProperties
<1>3. /\ \A i \in 1 .. Len(s) : Append(s, f)[i] = s[i]
      /\ Append(s, f)[Len(s) + 1] = f
  BY AppendProperties
<1>4. 1 .. Len(s) + 1 = (1 .. Len(s)) \cup {Len(s) + 1}
  BY <1>1
<1>5. Range(Append(s, f)) = Range(s) \cup {f}
  BY <1>1, <1>2, <1>3, <1>4, ZenonT(60) DEF Range
<1>. QED  BY <1>2, <1>5

LEMMA RangeOne == ASSUME NEW f PROVE Range(<<f>>) = {f}
BY DEF Range

\* A queue to which some frames are added.
LEMMA GrownProperties ==
  ASSUME NEW T, NEW q \in Seq(T), NEW s \in Seq(T)
  PROVE  /\ q \o s \in Seq(T)
         /\ Len(q) \in Nat /\ Len(s) \in Nat
         /\ DOMAIN q = 1 .. Len(q) /\ DOMAIN s = 1 .. Len(s)
         /\ DOMAIN (q \o s) = 1 .. Len(q) + Len(s)
         /\ \A i \in 1 .. Len(q) : (q \o s)[i] = q[i]
         /\ \A i \in 1 .. Len(s) : (q \o s)[Len(q) + i] = s[i]
         /\ Range(q \o s) = Range(q) \cup Range(s)
<1>1. /\ q \o s \in Seq(T) /\ Len(q \o s) = Len(q) + Len(s)
      /\ \A i \in 1 .. Len(q) + Len(s) :
           (q \o s)[i] = IF i <= Len(q) THEN q[i] ELSE s[i - Len(q)]
  BY ConcatProperties
<1>2. Len(q) \in Nat /\ Len(s) \in Nat /\ DOMAIN q = 1 .. Len(q) /\ DOMAIN s = 1 .. Len(s)
  BY LenProperties
<1>3. DOMAIN (q \o s) = 1 .. Len(q) + Len(s)
  BY <1>1, LenProperties
<1>4. \A i \in 1 .. Len(q) : (q \o s)[i] = q[i]
  BY <1>1, <1>2
<1>5. \A i \in 1 .. Len(s) : (q \o s)[Len(q) + i] = s[i]
  <2>1. \A i \in 1 .. Len(s) :
          /\ Len(q) + i \in 1 .. Len(q) + Len(s)
          /\ ~(Len(q) + i <= Len(q)) /\ (Len(q) + i) - Len(q) = i
    BY <1>2
  <2>. QED  BY <1>1, <2>1
<1>6. Range(q \o s) = Range(q) \cup Range(s)
  BY RangeConcatenation
<1>. QED  BY <1>1, <1>2, <1>3, <1>4, <1>5, <1>6

\* The step adds s to the queues of S, takes the first frame from d's queue, or leaves
\* the first n frames in it.
Grows(S, s) ==
  /\ s \in Seq(Frame)
  /\ toClient' \in [Devices -> Seq(Frame)]
  /\ \A x \in Devices : toClient'[x] = IF x \in S THEN toClient[x] \o s ELSE toClient[x]

Takes(d) ==
  /\ toClient[d] # <<>>
  /\ toClient' \in [Devices -> Seq(Frame)]
  /\ \A x \in Devices : toClient'[x] = IF x = d THEN Tail(toClient[x]) ELSE toClient[x]

Cuts(d, n) ==
  /\ n \in 0 .. Len(toClient[d])
  /\ toClient' \in [Devices -> Seq(Frame)]
  /\ \A x \in Devices : toClient'[x] = IF x = d THEN SubSeq(toClient[x], 1, n) ELSE toClient[x]

LEMMA Frames ==
  ASSUME MaxMsgs \in Nat
  PROVE  /\ \A t \in {"ok", "synced", "read"} : \A n \in 0 .. MaxMsgs : Info(t, n) \in Frame
         /\ \A m \in Ids : \A h \in BOOLEAN : MsgFrame(m, h) \in Frame
         /\ \A M \in SUBSET Ids : \A h \in BOOLEAN : Gone(M, h) \in Frame
<1>1. \A t \in {"ok", "synced", "read"} : \A n \in 0 .. MaxMsgs : Info(t, n) \in Frame
  BY DEF Info, Frame
<1>2. \A m \in Ids : \A h \in BOOLEAN : MsgFrame(m, h) \in Frame
  BY DEF MsgFrame, Frame, Ids
<1>3. \A M \in SUBSET Ids : \A h \in BOOLEAN : Gone(M, h) \in Frame
  BY DEF Gone, Frame
<1>. QED  BY <1>1, <1>2, <1>3

LEMMA OneFrame ==
  ASSUME NEW q \in Seq(Frame), NEW f \in Frame
  PROVE  /\ <<f>> \in Seq(Frame) /\ Append(q, f) = q \o <<f>> /\ Append(q, f) \in Seq(Frame)
         /\ Range(<<f>>) = {f}
<1>1. Append(q, f) = q \o <<f>> /\ Append(q, f) \in Seq(Frame)
  BY AppendIsConcat, AppendProperties
<1>2. <<f>> \in Seq(Frame)
  OBVIOUS
<1>. QED  BY <1>1, <1>2, RangeOne

LEMMA AddsOne ==
  ASSUME toClient \in [Devices -> Seq(Frame)], NEW S, NEW f \in Frame,
         toClient' = [x \in Devices |-> IF x \in S THEN Append(toClient[x], f) ELSE toClient[x]]
  PROVE  Grows(S, <<f>>)
<1>1. \A x \in Devices : Append(toClient[x], f) = toClient[x] \o <<f>>
                         /\ Append(toClient[x], f) \in Seq(Frame)
  BY OneFrame
<1>2. <<f>> \in Seq(Frame)
  OBVIOUS
<1>3. \A x \in Devices : toClient'[x] = IF x \in S THEN toClient[x] \o <<f>> ELSE toClient[x]
  BY <1>1
<1>4. toClient' \in [Devices -> Seq(Frame)]
  BY <1>1
<1>. QED  BY <1>2, <1>3, <1>4, Zenon DEF Grows

LEMMA ToChanGrows ==
  ASSUME toClient \in [Devices -> Seq(Frame)], NEW f \in Frame, ToChan(f)
  PROVE  Grows({x \in Devices : Attached(x)}, <<f>>)
<1>1. toClient' = [x \in Devices |-> IF x \in {y \in Devices : Attached(y)}
                                     THEN Append(toClient[x], f) ELSE toClient[x]]
  BY DEF ToChan
<1>. QED  BY <1>1, AddsOne

LEMMA RecordGrows ==
  ASSUME toClient \in [Devices -> Seq(Frame)], MaxMsgs \in Nat, NEW n \in 0 .. MaxMsgs,
         NEW d, Record(n, d)
  PROVE  Grows({x \in Devices : up[x] /\ x # d}, <<Info("read", n)>>)
<1>1. toClient' = [x \in Devices |-> IF x \in {y \in Devices : up[y] /\ y # d}
                                     THEN Append(toClient[x], Info("read", n)) ELSE toClient[x]]
  BY DEF Record
<1>2. Info("read", n) \in Frame
  BY Frames
<1>. QED  BY <1>1, <1>2, AddsOne

LEMMA HandlesTakes ==
  ASSUME toClient \in [Devices -> Seq(Frame)], NEW d \in Devices, NEW t, Handles(d, t)
  PROVE  Takes(d)
<1>1. toClient[d] # <<>> /\ toClient' = [toClient EXCEPT ![d] = Tail(toClient[d])]
  BY DEF Handles
<1>2. Tail(toClient[d]) \in Seq(Frame)
  BY <1>1, RangeTail
<1>3. \A x \in Devices : toClient'[x] = IF x = d THEN Tail(toClient[x]) ELSE toClient[x]
  BY <1>1
<1>. QED  BY <1>1, <1>2, <1>3 DEF Takes

LEMMA DropCuts ==
  ASSUME toClient \in [Devices -> Seq(Frame)], NEW d \in Devices, NEW n, Drop(d, n)
  PROVE  Cuts(d, n)
<1>1. n \in 0 .. Len(toClient[d]) /\ toClient' = [toClient EXCEPT ![d] = SubSeq(toClient[d], 1, n)]
  BY DEF Drop
<1>2. SubSeq(toClient[d], 1, n) \in Seq(Frame)
  BY <1>1, RangeCut
<1>3. \A x \in Devices : toClient'[x] = IF x = d THEN SubSeq(toClient[x], 1, n) ELSE toClient[x]
  BY <1>1
<1>. QED  BY <1>1, <1>2, <1>3 DEF Cuts

-----------------------------------------------------------------------------
(***************************************************************************)
(* The hub: what is replayed                                               *)
(***************************************************************************)
\* What the hub calls newest is the newest.
LEMMA LogIs ==
  ASSUME TypeInv
  PROVE  /\ Log = 1 .. last /\ Log \subseteq Ids /\ IsFiniteSet(Log) /\ Newest = last
         /\ last \in Nat /\ last <= MaxMsgs /\ last \in 0 .. MaxMsgs
<1>1. MaxMsgs \in Nat /\ last \in 0 .. MaxMsgs
  BY Constants DEF TypeInv, TypeOK
<1>2. Log = 1 .. last
  BY DEF TypeInv, Complete, Log
<1>3. IsFiniteSet(Log)
  BY <1>1, <1>2, FS_Interval
<1>4. Log \cup {0} \in SUBSET Nat /\ 0 \in Log \cup {0} /\ \A x \in Log \cup {0} : x <= last
  BY <1>1, <1>2
<1>5. Newest \in Log \cup {0} /\ Newest \in Nat /\ \A x \in Log \cup {0} : x <= Newest
  BY <1>1, <1>4, MaxIs DEF Newest
<1>6. last \in Log \cup {0}
  BY <1>1, <1>2
<1>7. Newest <= last /\ last <= Newest
  BY <1>4, <1>5, <1>6
<1>8. Newest = last
  BY <1>1, <1>5, <1>7
<1>. QED  BY <1>1, <1>2, <1>3, <1>8 DEF Ids

LEMMA ReplayIs ==
  ASSUME TypeInv, NEW since \in 0 .. MaxMsgs
  PROVE  /\ Replayed(since) \subseteq Log
         /\ Replay(since) \in Seq(Frame)
         /\ Range(Replay(since)) = {ReplayFrame(m) : m \in Replayed(since)}
<1>0. MaxMsgs \in Nat
  BY Constants
<1>1. Replayed(since) \subseteq Log
  BY DEF Replayed, After
<1>2. /\ IsFiniteSet(Replayed(since))
      /\ Replayed(since) \in SUBSET Nat /\ Replayed(since) \subseteq Ids
  <2>1. IsFiniteSet(Replayed(since))
    BY <1>1, LogIs, FS_Subset
  <2>2. Log \subseteq Ids /\ Log \subseteq Nat
    BY LogIs
  <2>. QED  BY <1>1, <2>1, <2>2
<1>3. PICK S : S = Replayed(since)
  OBVIOUS
<1>4. PICK s : s = InOrder(S)
  OBVIOUS
<1>5. Cardinality(S) \in Nat /\ s \in [1 .. Cardinality(S) -> S] /\ Range(s) = S
  BY <1>2, <1>3, <1>4, InOrderIs
<1>6. \A m \in S : ReplayFrame(m) \in Frame
  <2>1. \A m \in S : m \in Ids /\ {m} \in SUBSET Ids
    BY <1>2, <1>3
  <2>2. TRUE \in BOOLEAN
    OBVIOUS
  <2>3. \A m \in S : MsgFrame(m, TRUE) \in Frame /\ Gone({m}, TRUE) \in Frame
    BY <1>0, <2>1, <2>2, Frames
  <2>. QED  BY <2>3 DEF ReplayFrame
<1>7. PICK r : r = Replay(since)
  OBVIOUS
<1>8. r = [i \in 1 .. Cardinality(S) |-> ReplayFrame(s[i])]
  BY <1>3, <1>4, <1>5, <1>7 DEF Replay
<1>9. r \in Seq(Frame)
  <2>1. r \in [1 .. Cardinality(S) -> Frame]
    BY <1>5, <1>6, <1>8
  <2>. QED  BY <1>5, <2>1, SeqDef
<1>10. Range(r) = {ReplayFrame(m) : m \in S}
  <2>1. DOMAIN r = 1 .. Cardinality(S) /\ DOMAIN s = 1 .. Cardinality(S)
        /\ \A i \in 1 .. Cardinality(S) : r[i] = ReplayFrame(s[i]) /\ s[i] \in S
    BY <1>5, <1>8
  <2>2. \A m \in S : \E i \in 1 .. Cardinality(S) : s[i] = m
    BY <1>5, <2>1 DEF Range
  <2>3. ASSUME NEW f \in Range(r) PROVE \E m \in S : f = ReplayFrame(m)
    <3>1. PICK i \in 1 .. Cardinality(S) : f = r[i]
      BY <2>1 DEF Range
    <3>. QED  BY <2>1, <3>1
  <2>4. ASSUME NEW m \in S PROVE ReplayFrame(m) \in Range(r)
    <3>1. PICK i \in 1 .. Cardinality(S) : s[i] = m
      BY <2>2
    <3>. QED  BY <2>1, <3>1 DEF Range
  <2>. QED  BY <2>3, <2>4, Zenon
<1>. QED  BY <1>1, <1>3, <1>7, <1>9, <1>10

LEMMA GoodStays ==
  ASSUME NEW f \in Frame, GoodFrame(f), last \in Nat, last' \in Nat, last <= last',
         tomb \subseteq tomb'
  PROVE  GoodFrame(f)'
<1>1. f.n \in Int /\ f.t \in {"ok", "msg", "gone", "synced", "read"}
  BY Constants DEF Frame
<1>2. f.n <= last => f.n <= last'
  BY <1>1
<1>3. f.n \in 1 .. last => f.n \in 1 .. last'
  BY <1>1
<1>. QED  BY <1>1, <1>2, <1>3 DEF GoodFrame

\* The frames in the queues tell the truth if those that were added do.
LEMMA GoodKept ==
  ASSUME TypeInv, last' \in Nat, last <= last', tomb \subseteq tomb',
         NEW G, \A g \in G : GoodFrame(g)',
         \A x \in Devices : Range(toClient'[x]) \subseteq Range(toClient[x]) \cup G
  PROVE  FramesGood'
<1>1. ASSUME NEW x \in Devices, NEW f \in Range(toClient'[x])
      PROVE  GoodFrame(f)'
  <2>1. CASE f \in G
    BY <2>1
  <2>2. CASE f \in Range(toClient[x])
    <3>1. f \in Frame
      <4>1. toClient[x] \in Seq(Frame)
        BY DEF TypeInv, TypeOK
      <4>2. DOMAIN toClient[x] = 1 .. Len(toClient[x])
        BY <4>1, LenProperties
      <4>3. \A i \in DOMAIN toClient[x] : toClient[x][i] \in Frame
        BY <4>1, <4>2, ElementOfSeq
      <4>. QED  BY <2>2, <4>3 DEF Range
    <3>2. GoodFrame(f)
      BY <2>2 DEF TypeInv, FramesGood
    <3>3. last \in Nat
      BY LogIs
    <3>. QED  BY <3>1, <3>2, <3>3, GoodStays
  <2>. QED  BY <1>1, <2>1, <2>2
<1>. QED  BY <1>1 DEF FramesGood

LEMMA GrowsGood ==
  ASSUME TypeInv, last' \in Nat, last <= last', tomb \subseteq tomb',
         NEW S, NEW s, Grows(S, s), \A g \in Range(s) : GoodFrame(g)'
  PROVE  FramesGood'
<1>1. ASSUME NEW x \in Devices
      PROVE  Range(toClient'[x]) \subseteq Range(toClient[x]) \cup Range(s)
  <2>1. toClient[x] \in Seq(Frame) /\ s \in Seq(Frame)
    BY DEF TypeInv, TypeOK, Grows
  <2>2. Range(toClient[x] \o s) = Range(toClient[x]) \cup Range(s)
    BY <2>1, GrownProperties
  <2>3. toClient'[x] = toClient[x] \/ toClient'[x] = toClient[x] \o s
    BY DEF Grows
  <2>. QED  BY <2>2, <2>3
<1>. QED  BY <1>1, GoodKept

LEMMA TakesGood ==
  ASSUME TypeInv, last' = last, tomb' = tomb, NEW d \in Devices, Takes(d)
  PROVE  /\ FramesGood'
         /\ Head(toClient[d]) \in Frame /\ GoodFrame(Head(toClient[d]))
         /\ Head(toClient[d]) \in Range(toClient[d])
<1>0. toClient \in [Devices -> Seq(Frame)] /\ toClient[d] # <<>>
  BY DEF TypeInv, TypeOK, Takes
<1>. PICK G : G = {}
  OBVIOUS
<1>1. ASSUME NEW x \in Devices
      PROVE  Range(toClient'[x]) \subseteq Range(toClient[x]) \cup G
  <2>1. CASE x = d
    <3>1. toClient'[x] = Tail(toClient[x]) /\ toClient[x] # <<>>
      BY <2>1 DEF Takes
    <3>2. Range(Tail(toClient[x])) \subseteq Range(toClient[x])
      BY <1>0, <3>1, RangeTail
    <3>. QED  BY <3>1, <3>2
  <2>2. CASE x # d
    <3>1. toClient'[x] = toClient[x]
      BY <2>2 DEF Takes
    <3>. QED  BY <3>1
  <2>. QED  BY <2>1, <2>2
<1>2. last \in Nat /\ last' \in Nat /\ last <= last' /\ tomb \subseteq tomb'
  BY LogIs
<1>3. \A g \in G : GoodFrame(g)'
  OBVIOUS
<1>6. FramesGood'
  BY <1>1, <1>2, <1>3, GoodKept
<1>4. Head(toClient[d]) \in Frame /\ Head(toClient[d]) \in Range(toClient[d])
  BY <1>0, RangeTail
<1>5. GoodFrame(Head(toClient[d]))
  BY <1>4 DEF TypeInv, FramesGood
<1>. QED  BY <1>4, <1>5, <1>6

LEMMA CutsGood ==
  ASSUME TypeInv, last' = last, tomb' = tomb, NEW d \in Devices, NEW n, Cuts(d, n)
  PROVE  FramesGood'
<1>0. toClient \in [Devices -> Seq(Frame)]
  BY DEF TypeInv, TypeOK
<1>. PICK G : G = {}
  OBVIOUS
<1>1. ASSUME NEW x \in Devices
      PROVE  Range(toClient'[x]) \subseteq Range(toClient[x]) \cup G
  <2>1. CASE x = d
    <3>1. toClient'[x] = SubSeq(toClient[x], 1, n) /\ n \in 0 .. Len(toClient[x])
      BY <2>1 DEF Cuts
    <3>2. Range(SubSeq(toClient[x], 1, n)) \subseteq Range(toClient[x])
      BY <1>0, <3>1, RangeCut
    <3>. QED  BY <3>1, <3>2
  <2>2. CASE x # d
    <3>1. toClient'[x] = toClient[x]
      BY <2>2 DEF Cuts
    <3>. QED  BY <3>1
  <2>. QED  BY <2>1, <2>2
<1>2. last \in Nat /\ last' \in Nat /\ last <= last' /\ tomb \subseteq tomb'
  BY LogIs
<1>3. \A g \in G : GoodFrame(g)'
  OBVIOUS
<1>. QED  BY <1>1, <1>2, <1>3, GoodKept

-----------------------------------------------------------------------------
(***************************************************************************)
(* Every step keeps TypeInv                                                *)
(***************************************************************************)
\* The requests of a device: at most one is added, and only to a connection.
Asks(d, r) ==
  /\ toHub' \in [Devices -> Seq(Request)]
  /\ \A x \in Devices : /\ Range(toHub'[x]) \subseteq Range(toHub[x]) \cup {rr \in {r} : x = d}
                        /\ ~up[x] => toHub'[x] = toHub[x]

Fewer(d) ==
  /\ toHub' \in [Devices -> Seq(Request)]
  /\ \A x \in Devices : Range(toHub'[x]) \subseteq Range(toHub[x])
  /\ \A x \in Devices : x # d => toHub'[x] = toHub[x]

LEMMA WritesAsks ==
  ASSUME TypeInv, NEW d \in Devices, NEW r \in Request,
         \/ toHub' = toHub
         \/ toHub' = Written(d, r)
         \/ up[d] /\ toHub' = [toHub EXCEPT ![d] = Append(toHub[d], r)]
  PROVE  Asks(d, r)
<1>1. toHub \in [Devices -> Seq(Request)]
  BY DEF TypeInv, TypeOK
<1>2. CASE toHub' = toHub
  BY <1>1, <1>2, Zenon DEF Asks
<1>3. CASE up[d] /\ toHub' = [toHub EXCEPT ![d] = Append(toHub[d], r)]
  <2>0. PICK q : q = toHub[d]
    OBVIOUS
  <2>1. Append(q, r) \in Seq(Request) /\ Range(Append(q, r)) = Range(q) \cup {r}
    BY <1>1, <2>0, RangeAppend
  <2>2. Append(toHub[d], r) \in Seq(Request)
        /\ Range(Append(toHub[d], r)) = Range(toHub[d]) \cup {r}
    BY <2>0, <2>1
  <2>3. toHub' \in [Devices -> Seq(Request)]
    BY <1>1, <1>3, <2>2
  <2>4. toHub'[d] = Append(toHub[d], r) /\ \A x \in Devices : x # d => toHub'[x] = toHub[x]
    BY <1>1, <1>3
  <2>5. ASSUME NEW x \in Devices
        PROVE  /\ Range(toHub'[x]) \subseteq Range(toHub[x]) \cup {rr \in {r} : x = d}
               /\ ~up[x] => toHub'[x] = toHub[x]
    <3>1. CASE x = d
      BY <1>3, <2>2, <2>4, <3>1
    <3>2. CASE x # d
      BY <2>4, <3>2
    <3>. QED  BY <3>1, <3>2
  <2>. QED  BY <2>3, <2>5 DEF Asks
<1>. QED  BY <1>2, <1>3 DEF Written

LEMMA AsksGood ==
  ASSUME TypeInv, NEW d \in Devices, NEW r, Asks(d, r), last' = last,
         \A x \in Devices : lastRead[x] <= lastRead'[x],
         lastRead' \in [Devices -> 0 .. MaxMsgs],
         r.n <= last, r.t = "read" => r.n <= lastRead'[d]
  PROVE  RequestsGood'
<1>1. ASSUME NEW x \in Devices, NEW p \in Range(toHub'[x])
      PROVE  p.n <= last' /\ (p.t = "read" => p.n <= lastRead'[x])
  <2>1. CASE p = r /\ x = d
    BY <2>1
  <2>2. CASE p \in Range(toHub[x])
    <3>1. p.n <= last /\ (p.t = "read" => p.n <= lastRead[x])
      BY <2>2 DEF TypeInv, RequestsGood
    <3>2. p \in Request
      <4>1. toHub[x] \in Seq(Request)
        BY DEF TypeInv, TypeOK
      <4>2. DOMAIN toHub[x] = 1 .. Len(toHub[x])
        BY <4>1, LenProperties
      <4>3. \A i \in DOMAIN toHub[x] : toHub[x][i] \in Request
        BY <4>1, <4>2, ElementOfSeq
      <4>. QED  BY <2>2, <4>3 DEF Range
    <3>3. p.n \in Int /\ lastRead[x] \in Int /\ lastRead'[x] \in Int /\ lastRead[x] <= lastRead'[x]
      BY <3>2, Constants DEF Request, TypeInv, TypeOK
    <3>. QED  BY <3>1, <3>3
  <2>3. p \in Range(toHub[x]) \cup {rr \in {r} : x = d}
    BY <1>1 DEF Asks
  <2>. QED  BY <2>1, <2>2, <2>3
<1>. QED  BY <1>1 DEF RequestsGood

LEMMA FewerGood ==
  ASSUME TypeInv, NEW d, Fewer(d), last <= last', last' \in Nat, UNCHANGED lastRead
  PROVE  RequestsGood'
<1>1. ASSUME NEW x \in Devices, NEW p \in Range(toHub'[x])
      PROVE  p.n <= last' /\ (p.t = "read" => p.n <= lastRead'[x])
  <2>1. p \in Range(toHub[x])
    BY <1>1 DEF Fewer
  <2>2. p.n <= last /\ (p.t = "read" => p.n <= lastRead[x])
    BY <2>1 DEF TypeInv, RequestsGood
  <2>3. p \in Request
    <3>1. toHub[x] \in Seq(Request)
      BY DEF TypeInv, TypeOK
    <3>2. DOMAIN toHub[x] = 1 .. Len(toHub[x])
      BY <3>1, LenProperties
    <3>3. \A i \in DOMAIN toHub[x] : toHub[x][i] \in Request
      BY <3>1, <3>2, ElementOfSeq
    <3>. QED  BY <2>1, <3>3 DEF Range
  <2>4. p.n \in Int /\ last \in Int /\ last' \in Int
    BY <2>3, LogIs, Constants DEF Request
  <2>5. lastRead' = lastRead
    OBVIOUS
  <2>. QED  BY <2>2, <2>4, <2>5
<1>. QED  BY <1>1 DEF RequestsGood

LEMMA PostGrows ==
  ASSUME TypeInv, Post
  PROVE  /\ Grows({x \in Devices : Attached(x)}, <<MsgFrame(last + 1, FALSE)>>)
         /\ last + 1 \in Ids /\ MsgFrame(last + 1, FALSE) \in Frame
<1>1. last + 1 \in Ids /\ MaxMsgs \in Nat /\ FALSE \in BOOLEAN
  BY LogIs, Constants DEF Post, Ids
<1>2. MsgFrame(last + 1, FALSE) \in Frame
  BY <1>1, Frames
<1>3. ToChan(MsgFrame(last + 1, FALSE)) /\ toClient \in [Devices -> Seq(Frame)]
  BY DEF Post, TypeInv, TypeOK
<1>4. PICK f : f = MsgFrame(last + 1, FALSE)
  OBVIOUS
<1>5. Grows({x \in Devices : Attached(x)}, <<f>>)
  BY <1>2, <1>3, <1>4, ToChanGrows
<1>. QED  BY <1>1, <1>2, <1>4, <1>5

LEMMA InvPost ==
  ASSUME TypeInv, Post
  PROVE  TypeInv'
<1>1. last \in Nat /\ last' = last + 1 /\ last' \in Nat /\ last <= last' /\ MaxMsgs \in Nat
  BY LogIs, Constants DEF Post
<1>2. last + 1 \in Ids /\ last + 1 \in 0 .. MaxMsgs
  BY <1>1, PostGrows DEF Ids
<1>3. last + 1 \notin tomb
  BY <1>1 DEF TypeInv, Complete
<1>4. TypeOK'
  <2>1. toClient' \in [Devices -> Seq(Frame)]
    BY PostGrows DEF Grows
  <2>2. /\ live' \subseteq Ids /\ tomb' \subseteq Ids /\ live' \cap tomb' = {}
        /\ last' \in 0 .. MaxMsgs
    BY <1>1, <1>2, <1>3 DEF TypeInv, TypeOK, Post
  <2>. QED  BY <2>1, <2>2, Zenon DEF TypeInv, TypeOK, Post, chanVars, history
<1>5. FramesGood'
  <2>1. ASSUME NEW g \in Range(<<MsgFrame(last + 1, FALSE)>>)
        PROVE  GoodFrame(g)'
    <3>1. g = MsgFrame(last + 1, FALSE)
      BY <2>1, RangeOne
    <3>2. g.t = "msg" /\ g.n = last + 1
      BY <3>1 DEF MsgFrame
    <3>. QED  BY <1>1, <3>2 DEF GoodFrame
  <2>2. tomb' = tomb
    BY DEF Post
  <2>3. PICK s : s = <<MsgFrame(last + 1, FALSE)>>
    OBVIOUS
  <2>4. Grows({x \in Devices : Attached(x)}, s)
    BY <2>3, PostGrows
  <2>. QED  BY <1>1, <2>1, <2>2, <2>3, <2>4, GrowsGood
<1>6. RequestsGood'
  <2>1. \A d \in Devices : Fewer(d)
    BY DEF Fewer, Post, chanVars, TypeInv, TypeOK
  <2>2. lastRead' = lastRead
    BY DEF Post, chanVars
  <2>3. CASE Devices = {}
    BY <2>3 DEF RequestsGood
  <2>. QED  BY <1>1, <2>1, <2>2, <2>3, FewerGood
<1>7. Complete'
  <2>1. 1 .. last + 1 = (1 .. last) \cup {last + 1}
    BY <1>1
  <2>. QED  BY <1>1, <2>1 DEF TypeInv, Complete, Post
<1>8. ClientBounds'
  BY <1>1, <1>2 DEF TypeInv, TypeOK, ClientBounds, Post, chanVars
<1>9. HubBounds'
  BY <1>1, <1>2 DEF TypeInv, TypeOK, HubBounds, Post
<1>. QED  BY <1>4, <1>5, <1>6, <1>7, <1>8, <1>9 DEF TypeInv

LEMMA DeleteGrows ==
  ASSUME TypeInv, NEW M \in SUBSET Ids, Delete(M)
  PROVE  /\ Grows({x \in Devices : Attached(x)}, <<Gone(M, FALSE)>>)
         /\ Gone(M, FALSE) \in Frame
<1>1. Gone(M, FALSE) \in Frame
  BY Constants, Frames
<1>2. ToChan(Gone(M, FALSE)) /\ toClient \in [Devices -> Seq(Frame)]
  BY DEF Delete, TypeInv, TypeOK
<1>. QED  BY <1>1, <1>2, ToChanGrows

LEMMA InvDelete ==
  ASSUME TypeInv, NEW M \in SUBSET Ids, Delete(M)
  PROVE  TypeInv'
<1>1. /\ last' = last /\ last' \in Nat /\ last <= last' /\ last \in Nat
      /\ tomb' = tomb \cup M /\ tomb \subseteq tomb'
  BY LogIs DEF Delete
<1>4. TypeOK'
  <2>1. toClient' \in [Devices -> Seq(Frame)]
    BY DeleteGrows DEF Grows
  <2>2. live' \subseteq Ids /\ tomb' \subseteq Ids /\ live' \cap tomb' = {}
    BY <1>1 DEF TypeInv, TypeOK, Delete
  <2>3. unheard' \in [Devices -> SUBSET Ids]
    BY DEF TypeInv, TypeOK, Delete
  <2>. QED  BY <2>1, <2>2, <2>3, Zenon DEF TypeInv, TypeOK, Delete, chanVars
<1>5. FramesGood'
  <2>1. PICK f : f = Gone(M, FALSE)
    OBVIOUS
  <2>2. f.t = "gone" /\ f.ids = M
    BY <2>1 DEF Gone
  <2>3. GoodFrame(f)'
    BY <1>1, <2>2 DEF GoodFrame
  <2>4. ASSUME NEW g \in Range(<<f>>)
        PROVE  GoodFrame(g)'
    <3>1. g = f
      BY RangeOne
    <3>. QED  BY <2>3, <3>1
  <2>. QED  BY <1>1, <2>1, <2>4, DeleteGrows, GrowsGood
<1>6. RequestsGood'
  <2>1. \A d \in Devices : Fewer(d)
    BY DEF Fewer, Delete, TypeInv, TypeOK
  <2>2. lastRead' = lastRead
    BY DEF Delete, chanVars
  <2>3. CASE Devices = {}
    BY <2>3 DEF RequestsGood
  <2>. QED  BY <1>1, <2>1, <2>2, <2>3, FewerGood
<1>7. Complete'
  BY <1>1 DEF TypeInv, Complete, Delete
<1>8. ClientBounds'
  BY <1>1 DEF TypeInv, ClientBounds, Delete, chanVars
<1>9. HubBounds'
  BY <1>1 DEF TypeInv, HubBounds, Delete
<1>. QED  BY <1>4, <1>5, <1>6, <1>7, <1>8, <1>9 DEF TypeInv

LEMMA ConnectGrows ==
  ASSUME TypeInv, NEW d \in Devices, Connect(d)
  PROVE  Grows({d}, <<Info("ok", Newest)>>) /\ Info("ok", Newest) \in Frame
<1>1. Newest \in 0 .. MaxMsgs
  BY LogIs
<1>2. Info("ok", Newest) \in Frame
  BY <1>1, Constants DEF Info, Frame
<1>3. toClient \in [Devices -> Seq(Frame)]
  BY DEF TypeInv, TypeOK
<1>4. PICK f : f = Info("ok", Newest)
  OBVIOUS
<1>5. toClient' = [x \in Devices |-> IF x \in {d} THEN Append(toClient[x], f) ELSE toClient[x]]
  BY <1>3, <1>4 DEF Connect
<1>6. Grows({d}, <<f>>)
  BY <1>2, <1>3, <1>4, <1>5, AddsOne
<1>. QED  BY <1>2, <1>4, <1>6

LEMMA InvConnect ==
  ASSUME TypeInv, NEW d \in Devices, Connect(d)
  PROVE  TypeInv'
<1>1. last' = last /\ last' \in Nat /\ last <= last' /\ tomb' = tomb /\ live' = live
  BY LogIs DEF Connect, hubVars
<1>4. TypeOK'
  <2>1. toClient' \in [Devices -> Seq(Frame)]
    BY ConnectGrows DEF Grows
  <2>2. up' \in [Devices -> BOOLEAN] /\ readAt' \in [Devices -> 0 .. MaxMsgs]
    BY DEF TypeInv, TypeOK, Connect
  <2>. QED  BY <2>1, <2>2, Zenon DEF TypeInv, TypeOK, Connect, hubVars, chanVars
<1>5. FramesGood'
  <2>1. PICK f : f = Info("ok", Newest)
    OBVIOUS
  <2>2. f.t = "ok" /\ f.n = last
    BY <2>1, LogIs DEF Info
  <2>3. GoodFrame(f)'
    BY <1>1, <2>2 DEF GoodFrame
  <2>4. ASSUME NEW g \in Range(<<f>>)
        PROVE  GoodFrame(g)'
    <3>1. g = f
      BY RangeOne
    <3>. QED  BY <2>3, <3>1
  <2>5. tomb \subseteq tomb'
    BY <1>1
  <2>6. PICK s : s = <<f>>
    OBVIOUS
  <2>7. Grows({d}, s)
    BY <2>1, <2>6, ConnectGrows
  <2>. QED  BY <1>1, <2>4, <2>5, <2>6, <2>7, GrowsGood
<1>6. RequestsGood'
  <2>1. Fewer(d)
    BY DEF Fewer, Connect, TypeInv, TypeOK
  <2>2. lastRead' = lastRead
    BY DEF Connect, chanVars
  <2>. QED  BY <1>1, <2>1, <2>2, FewerGood
<1>7. Complete'
  BY <1>1 DEF TypeInv, Complete
<1>8. ClientBounds'
  BY <1>1 DEF TypeInv, ClientBounds, Connect, chanVars
<1>9. HubBounds'
  BY <1>1 DEF TypeInv, TypeOK, HubBounds, Connect, hubVars
<1>. QED  BY <1>4, <1>5, <1>6, <1>7, <1>8, <1>9 DEF TypeInv

LEMMA InvDrop ==
  ASSUME TypeInv, NEW d \in Devices, NEW n, Drop(d, n)
  PROVE  TypeInv'
<1>1. /\ last' = last /\ last' \in Nat /\ last <= last' /\ tomb' = tomb /\ live' = live
      /\ lastRead' = lastRead
  BY LogIs DEF Drop, hubVars, chanVars
<1>2. Cuts(d, n)
  BY DropCuts DEF TypeInv, TypeOK
<1>3. Fewer(d)
  <2>1. toHub \in [Devices -> Seq(Request)] /\ toHub' = [toHub EXCEPT ![d] = <<>>]
    BY DEF TypeInv, TypeOK, Drop
  <2>2. <<>> \in Seq(Request) /\ Range(<<>>) = {}
    BY DEF Range
  <2>3. toHub' \in [Devices -> Seq(Request)]
    BY <2>1, <2>2
  <2>4. toHub'[d] = <<>> /\ \A x \in Devices : x # d => toHub'[x] = toHub[x]
    BY <2>1
  <2>5. \A x \in Devices : Range(toHub'[x]) \subseteq Range(toHub[x])
    BY <2>2, <2>4
  <2>. QED  BY <2>3, <2>4, <2>5 DEF Fewer
<1>4. TypeOK'
  <2>1. toClient' \in [Devices -> Seq(Frame)] /\ toHub' \in [Devices -> Seq(Request)]
    BY <1>2, <1>3 DEF Cuts, Fewer
  <2>2. up' \in [Devices -> BOOLEAN] /\ subbed' \in [Devices -> BOOLEAN]
    BY DEF TypeInv, TypeOK, Drop
  <2>3. readAt' \in [Devices -> 0 .. MaxMsgs] /\ base' \in [Devices -> 0 .. MaxMsgs]
    BY Constants DEF TypeInv, TypeOK, Drop
  <2>4. unheard' \in [Devices -> SUBSET Ids]
    <3>1. PICK q : q = toClient[d]
      OBVIOUS
    <3>2. q \in Seq(Frame) /\ n \in 0 .. Len(q)
      BY <3>1 DEF TypeInv, TypeOK, Drop
    <3>3. Len(q) \in Nat /\ \A i \in 1 .. Len(q) : q[i] \in Frame
      BY <3>2, LenProperties, ElementOfSeq
    <3>4. SubSeq(q, n + 1, Len(q)) \in Seq(Frame)
      <4>1. n + 1 \in 1 .. Len(q) + 1 /\ \A i \in (n + 1) .. Len(q) : q[i] \in Frame
        BY <3>2, <3>3
      <4>. QED  BY <4>1, <3>2, <3>3, SubSeqProperties
    <3>5. PICK p : p = SubSeq(q, n + 1, Len(q))
      OBVIOUS
    <3>6. \A i \in DOMAIN p : p[i] \in Frame
      BY <3>4, <3>5, LenProperties, ElementOfSeq
    <3>7. Untold(p) \subseteq Ids
      <4>1. \A i \in DOMAIN p : p[i].ids \subseteq Ids
        BY <3>6 DEF Frame
      <4>2. ASSUME NEW x \in Untold(p)
            PROVE  \E i \in DOMAIN p : x \in p[i].ids
        BY DEF Untold
      <4>. QED  BY <4>1, <4>2
    <3>. QED  BY <3>1, <3>5, <3>7 DEF TypeInv, TypeOK, Drop
  <2>. QED  BY <2>1, <2>2, <2>3, <2>4, Zenon DEF TypeInv, TypeOK, Drop, hubVars, chanVars
<1>5. FramesGood'
  BY <1>1, <1>2, CutsGood
<1>6. RequestsGood'
  BY <1>1, <1>3, FewerGood
<1>7. Complete'
  BY <1>1 DEF TypeInv, Complete
<1>8. ClientBounds'
  BY <1>1 DEF TypeInv, ClientBounds, Drop, chanVars
<1>9. HubBounds'
  BY <1>1 DEF TypeInv, TypeOK, HubBounds, Drop, hubVars
<1>. QED  BY <1>4, <1>5, <1>6, <1>7, <1>8, <1>9 DEF TypeInv

\* What handleSub answers.
Reply(since) == Append(Replay(since), Info("synced", Newest))

\* Where a subscription that is replayed from `since` begins.
Beginning(since) ==
  Max({0} \cup {m \in Log : m <= since} \cup (After(since) \ Replayed(since)))

LEMMA BeginningIs ==
  ASSUME TypeInv, NEW since \in 0 .. MaxMsgs
  PROVE  /\ Beginning(since) \in 0 .. last /\ Beginning(since) \in 0 .. MaxMsgs
         /\ \A m \in Log : m > Beginning(since) => m \in Replayed(since)
<1>1. Log = 1 .. last /\ last \in Nat /\ MaxMsgs \in Nat /\ last <= MaxMsgs
  BY LogIs, Constants
<1>2. PICK S : S = {0} \cup {m \in Log : m <= since} \cup (After(since) \ Replayed(since))
  OBVIOUS
<1>3. S \in SUBSET Nat /\ 0 \in S /\ \A x \in S : x <= last
  <2>1. After(since) \subseteq Log
    BY DEF After
  <2>2. S \subseteq {0} \cup Log /\ 0 \in S
    BY <1>2, <2>1
  <2>. QED  BY <1>1, <2>2
<1>4. Beginning(since) = Max(S)
  BY <1>2 DEF Beginning
<1>5. Max(S) \in S /\ Max(S) \in Nat /\ \A x \in S : x <= Max(S)
  BY <1>1, <1>3, MaxIs
<1>6. Beginning(since) \in 0 .. last /\ Beginning(since) \in 0 .. MaxMsgs
  <2>1. Max(S) <= last
    BY <1>3, <1>5
  <2>. QED  BY <1>1, <1>4, <1>5, <2>1
<1>7. ASSUME NEW m \in Log, m > Beginning(since)
      PROVE  m \in Replayed(since)
  <2>1. m \in Nat
    BY <1>1
  <2>2. m \notin S
    BY <1>4, <1>5, <1>7, <2>1
  <2>3. ~(m <= since)
    BY <1>2, <2>2
  <2>4. m \in After(since)
    BY <2>1, <2>3 DEF After
  <2>. QED  BY <1>2, <2>2, <2>4
<1>. QED  BY <1>6, <1>7

LEMMA ReplyIs ==
  ASSUME TypeInv, NEW since \in 0 .. MaxMsgs
  PROVE  /\ Reply(since) \in Seq(Frame)
         /\ Range(Reply(since)) =
              {ReplayFrame(m) : m \in Replayed(since)} \cup {Info("synced", Newest)}
         /\ Info("synced", Newest) \in Frame
<1>1. Info("synced", Newest) \in Frame
  <2>1. Newest \in 0 .. MaxMsgs
    BY LogIs
  <2>. QED  BY <2>1 DEF Info, Frame
<1>2. PICK s, f : s = Replay(since) /\ f = Info("synced", Newest)
  OBVIOUS
<1>3. s \in Seq(Frame) /\ f \in Frame /\ Range(s) = {ReplayFrame(m) : m \in Replayed(since)}
  BY <1>1, <1>2, ReplayIs
<1>4. Append(s, f) \in Seq(Frame) /\ Range(Append(s, f)) = Range(s) \cup {f}
  BY <1>3, RangeAppend
<1>5. Append(s, f) = Reply(since)
  BY <1>2 DEF Reply
<1>. QED  BY <1>1, <1>2, <1>3, <1>4, <1>5, Zenon

\* A request is a number of a message.
LEMMA RequestIs ==
  ASSUME TypeInv, NEW d \in Devices, toHub[d] # <<>>
  PROVE  /\ Head(toHub[d]) \in Request /\ Head(toHub[d]).n \in 0 .. MaxMsgs
         /\ Head(toHub[d]).n <= last
         /\ Head(toHub[d]).t = "read" => Head(toHub[d]).n <= lastRead[d]
         /\ toHub' = [toHub EXCEPT ![d] = Tail(toHub[d])] => Fewer(d)
<1>1. toHub \in [Devices -> Seq(Request)]
  BY DEF TypeInv, TypeOK
<1>2. Head(toHub[d]) \in Request /\ Head(toHub[d]) \in Range(toHub[d])
      /\ Tail(toHub[d]) \in Seq(Request) /\ Range(Tail(toHub[d])) \subseteq Range(toHub[d])
  BY <1>1, RangeTail
<1>3. Head(toHub[d]).n \in 0 .. MaxMsgs
  BY <1>2 DEF Request
<1>4. /\ Head(toHub[d]).n <= last
      /\ Head(toHub[d]).t = "read" => Head(toHub[d]).n <= lastRead[d]
  BY <1>2 DEF TypeInv, RequestsGood
<1>5. ASSUME toHub' = [toHub EXCEPT ![d] = Tail(toHub[d])]
      PROVE  Fewer(d)
  <2>1. toHub' \in [Devices -> Seq(Request)]
    BY <1>1, <1>2, <1>5
  <2>2. toHub'[d] = Tail(toHub[d]) /\ \A x \in Devices : x # d => toHub'[x] = toHub[x]
    BY <1>1, <1>5
  <2>3. \A x \in Devices : Range(toHub'[x]) \subseteq Range(toHub[x])
    <3>1. TAKE x \in Devices
    <3>2. CASE x = d
      BY <1>2, <2>2, <3>2
    <3>3. CASE x # d
      <4>1. toHub'[x] = toHub[x]
        BY <2>2, <3>3
      <4>. QED  BY <4>1
    <3>. QED  BY <3>2, <3>3
  <2>. QED  BY <2>1, <2>2, <2>3 DEF Fewer
<1>. QED  BY <1>2, <1>3, <1>4, <1>5

LEMMA HandleSubGrows ==
  ASSUME TypeInv, NEW d \in Devices, HandleSub(d)
  PROVE  /\ Head(toHub[d]).n \in 0 .. MaxMsgs
         /\ Grows({d}, Reply(Head(toHub[d]).n))
<1>1. toHub[d] # <<>>
  BY DEF HandleSub
<1>2. PICK since : since = Head(toHub[d]).n
  OBVIOUS
<1>3. since \in 0 .. MaxMsgs
  BY <1>1, <1>2, RequestIs
<1>4. PICK s, f : s = Replay(since) /\ f = Info("synced", Newest)
  OBVIOUS
<1>5. s \in Seq(Frame) /\ f \in Frame
  BY <1>3, <1>4, ReplyIs, ReplayIs
<1>6. PICK q : q = toClient
  OBVIOUS
<1>7. q \in [Devices -> Seq(Frame)]
  BY <1>6 DEF TypeInv, TypeOK
<1>8. PICK g : g = toClient'
  OBVIOUS
<1>9. g = [q EXCEPT ![d] = Append(q[d] \o s, f)]
  BY <1>2, <1>4, <1>6, <1>8 DEF HandleSub
<1>10. Append(q[d] \o s, f) = q[d] \o Append(s, f) /\ Append(q[d] \o s, f) \in Seq(Frame)
  <2>1. PICK p : p = q[d]
    OBVIOUS
  <2>2. p \in Seq(Frame) /\ s \in Seq(Frame) /\ <<f>> \in Seq(Frame) /\ p \o s \in Seq(Frame)
    <3>1. p \in Seq(Frame)
      BY <1>7, <2>1
    <3>2. <<f>> \in Seq(Frame)
      BY <1>5
    <3>. QED  BY <1>5, <3>1, <3>2, ConcatProperties
  <2>3. Append(p \o s, f) = (p \o s) \o <<f>> /\ Append(s, f) = s \o <<f>>
    BY <1>5, <2>2, AppendIsConcat
  <2>4. (p \o s) \o <<f>> = p \o (s \o <<f>>)
    BY <2>2, ConcatAssociative
  <2>5. Append(p \o s, f) \in Seq(Frame)
    BY <1>5, <2>2, AppendProperties
  <2>. QED  BY <2>1, <2>3, <2>4, <2>5
<1>11. g \in [Devices -> Seq(Frame)]
  BY <1>7, <1>9, <1>10
<1>12. \A x \in Devices : g[x] = IF x \in {d} THEN q[x] \o Append(s, f) ELSE q[x]
  BY <1>7, <1>9, <1>10
<1>13. Reply(since) = Append(s, f) /\ Reply(since) \in Seq(Frame)
  BY <1>3, <1>4, ReplyIs DEF Reply
<1>. QED  BY <1>2, <1>3, <1>6, <1>8, <1>11, <1>12, <1>13, Zenon DEF Grows

LEMMA InvHandleSub ==
  ASSUME TypeInv, NEW d \in Devices, HandleSub(d)
  PROVE  TypeInv'
<1>. DEFINE since == Head(toHub[d]).n
<1>1. /\ last' = last /\ last' \in Nat /\ last <= last' /\ tomb' = tomb /\ live' = live
      /\ lastRead' = lastRead
  BY LogIs DEF HandleSub, hubVars, chanVars
<1>2. Grows({d}, Reply(since)) /\ since \in 0 .. MaxMsgs
  BY HandleSubGrows
<1>3. Fewer(d)
  BY RequestIs DEF HandleSub
<1>4. TypeOK'
  <2>1. toClient' \in [Devices -> Seq(Frame)] /\ toHub' \in [Devices -> Seq(Request)]
    BY <1>2, <1>3 DEF Grows, Fewer
  <2>2. Beginning(since) \in 0 .. MaxMsgs
    BY <1>2, BeginningIs
  <2>3. base' = [base EXCEPT ![d] = Beginning(since)]
    BY DEF HandleSub, Beginning
  <2>4. PICK b : b = Beginning(since)
    OBVIOUS
  <2>5. base' \in [Devices -> 0 .. MaxMsgs]
    <3>1. base' = [base EXCEPT ![d] = b] /\ b \in 0 .. MaxMsgs
      BY <2>2, <2>3, <2>4, Zenon
    <3>. QED  BY <3>1 DEF TypeInv, TypeOK
  <2>6. unheard' = [unheard EXCEPT ![d] = {m \in unheard[d] : m <= b}]
    BY <2>4 DEF HandleSub, Beginning
  <2>7. unheard' \in [Devices -> SUBSET Ids]
    BY <2>6 DEF TypeInv, TypeOK
  <2>8. subbed' \in [Devices -> BOOLEAN]
    BY DEF TypeInv, TypeOK, HandleSub
  <2>. QED  BY <2>1, <2>5, <2>7, <2>8, Zenon DEF TypeInv, TypeOK, HandleSub, hubVars, chanVars
<1>5. FramesGood'
  <2>1. PICK s : s = Reply(since)
    OBVIOUS
  <2>2. ASSUME NEW g \in Range(s)
        PROVE  GoodFrame(g)'
    <3>1. g \in {ReplayFrame(m) : m \in Replayed(since)} \cup {Info("synced", Newest)}
      BY <1>2, <2>1, ReplyIs
    <3>2. CASE g = Info("synced", Newest)
      <4>1. g.t = "synced" /\ g.n = last
        BY <3>2, LogIs DEF Info
      <4>. QED  BY <1>1, <4>1 DEF GoodFrame
    <3>3. CASE g \in {ReplayFrame(m) : m \in Replayed(since)}
      <4>1. PICK m \in Replayed(since) : g = ReplayFrame(m)
        BY <3>3
      <4>2. m \in Log
        BY <1>2, ReplayIs
      <4>3. CASE m \in live
        <5>1. g.t = "msg" /\ g.n = m
          BY <4>1, <4>3 DEF ReplayFrame, MsgFrame
        <5>2. m \in 1 .. last'
          BY <1>1, <4>2, LogIs
        <5>. QED  BY <5>1, <5>2 DEF GoodFrame
      <4>4. CASE m \notin live
        <5>1. g.t = "gone" /\ g.ids = {m}
          BY <4>1, <4>4 DEF ReplayFrame, Gone
        <5>2. m \in tomb'
          BY <1>1, <4>2, <4>4 DEF Log
        <5>. QED  BY <5>1, <5>2 DEF GoodFrame
      <4>. QED  BY <4>3, <4>4
    <3>. QED  BY <3>1, <3>2, <3>3
  <2>3. Grows({d}, s) /\ tomb \subseteq tomb'
    BY <1>1, <1>2, <2>1
  <2>. QED  BY <1>1, <2>2, <2>3, GrowsGood
<1>6. RequestsGood'
  BY <1>1, <1>3, FewerGood
<1>7. Complete'
  BY <1>1 DEF TypeInv, Complete
<1>8. ClientBounds'
  BY <1>1 DEF TypeInv, ClientBounds, HandleSub, chanVars
<1>9. HubBounds'
  BY <1>1, <1>3 DEF TypeInv, TypeOK, HubBounds, HandleSub, hubVars, Fewer
<1>. QED  BY <1>4, <1>5, <1>6, <1>7, <1>8, <1>9 DEF TypeInv

\* The hub takes note of what has been read, on whatever device.
LEMMA RecordKeeps ==
  ASSUME TypeInv, NEW n \in 0 .. MaxMsgs, n <= last, NEW d, Record(n, d),
         UNCHANGED <<last, tomb>>
  PROVE  /\ FramesGood' /\ toClient' \in [Devices -> Seq(Frame)]
         /\ read' \in 0 .. MaxMsgs /\ read' <= last
<1>1. last' = last /\ last' \in Nat /\ last <= last' /\ tomb \subseteq tomb' /\ MaxMsgs \in Nat
  BY LogIs, Constants
<1>2. PICK f : f = Info("read", n)
  OBVIOUS
<1>3. Grows({x \in Devices : up[x] /\ x # d}, <<f>>)
  BY <1>1, <1>2, RecordGrows DEF TypeInv, TypeOK
<1>4. f.t = "read" /\ f.n = n
  BY <1>2 DEF Info
<1>5. ASSUME NEW g \in Range(<<f>>)
      PROVE  GoodFrame(g)'
  <2>1. g = f
    BY RangeOne
  <2>. QED  BY <1>1, <1>4, <2>1 DEF GoodFrame
<1>6. FramesGood'
  BY <1>1, <1>3, <1>5, GrowsGood
<1>. QED  BY <1>3, <1>6 DEF Grows, Record

LEMMA InvHandleRead ==
  ASSUME TypeInv, NEW d \in Devices, HandleRead(d)
  PROVE  TypeInv'
<1>. DEFINE n == Head(toHub[d]).n
<1>1. /\ last' = last /\ last' \in Nat /\ last <= last' /\ tomb' = tomb /\ live' = live
      /\ lastRead' = lastRead
  BY LogIs DEF HandleRead, chanVars
<1>2. n \in 0 .. MaxMsgs /\ n <= last /\ Fewer(d)
  BY RequestIs DEF HandleRead
<1>3. /\ FramesGood' /\ toClient' \in [Devices -> Seq(Frame)]
      /\ read' \in 0 .. MaxMsgs /\ read' <= last
  <2>1. CASE n > read
    <3>1. Record(n, d)
      BY <2>1 DEF HandleRead
    <3>. QED  BY <1>1, <1>2, <3>1, RecordKeeps
  <2>2. CASE ~(n > read)
    <3>1. read' = read /\ toClient' = toClient
      BY <2>2 DEF HandleRead
    <3>2. FramesGood'
      BY <1>1, <3>1 DEF TypeInv, FramesGood, GoodFrame
    <3>. QED  BY <3>1, <3>2 DEF TypeInv, TypeOK, HubBounds
  <2>. QED  BY <2>1, <2>2
<1>4. TypeOK'
  <2>1. toHub' \in [Devices -> Seq(Request)]
    BY <1>2 DEF Fewer
  <2>. QED  BY <1>1, <1>3, <2>1, Zenon DEF TypeInv, TypeOK, HandleRead, chanVars, history
<1>6. RequestsGood'
  BY <1>1, <1>2, FewerGood
<1>7. Complete'
  BY <1>1 DEF TypeInv, Complete
<1>8. ClientBounds'
  BY <1>1 DEF TypeInv, ClientBounds, HandleRead, chanVars
<1>9. HubBounds'
  BY <1>1, <1>2, <1>3 DEF TypeInv, TypeOK, HubBounds, HandleRead, Fewer
<1>. QED  BY <1>3, <1>4, <1>6, <1>7, <1>8, <1>9 DEF TypeInv

LEMMA InvReadElsewhere ==
  ASSUME TypeInv, NEW n \in Ids, ReadElsewhere(n)
  PROVE  TypeInv'
<1>1. /\ last' = last /\ last' \in Nat /\ last <= last' /\ tomb' = tomb /\ live' = live
      /\ lastRead' = lastRead
  BY LogIs DEF ReadElsewhere, chanVars
<1>2. n \in 0 .. MaxMsgs /\ n <= last
  BY LogIs, Constants DEF ReadElsewhere, Ids
<1>3. /\ FramesGood' /\ toClient' \in [Devices -> Seq(Frame)]
      /\ read' \in 0 .. MaxMsgs /\ read' <= last
  BY <1>1, <1>2, RecordKeeps DEF ReadElsewhere
<1>4. TypeOK'
  BY <1>1, <1>3, Zenon DEF TypeInv, TypeOK, ReadElsewhere, chanVars, history
<1>6. RequestsGood'
  BY <1>1 DEF TypeInv, RequestsGood, ReadElsewhere
<1>7. Complete'
  BY <1>1 DEF TypeInv, Complete
<1>8. ClientBounds'
  BY <1>1 DEF TypeInv, ClientBounds, ReadElsewhere, chanVars
<1>9. HubBounds'
  BY <1>1, <1>3 DEF TypeInv, HubBounds, ReadElsewhere
<1>. QED  BY <1>3, <1>4, <1>6, <1>7, <1>8, <1>9 DEF TypeInv

-----------------------------------------------------------------------------
\* What a step of the client has to see to.
ClientOK ==
  /\ lastID' \in [Devices -> 0 .. MaxMsgs] /\ lastRead' \in [Devices -> 0 .. MaxMsgs]
  /\ dirty' \in [Devices -> 0 .. MaxMsgs] /\ view' \in [Devices -> SUBSET Ids]
  /\ \A x \in Devices :
       /\ lastRead[x] <= lastRead'[x]
       /\ lastID'[x] <= last /\ lastRead'[x] <= last /\ dirty'[x] <= lastRead'[x]
       /\ view'[x] \subseteq 1 .. last

LEMMA InvClient ==
  ASSUME TypeInv, NEW d \in Devices, NEW r, UNCHANGED <<hubVars, up, subbed, history>>,
         active' \in [Devices -> BOOLEAN],
         FramesGood', toClient' \in [Devices -> Seq(Frame)],
         Asks(d, r), r.n <= last, r.t = "read" => r.n <= lastRead'[d], ClientOK
  PROVE  TypeInv'
<1>1. last' = last /\ tomb' = tomb /\ live' = live /\ read' = read
  BY DEF hubVars
<1>2. TypeOK'
  <2>1. toHub' \in [Devices -> Seq(Request)]
    BY DEF Asks
  <2>. QED  BY <1>1, <2>1, Zenon DEF TypeInv, TypeOK, ClientOK, history
<1>3. RequestsGood'
  BY <1>1, AsksGood DEF ClientOK
<1>4. Complete'
  BY <1>1 DEF TypeInv, Complete
<1>5. ClientBounds'
  BY <1>1 DEF ClientBounds, ClientOK
<1>6. HubBounds'
  BY <1>1 DEF TypeInv, HubBounds, Asks
<1>. QED  BY <1>2, <1>3, <1>4, <1>5, <1>6 DEF TypeInv

LEMMA HandlesGives ==
  ASSUME TypeInv, NEW d \in Devices, NEW t, Handles(d, t)
  PROVE  /\ UNCHANGED <<hubVars, up, subbed, history>> /\ active' \in [Devices -> BOOLEAN]
         /\ FramesGood' /\ toClient' \in [Devices -> Seq(Frame)]
         /\ Takes(d)
         /\ Head(toClient[d]) \in Frame /\ GoodFrame(Head(toClient[d]))
         /\ Head(toClient[d]) \in Range(toClient[d])
         /\ Head(toClient[d]).t = t
         /\ Head(toClient[d]).n \in 0 .. MaxMsgs
<1>1. Takes(d)
  BY HandlesTakes DEF TypeInv, TypeOK
<1>2. UNCHANGED <<hubVars, up, subbed, history>> /\ active' \in [Devices -> BOOLEAN]
  BY DEF Handles, TypeInv, TypeOK
<1>3. last' = last /\ tomb' = tomb
  BY DEF Handles, hubVars
<1>4. /\ FramesGood'
      /\ Head(toClient[d]) \in Frame /\ GoodFrame(Head(toClient[d]))
      /\ Head(toClient[d]) \in Range(toClient[d])
  BY <1>1, <1>3, TakesGood
<1>5. Head(toClient[d]).n \in 0 .. MaxMsgs
  BY <1>4 DEF Frame
<1>. QED  BY <1>1, <1>2, <1>4, <1>5 DEF Handles, Takes

\* The numbers of the client, as they are.
LEMMA ClientIs ==
  ASSUME TypeInv
  PROVE  /\ last \in Nat /\ last <= MaxMsgs /\ MaxMsgs \in Nat
         /\ lastID \in [Devices -> 0 .. MaxMsgs] /\ lastRead \in [Devices -> 0 .. MaxMsgs]
         /\ dirty \in [Devices -> 0 .. MaxMsgs] /\ view \in [Devices -> SUBSET Ids]
         /\ active \in [Devices -> BOOLEAN]
         /\ \A x \in Devices :
              /\ lastID[x] \in Nat /\ lastRead[x] \in Nat /\ dirty[x] \in Nat
              /\ lastID[x] <= last /\ lastRead[x] <= last /\ dirty[x] <= lastRead[x]
              /\ view[x] \subseteq 1 .. last
<1>1. /\ lastID \in [Devices -> 0 .. MaxMsgs] /\ lastRead \in [Devices -> 0 .. MaxMsgs]
      /\ dirty \in [Devices -> 0 .. MaxMsgs] /\ view \in [Devices -> SUBSET Ids]
      /\ active \in [Devices -> BOOLEAN]
  BY DEF TypeInv, TypeOK
<1>2. \A x \in Devices : /\ lastID[x] <= last /\ lastRead[x] <= last /\ dirty[x] <= lastRead[x]
                         /\ view[x] \subseteq 1 .. last
  BY DEF TypeInv, ClientBounds
<1>3. last \in Nat /\ last <= MaxMsgs /\ MaxMsgs \in Nat
  BY LogIs, Constants
<1>. QED  BY <1>1, <1>2, <1>3

LEMMA LargerIs ==
  ASSUME NEW a \in Nat, NEW b \in Nat
  PROVE  /\ Larger(a, b) \in {a, b} /\ Larger(a, b) \in Nat
         /\ a <= Larger(a, b) /\ b <= Larger(a, b)
BY DEF Larger

LEMMA InvOnOK ==
  ASSUME TypeInv, NEW d \in Devices, OnOK(d)
  PROVE  TypeInv'
<1>0. Handles(d, "ok")
  BY DEF OnOK
<1>1. PICK f : f = Head(toClient[d])
  OBVIOUS
<1>2. f.n \in Nat /\ f.n <= last
  <2>1. f.n \in 0 .. MaxMsgs /\ f.t = "ok" /\ GoodFrame(f)
    BY <1>0, <1>1, HandlesGives
  <2>. QED  BY <2>1, Constants DEF GoodFrame
<1>3. PICK n : n = Larger(lastID[d], f.n)
  OBVIOUS
<1>4. n \in Nat /\ n <= last /\ n \in 0 .. MaxMsgs
  <2>1. lastID[d] \in Nat /\ lastID[d] <= last /\ last <= MaxMsgs /\ last \in Nat /\ MaxMsgs \in Nat
    BY ClientIs
  <2>2. n \in {lastID[d], f.n} /\ lastID[d] <= n /\ n \in Nat
    BY <1>2, <1>3, <2>1, LargerIs
  <2>. QED  BY <1>2, <2>1, <2>2
<1>5. PICK r : r = [t |-> "sub", n |-> n]
  OBVIOUS
<1>6. r \in Request /\ r.n = n /\ r.t = "sub"
  BY <1>4, <1>5 DEF Request
<1>7. Asks(d, r)
  <2>1. toHub' = Written(d, r)
    BY <1>1, <1>3, <1>5 DEF OnOK
  <2>. QED  BY <1>6, <2>1, WritesAsks
<1>8. ClientOK
  <2>1. lastID' = [lastID EXCEPT ![d] = n] /\ lastRead' = lastRead /\ dirty' = dirty /\ view' = view
    BY <1>1, <1>3 DEF OnOK
  <2>. QED  BY <1>4, <2>1, ClientIs DEF ClientOK
<1>9. r.n <= last /\ (r.t = "read" => r.n <= lastRead'[d])
  BY <1>4, <1>6
<1>. QED  BY <1>0, <1>7, <1>8, <1>9, HandlesGives, InvClient

\* Nothing is asked for.
NoRequest == [t |-> "sub", n |-> 0]

LEMMA AsksNothing ==
  ASSUME TypeInv, NEW d \in Devices, toHub' = toHub
  PROVE  /\ Asks(d, NoRequest) /\ NoRequest.n <= last
         /\ NoRequest.t = "read" => NoRequest.n <= lastRead'[d]
<1>1. NoRequest \in Request /\ NoRequest.n = 0 /\ NoRequest.t = "sub"
  BY Constants DEF NoRequest, Request
<1>2. Asks(d, NoRequest)
  BY <1>1, WritesAsks
<1>3. last \in Nat
  BY LogIs
<1>. QED  BY <1>1, <1>2, <1>3

LEMMA MarkReadIs ==
  ASSUME TypeInv, NEW d \in Devices, NEW n \in Nat, n <= last,
         MarkRead(d, n) \/ UNCHANGED <<lastRead, dirty>>
  PROVE  /\ lastRead' \in [Devices -> 0 .. MaxMsgs] /\ dirty' \in [Devices -> 0 .. MaxMsgs]
         /\ \A x \in Devices :
              lastRead[x] <= lastRead'[x] /\ lastRead'[x] <= last /\ dirty'[x] <= lastRead'[x]
<1>1. n \in 0 .. MaxMsgs
  BY ClientIs
<1>2. CASE UNCHANGED <<lastRead, dirty>>
  BY <1>2, ClientIs
<1>3. CASE /\ n > lastRead[d]
           /\ lastRead' = [lastRead EXCEPT ![d] = n] /\ dirty' = [dirty EXCEPT ![d] = n]
  BY <1>1, <1>3, ClientIs
<1>. QED  BY <1>2, <1>3 DEF MarkRead

LEMMA InvOnMsg ==
  ASSUME TypeInv, NEW d \in Devices, OnMsg(d)
  PROVE  TypeInv'
<1>0. Handles(d, "msg")
  BY DEF OnMsg
<1>1. PICK f : f = Head(toClient[d])
  OBVIOUS
<1>2. f.n \in 1 .. last /\ f.n \in Nat /\ f.n <= last /\ f.n \in Ids
  <2>1. f.n \in 0 .. MaxMsgs /\ f.t = "msg" /\ GoodFrame(f)
    BY <1>0, <1>1, HandlesGives
  <2>. QED  BY <2>1, LogIs, Constants DEF GoodFrame, Ids
<1>3. PICK n : n = Larger(lastID[d], f.n)
  OBVIOUS
<1>4. n \in Nat /\ n <= last /\ n \in 0 .. MaxMsgs
  <2>1. lastID[d] \in Nat /\ lastID[d] <= last /\ last <= MaxMsgs /\ last \in Nat /\ MaxMsgs \in Nat
    BY ClientIs
  <2>2. n \in {lastID[d], f.n} /\ lastID[d] <= n /\ n \in Nat
    BY <1>2, <1>3, <2>1, LargerIs
  <2>. QED  BY <1>2, <2>1, <2>2
<1>5. toHub' = toHub
  BY DEF OnMsg
<1>6. ClientOK
  <2>1. MarkRead(d, n) \/ UNCHANGED <<lastRead, dirty>>
    BY <1>1, <1>3 DEF OnMsg
  <2>2. lastID' = [lastID EXCEPT ![d] = n] /\ view' = [view EXCEPT ![d] = view[d] \cup {f.n}]
    BY <1>1, <1>3 DEF OnMsg
  <2>3. lastID' \in [Devices -> 0 .. MaxMsgs] /\ \A x \in Devices : lastID'[x] <= last
    BY <1>4, <2>2, ClientIs
  <2>4. view' \in [Devices -> SUBSET Ids] /\ \A x \in Devices : view'[x] \subseteq 1 .. last
    BY <1>2, <2>2, ClientIs
  <2>. QED  BY <1>4, <2>1, <2>3, <2>4, MarkReadIs DEF ClientOK
<1>. QED  BY <1>0, <1>5, <1>6, AsksNothing, HandlesGives, InvClient

LEMMA InvOnSynced ==
  ASSUME TypeInv, NEW d \in Devices, OnSynced(d)
  PROVE  TypeInv'
<1>0. Handles(d, "synced")
  BY DEF OnSynced
<1>1. PICK f : f = Head(toClient[d])
  OBVIOUS
<1>2. f.n \in Nat /\ f.n <= last
  <2>1. f.n \in 0 .. MaxMsgs /\ f.t = "synced" /\ GoodFrame(f)
    BY <1>0, <1>1, HandlesGives
  <2>. QED  BY <2>1, Constants DEF GoodFrame
<1>3. PICK n : n = Larger(lastID[d], f.n)
  OBVIOUS
<1>4. n \in Nat /\ n <= last /\ n \in 0 .. MaxMsgs
  <2>1. lastID[d] \in Nat /\ lastID[d] <= last /\ last <= MaxMsgs /\ last \in Nat /\ MaxMsgs \in Nat
    BY ClientIs
  <2>2. n \in {lastID[d], f.n} /\ lastID[d] <= n /\ n \in Nat
    BY <1>2, <1>3, <2>1, LargerIs
  <2>. QED  BY <1>2, <2>1, <2>2
<1>5. PICK m : m = IF n > lastRead[d] THEN n ELSE dirty[d]
  OBVIOUS
<1>6. PICK b : b = Larger(lastRead[d], n)
  OBVIOUS
<1>7. /\ m \in Nat /\ m <= last /\ m <= b /\ m \in 0 .. MaxMsgs
      /\ b \in Nat /\ b <= last /\ lastRead[d] <= b /\ b \in 0 .. MaxMsgs
  <2>1. /\ lastRead[d] \in Nat /\ lastRead[d] <= last /\ last <= MaxMsgs /\ last \in Nat
        /\ dirty[d] \in Nat /\ dirty[d] <= lastRead[d] /\ MaxMsgs \in Nat
    BY ClientIs
  <2>2. b \in {lastRead[d], n} /\ b \in Nat /\ lastRead[d] <= b /\ n <= b
    BY <1>4, <1>6, <2>1, LargerIs
  <2>. QED  BY <1>4, <1>5, <2>1, <2>2
<1>8. PICK r : r = [t |-> "read", n |-> m]
  OBVIOUS
<1>9. r \in Request /\ r.n = m /\ r.t = "read"
  BY <1>7, <1>8 DEF Request
<1>10. lastID' = [lastID EXCEPT ![d] = n] /\ view' = view
  BY <1>1, <1>3 DEF OnSynced
<1>11. CASE active[d]
  <2>1. lastRead' = [lastRead EXCEPT ![d] = b]
    BY <1>1, <1>3, <1>6, <1>11 DEF OnSynced
  <2>2. dirty' = [dirty EXCEPT ![d] = IF up[d] THEN 0 ELSE m]
    BY <1>1, <1>3, <1>5, <1>11 DEF OnSynced
  <2>3. toHub' = toHub \/ toHub' = Written(d, r)
    BY <1>1, <1>3, <1>5, <1>8, <1>11 DEF OnSynced
  <2>4. Asks(d, r)
    BY <1>9, <2>3, WritesAsks
  <2>5. r.n <= last /\ r.n <= lastRead'[d]
    BY <1>7, <1>9, <2>1, ClientIs
  <2>6. ClientOK
    <3>1. /\ lastID' \in [Devices -> 0 .. MaxMsgs] /\ \A x \in Devices : lastID'[x] <= last
          /\ view' \in [Devices -> SUBSET Ids] /\ \A x \in Devices : view'[x] \subseteq 1 .. last
      BY <1>4, <1>10, ClientIs
    <3>2. PICK c : c = IF up[d] THEN 0 ELSE m
      OBVIOUS
    <3>3. dirty' = [dirty EXCEPT ![d] = c] /\ c \in 0 .. MaxMsgs /\ c <= b
      BY <1>7, <2>2, <3>2, Constants
    <3>4. /\ lastRead' \in [Devices -> 0 .. MaxMsgs] /\ dirty' \in [Devices -> 0 .. MaxMsgs]
          /\ \A x \in Devices :
               lastRead[x] <= lastRead'[x] /\ lastRead'[x] <= last /\ dirty'[x] <= lastRead'[x]
      BY <1>7, <2>1, <3>3, ClientIs
    <3>. QED  BY <3>1, <3>4 DEF ClientOK
  <2>. QED  BY <1>0, <2>4, <2>5, <2>6, HandlesGives, InvClient
<1>12. CASE ~active[d]
  <2>1. toHub' = toHub /\ lastRead' = lastRead /\ dirty' = dirty
    BY <1>12 DEF OnSynced
  <2>2. ClientOK
    BY <1>4, <1>10, <2>1, ClientIs DEF ClientOK
  <2>. QED  BY <1>0, <2>1, <2>2, AsksNothing, HandlesGives, InvClient
<1>. QED  BY <1>11, <1>12

LEMMA InvOnGone ==
  ASSUME TypeInv, NEW d \in Devices, OnGone(d)
  PROVE  TypeInv'
<1>0. Handles(d, "gone") /\ toHub' = toHub
  BY DEF OnGone
<1>1. PICK V : V = view[d] \ Head(toClient[d]).ids
  OBVIOUS
<1>2. view' = [view EXCEPT ![d] = V] /\ V \subseteq view[d]
      /\ lastID' = lastID /\ lastRead' = lastRead /\ dirty' = dirty
  BY <1>1 DEF OnGone
<1>3. ClientOK
  <2>1. view' \in [Devices -> SUBSET Ids] /\ \A x \in Devices : view'[x] \subseteq 1 .. last
    BY <1>2, ClientIs
  <2>. QED  BY <1>2, <2>1, ClientIs DEF ClientOK
<1>. QED  BY <1>0, <1>3, AsksNothing, HandlesGives, InvClient

LEMMA InvOnRead ==
  ASSUME TypeInv, NEW d \in Devices, OnRead(d)
  PROVE  TypeInv'
<1>0. Handles(d, "read") /\ toHub' = toHub
  BY DEF OnRead
<1>1. PICK f : f = Head(toClient[d])
  OBVIOUS
<1>2. f.n \in Nat /\ f.n <= last
  <2>1. f.n \in 0 .. MaxMsgs /\ f.t = "read" /\ GoodFrame(f)
    BY <1>0, <1>1, HandlesGives
  <2>. QED  BY <2>1, Constants DEF GoodFrame
<1>3. PICK b : b = Larger(lastRead[d], f.n)
  OBVIOUS
<1>4. b \in Nat /\ b <= last /\ b \in 0 .. MaxMsgs /\ lastRead[d] <= b
  <2>1. /\ lastRead[d] \in Nat /\ lastRead[d] <= last /\ last <= MaxMsgs /\ last \in Nat
        /\ MaxMsgs \in Nat
    BY ClientIs
  <2>2. b \in {lastRead[d], f.n} /\ lastRead[d] <= b /\ b \in Nat
    BY <1>2, <1>3, <2>1, LargerIs
  <2>. QED  BY <1>2, <2>1, <2>2
<1>5. lastRead' = [lastRead EXCEPT ![d] = b] /\ lastID' = lastID /\ dirty' = dirty /\ view' = view
  BY <1>1, <1>3 DEF OnRead
<1>6. ClientOK
  <2>1. /\ lastRead' \in [Devices -> 0 .. MaxMsgs]
        /\ \A x \in Devices :
             lastRead[x] <= lastRead'[x] /\ lastRead'[x] <= last /\ dirty'[x] <= lastRead'[x]
    BY <1>4, <1>5, ClientIs
  <2>. QED  BY <1>5, <2>1, ClientIs DEF ClientOK
<1>. QED  BY <1>0, <1>6, AsksNothing, HandlesGives, InvClient

LEMMA InvFlush ==
  ASSUME TypeInv, NEW d \in Devices, Flush(d)
  PROVE  TypeInv'
<1>1. /\ UNCHANGED <<hubVars, up, subbed, history>> /\ active' \in [Devices -> BOOLEAN]
      /\ toClient' = toClient /\ toClient' \in [Devices -> Seq(Frame)]
  BY DEF Flush, TypeInv, TypeOK
<1>2. FramesGood'
  BY <1>1 DEF TypeInv, FramesGood, GoodFrame, hubVars
<1>3. PICK r : r = [t |-> "read", n |-> dirty[d]]
  OBVIOUS
<1>4. r \in Request /\ r.t = "read" /\ r.n = dirty[d]
  BY <1>3, ClientIs DEF Request
<1>5. Asks(d, r)
  <2>1. up[d] /\ toHub' = [toHub EXCEPT ![d] = Append(toHub[d], r)]
    BY <1>3 DEF Flush
  <2>. QED  BY <1>4, <2>1, WritesAsks
<1>6. lastRead' = lastRead /\ lastID' = lastID /\ view' = view
      /\ dirty' = [dirty EXCEPT ![d] = 0]
  BY DEF Flush
<1>7. r.n <= last /\ r.n <= lastRead'[d]
  BY <1>4, <1>6, ClientIs
<1>8. ClientOK
  <2>1. dirty' \in [Devices -> 0 .. MaxMsgs] /\ \A x \in Devices : dirty'[x] <= lastRead'[x]
    BY <1>6, ClientIs
  <2>. QED  BY <1>6, <2>1, ClientIs DEF ClientOK
<1>. QED  BY <1>1, <1>2, <1>5, <1>7, <1>8, InvClient

LEMMA InvLook ==
  ASSUME TypeInv, NEW d \in Devices, Look(d)
  PROVE  TypeInv'
<1>1. /\ UNCHANGED <<hubVars, up, subbed, history>> /\ active' \in [Devices -> BOOLEAN]
      /\ toClient' = toClient /\ toClient' \in [Devices -> Seq(Frame)] /\ toHub' = toHub
  BY DEF Look, TypeInv, TypeOK
<1>2. FramesGood'
  BY <1>1 DEF TypeInv, FramesGood, GoodFrame, hubVars
<1>3. lastID' = lastID /\ view' = view /\ (MarkRead(d, lastID[d]) \/ UNCHANGED <<lastRead, dirty>>)
  BY DEF Look
<1>4. ClientOK
  <2>1. PICK n : n = lastID[d]
    OBVIOUS
  <2>2. n \in Nat /\ n <= last /\ (MarkRead(d, n) \/ UNCHANGED <<lastRead, dirty>>)
    BY <1>3, <2>1, ClientIs
  <2>3. /\ lastRead' \in [Devices -> 0 .. MaxMsgs] /\ dirty' \in [Devices -> 0 .. MaxMsgs]
        /\ \A x \in Devices :
             lastRead[x] <= lastRead'[x] /\ lastRead'[x] <= last /\ dirty'[x] <= lastRead'[x]
    BY <2>2, MarkReadIs
  <2>. QED  BY <1>3, <2>3, ClientIs DEF ClientOK
<1>. QED  BY <1>1, <1>2, <1>4, AsksNothing, InvClient

LEMMA InvReopen ==
  ASSUME TypeInv, NEW d \in Devices, Reopen(d)
  PROVE  TypeInv'
<1>1. /\ last' = last /\ last' \in Nat /\ last <= last' /\ tomb' = tomb /\ live' = live
      /\ read' = read /\ up' = up /\ subbed' = subbed /\ toHub' = toHub
  BY LogIs DEF Reopen, hubVars
<1>2. /\ toClient \in [Devices -> Seq(Frame)] /\ toClient' = [toClient EXCEPT ![d] = <<>>]
      /\ <<>> \in Seq(Frame)
  BY DEF TypeInv, TypeOK, Reopen
<1>3. toClient' \in [Devices -> Seq(Frame)]
  BY <1>2
<1>4. /\ lastID' \in [Devices -> 0 .. MaxMsgs] /\ lastRead' \in [Devices -> 0 .. MaxMsgs]
      /\ dirty' \in [Devices -> 0 .. MaxMsgs] /\ view' \in [Devices -> SUBSET Ids]
      /\ \A x \in Devices :
           /\ lastID'[x] <= last /\ lastRead'[x] <= last /\ dirty'[x] <= lastRead'[x]
           /\ view'[x] \subseteq 1 .. last
           /\ x # d => lastRead'[x] = lastRead[x]
  BY ClientIs DEF Reopen
<1>5. TypeOK'
  <2>1. unheard' \in [Devices -> SUBSET Ids]
    BY DEF TypeInv, TypeOK, Reopen
  <2>. QED  BY <1>1, <1>3, <1>4, <2>1, Zenon DEF TypeInv, TypeOK, Reopen
<1>6. FramesGood'
  <2>1. ASSUME NEW x \in Devices
        PROVE  Range(toClient'[x]) \subseteq Range(toClient[x])
    <3>1. CASE x = d
      <4>1. toClient'[x] = <<>>
        BY <1>2, <3>1
      <4>2. Range(<<>>) = {}
        BY DEF Range
      <4>. QED  BY <4>1, <4>2
    <3>2. CASE x # d
      <4>1. toClient'[x] = toClient[x]
        BY <1>2, <3>2
      <4>. QED  BY <4>1
    <3>. QED  BY <3>1, <3>2
  <2>. QED  BY <1>1, <2>1 DEF TypeInv, FramesGood, GoodFrame
<1>7. RequestsGood'
  <2>1. ASSUME NEW x \in Devices, NEW p \in Range(toHub[x])
        PROVE  p.n <= last /\ (p.t = "read" => p.n <= lastRead'[x])
    <3>1. CASE x = d
      <4>1. toHub[x] = <<>>
        BY <3>1 DEF TypeInv, HubBounds, Reopen
      <4>. QED  BY <2>1, <4>1 DEF Range
    <3>2. CASE x # d
      BY <1>4, <2>1, <3>2 DEF TypeInv, RequestsGood
    <3>. QED  BY <3>1, <3>2
  <2>. QED  BY <1>1, <2>1 DEF RequestsGood
<1>8. Complete'
  BY <1>1 DEF TypeInv, Complete
<1>9. ClientBounds'
  BY <1>1, <1>4 DEF ClientBounds
<1>10. HubBounds'
  BY <1>1 DEF TypeInv, HubBounds
<1>. QED  BY <1>5, <1>6, <1>7, <1>8, <1>9, <1>10 DEF TypeInv

LEMMA InvStutter ==
  ASSUME TypeInv, UNCHANGED vars
  PROVE  TypeInv'
<1>1. /\ UNCHANGED <<hubVars, up, subbed, history, toClient, toHub, active>>
      /\ UNCHANGED <<lastID, lastRead, dirty, view>>
  BY DEF vars, chanVars
<1>2. TypeOK'
  BY <1>1 DEF TypeInv, TypeOK, hubVars, history
<1>3. FramesGood' /\ RequestsGood'
  BY <1>1 DEF TypeInv, FramesGood, GoodFrame, RequestsGood, hubVars
<1>4. Complete' /\ ClientBounds' /\ HubBounds'
  BY <1>1 DEF TypeInv, Complete, ClientBounds, HubBounds, hubVars
<1>. QED  BY <1>2, <1>3, <1>4 DEF TypeInv

LEMMA InvInit == Init => TypeInv
<1>. SUFFICES ASSUME Init PROVE TypeInv
  OBVIOUS
<1>1. MaxMsgs \in Nat /\ <<>> \in Seq(Frame) /\ <<>> \in Seq(Request) /\ Range(<<>>) = {}
  BY Constants DEF Range
<1>2. \A d \in Devices : toClient[d] = <<>> /\ toHub[d] = <<>>
  BY DEF Init
<1>3. TypeOK
  <2>1. toClient \in [Devices -> Seq(Frame)] /\ toHub \in [Devices -> Seq(Request)]
    BY <1>1 DEF Init
  <2>2. 0 \in 0 .. MaxMsgs /\ {} \in SUBSET Ids /\ FALSE \in BOOLEAN
    BY <1>1
  <2>3. /\ up \in [Devices -> BOOLEAN] /\ subbed \in [Devices -> BOOLEAN]
        /\ lastID \in [Devices -> 0 .. MaxMsgs] /\ lastRead \in [Devices -> 0 .. MaxMsgs]
        /\ dirty \in [Devices -> 0 .. MaxMsgs]
        /\ view \in [Devices -> SUBSET Ids] /\ unheard \in [Devices -> SUBSET Ids]
        /\ base \in [Devices -> 0 .. MaxMsgs] /\ readAt \in [Devices -> 0 .. MaxMsgs]
    BY <2>2 DEF Init
  <2>. QED  BY <2>1, <2>2, <2>3 DEF TypeOK, Init
<1>4. FramesGood /\ RequestsGood
  BY <1>1, <1>2 DEF FramesGood, RequestsGood
<1>5. Complete
  BY DEF Complete, Init
<1>6. ClientBounds /\ HubBounds
  BY <1>1, <1>2 DEF ClientBounds, HubBounds, Init
<1>. QED  BY <1>3, <1>4, <1>5, <1>6 DEF TypeInv

LEMMA InvNext ==
  ASSUME TypeInv, [Next]_vars
  PROVE  TypeInv'
<1>1. ASSUME NEW d \in Devices,
             \/ HubStep(d) \/ ClientStep(d)
             \/ Flush(d) \/ Look(d) \/ Reopen(d) \/ Connect(d)
             \/ \E n \in 0 .. Len(toClient[d]) : Drop(d, n)
      PROVE  TypeInv'
  BY <1>1, InvHandleSub, InvHandleRead, InvOnOK, InvOnMsg, InvOnSynced, InvOnGone, InvOnRead,
     InvFlush, InvLook, InvReopen, InvConnect, InvDrop
     DEF HubStep, ClientStep
<1>. QED  BY <1>1, InvPost, InvDelete, InvReadElsewhere, InvStutter DEF Next

LEMMA Always == Spec => []TypeInv
<1>1. TypeInv /\ [Next]_vars => TypeInv'
  BY InvNext
<1>. QED  BY <1>1, InvInit, PTL DEF Spec

\* Every variable keeps to its kind, queues of frames and of requests included: the hub
\* and the client pass each other nothing but numbers of messages there are.
THEOREM TypeCorrect == Spec => []TypeOK
<1>1. TypeInv => TypeOK
  BY DEF TypeInv
<1>. QED  BY <1>1, Always, PTL

-----------------------------------------------------------------------------
(***************************************************************************)
(* What a device shows                                                     *)
(***************************************************************************)
LEMMA FeedInit == Init => Promise!Init
BY DEF Init, Promise!Init

LEMMA FeedNext ==
  ASSUME TypeInv, [Next]_vars
  PROVE  [Promise!Next]_(Promise!vars)
<1>1. CASE Post
  <2>1. Promise!Post
    BY <1>1 DEF Post, Promise!Post, chanVars
  <2>. QED  BY <2>1 DEF Promise!Next
<1>2. ASSUME NEW M \in SUBSET Ids, Delete(M)
      PROVE  Promise!Next
  <2>1. Promise!Delete(M) /\ M \in SUBSET Promise!Ids
    BY <1>2 DEF Delete, Promise!Delete, chanVars, Ids, Promise!Ids
  <2>. QED  BY <2>1 DEF Promise!Next
<1>3. ASSUME NEW n \in Ids, n <= last, n > read, read' = n, UNCHANGED <<live, last, view>>
      PROVE  Promise!Next
  <2>1. n \in Promise!Ids /\ read < n
    BY <1>3, LogIs, Constants DEF Ids, Promise!Ids, TypeInv, TypeOK
  <2>2. Promise!ReadTo(n)
    BY <1>3, <2>1 DEF Promise!ReadTo
  <2>. QED  BY <2>1, <2>2 DEF Promise!Next
<1>4. ASSUME NEW n \in Ids, ReadElsewhere(n)
      PROVE  Promise!Next
  <2>1. n <= last /\ n > read
    BY <1>4, LogIs, Constants DEF ReadElsewhere, Ids, TypeInv, TypeOK
  <2>. QED  BY <1>3, <1>4, <2>1 DEF ReadElsewhere, Record, chanVars
<1>5. ASSUME NEW d \in Devices, HandleRead(d)
      PROVE  Promise!Next \/ UNCHANGED Promise!vars
  <2>1. PICK n : n = Head(toHub[d]).n
    OBVIOUS
  <2>2. n \in 0 .. MaxMsgs /\ n <= last
    BY <1>5, <2>1, RequestIs DEF HandleRead
  <2>3. UNCHANGED <<live, last, view>>
    BY <1>5 DEF HandleRead, chanVars
  <2>4. CASE n > read
    <3>1. read' = n
      BY <1>5, <2>1, <2>4 DEF HandleRead, Record
    <3>2. n \in Ids
      <4>1. read \in Nat /\ MaxMsgs \in Nat
        BY Constants DEF TypeInv, TypeOK
      <4>. QED  BY <2>2, <2>4, <4>1 DEF Ids
    <3>. QED  BY <1>3, <2>2, <2>3, <2>4, <3>1, <3>2
  <2>5. CASE ~(n > read)
    <3>1. read' = read
      BY <1>5, <2>1, <2>5 DEF HandleRead
    <3>. QED  BY <2>3, <3>1 DEF Promise!vars
  <2>. QED  BY <2>4, <2>5
<1>6. ASSUME NEW d \in Devices, OnMsg(d)
      PROVE  Promise!Next
  <2>1. PICK m : m = Head(toClient[d]).n
    OBVIOUS
  <2>2. m \in Promise!Ids /\ m <= last
    <3>1. PICK f : f = Head(toClient[d])
      OBVIOUS
    <3>2. f.t = "msg" /\ GoodFrame(f)
      BY <1>6, <3>1, HandlesGives DEF OnMsg
    <3>. QED  BY <2>1, <3>1, <3>2, LogIs, Constants DEF GoodFrame, Promise!Ids
  <2>3. Promise!Show(d, m)
    BY <1>6, <2>1, <2>2 DEF OnMsg, Handles, hubVars, Promise!Show
  <2>. QED  BY <2>2, <2>3 DEF Promise!Next
<1>7. ASSUME NEW d \in Devices, OnGone(d)
      PROVE  Promise!Next
  <2>1. PICK f : f = Head(toClient[d])
    OBVIOUS
  <2>2. f.t = "gone" /\ GoodFrame(f) /\ f \in Frame
    BY <1>7, <2>1, HandlesGives DEF OnGone
  <2>3. f.ids \in SUBSET Promise!Ids
    BY <2>2 DEF Frame, Ids, Promise!Ids
  <2>4. f.ids \cap live = {}
    BY <2>2 DEF GoodFrame, TypeInv, TypeOK
  <2>5. Promise!Hide(d, f.ids)
    BY <1>7, <2>1, <2>4 DEF OnGone, Handles, hubVars, Promise!Hide
  <2>. QED  BY <2>3, <2>5 DEF Promise!Next
<1>8. ASSUME NEW d \in Devices, Reopen(d)
      PROVE  Promise!Next
  <2>1. Promise!Forget(d)
    BY <1>8, SMTT(60) DEF Reopen, hubVars, Promise!Forget
  <2>. QED  BY <2>1 DEF Promise!Next
<1>9. ASSUME NEW d \in Devices,
             HandleSub(d) \/ Connect(d) \/ Flush(d) \/ Look(d) \/ (\E n : Drop(d, n))
             \/ OnOK(d) \/ OnSynced(d) \/ OnRead(d)
      PROVE  UNCHANGED Promise!vars
  BY <1>9 DEF HandleSub, Connect, Flush, Look, Drop, OnOK, OnSynced, OnRead, Handles,
              hubVars, chanVars, Promise!vars
<1>10. CASE UNCHANGED vars
  BY <1>10 DEF vars, hubVars, chanVars, Promise!vars
<1>. QED
  BY <1>1, <1>2, <1>4, <1>5, <1>6, <1>7, <1>8, <1>9, <1>10 DEF Next, HubStep, ClientStep

\* Delivery implements Feed: no device shows what was not posted or takes away what was
\* not removed, and LastRead goes forward and stays at a message there is, however
\* connections break and frames wait (post, del, handleRead; onMsg, forget).
THEOREM KeepsThePromise == Spec => FeedSpec
<1>1. Init => Promise!Init
  BY FeedInit
<1>2. TypeInv /\ [Next]_vars => [Promise!Next]_(Promise!vars)
  BY FeedNext
<1>. QED  BY <1>1, <1>2, Always, PTL DEF Spec, FeedSpec, Promise!Spec

-----------------------------------------------------------------------------
(***************************************************************************)
(* No gap                                                                  *)
(***************************************************************************)
\* What becomes of the frames that are on their way.
LEMMA GrowsRange ==
  ASSUME TypeInv, NEW S, NEW s, Grows(S, s), NEW x \in Devices
  PROVE  /\ Range(toClient[x]) \subseteq Range(toClient'[x])
         /\ x \in S => Range(s) \subseteq Range(toClient'[x])
<1>1. toClient[x] \in Seq(Frame) /\ s \in Seq(Frame)
  BY DEF TypeInv, TypeOK, Grows
<1>2. Range(toClient[x] \o s) = Range(toClient[x]) \cup Range(s)
  BY <1>1, GrownProperties
<1>3. toClient'[x] = IF x \in S THEN toClient[x] \o s ELSE toClient[x]
  BY DEF Grows
<1>. QED  BY <1>2, <1>3

LEMMA TakesRange ==
  ASSUME TypeInv, NEW d \in Devices, Takes(d), NEW x \in Devices,
         NEW f \in Range(toClient[x])
  PROVE  f \in Range(toClient'[x]) \/ (x = d /\ f = Head(toClient[d]))
<1>1. CASE x # d
  BY <1>1 DEF Takes
<1>2. CASE x = d
  <2>1. PICK q : q = toClient[d]
    OBVIOUS
  <2>2. q \in Seq(Frame) /\ q # <<>> /\ toClient'[x] = Tail(q) /\ f \in Range(q)
    BY <1>2, <2>1 DEF Takes, TypeInv, TypeOK
  <2>3. /\ DOMAIN q = 1 .. Len(q) /\ Len(q) \in Nat /\ Head(q) = q[1]
        /\ DOMAIN Tail(q) = 1 .. Len(q) - 1
        /\ \A i \in 1 .. Len(q) - 1 : Tail(q)[i] = q[i + 1]
    BY <2>2, RangeTail
  <2>4. PICK i \in 1 .. Len(q) : f = q[i]
    BY <2>2, <2>3 DEF Range
  <2>5. CASE i = 1
    BY <1>2, <2>1, <2>3, <2>4, <2>5
  <2>6. CASE i # 1
    <3>1. i - 1 \in 1 .. Len(q) - 1 /\ (i - 1) + 1 = i
      BY <2>3, <2>4, <2>6
    <3>2. Tail(q)[i - 1] = f
      BY <2>3, <2>4, <3>1
    <3>. QED  BY <2>2, <2>3, <3>1, <3>2 DEF Range
  <2>. QED  BY <2>5, <2>6
<1>. QED  BY <1>1, <1>2

\* One device's part of NoGap.
Shown(x, m) == m \in view[x] \/ \E f \in Range(toClient[x]) : f.t = "msg" /\ f.n = m
Gapless(x) == Attached(x) => \A m \in live : m > base[x] => Shown(x, m)

LEMMA GaplessIs ==
  ASSUME \A x \in Devices : Gapless(x)
  PROVE  NoGap
<1>1. ASSUME NEW x \in Devices, Attached(x), NEW m \in live, m > base[x]
      PROVE  m \in view[x] \cup MsgsComing(x)
  <2>1. Shown(x, m)
    BY <1>1 DEF Gapless
  <2>2. CASE m \in view[x]
    BY <2>2
  <2>3. ASSUME NEW f \in Range(toClient[x]), f.t = "msg", f.n = m
        PROVE  m \in MsgsComing(x)
    <3>1. PICK i \in DOMAIN toClient[x] : f = toClient[x][i]
      BY <2>3 DEF Range
    <3>2. i \in InFlight(x, "msg")
      BY <2>3, <3>1 DEF InFlight
    <3>. QED  BY <2>3, <3>1, <3>2 DEF MsgsComing
  <2>. QED  BY <2>1, <2>2, <2>3 DEF Shown
<1>. QED  BY <1>1 DEF NoGap

LEMMA GaplessStays ==
  ASSUME NEW x \in Devices, Gapless(x), Attached(x)' => Attached(x), live' \subseteq live,
         base' = base, \A m \in live' : Shown(x, m) => Shown(x, m)'
  PROVE  Gapless(x)'
BY DEF Gapless

LEMMA GapGrows ==
  ASSUME TypeInv, NEW x \in Devices, Gapless(x), NEW S, NEW s, Grows(S, s), view' = view,
         Attached(x)' => Attached(x), live' \subseteq live, base' = base
  PROVE  Gapless(x)'
<1>1. Range(toClient[x]) \subseteq Range(toClient'[x])
  BY GrowsRange
<1>2. \A m \in live' : Shown(x, m) => Shown(x, m)'
  BY <1>1 DEF Shown
<1>. QED  BY <1>2, GaplessStays

\* A frame is handled: what it showed is in view.
LEMMA GapTakes ==
  ASSUME TypeInv, NEW x \in Devices, Gapless(x), NEW d \in Devices, NEW t, Handles(d, t),
         \A m \in live : m \in view[x] => m \in view'[x],
         t = "msg" => Head(toClient[d]).n \in view'[d]
  PROVE  Gapless(x)'
<1>1. Takes(d) /\ UNCHANGED <<hubVars, up, subbed, history>> /\ Head(toClient[d]).t = t
  BY HandlesGives
<1>2. live' = live /\ base' = base /\ (Attached(x)' => Attached(x))
  BY <1>1 DEF hubVars, history, Attached
<1>3. ASSUME NEW m \in live', Shown(x, m)
      PROVE  Shown(x, m)'
  <2>1. CASE m \in view[x]
    BY <1>2, <1>3, <2>1 DEF Shown
  <2>2. ASSUME NEW f \in Range(toClient[x]), f.t = "msg", f.n = m
        PROVE  Shown(x, m)'
    <3>1. f \in Range(toClient'[x]) \/ (x = d /\ f = Head(toClient[d]))
      BY <1>1, <2>2, TakesRange
    <3>2. CASE f \in Range(toClient'[x])
      BY <2>2, <3>2 DEF Shown
    <3>3. CASE x = d /\ f = Head(toClient[d])
      <4>1. m \in view'[x]
        BY <1>1, <2>2, <3>3
      <4>. QED  BY <4>1 DEF Shown
    <3>. QED  BY <3>1, <3>2, <3>3
  <2>. QED  BY <1>3, <2>1, <2>2 DEF Shown
<1>. QED  BY <1>2, <1>3, GaplessStays

LEMMA GapPost ==
  ASSUME TypeInv, Post, NEW x \in Devices, Gapless(x)
  PROVE  Gapless(x)'
<1>1. PICK f : f = MsgFrame(last + 1, FALSE)
  OBVIOUS
<1>2. f.t = "msg" /\ f.n = last + 1
  BY <1>1 DEF MsgFrame
<1>3. PICK s : s = <<f>>
  OBVIOUS
<1>4. Grows({y \in Devices : Attached(y)}, s) /\ f \in Range(s)
  BY <1>1, <1>3, PostGrows, RangeOne
<1>5. live' = live \cup {last + 1} /\ base' = base /\ view' = view /\ Attached(x)' = Attached(x)
  BY DEF Post, chanVars, history, Attached
<1>6. ASSUME Attached(x), NEW m \in live', m > base[x]
      PROVE  Shown(x, m)'
  <2>1. Range(toClient[x]) \subseteq Range(toClient'[x]) /\ f \in Range(toClient'[x])
    BY <1>4, <1>6, GrowsRange
  <2>2. CASE m \in live
    <3>1. Shown(x, m)
      BY <1>6, <2>2 DEF Gapless
    <3>. QED  BY <1>5, <2>1, <3>1 DEF Shown
  <2>3. CASE m = last + 1
    BY <1>2, <2>1, <2>3 DEF Shown
  <2>. QED  BY <1>5, <1>6, <2>2, <2>3
<1>. QED  BY <1>5, <1>6 DEF Gapless

LEMMA GapHandleSub ==
  ASSUME TypeInv, NEW d \in Devices, HandleSub(d), NEW x \in Devices, Gapless(x)
  PROVE  Gapless(x)'
<1>1. PICK since : since = Head(toHub[d]).n
  OBVIOUS
<1>2. PICK s : s = Reply(since)
  OBVIOUS
<1>3. Grows({d}, s) /\ since \in 0 .. MaxMsgs
  BY <1>1, <1>2, HandleSubGrows
<1>4. PICK b : b = Beginning(since)
  OBVIOUS
<1>5. /\ base' = [base EXCEPT ![d] = b] /\ subbed' = [subbed EXCEPT ![d] = TRUE]
      /\ up' = up /\ live' = live /\ view' = view
  BY <1>1, <1>4 DEF HandleSub, Beginning, hubVars, chanVars
<1>6. CASE x # d
  <2>1. base'[x] = base[x] /\ subbed'[x] = subbed[x]
    BY <1>5, <1>6 DEF TypeInv, TypeOK
  <2>2. Range(toClient[x]) \subseteq Range(toClient'[x])
    BY <1>3, GrowsRange
  <2>3. ASSUME NEW m \in live, Shown(x, m)
        PROVE  Shown(x, m)'
    BY <1>5, <2>2, <2>3 DEF Shown
  <2>. QED  BY <1>5, <2>1, <2>3 DEF Gapless, Attached
<1>7. CASE x = d
  <2>1. base'[x] = b
    BY <1>5, <1>7 DEF TypeInv, TypeOK
  <2>2. ASSUME NEW m \in live, m > b
        PROVE  Shown(x, m)'
    <3>1. m \in Replayed(since)
      BY <1>3, <1>4, <2>2, BeginningIs DEF Log
    <3>2. ReplayFrame(m) \in Range(s)
      BY <1>2, <1>3, <3>1, ReplyIs
    <3>3. Range(s) \subseteq Range(toClient'[x])
      BY <1>3, <1>7, GrowsRange
    <3>4. ReplayFrame(m).t = "msg" /\ ReplayFrame(m).n = m
      BY <2>2 DEF ReplayFrame, MsgFrame
    <3>5. PICK f : f = ReplayFrame(m)
      OBVIOUS
    <3>. QED  BY <3>2, <3>3, <3>4, <3>5 DEF Shown
  <2>. QED  BY <1>5, <2>1, <2>2 DEF Gapless
<1>. QED  BY <1>6, <1>7

\* Whoever does not become attached, and keeps view and frames, keeps its part.
LEMMA GapSame ==
  ASSUME NEW x \in Devices, Gapless(x), Attached(x)' => Attached(x), live' = live,
         Attached(x)' => base'[x] = base[x] /\ view'[x] = view[x] /\ toClient'[x] = toClient[x]
  PROVE  Gapless(x)'
<1>1. SUFFICES ASSUME Attached(x)', NEW m \in live, m > base[x]
               PROVE  Shown(x, m)'
  BY DEF Gapless
<1>2. Shown(x, m)
  BY <1>1 DEF Gapless
<1>. QED  BY <1>1, <1>2 DEF Shown

LEMMA GapNext ==
  ASSUME TypeInv, [Next]_vars, NEW x \in Devices, Gapless(x)
  PROVE  Gapless(x)'
<1>1. ASSUME NEW M \in SUBSET Ids, Delete(M)
      PROVE  Gapless(x)'
  <2>1. PICK s : s = <<Gone(M, FALSE)>>
    OBVIOUS
  <2>2. Grows({y \in Devices : Attached(y)}, s)
    BY <1>1, <2>1, DeleteGrows
  <2>3. live' \subseteq live /\ view' = view /\ base' = base /\ (Attached(x)' => Attached(x))
    BY <1>1 DEF Delete, chanVars, Attached
  <2>. QED  BY <2>2, <2>3, GapGrows
<1>2. ASSUME NEW n \in 0 .. MaxMsgs, NEW e, Record(n, e),
             UNCHANGED <<live, up, subbed, chanVars, history>>
      PROVE  Gapless(x)'
  <2>1. PICK s : s = <<Info("read", n)>>
    OBVIOUS
  <2>2. Grows({y \in Devices : up[y] /\ y # e}, s)
    BY <1>2, <2>1, RecordGrows, Constants DEF TypeInv, TypeOK
  <2>3. live' \subseteq live /\ view' = view /\ base' = base /\ (Attached(x)' => Attached(x))
    BY <1>2 DEF chanVars, history, Attached
  <2>. QED  BY <2>2, <2>3, GapGrows
<1>3. ASSUME NEW n \in Ids, ReadElsewhere(n)
      PROVE  Gapless(x)'
  <2>1. n \in 0 .. MaxMsgs
    BY Constants DEF Ids
  <2>. QED  BY <1>2, <1>3, <2>1 DEF ReadElsewhere
<1>4. ASSUME NEW d \in Devices, HandleRead(d)
      PROVE  Gapless(x)'
  <2>1. PICK n : n = Head(toHub[d]).n
    OBVIOUS
  <2>2. n \in 0 .. MaxMsgs
    BY <1>4, <2>1, RequestIs DEF HandleRead
  <2>3. UNCHANGED <<live, up, subbed, chanVars, history>>
    BY <1>4 DEF HandleRead
  <2>4. Record(n, d) \/ toClient' = toClient
    BY <1>4, <2>1 DEF HandleRead
  <2>5. CASE toClient' = toClient
    BY <2>3, <2>5, GapSame DEF chanVars, history, Attached
  <2>. QED  BY <1>2, <2>2, <2>3, <2>4, <2>5
<1>5. ASSUME NEW d \in Devices, Connect(d)
      PROVE  Gapless(x)'
  <2>1. CASE x = d
    <3>1. ~subbed[x] /\ subbed' = subbed
      BY <1>5, <2>1 DEF Connect, TypeInv, HubBounds
    <3>. QED  BY <3>1 DEF Gapless, Attached
  <2>2. CASE x # d
    <3>1. /\ up'[x] = up[x] /\ subbed' = subbed /\ live' = live /\ base' = base /\ view' = view
          /\ toClient'[x] = toClient[x]
      BY <1>5, <2>2 DEF Connect, hubVars, chanVars, TypeInv, TypeOK
    <3>. QED  BY <3>1, GapSame DEF Attached
  <2>. QED  BY <2>1, <2>2
<1>6. ASSUME NEW d \in Devices, NEW n, Drop(d, n)
      PROVE  Gapless(x)'
  <2>1. CASE x = d
    <3>1. ~up'[x]
      BY <1>6, <2>1 DEF Drop, TypeInv, TypeOK
    <3>. QED  BY <3>1 DEF Gapless, Attached
  <2>2. CASE x # d
    <3>1. /\ up'[x] = up[x] /\ subbed'[x] = subbed[x] /\ live' = live /\ base'[x] = base[x]
          /\ view' = view /\ toClient'[x] = toClient[x]
      BY <1>6, <2>2 DEF Drop, hubVars, chanVars, TypeInv, TypeOK
    <3>. QED  BY <3>1, GapSame DEF Attached
  <2>. QED  BY <2>1, <2>2
<1>7. ASSUME NEW d \in Devices, Reopen(d)
      PROVE  Gapless(x)'
  <2>1. CASE x = d
    <3>1. ~up'[x]
      BY <1>7, <2>1 DEF Reopen
    <3>. QED  BY <3>1 DEF Gapless, Attached
  <2>2. CASE x # d
    <3>1. /\ up' = up /\ subbed' = subbed /\ live' = live /\ base' = base
          /\ view'[x] = view[x] /\ toClient'[x] = toClient[x]
      BY <1>7, <2>2 DEF Reopen, hubVars, TypeInv, TypeOK
    <3>. QED  BY <3>1, GapSame DEF Attached
  <2>. QED  BY <2>1, <2>2
<1>8. ASSUME NEW d \in Devices, Flush(d) \/ Look(d)
      PROVE  Gapless(x)'
  <2>1. UNCHANGED <<hubVars, up, subbed, toClient, view, history>>
    BY <1>8 DEF Flush, Look
  <2>. QED  BY <2>1, GapSame DEF Attached, hubVars, history
<1>9. ASSUME NEW d \in Devices, NEW t \in {"ok", "synced", "read"}, Handles(d, t), view' = view
      PROVE  Gapless(x)'
  <2>1. t # "msg"
    OBVIOUS
  <2>. QED  BY <1>9, <2>1, GapTakes
<1>10. ASSUME NEW d \in Devices, OnMsg(d)
       PROVE  Gapless(x)'
  <2>1. Handles(d, "msg") /\ view' = [view EXCEPT ![d] = view[d] \cup {Head(toClient[d]).n}]
    BY <1>10 DEF OnMsg
  <2>2. view[x] \subseteq view'[x] /\ Head(toClient[d]).n \in view'[d]
    BY <2>1 DEF TypeInv, TypeOK
  <2>. QED  BY <2>1, <2>2, GapTakes
<1>11. ASSUME NEW d \in Devices, OnGone(d)
       PROVE  Gapless(x)'
  <2>1. PICK f : f = Head(toClient[d])
    OBVIOUS
  <2>2. Handles(d, "gone") /\ view' = [view EXCEPT ![d] = view[d] \ f.ids]
    BY <1>11, <2>1 DEF OnGone
  <2>3. f.ids \cap live = {}
    <3>1. f.t = "gone" /\ GoodFrame(f)
      BY <2>1, <2>2, HandlesGives
    <3>. QED  BY <3>1 DEF GoodFrame, TypeInv, TypeOK
  <2>4. \A m \in live : m \in view[x] => m \in view'[x]
    BY <2>2, <2>3 DEF TypeInv, TypeOK
  <2>5. "gone" # "msg"
    OBVIOUS
  <2>. QED  BY <2>2, <2>4, <2>5, GapTakes
<1>12. ASSUME NEW d \in Devices, OnOK(d) \/ OnSynced(d) \/ OnRead(d)
       PROVE  Gapless(x)'
  BY <1>9, <1>12 DEF OnOK, OnSynced, OnRead
<1>13. CASE UNCHANGED vars
  BY <1>13, GapSame DEF vars, hubVars, chanVars, history, Attached
<1>. QED
  BY <1>1, <1>3, <1>4, <1>5, <1>6, <1>7, <1>8, <1>10, <1>11, <1>12, <1>13, GapPost, GapHandleSub
     DEF Next, HubStep, ClientStep

Gaps == \A x \in Devices : Gapless(x)

\* A subscription leaves no gap between what it replays and what is pushed from then on,
\* whatever the hub and the client do in between and however much is replayed (subscribe,
\* post).
THEOREM NothingMissed == Spec => []NoGap
<1>1. Init => Gaps
  BY DEF Init, Gaps, Gapless, Attached
<1>2. TypeInv /\ Gaps /\ [Next]_vars => Gaps'
  BY GapNext DEF Gaps
<1>3. Gaps => NoGap
  BY GaplessIs DEF Gaps
<1>. QED  BY <1>1, <1>2, <1>3, Always, PTL DEF Spec

-----------------------------------------------------------------------------
(***************************************************************************)
(* How far the member has read                                             *)
(***************************************************************************)
\* One device's part of ReadHeard.
Heard(x, n) ==
  \/ n <= readAt[x] \/ n <= lastRead[x]
  \/ \E f \in Range(toClient[x]) : f.t = "read" /\ n <= f.n
Hears(x) == up[x] => Heard(x, read)

LEMMA HearsIs ==
  ASSUME TypeInv, \A x \in Devices : Hears(x)
  PROVE  ReadHeard
<1>1. ASSUME NEW x \in Devices, up[x]
      PROVE  read <= Max({readAt[x], lastRead[x]} \cup ReadsComing(x))
  <2>1. PICK S : S = {readAt[x], lastRead[x]} \cup ReadsComing(x)
    OBVIOUS
  <2>2. MaxMsgs \in Nat /\ readAt[x] \in 0 .. MaxMsgs /\ lastRead[x] \in 0 .. MaxMsgs
        /\ read \in 0 .. MaxMsgs
    BY Constants DEF TypeInv, TypeOK
  <2>3. toClient[x] \in Seq(Frame)
    BY DEF TypeInv, TypeOK
  <2>4. \A i \in DOMAIN toClient[x] : toClient[x][i] \in Frame
    BY <2>3, LenProperties, ElementOfSeq
  <2>5. ReadsComing(x) \subseteq 0 .. MaxMsgs
    <3>1. \A i \in DOMAIN toClient[x] : toClient[x][i].n \in 0 .. MaxMsgs
      BY <2>4 DEF Frame
    <3>. QED  BY <3>1 DEF ReadsComing, InFlight
  <2>6. S \in SUBSET Nat /\ S # {} /\ \A n \in S : n <= MaxMsgs
    BY <2>1, <2>2, <2>5
  <2>7. Max(S) \in Nat /\ \A n \in S : n <= Max(S)
    BY <2>2, <2>6, MaxIs
  <2>8. PICK n \in S : read <= n
    <3>1. Heard(x, read)
      BY <1>1 DEF Hears
    <3>2. CASE read <= readAt[x] \/ read <= lastRead[x]
      BY <2>1, <3>2
    <3>3. ASSUME NEW f \in Range(toClient[x]), f.t = "read", read <= f.n
          PROVE  \E n \in S : read <= n
      <4>1. PICK i \in DOMAIN toClient[x] : f = toClient[x][i]
        BY <3>3 DEF Range
      <4>2. i \in InFlight(x, "read")
        BY <3>3, <4>1 DEF InFlight
      <4>3. f.n \in ReadsComing(x)
        BY <4>1, <4>2 DEF ReadsComing
      <4>. QED  BY <2>1, <3>3, <4>3
    <3>. QED  BY <3>1, <3>2, <3>3 DEF Heard
  <2>9. n <= Max(S) /\ n \in Nat
    BY <2>6, <2>7
  <2>10. read <= Max(S)
    BY <2>2, <2>7, <2>8, <2>9
  <2>. QED  BY <2>1, <2>10
<1>. QED  BY <1>1 DEF ReadHeard

\* A device keeps its part if it forgets nothing it was told.
LEMMA HearsStays ==
  ASSUME TypeInv, NEW x \in Devices, Hears(x), up'[x] => up[x], read' = read,
         up'[x] => readAt'[x] = readAt[x] /\ lastRead[x] <= lastRead'[x],
         lastRead'[x] \in Nat,
         \A f \in Range(toClient[x]) :
           up'[x] /\ f.t = "read" => f \in Range(toClient'[x]) \/ f.n <= lastRead'[x]
  PROVE  Hears(x)'
<1>1. SUFFICES ASSUME up'[x]
               PROVE  Heard(x, read)'
  BY DEF Hears
<1>2. Heard(x, read)
  BY <1>1 DEF Hears
<1>3. read \in Nat /\ lastRead[x] \in Nat /\ MaxMsgs \in Nat
  BY Constants DEF TypeInv, TypeOK
<1>4. CASE read <= readAt[x]
  BY <1>1, <1>4 DEF Heard
<1>5. CASE read <= lastRead[x]
  <2>1. read <= lastRead'[x]
    BY <1>1, <1>3, <1>5
  <2>. QED  BY <2>1 DEF Heard
<1>6. ASSUME NEW f \in Range(toClient[x]), f.t = "read", read <= f.n
      PROVE  Heard(x, read)'
  <2>1. f.n \in Nat
    <3>1. toClient[x] \in Seq(Frame)
      BY DEF TypeInv, TypeOK
    <3>2. \A i \in DOMAIN toClient[x] : toClient[x][i] \in Frame
      BY <3>1, LenProperties, ElementOfSeq
    <3>3. f \in Frame
      BY <1>6, <3>2 DEF Range
    <3>. QED  BY <3>3, Constants DEF Frame
  <2>2. CASE f \in Range(toClient'[x])
    BY <1>6, <2>2 DEF Heard
  <2>3. CASE f.n <= lastRead'[x]
    <3>1. read <= lastRead'[x]
      BY <1>3, <1>6, <2>1, <2>3
    <3>. QED  BY <3>1 DEF Heard
  <2>. QED  BY <1>1, <1>6, <2>2, <2>3
<1>. QED  BY <1>2, <1>4, <1>5, <1>6 DEF Heard

LEMMA HearsGrows ==
  ASSUME TypeInv, NEW x \in Devices, Hears(x), NEW S, NEW s, Grows(S, s),
         up'[x] => up[x], read' = read, lastRead' = lastRead, up'[x] => readAt'[x] = readAt[x]
  PROVE  Hears(x)'
<1>1. Range(toClient[x]) \subseteq Range(toClient'[x])
  BY GrowsRange
<1>2. lastRead[x] \in Nat
  BY ClientIs
<1>3. lastRead'[x] \in Nat /\ lastRead[x] <= lastRead'[x]
  BY <1>2
<1>4. \A f \in Range(toClient[x]) :
        up'[x] /\ f.t = "read" => f \in Range(toClient'[x]) \/ f.n <= lastRead'[x]
  BY <1>1
<1>. QED  BY <1>3, <1>4, HearsStays

\* It is told of what the hub has just taken note of, unless it told the hub.
LEMMA HearsRecord ==
  ASSUME TypeInv, NEW x \in Devices, NEW n \in 0 .. MaxMsgs, NEW e, Record(n, e),
         UNCHANGED <<up, lastRead, readAt>>, x = e => n <= lastRead[x]
  PROVE  Hears(x)'
<1>1. PICK f : f = Info("read", n)
  OBVIOUS
<1>2. f.t = "read" /\ f.n = n
  BY <1>1 DEF Info
<1>3. PICK s : s = <<f>>
  OBVIOUS
<1>4. Grows({y \in Devices : up[y] /\ y # e}, s) /\ f \in Range(s)
  BY <1>1, <1>3, RecordGrows, RangeOne, Constants DEF TypeInv, TypeOK
<1>5. read' = n
  BY DEF Record
<1>6. CASE x = e
  BY <1>5, <1>6 DEF Hears, Heard
<1>7. CASE x # e /\ up[x]
  <2>1. f \in Range(toClient'[x])
    BY <1>4, <1>7, GrowsRange
  <2>2. n <= f.n
    BY <1>2, Constants
  <2>. QED  BY <1>2, <1>5, <2>1, <2>2 DEF Hears, Heard
<1>8. CASE ~up[x]
  BY <1>8 DEF Hears
<1>. QED  BY <1>6, <1>7, <1>8

LEMMA HearsNext ==
  ASSUME TypeInv, [Next]_vars, NEW x \in Devices, Hears(x)
  PROVE  Hears(x)'
<1>0. TypeInv'
  BY InvNext
<1>1. lastRead[x] \in Nat /\ lastRead'[x] \in Nat
  <2>1. lastRead \in [Devices -> 0 .. MaxMsgs] /\ lastRead' \in [Devices -> 0 .. MaxMsgs]
    BY <1>0 DEF TypeInv, TypeOK
  <2>. QED  BY <2>1, Constants
<1>2. CASE Post
  <2>1. PICK s : s = <<MsgFrame(last + 1, FALSE)>>
    OBVIOUS
  <2>2. Grows({y \in Devices : Attached(y)}, s)
    BY <1>2, <2>1, PostGrows
  <2>. QED  BY <1>2, <2>2, HearsGrows DEF Post, chanVars, history
<1>3. ASSUME NEW M \in SUBSET Ids, Delete(M)
      PROVE  Hears(x)'
  <2>1. PICK s : s = <<Gone(M, FALSE)>>
    OBVIOUS
  <2>2. Grows({y \in Devices : Attached(y)}, s)
    BY <1>3, <2>1, DeleteGrows
  <2>. QED  BY <1>3, <2>2, HearsGrows DEF Delete, chanVars
<1>4. ASSUME NEW n \in Ids, ReadElsewhere(n)
      PROVE  Hears(x)'
  <2>1. n \in 0 .. MaxMsgs /\ x # Elsewhere
    BY Constants DEF Ids
  <2>. QED  BY <1>4, <2>1, HearsRecord DEF ReadElsewhere, chanVars, history
<1>5. ASSUME NEW d \in Devices, HandleRead(d)
      PROVE  Hears(x)'
  <2>1. PICK n : n = Head(toHub[d]).n
    OBVIOUS
  <2>2. n \in 0 .. MaxMsgs /\ n <= lastRead[d]
    BY <1>5, <2>1, RequestIs DEF HandleRead
  <2>3. UNCHANGED <<up, lastRead, readAt>>
    BY <1>5 DEF HandleRead, chanVars, history
  <2>4. Record(n, d) \/ (read' = read /\ toClient' = toClient)
    BY <1>5, <2>1 DEF HandleRead
  <2>5. CASE read' = read /\ toClient' = toClient
    BY <1>1, <2>3, <2>5, HearsStays
  <2>. QED  BY <2>2, <2>3, <2>4, <2>5, HearsRecord
<1>6. ASSUME NEW d \in Devices, HandleSub(d)
      PROVE  Hears(x)'
  <2>1. PICK s : s = Reply(Head(toHub[d]).n)
    OBVIOUS
  <2>2. Grows({d}, s)
    BY <1>6, <2>1, HandleSubGrows
  <2>. QED  BY <1>6, <2>2, HearsGrows DEF HandleSub, hubVars, chanVars
<1>7. ASSUME NEW d \in Devices, Connect(d)
      PROVE  Hears(x)'
  <2>1. CASE x = d
    <3>1. readAt'[x] = read /\ read' = read /\ read \in Nat
      BY <1>7, <2>1, Constants DEF Connect, hubVars, TypeInv, TypeOK
    <3>. QED  BY <3>1 DEF Hears, Heard
  <2>2. CASE x # d
    <3>1. PICK s : s = <<Info("ok", Newest)>>
      OBVIOUS
    <3>2. Grows({d}, s)
      BY <1>7, <3>1, ConnectGrows
    <3>3. up'[x] = up[x] /\ read' = read /\ lastRead' = lastRead /\ readAt'[x] = readAt[x]
      BY <1>7, <2>2 DEF Connect, hubVars, chanVars, TypeInv, TypeOK
    <3>. QED  BY <3>2, <3>3, HearsGrows
  <2>. QED  BY <2>1, <2>2
<1>8. ASSUME NEW d \in Devices, NEW n, Drop(d, n)
      PROVE  Hears(x)'
  <2>1. CASE x = d
    <3>1. ~up'[x]
      BY <1>8, <2>1 DEF Drop, TypeInv, TypeOK
    <3>. QED  BY <3>1 DEF Hears
  <2>2. CASE x # d
    <3>1. /\ up'[x] = up[x] /\ read' = read /\ lastRead' = lastRead /\ readAt'[x] = readAt[x]
          /\ toClient'[x] = toClient[x]
      BY <1>8, <2>2 DEF Drop, hubVars, chanVars, TypeInv, TypeOK
    <3>. QED  BY <1>1, <3>1, HearsStays
  <2>. QED  BY <2>1, <2>2
<1>9. ASSUME NEW d \in Devices, Reopen(d)
      PROVE  Hears(x)'
  <2>1. CASE x = d
    <3>1. ~up'[x]
      BY <1>9, <2>1 DEF Reopen
    <3>. QED  BY <3>1 DEF Hears
  <2>2. CASE x # d
    <3>1. /\ up' = up /\ read' = read /\ lastRead'[x] = lastRead[x] /\ readAt' = readAt
          /\ toClient'[x] = toClient[x]
      BY <1>9, <2>2 DEF Reopen, hubVars, TypeInv, TypeOK
    <3>. QED  BY <1>1, <3>1, HearsStays
  <2>. QED  BY <2>1, <2>2
<1>10. ASSUME NEW d \in Devices, Flush(d) \/ Look(d)
       PROVE  Hears(x)'
  <2>1. UNCHANGED <<hubVars, up, toClient, history>>
    BY <1>10 DEF Flush, Look
  <2>2. lastRead[x] <= lastRead'[x]
    <3>1. CASE lastRead' = lastRead
      BY <1>1, <3>1
    <3>2. CASE Look(d) /\ MarkRead(d, lastID[d])
      BY <1>1, <3>2, ClientIs, MarkReadIs
    <3>. QED  BY <1>10, <3>1, <3>2 DEF Flush, Look
  <2>. QED  BY <1>1, <2>1, <2>2, HearsStays DEF hubVars, history
<1>11. ASSUME NEW d \in Devices, NEW t, Handles(d, t), lastRead[x] <= lastRead'[x],
              t = "read" /\ x = d => Head(toClient[d]).n <= lastRead'[x]
       PROVE  Hears(x)'
  <2>1. Takes(d) /\ UNCHANGED <<hubVars, up, subbed, history>> /\ Head(toClient[d]).t = t
    BY <1>11, HandlesGives
  <2>2. \A f \in Range(toClient[x]) :
          f \in Range(toClient'[x]) \/ (x = d /\ f = Head(toClient[d]))
    BY <2>1, TakesRange
  <2>3. \A f \in Range(toClient[x]) :
          up'[x] /\ f.t = "read" => f \in Range(toClient'[x]) \/ f.n <= lastRead'[x]
    BY <1>11, <2>1, <2>2
  <2>4. read' = read /\ readAt' = readAt /\ up' = up
    BY <2>1 DEF hubVars, history
  <2>. QED  BY <1>1, <1>11, <2>3, <2>4, HearsStays
<1>12. ASSUME NEW d \in Devices, OnOK(d) \/ OnGone(d)
       PROVE  Hears(x)'
  <2>1. lastRead[x] <= lastRead'[x]
    BY <1>1, <1>12 DEF OnOK, OnGone
  <2>2. "ok" # "read" /\ "gone" # "read"
    OBVIOUS
  <2>. QED  BY <1>11, <1>12, <2>1, <2>2 DEF OnOK, OnGone
<1>13. ASSUME NEW d \in Devices, OnMsg(d)
       PROVE  Hears(x)'
  <2>1. PICK n : n = Larger(lastID[d], Head(toClient[d]).n)
    OBVIOUS
  <2>2. lastRead[x] <= lastRead'[x]
    <3>1. MarkRead(d, n) \/ lastRead' = lastRead
      BY <1>13, <2>1 DEF OnMsg
    <3>2. CASE lastRead' = lastRead
      BY <1>1, <3>2
    <3>3. CASE MarkRead(d, n)
      <4>1. CASE n > lastRead[d]
        <5>1. lastRead' = [lastRead EXCEPT ![d] = n]
          BY <3>3, <4>1 DEF MarkRead
        <5>. QED  BY <1>1, <4>1, <5>1, ClientIs
      <4>2. CASE ~(n > lastRead[d])
        BY <1>1, <3>3, <4>2 DEF MarkRead
      <4>. QED  BY <4>1, <4>2
    <3>. QED  BY <3>1, <3>2, <3>3
  <2>3. "msg" # "read" /\ Handles(d, "msg")
    BY <1>13 DEF OnMsg
  <2>. QED  BY <1>11, <2>2, <2>3
<1>14. ASSUME NEW d \in Devices, OnSynced(d)
       PROVE  Hears(x)'
  <2>1. PICK n : n = Larger(lastID[d], Head(toClient[d]).n)
    OBVIOUS
  <2>2. Head(toClient[d]).n \in Nat /\ lastID[d] \in Nat /\ lastRead[d] \in Nat
    BY <1>14, HandlesGives, ClientIs, Constants DEF OnSynced
  <2>3. PICK b : b = Larger(lastRead[d], n)
    OBVIOUS
  <2>4. n \in Nat
    BY <2>1, <2>2, LargerIs
  <2>5. lastRead[d] <= b /\ b \in Nat
    BY <2>2, <2>3, <2>4, LargerIs
  <2>6. lastRead' = lastRead \/ lastRead' = [lastRead EXCEPT ![d] = b]
    BY <1>14, <2>1, <2>3 DEF OnSynced
  <2>7. lastRead[x] <= lastRead'[x]
    <3>1. CASE lastRead' = lastRead
      BY <1>1, <3>1
    <3>2. CASE lastRead' = [lastRead EXCEPT ![d] = b]
      BY <1>1, <2>5, <3>2, ClientIs
    <3>. QED  BY <2>6, <3>1, <3>2
  <2>8. "synced" # "read" /\ Handles(d, "synced")
    BY <1>14 DEF OnSynced
  <2>. QED  BY <1>11, <2>7, <2>8
<1>15. ASSUME NEW d \in Devices, OnRead(d)
       PROVE  Hears(x)'
  <2>1. PICK f : f = Head(toClient[d])
    OBVIOUS
  <2>2. f.n \in Nat /\ lastRead[d] \in Nat
    BY <1>15, <2>1, HandlesGives, ClientIs, Constants DEF OnRead
  <2>3. PICK b : b = Larger(lastRead[d], f.n)
    OBVIOUS
  <2>4. lastRead[d] <= b /\ f.n <= b /\ b \in Nat
    BY <2>2, <2>3, LargerIs
  <2>5. lastRead' = [lastRead EXCEPT ![d] = b] /\ Handles(d, "read")
    BY <1>15, <2>1, <2>3 DEF OnRead
  <2>6. lastRead[x] <= lastRead'[x]
    BY <1>1, <2>4, <2>5, ClientIs
  <2>7. x = d => f.n <= lastRead'[x]
    BY <2>4, <2>5, ClientIs
  <2>. QED  BY <1>11, <2>1, <2>5, <2>6, <2>7
<1>16. CASE UNCHANGED vars
  BY <1>1, <1>16, HearsStays DEF vars, hubVars, chanVars, history
<1>. QED
  BY <1>2, <1>3, <1>4, <1>5, <1>6, <1>7, <1>8, <1>9, <1>10, <1>12, <1>13, <1>14, <1>15, <1>16
     DEF Next, HubStep, ClientStep

HearsAll == \A x \in Devices : Hears(x)

\* A device that is connected has marked what its member read on another one, or will:
\* the news was sent to every session at that time and none of it is lost (handleRead,
\* toUser; read and applyRead of the client).
THEOREM ReadsAreHeard == Spec => []ReadHeard
<1>1. Init => HearsAll
  BY DEF Init, HearsAll, Hears
<1>2. TypeInv /\ HearsAll /\ [Next]_vars => HearsAll'
  BY HearsNext DEF HearsAll
<1>3. TypeInv /\ HearsAll => ReadHeard
  BY HearsIs DEF HearsAll
<1>. QED  BY <1>1, <1>2, <1>3, Always, PTL DEF Spec

-----------------------------------------------------------------------------
(***************************************************************************)
(* Messages that are shown though they were removed                        *)
(***************************************************************************)
\* A message of the channel, or one whose removal the device was not or will be told of,
\* by a frame that comes after the i-th.
Tells(f, m) == f.t = "gone" /\ m \in f.ids
Known(x, m) == m \in live \cup unheard[x]
ToldAfter(x, i, m) == Known(x, m) \/ \E j \in DOMAIN toClient[x] : i < j /\ Tells(toClient[x][j], m)

\* Of what is shown, and of what will be: one device's part of NoGhost, strengthened.
AllTold(x) ==
  /\ \A m \in view[x] : ToldAfter(x, 0, m)
  /\ \A i \in DOMAIN toClient[x] :
       toClient[x][i].t = "msg" => ToldAfter(x, i, toClient[x][i].n)

LEMMA ToldIs ==
  ASSUME \A x \in Devices : AllTold(x)
  PROVE  NoGhost
<1>1. ASSUME NEW x \in Devices, NEW m \in view[x], m \notin live
      PROVE  m \in GoneComing(x) \cup unheard[x]
  <2>1. ToldAfter(x, 0, m)
    BY DEF AllTold
  <2>2. CASE m \in unheard[x]
    BY <2>2
  <2>3. ASSUME NEW j \in DOMAIN toClient[x], Tells(toClient[x][j], m)
        PROVE  m \in GoneComing(x)
    <3>1. j \in InFlight(x, "gone") /\ m \in toClient[x][j].ids
      BY <2>3 DEF InFlight, Tells
    <3>. QED  BY <3>1 DEF GoneComing
  <2>. QED  BY <1>1, <2>1, <2>2, <2>3 DEF ToldAfter, Known
<1>. QED  BY <1>1 DEF NoGhost

\* The queue of a device, and the messages it shows or will.
LEMMA QueueIs ==
  ASSUME TypeInv, NEW x \in Devices
  PROVE  /\ toClient[x] \in Seq(Frame) /\ Len(toClient[x]) \in Nat
         /\ DOMAIN toClient[x] = 1 .. Len(toClient[x])
         /\ \A i \in DOMAIN toClient[x] :
              toClient[x][i].t = "msg" => toClient[x][i].n \in 1 .. last
         /\ view[x] \subseteq 1 .. last
<1>1. toClient[x] \in Seq(Frame)
  BY DEF TypeInv, TypeOK
<1>2. DOMAIN toClient[x] = 1 .. Len(toClient[x]) /\ Len(toClient[x]) \in Nat
  BY <1>1, LenProperties
<1>3. ASSUME NEW i \in DOMAIN toClient[x], toClient[x][i].t = "msg"
      PROVE  toClient[x][i].n \in 1 .. last
  <2>1. PICK f : f = toClient[x][i]
    OBVIOUS
  <2>2. f \in Range(toClient[x])
    BY <2>1 DEF Range
  <2>3. GoodFrame(f)
    BY <2>2 DEF TypeInv, FramesGood
  <2>. QED  BY <1>3, <2>1, <2>3 DEF GoodFrame
<1>. QED  BY <1>1, <1>2, <1>3, ClientIs

LEMMA ToldGrows ==
  ASSUME TypeInv, NEW x \in Devices, AllTold(x), NEW S, NEW s, Grows(S, s), view' = view,
         \A m \in 1 .. last : Known(x, m) =>
           Known(x, m)' \/ (x \in S /\ \E k \in DOMAIN s : Tells(s[k], m)),
         x \in S => \A k \in DOMAIN s : s[k].t = "msg" => s[k].n \in live'
  PROVE  AllTold(x)'
<1>1. PICK q, r : q = toClient[x] /\ r = toClient'[x]
  OBVIOUS
<1>2. /\ q \in Seq(Frame) /\ s \in Seq(Frame) /\ Len(q) \in Nat
      /\ DOMAIN q = 1 .. Len(q)
      /\ r = IF x \in S THEN q \o s ELSE q
  BY <1>1, QueueIs DEF Grows
<1>3. x \in S =>
        /\ Len(s) \in Nat /\ DOMAIN s = 1 .. Len(s) /\ DOMAIN r = 1 .. Len(q) + Len(s)
        /\ \A i \in 1 .. Len(s) : r[Len(q) + i] = s[i]
  BY <1>2, GrownProperties
<1>4. \A i \in DOMAIN q : i \in DOMAIN r /\ r[i] = q[i]
  <2>1. CASE x \in S
    <3>1. r = q \o s
      BY <1>2, <2>1
    <3>2. /\ \A i \in 1 .. Len(q) : (q \o s)[i] = q[i]
          /\ DOMAIN (q \o s) = 1 .. Len(q) + Len(s) /\ Len(s) \in Nat
      BY <1>2, GrownProperties
    <3>3. \A i \in 1 .. Len(q) : i \in 1 .. Len(q) + Len(s)
      BY <1>2, <3>2
    <3>. QED  BY <1>2, <3>1, <3>2, <3>3
  <2>2. CASE x \notin S
    BY <1>2, <2>2
  <2>. QED  BY <2>1, <2>2
<1>5. ASSUME NEW i \in 0 .. Len(q), NEW m \in 1 .. last, ToldAfter(x, i, m)
      PROVE  ToldAfter(x, i, m)'
  <2>1. CASE Known(x, m)'
    BY <2>1 DEF ToldAfter
  <2>2. ASSUME x \in S, NEW k \in DOMAIN s, Tells(s[k], m)
        PROVE  ToldAfter(x, i, m)'
    <3>1. Len(q) + k \in DOMAIN r /\ r[Len(q) + k] = s[k] /\ i < Len(q) + k
      BY <1>2, <1>3, <2>2
    <3>2. PICK j : j = Len(q) + k
      OBVIOUS
    <3>3. j \in DOMAIN toClient'[x] /\ i < j /\ Tells(toClient'[x][j], m)
      BY <1>1, <2>2, <3>1, <3>2
    <3>. QED  BY <3>3 DEF ToldAfter, Tells
  <2>3. ASSUME NEW j \in DOMAIN toClient[x], i < j, Tells(toClient[x][j], m)
        PROVE  ToldAfter(x, i, m)'
    <3>1. j \in DOMAIN toClient'[x] /\ toClient'[x][j] = toClient[x][j]
      BY <1>1, <1>4
    <3>. QED  BY <2>3, <3>1 DEF ToldAfter, Tells
  <2>. QED  BY <1>5, <2>1, <2>2, <2>3 DEF ToldAfter
<1>6. ASSUME NEW m \in view'[x]
      PROVE  ToldAfter(x, 0, m)'
  <2>1. m \in view[x] /\ m \in 1 .. last /\ 0 \in 0 .. Len(q)
    BY <1>2, <1>6, QueueIs
  <2>2. ToldAfter(x, 0, m)
    BY <2>1 DEF AllTold
  <2>. QED  BY <1>5, <2>1, <2>2
<1>7. ASSUME NEW i \in DOMAIN r, r[i].t = "msg"
      PROVE  ToldAfter(x, i, r[i].n)'
  <2>1. CASE i \in DOMAIN q
    <3>1. r[i] = q[i] /\ i \in 0 .. Len(q)
      BY <1>2, <1>4, <2>1
    <3>2. PICK m : m = q[i].n
      OBVIOUS
    <3>3. m \in 1 .. last /\ ToldAfter(x, i, m)
      BY <1>1, <1>7, <2>1, <3>1, <3>2, QueueIs DEF AllTold
    <3>. QED  BY <1>5, <3>1, <3>2, <3>3
  <2>2. CASE i \notin DOMAIN q
    <3>1. x \in S
      BY <1>2, <1>7, <2>2
    <3>2. i - Len(q) \in 1 .. Len(s) /\ Len(q) + (i - Len(q)) = i
      BY <1>2, <1>3, <2>2, <3>1
    <3>3. r[i] = s[i - Len(q)] /\ i - Len(q) \in DOMAIN s
      BY <1>3, <3>1, <3>2
    <3>4. PICK m : m = r[i].n
      OBVIOUS
    <3>5. m \in live'
      BY <1>7, <3>1, <3>3, <3>4
    <3>. QED  BY <3>4, <3>5 DEF ToldAfter, Known
  <2>. QED  BY <2>1, <2>2
<1>. QED  BY <1>1, <1>6, <1>7 DEF AllTold

LEMMA ToldTakes ==
  ASSUME TypeInv, NEW d \in Devices, AllTold(d), Takes(d), live' = live, unheard' = unheard,
         NEW f, f = Head(toClient[d]),
         \A m \in view'[d] : (m \in view[d] /\ ~Tells(f, m)) \/ (f.t = "msg" /\ m = f.n)
  PROVE  AllTold(d)'
<1>1. PICK q, r : q = toClient[d] /\ r = toClient'[d]
  OBVIOUS
<1>2. q \in Seq(Frame) /\ q # <<>> /\ r = Tail(q)
  BY <1>1, QueueIs DEF Takes
<1>3. /\ DOMAIN q = 1 .. Len(q) /\ Len(q) \in Nat /\ Len(q) >= 1 /\ f = q[1]
      /\ DOMAIN r = 1 .. Len(q) - 1
      /\ \A i \in 1 .. Len(q) - 1 : r[i] = q[i + 1]
  BY <1>1, <1>2, RangeTail
\* A frame but the first moves up by one.
<1>4. ASSUME NEW i \in Nat, NEW m, ToldAfter(d, i + 1, m)
      PROVE  ToldAfter(d, i, m)'
  <2>1. CASE Known(d, m)
    BY <2>1 DEF ToldAfter, Known
  <2>2. ASSUME NEW j \in DOMAIN q, i + 1 < j, Tells(q[j], m)
        PROVE  ToldAfter(d, i, m)'
    <3>1. j - 1 \in DOMAIN r /\ r[j - 1] = q[j] /\ i < j - 1
      <4>1. j - 1 \in 1 .. Len(q) - 1 /\ (j - 1) + 1 = j /\ i < j - 1
        BY <1>3, <2>2
      <4>. QED  BY <1>3, <4>1
    <3>2. PICK k : k = j - 1
      OBVIOUS
    <3>3. k \in DOMAIN toClient'[d] /\ i < k /\ Tells(toClient'[d][k], m)
      BY <1>1, <2>2, <3>1, <3>2
    <3>. QED  BY <3>3 DEF ToldAfter, Tells
  <2>. QED  BY <1>1, <1>4, <2>1, <2>2 DEF ToldAfter
<1>5. ASSUME NEW m \in view'[d]
      PROVE  ToldAfter(d, 0, m)'
  <2>1. ToldAfter(d, 1, m) => ToldAfter(d, 0, m)'
    <3>1. 0 \in Nat /\ 0 + 1 = 1
      OBVIOUS
    <3>. QED  BY <1>4, <3>1
  <2>2. CASE m \in view[d] /\ ~Tells(f, m)
    <3>1. ToldAfter(d, 0, m)
      BY <2>2 DEF AllTold
    <3>2. ASSUME NEW j \in DOMAIN q, 0 < j, Tells(q[j], m)
          PROVE  1 < j
      BY <1>3, <2>2, <3>2
    <3>3. ToldAfter(d, 1, m)
      BY <1>1, <3>1, <3>2 DEF ToldAfter
    <3>. QED  BY <2>1, <3>3
  <2>3. CASE f.t = "msg" /\ m = f.n
    <3>1. 1 \in DOMAIN q
      BY <1>3
    <3>2. ToldAfter(d, 1, m)
      BY <1>1, <1>3, <2>3, <3>1 DEF AllTold
    <3>. QED  BY <2>1, <3>2
  <2>. QED  BY <1>5, <2>2, <2>3
<1>6. ASSUME NEW i \in DOMAIN r, r[i].t = "msg"
      PROVE  ToldAfter(d, i, r[i].n)'
  <2>1. i \in Nat /\ i + 1 \in DOMAIN q /\ r[i] = q[i + 1]
    BY <1>3
  <2>2. PICK m : m = r[i].n
    OBVIOUS
  <2>3. PICK k : k = i + 1
    OBVIOUS
  <2>4. ToldAfter(d, k, m)
    BY <1>1, <1>6, <2>1, <2>2, <2>3 DEF AllTold
  <2>. QED  BY <1>4, <2>1, <2>2, <2>3, <2>4
<1>. QED  BY <1>1, <1>5, <1>6 DEF AllTold

\* The removals among the frames that are lost are not heard of.
LEMMA ToldCut ==
  ASSUME TypeInv, NEW d \in Devices, AllTold(d), NEW n, Drop(d, n)
  PROVE  AllTold(d)'
<1>1. PICK q, r : q = toClient[d] /\ r = toClient'[d]
  OBVIOUS
<1>2. Cuts(d, n)
  BY DropCuts DEF TypeInv, TypeOK
<1>3. n \in 0 .. Len(q) /\ q \in Seq(Frame) /\ r = SubSeq(q, 1, n)
  BY <1>1, <1>2, QueueIs DEF Cuts
<1>4. /\ DOMAIN q = 1 .. Len(q) /\ Len(q) \in Nat
      /\ DOMAIN r = 1 .. n /\ \A i \in 1 .. n : r[i] = q[i]
  BY <1>3, RangeCut
<1>5. PICK p : p = SubSeq(q, n + 1, Len(q))
  OBVIOUS
<1>6. unheard'[d] = unheard[d] \cup Untold(p) /\ live' = live /\ view' = view
  BY <1>1, <1>5 DEF Drop, hubVars, chanVars, TypeInv, TypeOK
<1>7. ASSUME NEW j \in DOMAIN q, ~(j \in DOMAIN r), NEW m, Tells(q[j], m)
      PROVE  m \in unheard'[d]
  <2>1. n \in Nat /\ j \in (n + 1) .. Len(q) /\ n + 1 \in 1 .. Len(q) + 1
    BY <1>3, <1>4, <1>7
  <2>2. \A i \in (n + 1) .. Len(q) : q[i] \in Frame
    BY <1>3, <1>4, <2>1, ElementOfSeq
  <2>3. /\ Len(p) = Len(q) - n /\ p \in Seq(Frame)
        /\ \A i \in 1 .. Len(q) - n : p[i] = q[n + i]
    <3>1. /\ SubSeq(q, n + 1, Len(q)) \in Seq(Frame)
          /\ Len(SubSeq(q, n + 1, Len(q))) =
               IF n + 1 <= Len(q) THEN Len(q) - (n + 1) + 1 ELSE 0
          /\ \A i \in 1 .. Len(q) - (n + 1) + 1 :
               SubSeq(q, n + 1, Len(q))[i] = q[(n + 1) + i - 1]
      BY <1>3, <1>4, <2>1, <2>2, SubSeqProperties
    <3>2. \A i \in 1 .. Len(q) - n : (n + 1) + i - 1 = n + i
      BY <2>1
    <3>3. Len(q) - (n + 1) + 1 = Len(q) - n /\ n + 1 <= Len(q)
      BY <1>4, <2>1
    <3>. QED  BY <1>5, <3>1, <3>2, <3>3
  <2>4. j - n \in 1 .. Len(q) - n /\ n + (j - n) = j
    BY <1>4, <2>1
  <2>5. p[j - n] = q[j] /\ j - n \in DOMAIN p
    BY <2>3, <2>4, LenProperties
  <2>6. PICK k : k = j - n
    OBVIOUS
  <2>7. m \in p[k].ids /\ k \in DOMAIN p
    BY <1>7, <2>5, <2>6 DEF Tells
  <2>8. m \in Untold(p)
    BY <2>7 DEF Untold
  <2>. QED  BY <1>6, <2>8
<1>8. ASSUME NEW i \in 0 .. n, NEW m, ToldAfter(d, i, m)
      PROVE  ToldAfter(d, i, m)'
  <2>1. CASE Known(d, m)
    BY <1>6, <2>1 DEF ToldAfter, Known
  <2>2. ASSUME NEW j \in DOMAIN q, i < j, Tells(q[j], m)
        PROVE  ToldAfter(d, i, m)'
    <3>1. CASE j \in DOMAIN r
      <4>1. r[j] = q[j]
        BY <1>4, <3>1
      <4>2. j \in DOMAIN toClient'[d] /\ Tells(toClient'[d][j], m)
        BY <1>1, <2>2, <3>1, <4>1
      <4>. QED  BY <2>2, <4>2 DEF ToldAfter, Tells
    <3>2. CASE ~(j \in DOMAIN r)
      <4>1. m \in unheard'[d]
        BY <1>7, <2>2, <3>2
      <4>. QED  BY <4>1 DEF ToldAfter, Known
    <3>. QED  BY <3>1, <3>2
  <2>. QED  BY <1>1, <1>8, <2>1, <2>2 DEF ToldAfter
<1>9. ASSUME NEW m \in view'[d]
      PROVE  ToldAfter(d, 0, m)'
  <2>1. ToldAfter(d, 0, m)
    BY <1>6 DEF AllTold
  <2>2. 0 \in 0 .. n
    BY <1>3, <1>4
  <2>. QED  BY <1>8, <2>1, <2>2
<1>10. ASSUME NEW i \in DOMAIN r, r[i].t = "msg"
       PROVE  ToldAfter(d, i, r[i].n)'
  <2>1. r[i] = q[i] /\ i \in DOMAIN q /\ i \in 0 .. n
    BY <1>3, <1>4
  <2>2. PICK m : m = r[i].n
    OBVIOUS
  <2>3. ToldAfter(d, i, m)
    BY <1>1, <1>10, <2>1, <2>2 DEF AllTold
  <2>. QED  BY <1>8, <2>1, <2>2, <2>3
<1>. QED  BY <1>1, <1>9, <1>10 DEF AllTold

LEMMA ToldSame ==
  ASSUME NEW x \in Devices, AllTold(x), live' = live,
         UNCHANGED <<view[x], toClient[x], unheard[x]>>
  PROVE  AllTold(x)'
BY DEF AllTold, ToldAfter, Known, Tells

LEMMA OneTold ==
  ASSUME NEW f, NEW s, s = <<f>>
  PROVE  1 \in DOMAIN s /\ \A k \in DOMAIN s : s[k] = f
OBVIOUS

\* One frame is sent that shows nothing.
LEMMA ToldPushed ==
  ASSUME TypeInv, NEW x \in Devices, AllTold(x), NEW S, NEW f, Grows(S, <<f>>), f.t # "msg",
         view' = view, live' = live, unheard'[x] = unheard[x]
  PROVE  AllTold(x)'
<1>1. PICK s : s = <<f>>
  OBVIOUS
<1>2. Grows(S, s) /\ \A k \in DOMAIN s : s[k] = f
  BY <1>1, OneTold
<1>3. \A m \in 1 .. last : Known(x, m) => Known(x, m)'
  BY DEF Known
<1>4. \A k \in DOMAIN s : ~(s[k].t = "msg")
  BY <1>2
<1>. QED  BY <1>2, <1>3, <1>4, ToldGrows

LEMMA ToldPost ==
  ASSUME TypeInv, Post, NEW x \in Devices, AllTold(x)
  PROVE  AllTold(x)'
<1>1. PICK f : f = MsgFrame(last + 1, FALSE)
  OBVIOUS
<1>2. PICK s : s = <<f>>
  OBVIOUS
<1>3. Grows({y \in Devices : Attached(y)}, s) /\ \A k \in DOMAIN s : s[k] = f
  BY <1>1, <1>2, PostGrows, OneTold
<1>4. live' = live \cup {last + 1} /\ view' = view /\ unheard' = unheard
  BY DEF Post, chanVars, history
<1>5. \A m \in 1 .. last : Known(x, m) => Known(x, m)'
  BY <1>4 DEF Known
<1>6. \A k \in DOMAIN s : s[k].n \in live'
  BY <1>1, <1>3, <1>4 DEF MsgFrame
<1>. QED  BY <1>3, <1>4, <1>5, <1>6, ToldGrows

LEMMA ToldDelete ==
  ASSUME TypeInv, NEW M \in SUBSET Ids, Delete(M), NEW x \in Devices, AllTold(x)
  PROVE  AllTold(x)'
<1>1. PICK f : f = Gone(M, FALSE)
  OBVIOUS
<1>2. PICK s : s = <<f>>
  OBVIOUS
<1>3. PICK S : S = {y \in Devices : Attached(y)}
  OBVIOUS
<1>4. Grows(S, s) /\ 1 \in DOMAIN s /\ \A k \in DOMAIN s : s[k] = f
  BY <1>1, <1>2, <1>3, DeleteGrows, OneTold
<1>5. /\ live' = live \ M /\ view' = view
      /\ unheard'[x] = unheard[x] \cup IF Attached(x) THEN {} ELSE M
  BY DEF Delete, chanVars
<1>6. f.t = "gone" /\ f.ids = M
  BY <1>1 DEF Gone
<1>7. ASSUME NEW m \in 1 .. last, Known(x, m)
      PROVE  Known(x, m)' \/ (x \in S /\ \E k \in DOMAIN s : Tells(s[k], m))
  <2>1. CASE m \in live' \cup unheard'[x]
    BY <2>1 DEF Known
  <2>2. CASE m \notin live' \cup unheard'[x]
    <3>1. m \in M /\ Attached(x)
      BY <1>5, <1>7, <2>2 DEF Known
    <3>2. x \in S
      BY <1>3, <3>1
    <3>3. Tells(s[1], m)
      BY <1>4, <1>6, <3>1 DEF Tells
    <3>. QED  BY <1>4, <3>2, <3>3
  <2>. QED  BY <2>1, <2>2
<1>8. \A k \in DOMAIN s : ~(s[k].t = "msg")
  BY <1>4, <1>6
<1>. QED  BY <1>4, <1>5, <1>7, <1>8, ToldGrows

\* What a device has not heard of is replayed to it, unless it is older than that.
LEMMA ToldHandleSub ==
  ASSUME TypeInv, NEW d \in Devices, HandleSub(d), NEW x \in Devices, AllTold(x)
  PROVE  AllTold(x)'
<1>1. PICK since : since = Head(toHub[d]).n
  OBVIOUS
<1>2. PICK s : s = Reply(since)
  OBVIOUS
<1>3. Grows({d}, s) /\ since \in 0 .. MaxMsgs
  BY <1>1, <1>2, HandleSubGrows
<1>4. Range(s) = {ReplayFrame(m) : m \in Replayed(since)} \cup {Info("synced", Newest)}
  BY <1>2, <1>3, ReplyIs
<1>5. PICK b : b = Beginning(since)
  OBVIOUS
<1>6. /\ unheard' = [unheard EXCEPT ![d] = {m \in unheard[d] : m <= b}]
      /\ live' = live /\ view' = view
  BY <1>1, <1>5 DEF HandleSub, Beginning, hubVars, chanVars
<1>7. ASSUME NEW m \in 1 .. last, Known(x, m)
      PROVE  Known(x, m)' \/ (x \in {d} /\ \E k \in DOMAIN s : Tells(s[k], m))
  <2>1. CASE m \in live \/ x # d \/ m <= b
    BY <1>6, <1>7, <2>1 DEF Known, TypeInv, TypeOK
  <2>2. CASE m \notin live /\ x = d /\ ~(m <= b)
    <3>1. b \in 0 .. last /\ m \in Log /\ m > b
      <4>1. b \in 0 .. last /\ m \in Log /\ last \in Nat
        BY <1>3, <1>5, BeginningIs, LogIs
      <4>. QED  BY <2>2, <4>1
    <3>2. m \in Replayed(since)
      BY <1>3, <1>5, <3>1, BeginningIs
    <3>3. PICK f : f = ReplayFrame(m)
      OBVIOUS
    <3>4. f \in Range(s)
      BY <1>4, <3>2, <3>3
    <3>5. Tells(f, m)
      BY <2>2, <3>3 DEF ReplayFrame, Gone, Tells
    <3>6. PICK k \in DOMAIN s : f = s[k]
      BY <3>4 DEF Range
    <3>. QED  BY <2>2, <3>5, <3>6
  <2>. QED  BY <2>1, <2>2
<1>8. ASSUME NEW k \in DOMAIN s, s[k].t = "msg"
      PROVE  s[k].n \in live'
  <2>1. PICK f : f = s[k]
    OBVIOUS
  <2>2. f \in Range(s)
    BY <2>1 DEF Range
  <2>3. f # Info("synced", Newest)
    BY <1>8, <2>1 DEF Info
  <2>4. PICK m \in Replayed(since) : f = ReplayFrame(m)
    BY <1>4, <2>2, <2>3
  <2>5. m \in live /\ f.n = m
    BY <1>8, <2>1, <2>4 DEF ReplayFrame, MsgFrame, Gone
  <2>. QED  BY <1>6, <2>1, <2>5
<1>. QED  BY <1>3, <1>6, <1>7, <1>8, ToldGrows

LEMMA ToldNext ==
  ASSUME TypeInv, [Next]_vars, NEW x \in Devices, AllTold(x)
  PROVE  AllTold(x)'
<1>1. ASSUME NEW n \in 0 .. MaxMsgs, NEW e, Record(n, e),
             UNCHANGED <<live, chanVars, history>>
      PROVE  AllTold(x)'
  <2>1. PICK f : f = Info("read", n)
    OBVIOUS
  <2>2. Grows({y \in Devices : up[y] /\ y # e}, <<f>>)
    BY <1>1, <2>1, RecordGrows, Constants DEF TypeInv, TypeOK
  <2>3. f.t # "msg"
    BY <2>1 DEF Info
  <2>4. view' = view /\ live' = live /\ unheard'[x] = unheard[x]
    BY <1>1 DEF chanVars, history
  <2>. QED  BY <2>2, <2>3, <2>4, ToldPushed
<1>2. ASSUME NEW n \in Ids, ReadElsewhere(n)
      PROVE  AllTold(x)'
  <2>1. n \in 0 .. MaxMsgs
    BY Constants DEF Ids
  <2>. QED  BY <1>1, <1>2, <2>1 DEF ReadElsewhere
<1>3. ASSUME NEW d \in Devices, HandleRead(d)
      PROVE  AllTold(x)'
  <2>1. PICK n : n = Head(toHub[d]).n
    OBVIOUS
  <2>2. n \in 0 .. MaxMsgs
    BY <1>3, <2>1, RequestIs DEF HandleRead
  <2>3. UNCHANGED <<live, chanVars, history>>
    BY <1>3 DEF HandleRead
  <2>4. Record(n, d) \/ toClient' = toClient
    BY <1>3, <2>1 DEF HandleRead
  <2>5. CASE toClient' = toClient
    BY <2>3, <2>5, ToldSame DEF chanVars, history
  <2>. QED  BY <1>1, <2>2, <2>3, <2>4, <2>5
<1>4. ASSUME NEW d \in Devices, Connect(d)
      PROVE  AllTold(x)'
  <2>1. PICK f : f = Info("ok", Newest)
    OBVIOUS
  <2>2. Grows({d}, <<f>>) /\ f.t # "msg"
    BY <1>4, <2>1, ConnectGrows DEF Info
  <2>3. view' = view /\ live' = live /\ unheard'[x] = unheard[x]
    BY <1>4 DEF Connect, hubVars, chanVars
  <2>. QED  BY <2>2, <2>3, ToldPushed
<1>5. ASSUME NEW d \in Devices, NEW n, Drop(d, n)
      PROVE  AllTold(x)'
  <2>1. CASE x = d
    BY <1>5, <2>1, ToldCut
  <2>2. CASE x # d
    <3>1. live' = live /\ UNCHANGED <<view[x], toClient[x], unheard[x]>>
      BY <1>5, <2>2 DEF Drop, hubVars, chanVars, TypeInv, TypeOK
    <3>. QED  BY <3>1, ToldSame
  <2>. QED  BY <2>1, <2>2
<1>6. ASSUME NEW d \in Devices, Reopen(d)
      PROVE  AllTold(x)'
  <2>1. CASE x = d
    <3>1. view'[x] = {} /\ toClient'[x] = <<>>
      BY <1>6, <2>1 DEF Reopen, TypeInv, TypeOK
    <3>. QED  BY <3>1 DEF AllTold
  <2>2. CASE x # d
    <3>1. live' = live /\ UNCHANGED <<view[x], toClient[x], unheard[x]>>
      BY <1>6, <2>2 DEF Reopen, hubVars, TypeInv, TypeOK
    <3>. QED  BY <3>1, ToldSame
  <2>. QED  BY <2>1, <2>2
<1>7. ASSUME NEW d \in Devices, Flush(d) \/ Look(d)
      PROVE  AllTold(x)'
  <2>1. UNCHANGED <<hubVars, toClient, view, history>>
    BY <1>7 DEF Flush, Look
  <2>. QED  BY <2>1, ToldSame DEF hubVars, history
<1>8. ASSUME NEW d \in Devices, NEW t, Handles(d, t), NEW f, f = Head(toClient[d]),
             \A y \in Devices : y # d => view'[y] = view[y],
             \A m \in view'[d] : (m \in view[d] /\ ~Tells(f, m)) \/ (f.t = "msg" /\ m = f.n)
      PROVE  AllTold(x)'
  <2>1. Takes(d) /\ live' = live /\ unheard' = unheard
    BY <1>8, HandlesGives DEF hubVars, history
  <2>2. CASE x = d
    BY <1>8, <2>1, <2>2, ToldTakes
  <2>3. CASE x # d
    <3>1. toClient'[x] = toClient[x] /\ view'[x] = view[x]
      BY <1>8, <2>1, <2>3 DEF Takes
    <3>. QED  BY <2>1, <3>1, ToldSame
  <2>. QED  BY <2>2, <2>3
<1>9. ASSUME NEW d \in Devices, NEW t \in {"ok", "synced", "read"}, Handles(d, t), view' = view
      PROVE  AllTold(x)'
  <2>1. PICK f : f = Head(toClient[d])
    OBVIOUS
  <2>2. f.t # "gone"
    BY <1>9, <2>1, HandlesGives
  <2>3. \A m : ~Tells(f, m)
    BY <2>2 DEF Tells
  <2>. QED  BY <1>8, <1>9, <2>1, <2>3
<1>10. ASSUME NEW d \in Devices, OnMsg(d)
       PROVE  AllTold(x)'
  <2>1. PICK f : f = Head(toClient[d])
    OBVIOUS
  <2>2. Handles(d, "msg") /\ view' = [view EXCEPT ![d] = view[d] \cup {f.n}]
    BY <1>10, <2>1 DEF OnMsg
  <2>3. f.t = "msg"
    BY <2>1, <2>2, HandlesGives
  <2>4. \A m : ~Tells(f, m)
    BY <2>3 DEF Tells
  <2>5. view \in [Devices -> SUBSET Ids]
    BY DEF TypeInv, TypeOK
  <2>6. \A y \in Devices : y # d => view'[y] = view[y]
    BY <2>2, <2>5
  <2>7. \A m \in view'[d] : m \in view[d] \/ m = f.n
    BY <2>2, <2>5
  <2>. QED  BY <1>8, <2>1, <2>2, <2>3, <2>4, <2>6, <2>7
<1>11. ASSUME NEW d \in Devices, OnGone(d)
       PROVE  AllTold(x)'
  <2>1. PICK f : f = Head(toClient[d])
    OBVIOUS
  <2>2. Handles(d, "gone") /\ view' = [view EXCEPT ![d] = view[d] \ f.ids]
    BY <1>11, <2>1 DEF OnGone
  <2>3. view \in [Devices -> SUBSET Ids]
    BY DEF TypeInv, TypeOK
  <2>4. \A y \in Devices : y # d => view'[y] = view[y]
    BY <2>2, <2>3
  <2>5. \A m \in view'[d] : m \in view[d] /\ ~Tells(f, m)
    BY <2>2, <2>3 DEF Tells
  <2>. QED  BY <1>8, <2>1, <2>2, <2>4, <2>5
<1>12. ASSUME NEW d \in Devices, OnOK(d) \/ OnSynced(d) \/ OnRead(d)
       PROVE  AllTold(x)'
  BY <1>9, <1>12 DEF OnOK, OnSynced, OnRead
<1>13. CASE UNCHANGED vars
  BY <1>13, ToldSame DEF vars, hubVars, chanVars, history
<1>. QED
  BY <1>2, <1>3, <1>4, <1>5, <1>6, <1>7, <1>10, <1>11, <1>12, <1>13,
     ToldPost, ToldDelete, ToldHandleSub
     DEF Next, HubStep, ClientStep

Told == \A x \in Devices : AllTold(x)

\* A device that shows a message that was removed will be told, or was away when that
\* happened and has not been replayed it: no other removal is lost or overtaken by the
\* message itself (del, purge and subscribe; forget of the client).
THEOREM RemovalsAreTold == Spec => []NoGhost
<1>1. Init => Told
  BY DEF Init, Told, AllTold
<1>2. TypeInv /\ Told /\ [Next]_vars => Told'
  BY ToldNext DEF Told
<1>3. Told => NoGhost
  BY ToldIs DEF Told
<1>. QED  BY <1>1, <1>2, <1>3, Always, PTL DEF Spec
=============================================================================
