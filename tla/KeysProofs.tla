----------------------------- MODULE KeysProofs -----------------------------
(***************************************************************************)
(* One key for each epoch of a channel, known to its members only, for     *)
(* every number of devices, users and epochs, and queues of any length.    *)
(***************************************************************************)
EXTENDS Keys, FiniteSetTheorems, SequenceTheorems, TLAPS

Makes(f) == f.t \in {"created", "rotated"}

\* Where the frames are on which a key will be made.
Pending(q) == {p \in Devices \X Nat : p[2] \in DOMAIN q[p[1]] /\ Makes(q[p[1]][p[2]])}
At(q, p) == q[p[1]][p[2]]

\* Who is named in a request for a key, and in a list of peers, are devices.
NamesDevices(f) == f.t \in {"keyreq", "peers"} => f.who \subseteq Devices
FramesName == \A d \in Devices : \A f \in Range(toClient[d]) : NamesDevices(f)

\* Keys made and keys to be made: no more than there have been epochs.
Budget ==
  /\ IsFiniteSet(Pending(toClient))
  /\ made + Cardinality(Pending(toClient)) + (IF epoch > 0 THEN MaxEpoch - epoch ELSE 0)
       <= creates * MaxEpoch

TypeInv == TypeOK /\ FramesName /\ Budget

-----------------------------------------------------------------------------
(***************************************************************************)
(* The queues                                                              *)
(***************************************************************************)
LEMMA RangeAppend ==
  ASSUME NEW T, NEW s \in Seq(T), NEW f \in T
  PROVE  Range(Append(s, f)) = Range(s) \cup {f}
<1>1. DOMAIN s = 1 .. Len(s) /\ Len(s) \in Nat
  BY LenProperties
<1>2. DOMAIN Append(s, f) = 1 .. Len(s) + 1
  BY AppendProperties, LenProperties
<1>3. /\ \A i \in 1 .. Len(s) : Append(s, f)[i] = s[i]
      /\ Append(s, f)[Len(s) + 1] = f
  BY AppendProperties
<1>4. 1 .. Len(s) + 1 = (1 .. Len(s)) \cup {Len(s) + 1}
  BY <1>1
<1>. QED  BY <1>1, <1>2, <1>3, <1>4, ZenonT(60) DEF Range

LEMMA RangeTail ==
  ASSUME NEW T, NEW s \in Seq(T), s # <<>>
  PROVE  /\ Range(Tail(s)) \subseteq Range(s)
         /\ Head(s) \in Range(s) /\ Head(s) \in T
         /\ Tail(s) \in Seq(T) /\ Head(s) = s[1]
         /\ DOMAIN s = 1 .. Len(s) /\ Len(s) \in Nat /\ Len(s) >= 1
         /\ DOMAIN Tail(s) = 1 .. Len(s) - 1
         /\ \A i \in 1 .. Len(s) - 1 : Tail(s)[i] = s[i + 1]
<1>1. DOMAIN s = 1 .. Len(s) /\ Len(s) \in Nat /\ Len(s) >= 1
  BY LenProperties, EmptySeq
<1>2. /\ Tail(s) \in Seq(T) /\ Len(Tail(s)) = Len(s) - 1 /\ Head(s) \in T
      /\ \A i \in 1 .. Len(Tail(s)) : Tail(s)[i] = s[i + 1]
  BY HeadTailProperties
<1>3. DOMAIN Tail(s) = 1 .. Len(s) - 1
  BY <1>2, LenProperties
<1>4. Head(s) = s[1]
  BY HeadTailOfSubSeq, SubSeqFull, <1>1
<1>5. \A i \in 1 .. Len(s) - 1 : Tail(s)[i] \in Range(s)
  BY <1>1, <1>2 DEF Range
<1>6. Range(Tail(s)) \subseteq Range(s)
  BY <1>3, <1>5, Zenon DEF Range
<1>7. Head(s) \in Range(s)
  BY <1>1, <1>4 DEF Range
<1>. QED  BY <1>1, <1>2, <1>3, <1>4, <1>6, <1>7

LEMMA RangeCut ==
  ASSUME NEW T, NEW s \in Seq(T), NEW n \in 0 .. Len(s)
  PROVE  /\ SubSeq(s, 1, n) \in Seq(T)
         /\ DOMAIN s = 1 .. Len(s) /\ Len(s) \in Nat
         /\ DOMAIN SubSeq(s, 1, n) = 1 .. n
         /\ \A i \in 1 .. n : SubSeq(s, 1, n)[i] = s[i]
         /\ Range(SubSeq(s, 1, n)) \subseteq Range(s)
<1>1. DOMAIN s = 1 .. Len(s) /\ Len(s) \in Nat
  BY LenProperties
<1>2. \A i \in 1 .. n : s[i] \in T
  BY <1>1, ElementOfSeq
<1>3. /\ SubSeq(s, 1, n) \in Seq(T) /\ Len(SubSeq(s, 1, n)) = n
      /\ \A i \in 1 .. n : SubSeq(s, 1, n)[i] = s[i]
  BY <1>1, <1>2, SubSeqProperties
<1>4. DOMAIN SubSeq(s, 1, n) = 1 .. n
  BY <1>3, LenProperties
<1>5. \A i \in 1 .. n : SubSeq(s, 1, n)[i] \in Range(s)
  BY <1>1, <1>3 DEF Range
<1>6. Range(SubSeq(s, 1, n)) \subseteq Range(s)
  BY <1>4, <1>5, Zenon DEF Range
<1>. QED  BY <1>1, <1>3, <1>4, <1>6

LEMMA PendingIn ==
  ASSUME NEW q, NEW d \in Devices, NEW i \in Nat, i \in DOMAIN q[d], Makes(q[d][i])
  PROVE  <<d, i>> \in Pending(q)
BY DEF Pending

\* f has been added to the queues of S.
Pushed(q, r, S, f) ==
  \A x \in Devices : r[x] = IF x \in S THEN Append(q[x], f) ELSE q[x]

LEMMA PushProperties ==
  ASSUME NEW q \in [Devices -> Seq(Frame)], NEW S, NEW f \in Frame,
         NEW r \in [Devices -> Seq(Frame)], Pushed(q, r, S, f)
  PROVE  /\ \A x \in Devices : Range(r[x]) \subseteq Range(q[x]) \cup (IF x \in S THEN {f} ELSE {})
         /\ \A p \in Pending(q) : p \in Pending(r) /\ At(r, p) = At(q, p)
         /\ ~Makes(f) => Pending(r) = Pending(q)
         /\ \A d \in Devices : S = {d} =>
              /\ Pending(r) \subseteq Pending(q) \cup {<<d, Len(q[d]) + 1>>}
              /\ <<d, Len(q[d]) + 1>> \notin Pending(q)
              /\ At(r, <<d, Len(q[d]) + 1>>) = f
<1>. USE DEF Pushed
<1>1. ASSUME NEW x \in Devices
      PROVE  /\ Append(q[x], f) \in Seq(Frame)
             /\ Len(q[x]) \in Nat /\ DOMAIN q[x] = 1 .. Len(q[x])
             /\ DOMAIN Append(q[x], f) = 1 .. Len(q[x]) + 1
             /\ \A i \in 1 .. Len(q[x]) : Append(q[x], f)[i] = q[x][i]
             /\ Append(q[x], f)[Len(q[x]) + 1] = f
  BY AppendProperties, LenProperties
<1>3. \A x \in Devices : Range(r[x]) \subseteq Range(q[x]) \cup (IF x \in S THEN {f} ELSE {})
  <2>1. \A x \in Devices : Range(Append(q[x], f)) = Range(q[x]) \cup {f}
    BY RangeAppend
  <2>. QED  BY <2>1, Zenon
<1>4. ASSUME NEW p \in Pending(q)
      PROVE  p \in Pending(r) /\ At(r, p) = At(q, p)
  <2>1. p[1] \in Devices /\ p[2] \in DOMAIN q[p[1]] /\ Makes(q[p[1]][p[2]]) /\ p \in Devices \X Nat
    BY DEF Pending
  <2>2. r[p[1]] = q[p[1]] \/ r[p[1]] = Append(q[p[1]], f)
    BY <2>1
  <2>3. p[2] \in DOMAIN r[p[1]] /\ r[p[1]][p[2]] = q[p[1]][p[2]]
    <3>1. CASE r[p[1]] = q[p[1]]
      BY <2>1, <3>1
    <3>2. CASE r[p[1]] = Append(q[p[1]], f)
      <4>1. PICK x \in Devices : x = p[1]
        BY <2>1
      <4>2. p[2] \in 1 .. Len(q[x]) /\ r[x] = Append(q[x], f) /\ Len(q[x]) \in Nat
        BY <2>1, <3>2, <4>1, <1>1
      <4>3. p[2] \in DOMAIN r[x] /\ r[x][p[2]] = q[x][p[2]]
        BY <4>2, <1>1
      <4>. QED  BY <4>1, <4>3
    <3>. QED  BY <2>2, <3>1, <3>2
  <2>. QED  BY <2>1, <2>3 DEF Pending, At
<1>5. ASSUME NEW p \in Pending(r), p \notin Pending(q)
      PROVE  p[1] \in S /\ p[1] \in Devices /\ p = <<p[1], Len(q[p[1]]) + 1>> /\ Makes(f)
  <2>1. p[1] \in Devices /\ p[2] \in DOMAIN r[p[1]] /\ Makes(r[p[1]][p[2]]) /\ p \in Devices \X Nat
    BY DEF Pending
  <2>2. p[1] \in S
    BY <2>1, <1>5 DEF Pending
  <2>3. r[p[1]] = Append(q[p[1]], f)
    BY <2>1, <2>2
  <2>4. ~ (p[2] \in 1 .. Len(q[p[1]]))
    BY <2>1, <2>3, <1>1, <1>5 DEF Pending
  <2>5. p[2] = Len(q[p[1]]) + 1
    BY <2>1, <2>3, <2>4, <1>1
  <2>. QED  BY <2>1, <2>2, <2>3, <2>5, <1>1
<1>6. ~Makes(f) => Pending(r) = Pending(q)
  BY <1>4, <1>5
<1>7. ASSUME NEW d \in Devices, S = {d}
      PROVE  /\ Pending(r) \subseteq Pending(q) \cup {<<d, Len(q[d]) + 1>>}
             /\ <<d, Len(q[d]) + 1>> \notin Pending(q)
             /\ At(r, <<d, Len(q[d]) + 1>>) = f
  <2>1. \A p \in Pending(r) : p \notin Pending(q) => p = <<d, Len(q[d]) + 1>>
    BY <1>5, <1>7
  <2>2. <<d, Len(q[d]) + 1>> \notin Pending(q)
    BY <1>1 DEF Pending
  <2>3. r[d][Len(q[d]) + 1] = f
    BY <1>1, <1>7
  <2>. QED  BY <2>1, <2>2, <2>3 DEF At
<1>. QED  BY <1>3, <1>4, <1>6, <1>7

\* What is left when the first frame of a queue is taken.
LEMMA TakeProperties ==
  ASSUME NEW q \in [Devices -> Seq(Frame)], NEW d \in Devices, q[d] # <<>>,
         NEW r \in [Devices -> Seq(Frame)],
         r[d] = Tail(q[d]), \A x \in Devices \ {d} : r[x] = q[x]
  PROVE  /\ \A x \in Devices : Range(r[x]) \subseteq Range(q[x])
         /\ Head(q[d]) \in Range(q[d]) /\ Head(q[d]) \in Frame
         /\ \E g \in [Pending(r) -> Pending(q) \ {<<d, 1>>}] :
              /\ \A p, o \in Pending(r) : g[p] = g[o] => p = o
              /\ \A p \in Pending(r) : At(r, p) = At(q, g[p])
         /\ Makes(Head(q[d])) => <<d, 1>> \in Pending(q)
         /\ At(q, <<d, 1>>) = Head(q[d])
<1>1. /\ Range(Tail(q[d])) \subseteq Range(q[d])
      /\ Head(q[d]) \in Range(q[d]) /\ Head(q[d]) \in Frame
      /\ Tail(q[d]) \in Seq(Frame) /\ Head(q[d]) = q[d][1]
      /\ DOMAIN q[d] = 1 .. Len(q[d]) /\ Len(q[d]) \in Nat /\ Len(q[d]) >= 1
      /\ DOMAIN Tail(q[d]) = 1 .. Len(q[d]) - 1
      /\ \A i \in 1 .. Len(q[d]) - 1 : Tail(q[d])[i] = q[d][i + 1]
  BY RangeTail
<1>3. r[d] = Tail(q[d]) /\ \A x \in Devices \ {d} : r[x] = q[x]
  OBVIOUS
<1>4. \A x \in Devices : Range(r[x]) \subseteq Range(q[x])
  BY <1>1, <1>3
<1> DEFINE g == [p \in Pending(r) |-> IF p[1] = d THEN <<d, p[2] + 1>> ELSE p]
<1>5. ASSUME NEW p \in Pending(r)
      PROVE  g[p] \in Pending(q) \ {<<d, 1>>} /\ At(r, p) = At(q, g[p])
  <2>1. /\ p \in Devices \X Nat /\ p[1] \in Devices /\ p[2] \in Nat
        /\ p[2] \in DOMAIN r[p[1]] /\ Makes(r[p[1]][p[2]])
    BY DEF Pending
  <2>2. CASE p[1] = d
    <3>1. p[2] \in 1 .. Len(q[d]) - 1
      BY <2>1, <2>2, <1>1, <1>3
    <3>2. p[2] + 1 \in DOMAIN q[d] /\ q[d][p[2] + 1] = r[d][p[2]] /\ p[2] + 1 # 1
      BY <3>1, <1>1, <1>3
    <3>3. g[p] = <<d, p[2] + 1>> /\ g[p][1] = d /\ g[p][2] = p[2] + 1
      BY <2>2
    <3>4. At(r, p) = r[d][p[2]] /\ At(q, g[p]) = q[d][p[2] + 1]
      BY <2>2, <3>3 DEF At
    <3>5. Makes(q[d][p[2] + 1])
      BY <2>1, <2>2, <3>2
    <3>6. g[p] \in Pending(q)
      BY <2>1, <3>2, <3>3, <3>5, PendingIn
    <3>7. g[p] # <<d, 1>>
      BY <3>2, <3>3
    <3>. QED  BY <3>2, <3>4, <3>6, <3>7
  <2>3. CASE p[1] # d
    <3>1. g[p] = p /\ r[p[1]] = q[p[1]]
      BY <2>1, <2>3, <1>3
    <3>2. p \in Pending(q)
      BY <2>1, <3>1 DEF Pending
    <3>3. p # <<d, 1>>
      BY <2>3
    <3>4. At(r, p) = At(q, p)
      BY <3>1 DEF At
    <3>. QED  BY <3>1, <3>2, <3>3, <3>4
  <2>. QED  BY <2>2, <2>3
<1>6. ASSUME NEW p \in Pending(r), NEW o \in Pending(r), g[p] = g[o]
      PROVE  p = o
  <2>1. p \in Devices \X Nat /\ o \in Devices \X Nat
    BY DEF Pending
  <2>2. p = <<p[1], p[2]>> /\ o = <<o[1], o[2]>> /\ p[2] \in Nat /\ o[2] \in Nat
    BY <2>1
  <2>3. CASE p[1] = d /\ o[1] = d
    <3>1. <<d, p[2] + 1>> = <<d, o[2] + 1>>
      BY <1>6, <2>3
    <3>2. p[2] + 1 = o[2] + 1
      BY <3>1
    <3>3. p[2] = o[2]
      BY <2>2, <3>2
    <3>. QED  BY <2>2, <2>3, <3>3, Zenon
  <2>4. CASE p[1] # d /\ o[1] # d
    BY <1>6, <2>4
  <2>5. CASE (p[1] = d) # (o[1] = d)
    BY <1>6, <2>2, <2>5
  <2>. QED  BY <2>3, <2>4, <2>5
<1>7. g \in [Pending(r) -> Pending(q) \ {<<d, 1>>}]
  BY <1>5
<1>8. Makes(Head(q[d])) => <<d, 1>> \in Pending(q)
  BY <1>1 DEF Pending
<1>9. At(q, <<d, 1>>) = Head(q[d])
  BY <1>1 DEF At
<1>10. \E h \in [Pending(r) -> Pending(q) \ {<<d, 1>>}] :
          /\ \A p, o \in Pending(r) : h[p] = h[o] => p = o
          /\ \A p \in Pending(r) : At(r, p) = At(q, h[p])
  <2>. HIDE DEF g
  <2>. QED  BY <1>5, <1>6, <1>7
<1>. QED  BY <1>1, <1>4, <1>8, <1>9, <1>10

\* What is left when a connection is lost.
LEMMA CutProperties ==
  ASSUME NEW q \in [Devices -> Seq(Frame)], NEW d \in Devices, NEW n \in 0 .. Len(q[d]),
         NEW r \in [Devices -> Seq(Frame)],
         r[d] = SubSeq(q[d], 1, n), \A x \in Devices \ {d} : r[x] = q[x]
  PROVE  /\ \A x \in Devices : Range(r[x]) \subseteq Range(q[x])
         /\ Pending(r) \subseteq Pending(q)
         /\ \A p \in Pending(r) : At(r, p) = At(q, p)
<1>1. /\ SubSeq(q[d], 1, n) \in Seq(Frame)
      /\ DOMAIN q[d] = 1 .. Len(q[d]) /\ Len(q[d]) \in Nat
      /\ DOMAIN SubSeq(q[d], 1, n) = 1 .. n
      /\ \A i \in 1 .. n : SubSeq(q[d], 1, n)[i] = q[d][i]
      /\ Range(SubSeq(q[d], 1, n)) \subseteq Range(q[d])
  BY RangeCut
<1>2. r[d] = SubSeq(q[d], 1, n) /\ \A x \in Devices \ {d} : r[x] = q[x]
  OBVIOUS
<1>4. \A x \in Devices : Range(r[x]) \subseteq Range(q[x])
  BY <1>1, <1>2
<1>5. ASSUME NEW p \in Pending(r)
      PROVE  p \in Pending(q) /\ At(r, p) = At(q, p)
  <2>1. /\ p \in Devices \X Nat /\ p[1] \in Devices /\ p[2] \in Nat
        /\ p[2] \in DOMAIN r[p[1]] /\ Makes(r[p[1]][p[2]])
    BY DEF Pending
  <2>2. p[2] \in DOMAIN q[p[1]] /\ r[p[1]][p[2]] = q[p[1]][p[2]]
    <3>1. CASE p[1] = d
      <4>1. p[2] \in 1 .. n /\ n <= Len(q[d]) /\ Len(q[d]) \in Nat
        BY <2>1, <3>1, <1>1, <1>2
      <4>2. p[2] \in DOMAIN q[d] /\ r[d][p[2]] = q[d][p[2]]
        BY <4>1, <1>1, <1>2
      <4>. QED  BY <3>1, <4>2
    <3>2. CASE p[1] # d
      <4>1. r[p[1]] = q[p[1]]
        BY <2>1, <3>2, <1>2
      <4>. QED  BY <2>1, <4>1
    <3>. QED  BY <3>1, <3>2
  <2>. QED  BY <2>1, <2>2 DEF Pending, At
<1>. QED  BY <1>4, <1>5

-----------------------------------------------------------------------------
(***************************************************************************)
(* Types, and how many keys there can be                                   *)
(***************************************************************************)
\* The constants, without their product.
LEMMA Constants ==
  /\ Owner \in [Devices -> Users] /\ IsFiniteSet(Devices)
  /\ MaxEpoch \in Nat /\ MaxEpoch >= 1
  /\ MaxKeys \in Nat /\ MaxCreates \in Nat /\ MaxMoves \in Nat
BY KeysAssumption

\* There is room for one more key where one is waited for.
LEMMA BudgetHolds ==
  ASSUME NEW m \in Nat, NEW c \in 0 .. MaxCreates, m <= c * MaxEpoch
  PROVE  m <= MaxKeys
<1>1. c * MaxEpoch <= MaxCreates * MaxEpoch
  BY Constants
<1>. QED  BY <1>1, KeysAssumption

LEMMA HandlesTypes ==
  ASSUME TypeInv, NEW d \in Devices, NEW t, Handles(d, t)
  PROVE  /\ toClient' \in [Devices -> Seq(Frame)] /\ FramesName'
         /\ Head(toClient[d]) \in Frame /\ NamesDevices(Head(toClient[d]))
         /\ Head(toClient[d]).t = t
         /\ IsFiniteSet(Pending(toClient'))
         /\ Cardinality(Pending(toClient')) \in Nat /\ Cardinality(Pending(toClient)) \in Nat
         /\ Cardinality(Pending(toClient'))
              + (IF t \in {"created", "rotated"} THEN 1 ELSE 0) <= Cardinality(Pending(toClient))
<1>0. PICK q, r : q = toClient /\ r = toClient'
  OBVIOUS
<1>1. q \in [Devices -> Seq(Frame)] /\ q[d] # <<>> /\ Head(q[d]).t = t
  BY <1>0 DEF TypeInv, TypeOK, Handles
<1>a. r = [q EXCEPT ![d] = Tail(@)]
  BY <1>0 DEF TypeInv, TypeOK, Handles
<1>b. r \in [Devices -> Seq(Frame)]
  BY <1>1, <1>a, HeadTailProperties
<1>c. r[d] = Tail(q[d]) /\ \A x \in Devices \ {d} : r[x] = q[x]
  BY <1>1, <1>a
<1>2. IsFiniteSet(Pending(q)) /\ Cardinality(Pending(q)) \in Nat
  BY <1>0, FS_CardinalityType DEF TypeInv, Budget
<1>3. /\ \A x \in Devices : Range(r[x]) \subseteq Range(q[x])
      /\ Head(q[d]) \in Range(q[d]) /\ Head(q[d]) \in Frame
      /\ Makes(Head(q[d])) => <<d, 1>> \in Pending(q)
  BY <1>1, <1>b, <1>c, TakeProperties, ZenonT(60)
<1>4. PICK g \in [Pending(r) -> Pending(q) \ {<<d, 1>>}] :
        /\ \A p, o \in Pending(r) : g[p] = g[o] => p = o
        /\ \A p \in Pending(r) : At(r, p) = At(q, g[p])
  BY <1>1, <1>b, <1>c, TakeProperties, ZenonT(60)
<1>5. /\ IsFiniteSet(Pending(q) \ {<<d, 1>>})
      /\ Cardinality(Pending(q) \ {<<d, 1>>})
           = IF <<d, 1>> \in Pending(q) THEN Cardinality(Pending(q)) - 1
             ELSE Cardinality(Pending(q))
  BY <1>2, FS_RemoveElement
<1>6. g \in Injection(Pending(r), Pending(q) \ {<<d, 1>>})
  BY <1>4 DEF Injection, IsInjective
<1>7. /\ IsFiniteSet(Pending(r))
      /\ Cardinality(Pending(r)) <= Cardinality(Pending(q) \ {<<d, 1>>})
  BY <1>5, <1>6, FS_Injection
<1>8. Cardinality(Pending(r)) \in Nat
  BY <1>7, FS_CardinalityType
<1>9. Makes(Head(q[d])) <=> t \in {"created", "rotated"}
  BY <1>1 DEF Makes
<1>10. Cardinality(Pending(r)) + (IF t \in {"created", "rotated"} THEN 1 ELSE 0)
         <= Cardinality(Pending(q))
  BY <1>2, <1>3, <1>5, <1>7, <1>8, <1>9
<1>11. FramesName' /\ NamesDevices(Head(q[d]))
  BY <1>0, <1>3, Zenon DEF TypeInv, FramesName
<1>. QED  BY <1>1, <1>b, <1>2, <1>3, <1>7, <1>8, <1>10, <1>11, <1>0

LEMMA PushTypes ==
  ASSUME TypeInv, NEW S, NEW f \in Frame, NamesDevices(f), Push(S, f)
  PROVE  /\ toClient' \in [Devices -> Seq(Frame)] /\ FramesName'
         /\ ~Makes(f) => Pending(toClient') = Pending(toClient)
         /\ \A d \in Devices : S = {d} =>
              /\ IsFiniteSet(Pending(toClient'))
              /\ Cardinality(Pending(toClient')) <= Cardinality(Pending(toClient)) + 1
<1>0. PICK q, r : q = toClient /\ r = toClient'
  OBVIOUS
<1>1. q \in [Devices -> Seq(Frame)] /\ Pushed(q, r, S, f)
  BY <1>0 DEF TypeInv, TypeOK, Push, Pushed
<1>a. r \in [Devices -> Seq(Frame)]
  BY <1>0, <1>1, AppendProperties DEF Push
<1>2. IsFiniteSet(Pending(q))
  BY <1>0 DEF TypeInv, Budget
<1>3. /\ \A x \in Devices : Range(r[x]) \subseteq Range(q[x]) \cup (IF x \in S THEN {f} ELSE {})
      /\ ~Makes(f) => Pending(r) = Pending(q)
      /\ \A d \in Devices : S = {d} =>
           /\ Pending(r) \subseteq Pending(q) \cup {<<d, Len(q[d]) + 1>>}
           /\ <<d, Len(q[d]) + 1>> \notin Pending(q)
           /\ At(r, <<d, Len(q[d]) + 1>>) = f
  BY <1>1, <1>a, PushProperties, ZenonT(60)
<1>4. ASSUME NEW d \in Devices, S = {d}
      PROVE  IsFiniteSet(Pending(r)) /\ Cardinality(Pending(r)) <= Cardinality(Pending(q)) + 1
  <2>1. PICK p : Pending(r) \subseteq Pending(q) \cup {p}
    BY <1>3, <1>4
  <2>2. /\ IsFiniteSet(Pending(q) \cup {p}) /\ Cardinality(Pending(q)) \in Nat
        /\ Cardinality(Pending(q) \cup {p}) <= Cardinality(Pending(q)) + 1
    <3>1. /\ IsFiniteSet(Pending(q) \cup {p})
          /\ Cardinality(Pending(q) \cup {p})
               = IF p \in Pending(q) THEN Cardinality(Pending(q)) ELSE Cardinality(Pending(q)) + 1
      BY <1>2, FS_AddElement, Zenon
    <3>2. Cardinality(Pending(q)) \in Nat
      BY <1>2, FS_CardinalityType, Zenon
    <3>. QED  BY <3>1, <3>2
  <2>3. /\ IsFiniteSet(Pending(r)) /\ Cardinality(Pending(r)) \in Nat
        /\ Cardinality(Pending(r)) <= Cardinality(Pending(q) \cup {p})
        /\ Cardinality(Pending(q) \cup {p}) \in Nat
    BY <2>1, <2>2, FS_Subset, FS_CardinalityType
  <2>. QED  BY <2>2, <2>3
<1>5. FramesName'
  BY <1>0, <1>3, Zenon DEF TypeInv, FramesName
<1>. QED  BY <1>a, <1>3, <1>4, <1>5, <1>0

LEMMA WriteTypes ==
  ASSUME TypeInv, NEW d \in Devices, NEW rs \in Seq(Request), Write(d, rs)
  PROVE  toHub' \in [Devices -> Seq(Request)]
<1>1. toHub \in [Devices -> Seq(Request)]
  BY DEF TypeInv, TypeOK
<1>2. toHub[d] \o rs \in Seq(Request)
  BY <1>1, ConcatProperties
<1>. QED  BY <1>1, <1>2 DEF Write

LEMMA ServesTypes ==
  ASSUME TypeInv, NEW d \in Devices, NEW t, Serves(d, t)
  PROVE  toHub' \in [Devices -> Seq(Request)] /\ Head(toHub[d]) \in Request
<1>1. toHub \in [Devices -> Seq(Request)]
  BY DEF TypeInv, TypeOK
<1>2. Tail(toHub[d]) \in Seq(Request) /\ Head(toHub[d]) \in Request
  BY <1>1, HeadTailProperties DEF Serves
<1>. QED  BY <1>1, <1>2 DEF Serves

\* The budget is kept where nothing is created or made and no epoch begins.
LEMMA BudgetKept ==
  ASSUME TypeInv, UNCHANGED <<made, epoch, creates>>,
         IsFiniteSet(Pending(toClient')),
         Cardinality(Pending(toClient')) <= Cardinality(Pending(toClient))
  PROVE  Budget'
<1>1. /\ made \in Nat /\ epoch \in Nat /\ creates \in Nat
      /\ Cardinality(Pending(toClient')) \in Nat /\ Cardinality(Pending(toClient)) \in Nat
      /\ MaxEpoch \in Nat
  BY FS_CardinalityType, Constants DEF TypeInv, TypeOK, Budget
<1>2. PICK b \in Nat : b = creates * MaxEpoch
  BY <1>1
<1>. QED  BY <1>1, <1>2 DEF TypeInv, Budget

LEMMA FrameTypes ==
  ASSUME NEW e \in 0 .. MaxEpoch, NEW k \in {None} \cup Keys
  PROVE  /\ \A t \in {"info", "created", "join", "keyreq", "keyshare", "rotated", "peers", "gone"} :
              \A who \in SUBSET (Devices \cup Users) :
                F(t, e, k, who) \in Frame /\ F(t, e, k, who).t = t /\ F(t, e, k, who).who = who
         /\ \A t \in {"sub", "keyreq", "keyshare", "rotate", "peers"}, who \in SUBSET Devices :
              <<F(t, e, k, who)>> \in Seq(Request)
BY DEF F, Frame, Request

LEMMA NoneTypes == None \in {None} \cup Keys /\ 0 \in 0 .. MaxEpoch /\ 1 \in 0 .. MaxEpoch
BY Constants DEF None

LEMMA InitTypes == ASSUME Init PROVE TypeInv
<1>1. TypeOK
  BY Constants DEF Init, TypeOK, None
<1>2. Pending(toClient) = {} /\ FramesName
  BY DEF Init, Pending, FramesName, Range
<1>3. Budget
  BY <1>2, FS_EmptySet, Constants, SMTT(60) DEF Init, Budget
<1>. QED  BY <1>1, <1>2, <1>3 DEF TypeInv

\* A frame with neither key nor names that makes no key, pushed without more ado.
LEMMA PlainPush ==
  ASSUME TypeInv, NEW S, NEW t \in {"info", "join", "gone", "keyreq", "keyshare", "peers"},
         NEW e \in 0 .. MaxEpoch, NEW k \in {None} \cup Keys,
         NEW who \in SUBSET (Devices \cup Users),
         t \in {"keyreq", "peers"} => who \subseteq Devices,
         Push(S, F(t, e, k, who)), UNCHANGED <<made, epoch, creates>>
  PROVE  toClient' \in [Devices -> Seq(Frame)] /\ FramesName' /\ Budget'
<1>1. F(t, e, k, who) \in Frame /\ F(t, e, k, who).t = t /\ F(t, e, k, who).who = who
  BY FrameTypes
<1>2. ~Makes(F(t, e, k, who)) /\ NamesDevices(F(t, e, k, who))
  BY <1>1 DEF Makes, NamesDevices
<1>3. /\ toClient' \in [Devices -> Seq(Frame)] /\ FramesName'
      /\ Pending(toClient') = Pending(toClient)
  BY <1>1, <1>2, PushTypes
<1>4. Budget'
  BY <1>3 DEF TypeInv, Budget
<1>. QED  BY <1>3, <1>4

LEMMA SameQueues ==
  ASSUME TypeInv, UNCHANGED <<toClient, made, epoch, creates>>
  PROVE  toClient' \in [Devices -> Seq(Frame)] /\ FramesName' /\ Budget'
BY DEF TypeInv, TypeOK, FramesName, Budget

LEMMA CreateTypes ==
  ASSUME TypeInv, NEW d \in Devices, Create(d)
  PROVE  TypeInv'
<1> DEFINE f == F("created", 1, None, {})
<1>1. f \in Frame /\ f.t = "created" /\ NamesDevices(f)
  BY FrameTypes, NoneTypes DEF NamesDevices
<1>2. /\ toClient' \in [Devices -> Seq(Frame)] /\ FramesName'
      /\ IsFiniteSet(Pending(toClient'))
      /\ Cardinality(Pending(toClient')) <= Cardinality(Pending(toClient)) + 1
  <2>1. Push({d}, f)
    BY DEF Create
  <2>. HIDE DEF f
  <2>. QED  BY <1>1, <2>1, PushTypes
<1>3. TypeOK'
  BY <1>2, Constants DEF TypeInv, TypeOK, Create, Move, Entitle, clientVars
<1>4. Budget'
  <2>1. /\ made \in Nat /\ creates \in Nat /\ Cardinality(Pending(toClient)) \in Nat
        /\ Cardinality(Pending(toClient')) \in Nat /\ MaxEpoch \in Nat /\ MaxEpoch >= 1
    BY <1>2, FS_CardinalityType, Constants DEF TypeInv, TypeOK, Budget
  <2>2. PICK b \in Nat : b = creates * MaxEpoch /\ (creates + 1) * MaxEpoch = b + MaxEpoch
    BY <2>1
  <2>3. /\ epoch = 0 /\ epoch' = 1 /\ creates' = creates + 1 /\ made' = made
        /\ made + Cardinality(Pending(toClient)) <= b
    BY <2>1, <2>2 DEF Create, clientVars, TypeInv, Budget
  <2>4. made' + Cardinality(Pending(toClient')) + (MaxEpoch - 1) <= creates' * MaxEpoch
    BY <2>1, <2>2, <2>3, <1>2
  <2>. QED  BY <1>2, <2>3, <2>4 DEF Budget
<1>. QED  BY <1>2, <1>3, <1>4 DEF TypeInv

LEMMA DeleteTypes ==
  ASSUME TypeInv, Delete
  PROVE  TypeInv'
<1> DEFINE f == F("gone", 0, None, {})
<1>1. f \in Frame /\ f.t = "gone" /\ NamesDevices(f) /\ ~Makes(f)
  BY FrameTypes, NoneTypes DEF NamesDevices, Makes
<1>2. /\ toClient' \in [Devices -> Seq(Frame)] /\ FramesName'
      /\ Pending(toClient') = Pending(toClient)
  <2>1. PICK S : Push(S, f)
    BY DEF Delete
  <2>. HIDE DEF f
  <2>. QED  BY <1>1, <2>1, PushTypes
<1>3. TypeOK'
  BY <1>2, Constants DEF TypeInv, TypeOK, Delete, Move, clientVars
<1>4. Budget'
  <2>1. /\ made \in Nat /\ creates \in Nat /\ Cardinality(Pending(toClient)) \in Nat
        /\ MaxEpoch \in Nat /\ epoch \in 1 .. MaxEpoch
    BY <1>2, FS_CardinalityType, Constants DEF TypeInv, TypeOK, Budget, Delete
  <2>2. PICK b \in Nat : b = creates * MaxEpoch
    BY <2>1
  <2>3. /\ epoch' = 0 /\ creates' = creates /\ made' = made
        /\ made + Cardinality(Pending(toClient)) + (MaxEpoch - epoch) <= b
    BY <2>1, <2>2 DEF Delete, clientVars, TypeInv, Budget
  <2>. QED  BY <1>2, <2>1, <2>2, <2>3 DEF TypeInv, Budget
<1>. QED  BY <1>2, <1>3, <1>4 DEF TypeInv

LEMMA MembersTypes ==
  ASSUME TypeInv, NEW u \in Users, AddMember(u) \/ Kick(u)
  PROVE  TypeInv'
<1>1. CASE AddMember(u)
  <2>1. PICK S : Push(S, F("info", epoch, None, {}))
    BY <1>1 DEF AddMember
  <2>2. epoch \in 0 .. MaxEpoch
    BY DEF TypeInv, TypeOK
  <2>3. toClient' \in [Devices -> Seq(Frame)] /\ FramesName' /\ Budget'
    BY <1>1, <2>1, <2>2, PlainPush, NoneTypes DEF AddMember, clientVars
  <2>4. TypeOK'
    BY <1>1, <2>3, Constants DEF TypeInv, TypeOK, AddMember, Move, Entitle, clientVars
  <2>. QED  BY <2>3, <2>4 DEF TypeInv
<1>2. CASE Kick(u)
  <2>1. PICK S : Push(S, F("gone", 0, None, {}))
    BY <1>2 DEF Kick
  <2>2. UNCHANGED <<made, epoch, creates>>
    BY <1>2 DEF Kick, clientVars
  <2>3. toClient' \in [Devices -> Seq(Frame)] /\ FramesName' /\ Budget'
    <3>1. /\ {} \in SUBSET (Devices \cup Users)
          /\ "gone" \in {"keyreq", "peers"} => {} \subseteq Devices
      OBVIOUS
    <3>2. "gone" \in {"info", "join", "gone", "keyreq", "keyshare", "peers"}
      OBVIOUS
    <3>. QED  BY <2>1, <2>2, <3>1, <3>2, PlainPush, NoneTypes, Zenon
  <2>4. /\ subbed' \in [Devices -> BOOLEAN]
        /\ \A d \in Devices : subbed'[d] => subbed[d] /\ Owner[d] # u
    BY <1>2 DEF TypeInv, TypeOK, Kick
  <2>5. members' = members \ {u} /\ moves' \in 0 .. MaxMoves
    BY <1>2, Constants DEF TypeInv, TypeOK, Kick, Move
  <2>6. UNCHANGED <<clientVars, epoch, creates, entitled, up, toHub>>
    BY <1>2 DEF Kick
  <2>7. TypeOK'
    BY <2>3, <2>4, <2>5, <2>6 DEF TypeInv, TypeOK, clientVars
  <2>. QED  BY <2>3, <2>7 DEF TypeInv
<1>. QED  BY <1>1, <1>2

LEMMA ConnectTypes ==
  ASSUME TypeInv, NEW d \in Devices, Connect(d)
  PROVE  TypeInv'
<1>1. PICK e \in 0 .. MaxEpoch : Push({d}, F("info", e, None, {}))
  BY NoneTypes DEF Connect, TypeInv, TypeOK
<1>2. toClient' \in [Devices -> Seq(Frame)] /\ FramesName' /\ Budget'
  BY <1>1, PlainPush, NoneTypes DEF Connect, clientVars, hubVars
<1>3. TypeOK'
  BY <1>2 DEF TypeInv, TypeOK, Connect, clientVars, hubVars
<1>. QED  BY <1>2, <1>3 DEF TypeInv

LEMMA DropTypes ==
  ASSUME TypeInv, NEW d \in Devices, NEW n \in 0 .. Len(toClient[d]), Drop(d, n)
  PROVE  TypeInv'
<1>0. PICK q, r : q = toClient /\ r = toClient'
  OBVIOUS
<1>1. q \in [Devices -> Seq(Frame)] /\ n \in 0 .. Len(q[d])
  BY <1>0 DEF TypeInv, TypeOK
<1>2. r = [q EXCEPT ![d] = SubSeq(@, 1, n)]
  BY <1>0 DEF Drop
<1>3. r[d] = SubSeq(q[d], 1, n) /\ \A x \in Devices \ {d} : r[x] = q[x]
  BY <1>1, <1>2
<1>4. r \in [Devices -> Seq(Frame)]
  <2>1. SubSeq(q[d], 1, n) \in Seq(Frame)
    BY <1>1, RangeCut
  <2>. QED  BY <1>1, <1>2, <2>1
<1>5. /\ \A x \in Devices : Range(r[x]) \subseteq Range(q[x])
      /\ Pending(r) \subseteq Pending(q)
      /\ \A p \in Pending(r) : At(r, p) = At(q, p)
  BY <1>1, <1>3, <1>4, CutProperties, ZenonT(60)
<1>6. FramesName'
  BY <1>0, <1>5, Zenon DEF TypeInv, FramesName
<1>7. Budget'
  <2>1. /\ IsFiniteSet(Pending(toClient'))
        /\ Cardinality(Pending(toClient')) <= Cardinality(Pending(toClient))
    BY <1>0, <1>5, FS_Subset DEF TypeInv, Budget
  <2>. QED  BY <2>1, BudgetKept DEF Drop, clientVars, hubVars
<1>8. TypeOK'
  BY <1>0, <1>4, Constants, EmptySeq DEF TypeInv, TypeOK, Drop, Move, clientVars, hubVars
<1>. QED  BY <1>6, <1>7, <1>8 DEF TypeInv

LEMMA HubTypes ==
  ASSUME TypeInv, NEW d \in Devices, HubStep(d)
  PROVE  TypeInv'
<1>1. CASE HandleSub(d)
  <2>1. toHub' \in [Devices -> Seq(Request)]
    BY <1>1, ServesTypes DEF HandleSub
  <2>2. toClient' \in [Devices -> Seq(Frame)] /\ FramesName' /\ Budget'
    <3>1. UNCHANGED <<made, epoch, creates>> /\ {Owner[d]} \in SUBSET (Devices \cup Users)
      BY <1>1, Constants DEF HandleSub, Serves, hubVars, clientVars
    <3>2. CASE UNCHANGED toClient
      BY <3>1, <3>2, SameQueues
    <3>3. CASE \E S : Push(S, F("join", 0, None, {Owner[d]}))
      BY <3>1, <3>3, PlainPush, NoneTypes
    <3>. QED  BY <1>1, <3>2, <3>3 DEF HandleSub
  <2>3. TypeOK'
    BY <1>1, <2>1, <2>2 DEF TypeInv, TypeOK, HandleSub, Serves, Member, hubVars, clientVars
  <2>. QED  BY <2>2, <2>3 DEF TypeInv
<1>2. ASSUME HandleKeyReq(d) \/ HandleKeyShare(d) \/ HandlePeers(d)
      PROVE  TypeInv'
  <2>1. toHub' \in [Devices -> Seq(Request)] /\ Head(toHub[d]) \in Request
    BY <1>2, ServesTypes DEF HandleKeyReq, HandleKeyShare, HandlePeers
  <2>2. Head(toHub[d]).e \in 0 .. MaxEpoch /\ Head(toHub[d]).k \in {None} \cup Keys
    BY <2>1 DEF Request
  <2>3. UNCHANGED <<made, epoch, creates>>
    BY <1>2 DEF HandleKeyReq, HandleKeyShare, HandlePeers, Serves, hubVars, clientVars
  <2>4. /\ {d} \in SUBSET (Devices \cup Users) /\ {d} \subseteq Devices
        /\ {} \in SUBSET (Devices \cup Users)
        /\ {x \in Devices : Member(x) /\ up[x]} \in SUBSET (Devices \cup Users)
        /\ {x \in Devices : Member(x) /\ up[x]} \subseteq Devices
        /\ \A t \in {"keyreq", "keyshare", "peers"} :
             t \in {"info", "join", "gone", "keyreq", "keyshare", "peers"}
    OBVIOUS
  <2>5. toClient' \in [Devices -> Seq(Frame)] /\ FramesName' /\ Budget'
    <3>1. CASE HandleKeyReq(d)
      <4>1. PICK S : Push(S, F("keyreq", Head(toHub[d]).e, None, {d}))
        BY <3>1, Zenon DEF HandleKeyReq
      <4>. QED  BY <4>1, <2>2, <2>3, <2>4, NoneTypes, PlainPush
    <3>2. CASE HandleKeyShare(d)
      <4>1. PICK S : Push(S, F("keyshare", Head(toHub[d]).e, Head(toHub[d]).k, {}))
        BY <3>2, Zenon DEF HandleKeyShare
      <4>. QED  BY <4>1, <2>2, <2>3, <2>4, PlainPush
    <3>3. CASE HandlePeers(d)
      <4>1. PICK S : Push(S, F("peers", Head(toHub[d]).e, Head(toHub[d]).k,
                               {x \in Devices : Member(x) /\ up[x]}))
        BY <3>3, Zenon DEF HandlePeers
      <4>. QED  BY <4>1, <2>2, <2>3, <2>4, PlainPush
    <3>. QED  BY <1>2, <3>1, <3>2, <3>3
  <2>6. TypeOK'
    BY <1>2, <2>1, <2>5 DEF TypeInv, TypeOK, HandleKeyReq, HandleKeyShare, HandlePeers, Serves,
                            hubVars, clientVars
  <2>. QED  BY <2>5, <2>6 DEF TypeInv
<1>3. CASE HandleRotate(d)
  <2>1. toHub' \in [Devices -> Seq(Request)]
    BY <1>3, ServesTypes DEF HandleRotate
  <2>2. CASE Member(d) /\ epoch < MaxEpoch
    <3>1. PICK e \in 1 .. MaxEpoch : e = epoch + 1 /\ epoch' = e
      BY <1>3, <2>2, Constants DEF TypeInv, TypeOK, HandleRotate
    <3>2. e \in 0 .. MaxEpoch
      BY <3>1
    <3> DEFINE f == F("rotated", e, None, {})
    <3>3. f \in Frame /\ f.t = "rotated" /\ NamesDevices(f)
      BY <3>2, FrameTypes, NoneTypes DEF NamesDevices
    <3>4. Push({d}, f)
      BY <1>3, <2>2, <3>1 DEF HandleRotate
    <3>5. /\ toClient' \in [Devices -> Seq(Frame)] /\ FramesName'
          /\ IsFiniteSet(Pending(toClient'))
          /\ Cardinality(Pending(toClient')) <= Cardinality(Pending(toClient)) + 1
      <4>. HIDE DEF f
      <4>. QED  BY <3>3, <3>4, PushTypes
    <3>6. TypeOK'
      BY <1>3, <2>1, <2>2, <3>1, <3>5
      DEF TypeInv, TypeOK, HandleRotate, Serves, Entitle, Member, clientVars
    <3>7. Budget'
      <4>1. /\ made \in Nat /\ creates \in Nat /\ Cardinality(Pending(toClient)) \in Nat
            /\ Cardinality(Pending(toClient')) \in Nat /\ MaxEpoch \in Nat /\ epoch \in Nat
        BY <3>5, FS_CardinalityType, Constants DEF TypeInv, TypeOK, Budget
      <4>2. PICK b \in Nat : b = creates * MaxEpoch
        BY <4>1
      <4>3. /\ epoch > 0 /\ epoch' = epoch + 1 /\ creates' = creates /\ made' = made
            /\ made + Cardinality(Pending(toClient)) + (MaxEpoch - epoch) <= b
        BY <1>3, <2>2, <4>1, <4>2 DEF HandleRotate, Serves, Member, clientVars, TypeInv, Budget
      <4>. QED  BY <3>5, <4>1, <4>2, <4>3 DEF Budget
    <3>. QED  BY <3>5, <3>6, <3>7 DEF TypeInv
  <2>3. CASE ~(Member(d) /\ epoch < MaxEpoch)
    <3>1. UNCHANGED <<toClient, made, epoch, creates>>
      BY <1>3, <2>3 DEF HandleRotate, Serves, clientVars
    <3>2. toClient' \in [Devices -> Seq(Frame)] /\ FramesName' /\ Budget'
      BY <3>1, SameQueues
    <3>3. TypeOK'
      BY <1>3, <2>1, <2>3, <3>1, <3>2 DEF TypeInv, TypeOK, HandleRotate, Serves, clientVars
    <3>. QED  BY <3>2, <3>3 DEF TypeInv
  <2>. QED  BY <2>2, <2>3
<1>. QED  BY <1>1, <1>2, <1>3 DEF HubStep

\* A device that has the request written.
LEMMA AskTypes ==
  ASSUME TypeInv, NEW d \in Devices, NEW e \in 0 .. MaxEpoch, NEW waiting \in BOOLEAN,
         NEW then \in Seq(Request), MaybeRequestKey(d, e, waiting, then)
  PROVE  toHub' \in [Devices -> Seq(Request)] /\ asked' \in [Devices -> BOOLEAN]
<1>1. KeyReq(e) \in Seq(Request)
  BY FrameTypes, NoneTypes DEF KeyReq
<1>2. KeyReq(e) \o then \in Seq(Request)
  BY <1>1, ConcatProperties
<1>3. PICK rs \in Seq(Request) : Write(d, rs)
  BY <1>2 DEF MaybeRequestKey
<1>4. toHub' \in [Devices -> Seq(Request)]
  BY <1>3, WriteTypes
<1>5. asked \in [Devices -> BOOLEAN]
  BY DEF TypeInv, TypeOK
<1>6. (waiting \/ (e > 0 /\ ~Has(d, e) /\ ~waiting)) \in BOOLEAN
  OBVIOUS
<1>7. asked' \in [Devices -> BOOLEAN]
  BY <1>5, <1>6 DEF MaybeRequestKey
<1>. QED  BY <1>4, <1>7

LEMMA SubTypes == Sub \in Seq(Request)
BY FrameTypes, NoneTypes DEF Sub

LEMMA LargerTypes ==
  ASSUME NEW a \in 0 .. MaxEpoch, NEW b \in 0 .. MaxEpoch
  PROVE  Larger(a, b) \in 0 .. MaxEpoch
BY DEF Larger

\* The peers are sent the key one by one.
LEMMA SharesTypes ==
  ASSUME NEW S \in SUBSET Devices, NEW e \in 0 .. MaxEpoch, NEW k \in {None} \cup Keys
  PROVE  /\ [i \in DOMAIN SetToSeq(S) |-> F("keyshare", e, k, {SetToSeq(S)[i]})] \in Seq(Request)
         /\ SetToSeq(S) \in [1 .. Cardinality(S) -> S] /\ Cardinality(S) \in Nat
<1>1. IsFiniteSet(S)
  BY FS_Subset, Constants
<1>2. Cardinality(S) \in Nat /\ ExistsBijection(1 .. Cardinality(S), S)
  BY <1>1, FS_CardinalityType
<1>3. \E f \in [1 .. Cardinality(S) -> S] : IsInjective(f)
  BY <1>2 DEF ExistsBijection, Bijection, Injection
<1>4. SetToSeq(S) \in [1 .. Cardinality(S) -> S]
  BY <1>3 DEF SetToSeq
<1>5. PICK n \in Nat : n = Cardinality(S)
  BY <1>2
<1>6. PICK others \in [1 .. n -> S] : others = SetToSeq(S)
  BY <1>4, <1>5
<1>7. \A i \in 1 .. n : F("keyshare", e, k, {others[i]}) \in Request
  BY DEF F, Request
<1>8. [i \in 1 .. n |-> F("keyshare", e, k, {others[i]})] \in Seq(Request)
  BY <1>7
<1>. QED  BY <1>2, <1>4, <1>5, <1>6, <1>8

\* A step of a client that makes no key.
LEMMA NoKeyMade ==
  ASSUME TypeInv, NEW d \in Devices, NEW t, Handles(d, t), UNCHANGED made
  PROVE  toClient' \in [Devices -> Seq(Frame)] /\ FramesName' /\ Budget'
<1>1. /\ toClient' \in [Devices -> Seq(Frame)] /\ FramesName'
      /\ IsFiniteSet(Pending(toClient'))
      /\ Cardinality(Pending(toClient')) \in Nat /\ Cardinality(Pending(toClient)) \in Nat
      /\ Cardinality(Pending(toClient'))
           + (IF t \in {"created", "rotated"} THEN 1 ELSE 0) <= Cardinality(Pending(toClient))
  BY HandlesTypes
<1>2. Cardinality(Pending(toClient')) <= Cardinality(Pending(toClient))
  BY <1>1
<1>. QED  BY <1>1, <1>2, BudgetKept DEF Handles, hubVars

\* A step of a client that makes one.
LEMMA KeyMade ==
  ASSUME TypeInv, NEW d \in Devices, NEW t \in {"created", "rotated"}, Handles(d, t),
         NewKey(d, Head(toClient[d]).e)
  PROVE  /\ toClient' \in [Devices -> Seq(Frame)] /\ FramesName' /\ Budget'
         /\ made' \in 0 .. MaxKeys /\ made' \in Keys /\ made' = made + 1
         /\ keys' \in [Devices -> [Epochs -> {None} \cup Keys]]
         /\ Head(toClient[d]).e \in 0 .. MaxEpoch
<1>1. /\ toClient' \in [Devices -> Seq(Frame)] /\ FramesName'
      /\ Head(toClient[d]) \in Frame
      /\ IsFiniteSet(Pending(toClient'))
      /\ Cardinality(Pending(toClient')) \in Nat /\ Cardinality(Pending(toClient)) \in Nat
      /\ Cardinality(Pending(toClient'))
           + (IF t \in {"created", "rotated"} THEN 1 ELSE 0) <= Cardinality(Pending(toClient))
  BY HandlesTypes
<1>2. /\ made \in Nat /\ creates \in 0 .. MaxCreates /\ epoch \in 0 .. MaxEpoch
      /\ keys \in [Devices -> [Epochs -> {None} \cup Keys]]
      /\ MaxEpoch \in Nat /\ MaxKeys \in Nat /\ MaxCreates \in Nat
  BY Constants DEF TypeInv, TypeOK
<1>3. PICK b \in Nat : b = creates * MaxEpoch
  BY <1>2
<1>4. made' = made + 1 /\ epoch' = epoch /\ creates' = creates
  BY DEF NewKey, Handles, hubVars
<1>5. made + Cardinality(Pending(toClient)) + (IF epoch > 0 THEN MaxEpoch - epoch ELSE 0) <= b
  BY <1>3 DEF TypeInv, Budget
<1>6. made' + Cardinality(Pending(toClient')) + (IF epoch' > 0 THEN MaxEpoch - epoch' ELSE 0) <= b
  BY <1>1, <1>2, <1>4, <1>5
<1>7. Budget'
  BY <1>1, <1>3, <1>4, <1>6 DEF Budget
<1>8. made' <= creates * MaxEpoch
  BY <1>1, <1>2, <1>3, <1>4, <1>6
<1>9. made' <= MaxKeys
  <2>1. made' \in Nat
    BY <1>2, <1>4
  <2>. QED  BY <1>2, <1>8, <2>1, BudgetHolds, Zenon
<1>10. made' \in Keys /\ made' \in 0 .. MaxKeys
  BY <1>2, <1>4, <1>9 DEF Keys
<1>11. keys' \in [Devices -> [Epochs -> {None} \cup Keys]]
  BY <1>2, <1>4, <1>10 DEF NewKey
<1>12. Head(toClient[d]).e \in 0 .. MaxEpoch
  BY <1>1 DEF Frame
<1>. QED  BY <1>1, <1>4, <1>7, <1>10, <1>11, <1>12

LEMMA ClientTypes ==
  ASSUME TypeInv, NEW d \in Devices, ClientStep(d)
  PROVE  TypeInv'
<1>0. /\ know \in [Devices -> 0 .. MaxEpoch] /\ asked \in [Devices -> BOOLEAN]
      /\ keys \in [Devices -> [Epochs -> {None} \cup Keys]]
  BY DEF TypeInv, TypeOK
<1>f. ASSUME NEW t, Handles(d, t)
      PROVE  /\ Head(toClient[d]).e \in 0 .. MaxEpoch
             /\ Head(toClient[d]).k \in {None} \cup Keys
             /\ t \in {"keyreq", "peers"} => Head(toClient[d]).who \subseteq Devices
  <2>1. /\ Head(toClient[d]) \in Frame /\ NamesDevices(Head(toClient[d]))
        /\ Head(toClient[d]).t = t
    BY <1>f, HandlesTypes
  <2>. QED  BY <2>1 DEF Frame, NamesDevices
<1>1. CASE OnInfo(d)
  <2>1. toClient' \in [Devices -> Seq(Frame)] /\ FramesName' /\ Budget'
    BY <1>1, NoKeyMade DEF OnInfo
  <2>2. Head(toClient[d]).e \in 0 .. MaxEpoch
    BY <1>1, <1>f DEF OnInfo
  <2>3. know' \in [Devices -> 0 .. MaxEpoch]
    <3>1. know[d] \in 0 .. MaxEpoch
      BY <1>0
    <3>2. Larger(know[d], Head(toClient[d]).e) \in 0 .. MaxEpoch
      BY <2>2, <3>1, LargerTypes
    <3>. QED  BY <1>0, <1>1, <3>2, NoneTypes DEF OnInfo
  <2>4. toHub' \in [Devices -> Seq(Request)] /\ asked' \in [Devices -> BOOLEAN]
    <3>1. Larger(know[d], Head(toClient[d]).e) \in 0 .. MaxEpoch /\ asked[d] \in BOOLEAN
      BY <1>0, <2>2, LargerTypes
    <3>2. CASE Head(toClient[d]).e = 0
      BY <1>1, <1>0, <3>2 DEF OnInfo, TypeInv, TypeOK
    <3>3. CASE Head(toClient[d]).e # 0
      BY <1>1, <3>1, <3>3, AskTypes, SubTypes DEF OnInfo
    <3>. QED  BY <3>2, <3>3
  <2>5. TypeOK'
    BY <1>1, <2>1, <2>3, <2>4 DEF TypeInv, TypeOK, OnInfo, Handles, hubVars
  <2>. QED  BY <2>1, <2>5 DEF TypeInv
<1>2. CASE OnGone(d)
  <2>1. toClient' \in [Devices -> Seq(Frame)] /\ FramesName' /\ Budget'
    BY <1>2, NoKeyMade DEF OnGone
  <2>2. TypeOK'
    BY <1>0, <1>2, <2>1, NoneTypes DEF TypeInv, TypeOK, OnGone, Handles, hubVars
  <2>. QED  BY <2>1, <2>2 DEF TypeInv
<1>3. CASE OnCreated(d)
  <2>1. /\ toClient' \in [Devices -> Seq(Frame)] /\ FramesName' /\ Budget'
        /\ made' \in 0 .. MaxKeys
        /\ keys' \in [Devices -> [Epochs -> {None} \cup Keys]]
        /\ Head(toClient[d]).e \in 0 .. MaxEpoch
    BY <1>3, KeyMade DEF OnCreated
  <2>2. toHub' \in [Devices -> Seq(Request)]
    BY <1>3, WriteTypes, SubTypes DEF OnCreated
  <2>3. know' \in [Devices -> 0 .. MaxEpoch]
    BY <1>0, <1>3, <2>1, LargerTypes DEF OnCreated
  <2>4. TypeOK'
    BY <1>3, <2>1, <2>2, <2>3 DEF TypeInv, TypeOK, OnCreated, Handles, hubVars
  <2>. QED  BY <2>1, <2>4 DEF TypeInv
<1>4. CASE OnJoin(d)
  <2>1. toClient' \in [Devices -> Seq(Frame)] /\ FramesName' /\ Budget'
    BY <1>4, NoKeyMade DEF OnJoin
  <2>2. toHub' \in [Devices -> Seq(Request)] /\ asked' \in [Devices -> BOOLEAN]
    <3>1. <<>> \in Seq(Request) /\ know[d] \in 0 .. MaxEpoch
      BY <1>0
    <3>2. CASE MaybeRequestKey(d, know[d], FALSE, <<>>)
      BY <3>1, <3>2, AskTypes
    <3>3. CASE UNCHANGED <<asked, toHub>>
      BY <3>3 DEF TypeInv, TypeOK
    <3>. QED  BY <1>4, <3>2, <3>3 DEF OnJoin
  <2>3. TypeOK'
    BY <1>4, <2>1, <2>2 DEF TypeInv, TypeOK, OnJoin, Handles, hubVars
  <2>. QED  BY <2>1, <2>3 DEF TypeInv
<1>5. CASE OnKeyReq(d)
  <2>1. toClient' \in [Devices -> Seq(Frame)] /\ FramesName' /\ Budget'
    BY <1>5, NoKeyMade DEF OnKeyReq, clientVars
  <2>2. toHub' \in [Devices -> Seq(Request)]
    <3>1. CASE UNCHANGED toHub
      BY <3>1 DEF TypeInv, TypeOK
    <3>2. CASE /\ Has(d, Head(toClient[d]).e)
               /\ Write(d, <<F("keyshare", Head(toClient[d]).e, keys[d][Head(toClient[d]).e],
                               Head(toClient[d]).who)>>)
      <4>1. PICK e \in 0 .. MaxEpoch : e = Head(toClient[d]).e
        BY <1>5, <1>f DEF OnKeyReq
      <4>2. PICK k \in {None} \cup Keys : k = keys[d][e]
        BY <1>0, <3>2, <4>1 DEF Has
      <4>3. PICK who \in SUBSET Devices : who = Head(toClient[d]).who
        BY <1>5, <1>f DEF OnKeyReq
      <4>4. <<F("keyshare", e, k, who)>> \in Seq(Request)
        BY FrameTypes
      <4>. QED  BY <3>2, <4>1, <4>2, <4>3, <4>4, WriteTypes
    <3>. QED  BY <1>5, <3>1, <3>2 DEF OnKeyReq
  <2>3. TypeOK'
    BY <1>5, <2>1, <2>2 DEF TypeInv, TypeOK, OnKeyReq, Handles, hubVars, clientVars
  <2>. QED  BY <2>1, <2>3 DEF TypeInv
<1>6. CASE OnKeyShare(d)
  <2>1. toClient' \in [Devices -> Seq(Frame)] /\ FramesName' /\ Budget'
    BY <1>6, NoKeyMade DEF OnKeyShare
  <2>2. Head(toClient[d]).e \in 0 .. MaxEpoch /\ Head(toClient[d]).k \in {None} \cup Keys
    BY <1>6, <1>f DEF OnKeyShare
  <2>3. know' \in [Devices -> 0 .. MaxEpoch]
    BY <1>0, <1>6, <2>2, LargerTypes, NoneTypes DEF OnKeyShare
  <2>4. keys' \in [Devices -> [Epochs -> {None} \cup Keys]] /\ asked' \in [Devices -> BOOLEAN]
    BY <1>0, <1>6, <2>2 DEF OnKeyShare
  <2>5. TypeOK'
    BY <1>6, <2>1, <2>3, <2>4 DEF TypeInv, TypeOK, OnKeyShare, Handles, hubVars
  <2>. QED  BY <2>1, <2>5 DEF TypeInv
<1>7. CASE OnRotated(d)
  <2>1. CASE know[d] > 0
    <3>1. /\ toClient' \in [Devices -> Seq(Frame)] /\ FramesName' /\ Budget'
          /\ made' \in 0 .. MaxKeys /\ made' \in Keys /\ made' = made + 1
          /\ keys' \in [Devices -> [Epochs -> {None} \cup Keys]]
          /\ Head(toClient[d]).e \in 0 .. MaxEpoch
      BY <1>7, <2>1, KeyMade DEF OnRotated
    <3>2. toHub' \in [Devices -> Seq(Request)]
      <4>1. PICK e \in 0 .. MaxEpoch, k \in {None} \cup Keys :
              e = Head(toClient[d]).e /\ k = made + 1
        BY <3>1
      <4>2. <<F("peers", e, k, {})>> \in Seq(Request)
        BY FrameTypes
      <4>. QED  BY <1>7, <2>1, <4>1, <4>2, WriteTypes DEF OnRotated
    <3>3. know' \in [Devices -> 0 .. MaxEpoch]
      BY <1>0, <1>7, <2>1, <3>1 DEF OnRotated
    <3>4. TypeOK'
      BY <1>7, <3>1, <3>2, <3>3 DEF TypeInv, TypeOK, OnRotated, Handles, hubVars
    <3>. QED  BY <3>1, <3>4 DEF TypeInv
  <2>2. CASE ~(know[d] > 0)
    <3>1. UNCHANGED <<know, keys, made, toHub, asked>>
      BY <1>7, <2>2 DEF OnRotated
    <3>2. toClient' \in [Devices -> Seq(Frame)] /\ FramesName' /\ Budget'
      BY <1>7, <3>1, NoKeyMade DEF OnRotated
    <3>3. TypeOK'
      BY <1>7, <3>1, <3>2 DEF TypeInv, TypeOK, OnRotated, Handles, hubVars
    <3>. QED  BY <3>2, <3>3 DEF TypeInv
  <2>. QED  BY <2>1, <2>2
<1>8. CASE OnPeers(d)
  <2>1. toClient' \in [Devices -> Seq(Frame)] /\ FramesName' /\ Budget'
    BY <1>8, NoKeyMade DEF OnPeers, clientVars
  <2>2. PICK f : f = Head(toClient[d])
    OBVIOUS
  <2>3. f.e \in 0 .. MaxEpoch /\ f.k \in {None} \cup Keys /\ f.who \ {d} \in SUBSET Devices
    BY <1>8, <1>f, <2>2 DEF OnPeers
  <2>4. [i \in DOMAIN SetToSeq(f.who \ {d}) |->
           F("keyshare", f.e, f.k, {SetToSeq(f.who \ {d})[i]})] \in Seq(Request)
    BY <2>3, SharesTypes
  <2>5. toHub' \in [Devices -> Seq(Request)]
    BY <1>8, <2>2, <2>4, WriteTypes DEF OnPeers
  <2>6. TypeOK'
    BY <1>8, <2>1, <2>5 DEF TypeInv, TypeOK, OnPeers, Handles, hubVars, clientVars
  <2>. QED  BY <2>1, <2>6 DEF TypeInv
<1>. QED  BY <1>1, <1>2, <1>3, <1>4, <1>5, <1>6, <1>7, <1>8 DEF ClientStep

LEMMA UserTypes ==
  ASSUME TypeInv, NEW d \in Devices, Rotate(d) \/ Reshare(d)
  PROVE  TypeInv'
<1>1. toHub' \in [Devices -> Seq(Request)]
  <2>1. CASE Rotate(d)
    <3>1. <<F("rotate", 0, None, {})>> \in Seq(Request)
      BY FrameTypes, NoneTypes
    <3>. QED  BY <2>1, <3>1, WriteTypes DEF Rotate
  <2>2. CASE Reshare(d)
    <3>1. PICK e \in 0 .. MaxEpoch, k \in {None} \cup Keys : e = know[d] /\ k = keys[d][know[d]]
      BY <2>2 DEF Reshare, Has, TypeInv, TypeOK
    <3>2. <<F("peers", e, k, {})>> \in Seq(Request)
      BY FrameTypes
    <3>. QED  BY <2>2, <3>1, <3>2, WriteTypes DEF Reshare
  <2>. QED  BY <2>1, <2>2
<1>2. UNCHANGED <<hubVars, clientVars, up, subbed, toClient>> /\ moves' \in 0 .. MaxMoves
  BY Constants DEF Rotate, Reshare, Move, TypeInv, TypeOK
<1>3. toClient' \in [Devices -> Seq(Frame)] /\ FramesName' /\ Budget'
  BY <1>2, SameQueues DEF hubVars, clientVars
<1>4. TypeOK'
  BY <1>1, <1>2, <1>3 DEF TypeInv, TypeOK, hubVars, clientVars
<1>. QED  BY <1>3, <1>4 DEF TypeInv

LEMMA NextTypes == ASSUME TypeInv, [Next]_vars PROVE TypeInv'
<1>1. CASE UNCHANGED vars
  BY <1>1 DEF TypeInv, TypeOK, FramesName, Budget, vars, hubVars, clientVars
<1>2. CASE Next
  BY <1>2, DeleteTypes, MembersTypes, HubTypes, ClientTypes, CreateTypes, ConnectTypes, UserTypes,
     DropTypes DEF Next
<1>. QED  BY <1>1, <1>2

\* In every reachable state the state is of its type; above all, no more keys are made
\* than there have been epochs, however often the channel is created anew
\* (onCreated and rotateAndReshare make one for each epoch they are told of).
THEOREM TypeCorrect == Spec => []TypeOK
<1>1. Init => TypeInv
  BY InitTypes
<1>2. TypeInv /\ [Next]_vars => TypeInv'
  BY NextTypes
<1>3. TypeInv => TypeOK
  BY DEF TypeInv
<1>. QED  BY <1>1, <1>2, <1>3, PTL DEF Spec

-----------------------------------------------------------------------------
(***************************************************************************)
(* One key for each epoch, and for the entitled, where a channel is created*)
(* once                                                                    *)
(***************************************************************************)
Held(e, k) == \E x \in Devices : keys[x][e] = k
Known(e) == \E x \in Devices : keys[x][e] # None
Begun(e) == epoch > 0 => e <= epoch

\* A key under way is the one some device has for its epoch.
Carries(f) == f.t \in {"keyshare", "peers"}
KeyOK(f) == f.e \in Epochs /\ f.k # None /\ Held(f.e, f.k)

\* A key goes to the entitled only; where one will be made there is none yet.
GoodFrame(d, f) ==
  /\ Carries(f) => KeyOK(f)
  /\ f.t = "keyshare" => Owner[d] \in entitled[f.e]
  /\ Makes(f) => f.e \in Epochs /\ Owner[d] \in entitled[f.e] /\ ~Known(f.e) /\ Begun(f.e)

FramesGood == \A d \in Devices : \A f \in Range(toClient[d]) : GoodFrame(d, f)
RequestsGood == \A d \in Devices : \A r \in Range(toHub[d]) : Carries(r) => KeyOK(r)

\* No two frames are under way on which the key of the same epoch will be made.
OnePending ==
  \A p, o \in Pending(toClient) : At(toClient, p).e = At(toClient, o).e => p = o

\* Epochs have different keys, each has one, and no key is ahead of the count.
KeysApart ==
  \A d, x \in Devices, e, f \in Epochs :
    Has(d, e) /\ Has(x, f) => (e = f <=> keys[d][e] = keys[x][f])
KeysCounted == \A d \in Devices, e \in Epochs : keys[d][e] <= made
KeysEntitled ==
  \A d \in Devices, e \in Epochs : Has(d, e) => Owner[d] \in entitled[e] /\ Begun(e)

MembersEntitled == \A e \in Epochs : e <= epoch => members \subseteq entitled[e]

\* Before the channel is created there is nothing.
Unborn ==
  creates = 0 =>
    /\ epoch = 0 /\ Pending(toClient) = {}
    /\ \A d \in Devices, e \in Epochs : keys[d][e] = None

KeyInv ==
  /\ FramesGood /\ RequestsGood /\ OnePending
  /\ KeysApart /\ KeysCounted /\ KeysEntitled
  /\ MembersEntitled /\ Unborn

Inv == TypeInv /\ KeyInv

LEMMA InitKeys == ASSUME Init PROVE KeyInv
<1>1. Pending(toClient) = {} /\ \A d \in Devices : Range(toClient[d]) = {} /\ Range(toHub[d]) = {}
  BY DEF Init, Pending, Range
<1>2. FramesGood /\ RequestsGood /\ OnePending
  BY <1>1 DEF FramesGood, RequestsGood, OnePending
<1>3. \A d \in Devices, e \in Epochs : keys[d][e] = None
  BY DEF Init
<1>4. KeysApart /\ KeysEntitled
  BY <1>3 DEF KeysApart, KeysEntitled, Has
<1>5. KeysCounted
  BY <1>3 DEF KeysCounted, Init, None
<1>6. MembersEntitled /\ Unborn
  BY <1>1, <1>3 DEF MembersEntitled, Unborn, Init
<1>. QED  BY <1>2, <1>4, <1>5, <1>6 DEF KeyInv

\* A step that leaves the keys alone: nobody loses a title, and no epoch begins that
\* is behind a key.
Calm ==
  /\ UNCHANGED <<keys, made>>
  /\ \A e \in Epochs : entitled[e] \subseteq entitled'[e] /\ (Begun(e) => Begun(e)')

LEMMA CalmGood ==
  ASSUME Inv, Calm
  PROVE  /\ \A d \in Devices : \A f : GoodFrame(d, f) => GoodFrame(d, f)'
         /\ \A f : KeyOK(f) => KeyOK(f)'
         /\ KeysApart' /\ KeysCounted' /\ KeysEntitled'
<1>1. \A e, k : Held(e, k)' <=> Held(e, k)
  BY DEF Held, Calm
<1>2. \A e : Known(e)' <=> Known(e)
  BY DEF Known, Calm
<1>3. \A f : KeyOK(f) => KeyOK(f)'
  BY <1>1, Zenon DEF KeyOK
<1>4. ASSUME NEW d \in Devices, NEW f, GoodFrame(d, f)
      PROVE  GoodFrame(d, f)'
  <2>1. Carries(f) => KeyOK(f)'
    BY <1>3, <1>4 DEF GoodFrame
  <2>2. f.t = "keyshare" => Owner[d] \in entitled'[f.e]
    BY <1>4 DEF GoodFrame, Calm, Carries, KeyOK
  <2>3. Makes(f) => /\ f.e \in Epochs /\ Owner[d] \in entitled'[f.e]
                    /\ ~Known(f.e)' /\ Begun(f.e)'
    BY <1>2, <1>4 DEF GoodFrame, Calm
  <2>. QED  BY <2>1, <2>2, <2>3 DEF GoodFrame
<1>5. KeysApart' /\ KeysCounted'
  BY DEF Inv, KeyInv, KeysApart, KeysCounted, Has, Calm
<1>6. KeysEntitled'
  BY DEF Inv, KeyInv, KeysEntitled, Has, Calm
<1>. QED  BY <1>3, <1>4, <1>5, <1>6

\* A frame that makes no key is pushed.
LEMMA PushKeepsOne ==
  ASSUME Inv, NEW S, NEW f \in Frame, ~Makes(f), Push(S, f)
  PROVE  /\ Pending(toClient') = Pending(toClient) /\ OnePending'
         /\ \A x \in Devices : Range(toClient'[x]) \subseteq
                Range(toClient[x]) \cup (IF x \in S THEN {f} ELSE {})
<1>0. PICK q, r : q = toClient /\ r = toClient'
  OBVIOUS
<1>1. q \in [Devices -> Seq(Frame)] /\ Pushed(q, r, S, f)
  BY <1>0 DEF Inv, TypeInv, TypeOK, Push, Pushed
<1>2. r \in [Devices -> Seq(Frame)]
  BY <1>0, <1>1, AppendProperties DEF Push
<1>3. /\ \A x \in Devices : Range(r[x]) \subseteq Range(q[x]) \cup (IF x \in S THEN {f} ELSE {})
      /\ \A p \in Pending(q) : p \in Pending(r) /\ At(r, p) = At(q, p)
      /\ ~Makes(f) => Pending(r) = Pending(q)
  BY <1>1, <1>2, PushProperties, ZenonT(60)
<1>4. OnePending'
  BY <1>0, <1>3 DEF OnePending, Inv, KeyInv
<1>. QED  BY <1>0, <1>3, <1>4

\* A frame that makes the key of an epoch for which none is on its way.
LEMMA PushOneMore ==
  ASSUME Inv, NEW d \in Devices, NEW f \in Frame, Push({d}, f),
         \A p \in Pending(toClient) : At(toClient, p).e # f.e
  PROVE  /\ OnePending'
         /\ \A x \in Devices : Range(toClient'[x]) \subseteq
                Range(toClient[x]) \cup (IF x \in {d} THEN {f} ELSE {})
<1>0. PICK q, r, S : q = toClient /\ r = toClient' /\ S = {d}
  OBVIOUS
<1>1. q \in [Devices -> Seq(Frame)] /\ Pushed(q, r, S, f)
  BY <1>0 DEF Inv, TypeInv, TypeOK, Push, Pushed
<1>2. r \in [Devices -> Seq(Frame)]
  BY <1>0, <1>1, AppendProperties DEF Push
<1>3. /\ \A x \in Devices : Range(r[x]) \subseteq Range(q[x]) \cup (IF x \in S THEN {f} ELSE {})
      /\ \A p \in Pending(q) : p \in Pending(r) /\ At(r, p) = At(q, p)
      /\ ~Makes(f) => Pending(r) = Pending(q)
      /\ \A y \in Devices : S = {y} =>
           /\ Pending(r) \subseteq Pending(q) \cup {<<y, Len(q[y]) + 1>>}
           /\ <<y, Len(q[y]) + 1>> \notin Pending(q)
           /\ At(r, <<y, Len(q[y]) + 1>>) = f
  BY <1>1, <1>2, PushProperties, ZenonT(60)
<1>4. PICK new : /\ Pending(r) \subseteq Pending(q) \cup {new} /\ new \notin Pending(q)
                 /\ At(r, new) = f
  BY <1>0, <1>3
<1>5. \A p, o \in Pending(q) : At(q, p).e = At(q, o).e => p = o
  BY <1>0 DEF Inv, KeyInv, OnePending
<1>6. \A p \in Pending(q) : At(q, p).e # f.e
  BY <1>0
<1>7. \A p, o \in Pending(r) : At(r, p).e = At(r, o).e => p = o
  BY <1>3, <1>4, <1>5, <1>6, Zenon
<1>. QED  BY <1>0, <1>3, <1>7 DEF OnePending

LEMMA TakeKeepsOne ==
  ASSUME Inv, NEW d \in Devices, NEW t, Handles(d, t)
  PROVE  /\ OnePending'
         /\ \A x \in Devices : Range(toClient'[x]) \subseteq Range(toClient[x])
         /\ Head(toClient[d]) \in Range(toClient[d]) /\ Head(toClient[d]) \in Frame
         /\ Head(toClient[d]).t = t
         /\ Makes(Head(toClient[d])) =>
              \A x \in Devices : \A f \in Range(toClient'[x]) :
                Makes(f) => f.e # Head(toClient[d]).e
         /\ Pending(toClient) = {} => Pending(toClient') = {}
<1>0. PICK q, r : q = toClient /\ r = toClient'
  OBVIOUS
<1>1. q \in [Devices -> Seq(Frame)] /\ q[d] # <<>> /\ Head(q[d]).t = t
  BY <1>0 DEF Inv, TypeInv, TypeOK, Handles
<1>a. r = [q EXCEPT ![d] = Tail(@)]
  BY <1>0 DEF Handles
<1>b. r \in [Devices -> Seq(Frame)]
  BY <1>1, <1>a, HeadTailProperties
<1>c. r[d] = Tail(q[d]) /\ \A x \in Devices \ {d} : r[x] = q[x]
  BY <1>1, <1>a
<1>2. /\ \A x \in Devices : Range(r[x]) \subseteq Range(q[x])
      /\ Head(q[d]) \in Range(q[d]) /\ Head(q[d]) \in Frame
      /\ Makes(Head(q[d])) => <<d, 1>> \in Pending(q)
  BY <1>1, <1>b, <1>c, TakeProperties, ZenonT(60)
<1>h. At(q, <<d, 1>>) = Head(q[d])
  BY <1>1, RangeTail DEF At
<1>3. PICK g \in [Pending(r) -> Pending(q) \ {<<d, 1>>}] :
        /\ \A p, o \in Pending(r) : g[p] = g[o] => p = o
        /\ \A p \in Pending(r) : At(r, p) = At(q, g[p])
  BY <1>1, <1>b, <1>c, TakeProperties, ZenonT(60)
<1>4. \A p, o \in Pending(q) : At(q, p).e = At(q, o).e => p = o
  BY <1>0 DEF Inv, KeyInv, OnePending
<1>g. \A p \in Pending(r) : g[p] \in Pending(q) /\ g[p] # <<d, 1>>
  BY <1>3
<1>5. \A p, o \in Pending(r) : At(r, p).e = At(r, o).e => p = o
  BY <1>3, <1>4, <1>g, Zenon
<1>6. ASSUME Makes(Head(q[d])), NEW x \in Devices, NEW f \in Range(r[x]), Makes(f)
      PROVE  f.e # Head(q[d]).e
  <2>1. PICK i \in DOMAIN r[x] : f = r[x][i]
    BY DEF Range
  <2>2. i \in Nat
    BY <1>b, LenProperties
  <2>3. <<x, i>> \in Pending(r) /\ At(r, <<x, i>>) = f
    BY <1>6, <2>1, <2>2, PendingIn DEF At
  <2>4. g[<<x, i>>] \in Pending(q) /\ g[<<x, i>>] # <<d, 1>> /\ At(q, g[<<x, i>>]) = f
    BY <1>3, <1>g, <2>3
  <2>. QED  BY <1>2, <1>h, <1>4, <1>6, <2>4
<1>7. Pending(q) = {} => Pending(r) = {}
  BY <1>g
<1>8. Makes(Head(q[d])) => \A x \in Devices : \A f \in Range(r[x]) : Makes(f) => f.e # Head(q[d]).e
  BY <1>6, Zenon
<1>. QED  BY <1>0, <1>1, <1>2, <1>5, <1>7, <1>8 DEF OnePending

\* What is written to the hub.
LEMMA WriteGood ==
  ASSUME Inv, NEW d \in Devices, NEW rs \in Seq(Request), Write(d, rs),
         \A r \in Range(rs) : Carries(r) => KeyOK(r)',
         \A f : KeyOK(f) => KeyOK(f)'
  PROVE  RequestsGood'
<1>0. PICK q, n : q = toHub /\ n = toHub'
  OBVIOUS
<1>1. q \in [Devices -> Seq(Request)]
  BY <1>0 DEF Inv, TypeInv, TypeOK
<1>2. n = [q EXCEPT ![d] = IF up[d] THEN @ \o rs ELSE @]
  BY <1>0 DEF Write
<1>3. Range(q[d] \o rs) = Range(q[d]) \cup Range(rs)
  BY <1>1, RangeConcatenation
<1>4. \A x \in Devices : Range(n[x]) \subseteq Range(q[x]) \cup Range(rs)
  BY <1>1, <1>2, <1>3
<1>5. \A x \in Devices : \A r \in Range(q[x]) : Carries(r) => KeyOK(r)
  BY <1>0 DEF Inv, KeyInv, RequestsGood
<1>6. \A x \in Devices : \A r \in Range(n[x]) : Carries(r) => KeyOK(r)'
  BY <1>4, <1>5, Zenon
<1>. QED  BY <1>0, <1>6 DEF RequestsGood, Carries

LEMMA RangeOne == ASSUME NEW f PROVE Range(<<f>>) = {f}
BY DEF Range

\* A step of the hub or of the network that pushes S a frame and keeps the keys.
LEMMA CalmPush ==
  ASSUME Inv, Calm, NEW S, NEW f \in Frame, ~Makes(f), Push(S, f),
         \A x \in S \cap Devices : GoodFrame(x, f)'
  PROVE  FramesGood' /\ OnePending' /\ KeysApart' /\ KeysCounted' /\ KeysEntitled'
         /\ Pending(toClient') = Pending(toClient)
<1>1. /\ \A d \in Devices : \A g : GoodFrame(d, g) => GoodFrame(d, g)'
      /\ KeysApart' /\ KeysCounted' /\ KeysEntitled'
  BY CalmGood
<1>2. /\ Pending(toClient') = Pending(toClient) /\ OnePending'
      /\ \A x \in Devices : Range(toClient'[x]) \subseteq
             Range(toClient[x]) \cup (IF x \in S THEN {f} ELSE {})
  BY PushKeepsOne
<1>3. \A x \in Devices : \A g \in Range(toClient[x]) : GoodFrame(x, g)
  BY DEF Inv, KeyInv, FramesGood
<1>4. ASSUME NEW x \in Devices, NEW g \in Range(toClient'[x])
      PROVE  GoodFrame(x, g)'
  <2>1. CASE g \in Range(toClient[x])
    BY <1>1, <1>3, <2>1, Zenon
  <2>2. CASE g \notin Range(toClient[x])
    <3>1. x \in S /\ g = f
      BY <1>2, <2>2
    <3>. QED  BY <3>1, Zenon
  <2>. QED  BY <2>1, <2>2
<1>5. FramesGood'
  BY <1>4 DEF FramesGood
<1>. QED  BY <1>1, <1>2, <1>5

\* What neither carries a key nor makes one is good.
LEMMA PlainGood ==
  ASSUME NEW t \in {"info", "join", "gone", "keyreq"}, NEW e \in 0 .. MaxEpoch,
         NEW who \in SUBSET (Devices \cup Users)
  PROVE  /\ F(t, e, None, who) \in Frame /\ ~Makes(F(t, e, None, who))
         /\ \A x \in Devices : GoodFrame(x, F(t, e, None, who))'
<1>1. F(t, e, None, who) \in Frame
  BY NoneTypes DEF F, Frame
<1>2. F(t, e, None, who).t = t
  BY DEF F
<1>. QED  BY <1>1, <1>2 DEF Makes, GoodFrame, Carries

\* The requests that are left are good.
LEMMA FewerRequests ==
  ASSUME Inv, Calm,
         \A x \in Devices : Range(toHub'[x]) \subseteq Range(toHub[x])
  PROVE  RequestsGood'
<1>1. \A f : KeyOK(f) => KeyOK(f)'
  BY CalmGood
<1>2. \A x \in Devices : \A r \in Range(toHub[x]) : Carries(r) => KeyOK(r)
  BY DEF Inv, KeyInv, RequestsGood
<1>3. \A x \in Devices : \A r \in Range(toHub'[x]) : Carries(r) => KeyOK(r)'
  BY <1>1, <1>2, Zenon
<1>. QED  BY <1>3 DEF RequestsGood, Carries

LEMMA ServesGood ==
  ASSUME Inv, Calm, NEW d \in Devices, NEW t, Serves(d, t)
  PROVE  /\ RequestsGood'
         /\ Head(toHub[d]) \in Request /\ Head(toHub[d]).t = t
         /\ \A r : r = Head(toHub[d]) /\ Carries(r) => KeyOK(r) /\ KeyOK(r)'
<1>1. toHub \in [Devices -> Seq(Request)] /\ toHub[d] # <<>> /\ Head(toHub[d]).t = t
  BY DEF Inv, TypeInv, TypeOK, Serves
<1>2. /\ Range(Tail(toHub[d])) \subseteq Range(toHub[d])
      /\ Head(toHub[d]) \in Range(toHub[d]) /\ Head(toHub[d]) \in Request
  BY <1>1, RangeTail
<1>3. \A x \in Devices : Range(toHub'[x]) \subseteq Range(toHub[x])
  BY <1>1, <1>2 DEF Serves
<1>4. RequestsGood'
  BY <1>3, FewerRequests
<1>5. Carries(Head(toHub[d])) => KeyOK(Head(toHub[d]))
  BY <1>2 DEF Inv, KeyInv, RequestsGood
<1>6. \A r : KeyOK(r) => KeyOK(r)'
  BY CalmGood
<1>7. \A r : r = Head(toHub[d]) /\ Carries(r) => KeyOK(r) /\ KeyOK(r)'
  BY <1>5, <1>6, Zenon
<1>. QED  BY <1>1, <1>2, <1>4, <1>7

LEMMA CreateKeys ==
  ASSUME Inv, MaxCreates = 1, NEW d \in Devices, Create(d)
  PROVE  KeyInv'
<1> DEFINE f == F("created", 1, None, {})
<1>1. f \in Frame /\ f.t = "created" /\ f.e = 1
  BY FrameTypes, NoneTypes DEF F
<1>2. creates = 0
  BY DEF Create, Inv, TypeInv, TypeOK
<1>3. /\ epoch = 0 /\ Pending(toClient) = {}
      /\ \A x \in Devices, e \in Epochs : keys[x][e] = None
  BY <1>2 DEF Inv, KeyInv, Unborn
<1>4. \A e \in Epochs : ~Known(e)
  BY <1>3 DEF Known
<1>5. /\ keys' = keys /\ made' = made /\ toHub' = toHub
      /\ epoch' = 1 /\ members' = {Owner[d]} /\ creates' = creates + 1
  BY DEF Create, clientVars
<1>6. /\ 1 \in Epochs
      /\ entitled' = [e \in Epochs |-> entitled[e] \cup IF e <= 1 THEN {Owner[d]} ELSE {}]
  BY Constants DEF Create, Entitle, Epochs
<1>7. OnePending' /\ \A x \in Devices : Range(toClient'[x]) \subseteq
                        Range(toClient[x]) \cup (IF x \in {d} THEN {f} ELSE {})
  <2>1. Push({d}, f)
    BY DEF Create
  <2>. HIDE DEF f
  <2>. QED  BY <1>1, <1>3, <2>1, PushOneMore
<1>8. ASSUME NEW x \in Devices, NEW g \in Range(toClient[x])
      PROVE  ~Makes(g) /\ ~Carries(g)
  <2>1. GoodFrame(x, g)
    BY DEF Inv, KeyInv, FramesGood
  <2>2. ~Carries(g)
    BY <2>1, <1>3 DEF GoodFrame, KeyOK, Held
  <2>3. PICK i \in DOMAIN toClient[x] : g = toClient[x][i]
    BY DEF Range
  <2>4. i \in Nat
    BY LenProperties DEF Inv, TypeInv, TypeOK
  <2>5. ~Makes(g)
    BY <1>3, <2>3, <2>4, PendingIn
  <2>. QED  BY <2>2, <2>5
<1>9. ASSUME NEW x \in Devices, NEW g \in Range(toClient'[x])
      PROVE  GoodFrame(x, g)'
  <2>1. CASE g \in Range(toClient[x])
    <3>1. ~Makes(g) /\ ~Carries(g)
      BY <1>8, <2>1
    <3>. QED  BY <3>1 DEF GoodFrame, Carries
  <2>2. CASE g \notin Range(toClient[x])
    <3>1. x = d /\ g = f
      BY <1>7, <2>2
    <3>2. ~Known(1)'
      BY <1>4, <1>5, <1>6 DEF Known
    <3>3. Owner[d] \in entitled'[1] /\ Begun(1)'
      BY <1>5, <1>6 DEF Begun
    <3>. HIDE DEF f
    <3>. QED  BY <1>1, <1>6, <3>1, <3>2, <3>3 DEF GoodFrame, Carries
  <2>. QED  BY <2>1, <2>2
<1>10. FramesGood'
  BY <1>9 DEF FramesGood
<1>11. RequestsGood'
  <2>1. \A x \in Devices : \A r \in Range(toHub[x]) : ~Carries(r)
    BY <1>3 DEF Inv, KeyInv, RequestsGood, KeyOK, Held
  <2>. QED  BY <1>5, <2>1 DEF RequestsGood, Carries
<1>12. KeysApart' /\ KeysCounted' /\ KeysEntitled'
  BY <1>3, <1>5 DEF Inv, KeyInv, KeysApart, KeysCounted, KeysEntitled, Has
<1>13. MembersEntitled'
  BY <1>5, <1>6 DEF MembersEntitled
<1>14. Unborn'
  BY <1>2, <1>5 DEF Unborn
<1>. QED  BY <1>7, <1>10, <1>11, <1>12, <1>13, <1>14 DEF KeyInv

LEMMA DeleteKeys ==
  ASSUME Inv, MaxCreates = 1, Delete
  PROVE  KeyInv'
<1>1. Calm
  BY DEF Delete, clientVars, Calm, Begun
<1>2. PICK S : Push(S, F("gone", 0, None, {}))
  BY DEF Delete
<1>3. /\ F("gone", 0, None, {}) \in Frame /\ ~Makes(F("gone", 0, None, {}))
      /\ \A x \in Devices : GoodFrame(x, F("gone", 0, None, {}))'
  BY PlainGood, NoneTypes
<1>4. FramesGood' /\ OnePending' /\ KeysApart' /\ KeysCounted' /\ KeysEntitled'
      /\ Pending(toClient') = Pending(toClient)
  <2>1. PICK f : f = F("gone", 0, None, {})
    OBVIOUS
  <2>2. \A x \in S \cap Devices : GoodFrame(x, f)'
    BY <1>3, <2>1
  <2>. QED  BY <1>1, <1>2, <1>3, <2>1, <2>2, CalmPush
<1>5. RequestsGood'
  <2>1. \A x \in Devices : Range(toHub'[x]) \subseteq Range(toHub[x])
    BY DEF Delete
  <2>. QED  BY <1>1, <2>1, FewerRequests
<1>6. MembersEntitled' /\ Unborn'
  BY <1>4 DEF Delete, MembersEntitled, Unborn, Inv, KeyInv, TypeInv, TypeOK
<1>. QED  BY <1>4, <1>5, <1>6 DEF KeyInv

LEMMA MembersKeys ==
  ASSUME Inv, NEW u \in Users, AddMember(u) \/ Kick(u)
  PROVE  KeyInv'
<1>1. Calm
  BY DEF AddMember, Kick, clientVars, Calm, Begun, Entitle
<1>2. PICK S, f : Push(S, f) /\ f \in Frame /\ ~Makes(f) /\ \A x \in Devices : GoodFrame(x, f)'
  <2>1. CASE AddMember(u)
    <3>1. PICK S : Push(S, F("info", epoch, None, {}))
      BY <2>1 DEF AddMember
    <3>2. PICK e \in 0 .. MaxEpoch : e = epoch
      BY DEF Inv, TypeInv, TypeOK
    <3>3. PICK f : f = F("info", e, None, {})
      OBVIOUS
    <3>4. f \in Frame /\ ~Makes(f) /\ \A x \in Devices : GoodFrame(x, f)'
      BY <3>3, PlainGood
    <3>. QED  BY <3>1, <3>2, <3>3, <3>4
  <2>2. CASE Kick(u)
    <3>1. PICK S : Push(S, F("gone", 0, None, {}))
      BY <2>2 DEF Kick
    <3>2. PICK f : f = F("gone", 0, None, {})
      OBVIOUS
    <3>3. f \in Frame /\ ~Makes(f) /\ \A x \in Devices : GoodFrame(x, f)'
      BY <3>2, PlainGood, NoneTypes
    <3>. QED  BY <3>1, <3>2, <3>3
  <2>. QED  BY <2>1, <2>2
<1>5. /\ FramesGood' /\ OnePending' /\ KeysApart' /\ KeysCounted' /\ KeysEntitled'
      /\ Pending(toClient') = Pending(toClient)
  BY <1>1, <1>2, CalmPush
<1>6. RequestsGood'
  <2>1. \A x \in Devices : Range(toHub'[x]) \subseteq Range(toHub[x])
    BY DEF AddMember, Kick
  <2>. QED  BY <1>1, <2>1, FewerRequests
<1>7. MembersEntitled'
  BY DEF AddMember, Kick, Entitle, MembersEntitled, Inv, KeyInv
<1>8. Unborn'
  BY <1>5 DEF AddMember, Kick, clientVars, Unborn, Inv, KeyInv
<1>. QED  BY <1>5, <1>6, <1>7, <1>8 DEF KeyInv

LEMMA ConnectKeys ==
  ASSUME Inv, NEW d \in Devices, Connect(d)
  PROVE  KeyInv'
<1>1. Calm
  BY DEF Connect, clientVars, hubVars, Calm, Begun
<1>2. PICK e \in 0 .. MaxEpoch : Push({d}, F("info", e, None, {}))
  BY NoneTypes DEF Connect, Inv, TypeInv, TypeOK
<1>3. PICK f : f = F("info", e, None, {})
  OBVIOUS
<1>4. f \in Frame /\ ~Makes(f) /\ \A x \in Devices : GoodFrame(x, f)'
  BY <1>3, PlainGood
<1>5. /\ FramesGood' /\ OnePending' /\ KeysApart' /\ KeysCounted' /\ KeysEntitled'
      /\ Pending(toClient') = Pending(toClient)
  BY <1>1, <1>2, <1>3, <1>4, CalmPush
<1>6. RequestsGood'
  <2>1. \A x \in Devices : Range(toHub'[x]) \subseteq Range(toHub[x])
    BY DEF Connect
  <2>. QED  BY <1>1, <2>1, FewerRequests
<1>7. MembersEntitled' /\ Unborn'
  BY <1>5 DEF Connect, clientVars, hubVars, MembersEntitled, Unborn, Inv, KeyInv
<1>. QED  BY <1>5, <1>6, <1>7 DEF KeyInv

LEMMA DropKeys ==
  ASSUME Inv, NEW d \in Devices, NEW n \in 0 .. Len(toClient[d]), Drop(d, n)
  PROVE  KeyInv'
<1>0. PICK q, r : q = toClient /\ r = toClient'
  OBVIOUS
<1>1. q \in [Devices -> Seq(Frame)] /\ n \in 0 .. Len(q[d])
  BY <1>0 DEF Inv, TypeInv, TypeOK
<1>2. r = [q EXCEPT ![d] = SubSeq(@, 1, n)]
  BY <1>0 DEF Drop
<1>3. r[d] = SubSeq(q[d], 1, n) /\ \A x \in Devices \ {d} : r[x] = q[x]
  BY <1>1, <1>2
<1>4. r \in [Devices -> Seq(Frame)]
  <2>1. SubSeq(q[d], 1, n) \in Seq(Frame)
    BY <1>1, RangeCut
  <2>. QED  BY <1>1, <1>2, <2>1
<1>5. /\ \A x \in Devices : Range(r[x]) \subseteq Range(q[x])
      /\ Pending(r) \subseteq Pending(q)
      /\ \A p \in Pending(r) : At(r, p) = At(q, p)
  BY <1>1, <1>3, <1>4, CutProperties, ZenonT(60)
<1>6. Calm
  BY DEF Drop, clientVars, hubVars, Calm, Begun
<1>7. /\ \A x \in Devices : \A f : GoodFrame(x, f) => GoodFrame(x, f)'
      /\ KeysApart' /\ KeysCounted' /\ KeysEntitled'
  BY <1>6, CalmGood
<1>8. FramesGood'
  <2>1. \A x \in Devices : \A f \in Range(q[x]) : GoodFrame(x, f)
    BY <1>0 DEF Inv, KeyInv, FramesGood
  <2>2. \A x \in Devices : \A f \in Range(r[x]) : GoodFrame(x, f)'
    BY <1>5, <1>7, <2>1, Zenon
  <2>. QED  BY <1>0, <2>2 DEF FramesGood
<1>9. OnePending'
  BY <1>0, <1>5 DEF OnePending, Inv, KeyInv
<1>10. RequestsGood'
  <2>1. \A x \in Devices : Range(toHub'[x]) \subseteq Range(toHub[x])
    BY DEF Drop, Range, Inv, TypeInv, TypeOK
  <2>. QED  BY <1>6, <2>1, FewerRequests
<1>11. MembersEntitled' /\ Unborn'
  BY <1>0, <1>5 DEF Drop, clientVars, hubVars, MembersEntitled, Unborn, Inv, KeyInv
<1>. QED  BY <1>7, <1>8, <1>9, <1>10, <1>11 DEF KeyInv

\* What the hub relays is good where it was good when it was written: a key goes to
\* members of now, who are entitled to every epoch that has begun.
LEMMA RelayKeys ==
  ASSUME Inv, NEW d \in Devices,
         HandleSub(d) \/ HandleKeyReq(d) \/ HandleKeyShare(d) \/ HandlePeers(d)
  PROVE  KeyInv'
<1>0. UNCHANGED <<hubVars, clientVars>>
  BY DEF HandleSub, HandleKeyReq, HandleKeyShare, HandlePeers, Serves
<1>1. Calm
  BY <1>0 DEF clientVars, hubVars, Calm, Begun
<1>2. PICK r : r = Head(toHub[d])
  OBVIOUS
<1>3. PICK t : Serves(d, t) /\ r.t = t /\ t \in {"sub", "keyreq", "keyshare", "peers"}
               /\ (HandleSub(d) => t = "sub") /\ (HandleKeyReq(d) => t = "keyreq")
               /\ (HandleKeyShare(d) => t = "keyshare") /\ (HandlePeers(d) => t = "peers")
  BY <1>2 DEF HandleSub, HandleKeyReq, HandleKeyShare, HandlePeers, Serves
<1>4. RequestsGood' /\ r \in Request /\ (Carries(r) => KeyOK(r) /\ KeyOK(r)')
  BY <1>1, <1>2, <1>3, ServesGood
<1>5. /\ FramesGood' /\ OnePending' /\ KeysApart' /\ KeysCounted' /\ KeysEntitled'
      /\ (Pending(toClient) = {} => Pending(toClient') = {})
  <2>1. ASSUME UNCHANGED toClient
        PROVE  /\ FramesGood' /\ OnePending' /\ KeysApart' /\ KeysCounted' /\ KeysEntitled'
               /\ Pending(toClient') = Pending(toClient)
    <3>1. /\ \A x \in Devices : \A f : GoodFrame(x, f) => GoodFrame(x, f)'
          /\ KeysApart' /\ KeysCounted' /\ KeysEntitled'
      BY <1>1, CalmGood
    <3>2. FramesGood'
      BY <2>1, <3>1, Zenon DEF Inv, KeyInv, FramesGood
    <3>3. OnePending'
      BY <2>1 DEF Inv, KeyInv, OnePending
    <3>. QED  BY <2>1, <3>1, <3>2, <3>3
  <2>2. CASE HandleSub(d)
    <3>1. CASE UNCHANGED toClient
      BY <2>1, <3>1
    <3>2. ASSUME NEW S, Push(S, F("join", 0, None, {Owner[d]}))
          PROVE  /\ FramesGood' /\ OnePending' /\ KeysApart' /\ KeysCounted' /\ KeysEntitled'
                 /\ Pending(toClient') = Pending(toClient)
      <4>1. PICK f : f = F("join", 0, None, {Owner[d]})
        OBVIOUS
      <4>2. PICK who \in SUBSET (Devices \cup Users) : who = {Owner[d]}
        BY Constants
      <4>3. f \in Frame /\ ~Makes(f) /\ \A x \in Devices : GoodFrame(x, f)'
        BY <4>1, <4>2, PlainGood, NoneTypes
      <4>. QED  BY <1>1, <3>2, <4>1, <4>3, CalmPush
    <3>. QED  BY <2>2, <3>1, <3>2 DEF HandleSub
  <2>3. CASE HandleKeyReq(d)
    <3>1. PICK S : Push(S, F("keyreq", r.e, None, {d}))
      BY <1>2, <2>3 DEF HandleKeyReq
    <3>2. PICK f : f = F("keyreq", r.e, None, {d})
      OBVIOUS
    <3>3. PICK who \in SUBSET (Devices \cup Users) : who = {d}
      OBVIOUS
    <3>4. r.e \in 0 .. MaxEpoch
      BY <1>4 DEF Request
    <3>5. f \in Frame /\ ~Makes(f) /\ \A x \in Devices : GoodFrame(x, f)'
      BY <3>2, <3>3, <3>4, PlainGood
    <3>. QED  BY <1>1, <3>1, <3>2, <3>5, CalmPush
  <2>4. CASE HandleKeyShare(d)
    <3>1. PICK S : /\ Push(S, F("keyshare", r.e, r.k, {}))
                   /\ S = {x \in r.who : Member(d) /\ Member(x) /\ up[x]}
      BY <1>2, <2>4 DEF HandleKeyShare
    <3>2. PICK f : f = F("keyshare", r.e, r.k, {})
      OBVIOUS
    <3>3. KeyOK(r) /\ KeyOK(r)'
      BY <1>3, <1>4, <2>4 DEF Carries
    <3>4. /\ f \in Frame /\ f.t = "keyshare" /\ f.e = r.e /\ f.k = r.k
      BY <1>4, <3>2 DEF F, Frame, Request
    <3>5. KeyOK(f)'
      BY <3>3, <3>4 DEF KeyOK, Held
    <3>6. PICK x \in Devices : keys[x][r.e] = r.k
      BY <3>3 DEF KeyOK, Held
    <3>7. r.e \in Epochs /\ Begun(r.e)
      BY <3>3, <3>6 DEF KeyOK, Inv, KeyInv, KeysEntitled, Has
    <3>8. ASSUME NEW y \in S \cap Devices
          PROVE  GoodFrame(y, f)'
      <4>1. Owner[y] \in members /\ r.e <= epoch
        BY <3>1, <3>7 DEF Member, Begun
      <4>2. Owner[y] \in entitled[r.e]
        BY <3>7, <4>1 DEF Inv, KeyInv, MembersEntitled
      <4>3. entitled' = entitled
        BY <1>0 DEF hubVars
      <4>. QED  BY <3>4, <3>5, <4>2, <4>3 DEF GoodFrame, Makes
    <3>9. ~Makes(f)
      BY <3>4 DEF Makes
    <3>. QED  BY <1>1, <3>1, <3>2, <3>4, <3>8, <3>9, CalmPush
  <2>5. CASE HandlePeers(d)
    <3>1. PICK S, who \in SUBSET Devices : Push(S, F("peers", r.e, r.k, who))
      <4>1. {x \in Devices : Member(x) /\ up[x]} \in SUBSET Devices
        OBVIOUS
      <4>. QED  BY <1>2, <2>5, <4>1, Zenon DEF HandlePeers
    <3>2. PICK f : f = F("peers", r.e, r.k, who)
      OBVIOUS
    <3>3. KeyOK(r) /\ KeyOK(r)'
      BY <1>3, <1>4, <2>5 DEF Carries
    <3>4. /\ f \in Frame /\ f.t = "peers" /\ f.e = r.e /\ f.k = r.k
      BY <1>4, <3>2 DEF F, Frame, Request
    <3>5. KeyOK(f)'
      BY <3>3, <3>4 DEF KeyOK, Held
    <3>6. ~Makes(f) /\ \A y \in Devices : GoodFrame(y, f)'
      BY <3>4, <3>5 DEF GoodFrame, Makes
    <3>. QED  BY <1>1, <3>1, <3>2, <3>4, <3>6, CalmPush
  <2>. QED  BY <2>2, <2>3, <2>4, <2>5, Zenon
<1>6. MembersEntitled'
  BY <1>0 DEF hubVars, MembersEntitled, Inv, KeyInv
<1>7. Unborn'
  BY <1>0, <1>5 DEF hubVars, clientVars, Unborn, Inv, KeyInv
<1>. QED  BY <1>4, <1>5, <1>6, <1>7 DEF KeyInv

LEMMA RotateKeys ==
  ASSUME Inv, NEW d \in Devices, HandleRotate(d)
  PROVE  KeyInv'
<1>1. Calm
  <2>1. UNCHANGED <<keys, made>>
    BY DEF HandleRotate, Serves, clientVars
  <2>2. epoch \in Nat /\ (epoch' = epoch \/ (epoch > 0 /\ epoch' = epoch + 1))
    BY DEF HandleRotate, Member, Inv, TypeInv, TypeOK
  <2>3. \A e \in Epochs : Begun(e) => Begun(e)'
    BY <2>2 DEF Begun, Epochs
  <2>4. \A e \in Epochs : entitled[e] \subseteq entitled'[e]
    BY DEF HandleRotate, Entitle
  <2>. QED  BY <2>1, <2>3, <2>4 DEF Calm
<1>2. RequestsGood'
  BY <1>1, ServesGood DEF HandleRotate
<1>3. /\ \A x \in Devices : \A f : GoodFrame(x, f) => GoodFrame(x, f)'
      /\ KeysApart' /\ KeysCounted' /\ KeysEntitled'
  BY <1>1, CalmGood
<1>g. \A x \in Devices : \A g \in Range(toClient[x]) : GoodFrame(x, g)
  BY DEF Inv, KeyInv, FramesGood
<1>4. CASE Member(d) /\ epoch < MaxEpoch
  <2>1. PICK e \in 1 .. MaxEpoch : e = epoch + 1 /\ epoch' = e /\ epoch > 0
    BY <1>4, Constants DEF Inv, TypeInv, TypeOK, HandleRotate, Member
  <2>2. PICK f : f = F("rotated", e, None, {})
    OBVIOUS
  <2>3. Push({d}, f)
    BY <1>4, <2>1, <2>2 DEF HandleRotate
  <2>4. f \in Frame /\ f.t = "rotated" /\ f.e = e /\ e \in Epochs
    BY <2>1, <2>2, NoneTypes DEF F, Frame, Epochs
  <2>5. ~Known(e)
    BY <2>1, <2>4, Constants DEF Known, Inv, KeyInv, KeysEntitled, Has, Begun, TypeInv, TypeOK
  <2>6. ASSUME NEW p \in Pending(toClient)
        PROVE  At(toClient, p).e # e
    <3>1. PICK x \in Devices, i \in Nat :
            p = <<x, i>> /\ i \in DOMAIN toClient[x] /\ Makes(toClient[x][i])
      BY DEF Pending
    <3>2. toClient[x][i] \in Range(toClient[x]) /\ At(toClient, p) = toClient[x][i]
      BY <3>1 DEF Range, At
    <3>3. GoodFrame(x, toClient[x][i])
      BY <1>g, <3>2
    <3>4. Begun(toClient[x][i].e) /\ toClient[x][i].e \in Epochs
      BY <3>1, <3>3 DEF GoodFrame
    <3>. QED  BY <2>1, <3>2, <3>4, SMTT(60) DEF Begun, Epochs, Inv, TypeInv, TypeOK
  <2>7. OnePending' /\ \A x \in Devices : Range(toClient'[x]) \subseteq
                           Range(toClient[x]) \cup (IF x \in {d} THEN {f} ELSE {})
    BY <2>3, <2>4, <2>6, PushOneMore
  <2>8. GoodFrame(d, f)'
    <3>1. ~Known(e)'
      BY <1>1, <2>5 DEF Known, Calm
    <3>2. Owner[d] \in entitled'[e]
      BY <1>4, <2>1, <2>4 DEF HandleRotate, Entitle, Member
    <3>3. Begun(e)'
      BY <2>1 DEF Begun
    <3>. QED  BY <2>4, <3>1, <3>2, <3>3 DEF GoodFrame, Carries
  <2>9. \A x \in Devices : \A g \in Range(toClient'[x]) : GoodFrame(x, g)'
    <3>1. ASSUME NEW x \in Devices, NEW g \in Range(toClient'[x])
          PROVE  GoodFrame(x, g)'
      <4>1. CASE g \in Range(toClient[x])
        BY <1>3, <1>g, <4>1, Zenon
      <4>2. CASE g \notin Range(toClient[x])
        <5>1. x = d /\ g = f
          BY <2>7, <4>2
        <5>. QED  BY <2>8, <5>1, Zenon
      <4>. QED  BY <4>1, <4>2
    <3>. QED  BY <3>1
  <2>10. FramesGood'
    BY <2>9 DEF FramesGood
  <2>11. MembersEntitled'
    BY <1>4, <2>1 DEF HandleRotate, Entitle, MembersEntitled, Inv, KeyInv
  <2>12. Unborn'
    BY <1>4, <2>1 DEF HandleRotate, Serves, Unborn, Inv, KeyInv
  <2>. QED  BY <1>2, <1>3, <2>7, <2>10, <2>11, <2>12 DEF KeyInv
<1>5. CASE ~(Member(d) /\ epoch < MaxEpoch)
  <2>1. UNCHANGED <<hubVars, clientVars, toClient>>
    BY <1>5 DEF HandleRotate, Serves, hubVars
  <2>2. FramesGood'
    BY <1>3, <1>g, <2>1, Zenon DEF FramesGood
  <2>3. OnePending' /\ MembersEntitled' /\ Unborn'
    BY <2>1 DEF hubVars, clientVars, OnePending, MembersEntitled, Unborn, Inv, KeyInv
  <2>. QED  BY <1>2, <1>3, <2>2, <2>3 DEF KeyInv
<1>. QED  BY <1>4, <1>5

-----------------------------------------------------------------------------
\* A frame is handled and the keys stay as they are; what is written is good.
LEMMA HandledCalm ==
  ASSUME Inv, NEW d \in Devices, NEW t, Handles(d, t), UNCHANGED <<keys, made>>,
         NEW rs \in Seq(Request), Write(d, rs) \/ UNCHANGED toHub,
         \A r \in Range(rs) : Carries(r) => KeyOK(r)
  PROVE  KeyInv'
<1>1. Calm /\ UNCHANGED hubVars
  BY DEF Handles, hubVars, Calm, Begun
<1>2. /\ \A x \in Devices : \A f : GoodFrame(x, f) => GoodFrame(x, f)'
      /\ \A f : KeyOK(f) => KeyOK(f)'
      /\ KeysApart' /\ KeysCounted' /\ KeysEntitled'
  BY <1>1, CalmGood
<1>3. /\ OnePending'
      /\ \A x \in Devices : Range(toClient'[x]) \subseteq Range(toClient[x])
      /\ Pending(toClient) = {} => Pending(toClient') = {}
  BY TakeKeepsOne
<1>4. \A x \in Devices : \A g \in Range(toClient'[x]) : GoodFrame(x, g)'
  BY <1>2, <1>3, Zenon DEF Inv, KeyInv, FramesGood
<1>5. FramesGood'
  BY <1>4 DEF FramesGood
<1>6. RequestsGood'
  <2>1. CASE Write(d, rs)
    <3>1. \A r \in Range(rs) : Carries(r) => KeyOK(r)'
      BY <1>2
    <3>. QED  BY <1>2, <2>1, <3>1, WriteGood
  <2>2. CASE UNCHANGED toHub
    <3>1. \A x \in Devices : Range(toHub'[x]) \subseteq Range(toHub[x])
      BY <2>2
    <3>. QED  BY <1>1, <3>1, FewerRequests
  <2>. QED  BY <2>1, <2>2
<1>7. MembersEntitled' /\ Unborn'
  BY <1>1, <1>3 DEF hubVars, MembersEntitled, Unborn, Inv, KeyInv
<1>. QED  BY <1>2, <1>3, <1>5, <1>6, <1>7 DEF KeyInv

\* The key of an epoch is made where there was none, on the one frame that says so.
LEMMA MadeKeys ==
  ASSUME Inv, NEW d \in Devices, NEW t \in {"created", "rotated"}, Handles(d, t),
         NewKey(d, Head(toClient[d]).e), NEW rs \in Seq(Request), Write(d, rs),
         \A r \in Range(rs) :
           Carries(r) => r.e = Head(toClient[d]).e /\ r.k = made + 1
  PROVE  KeyInv'
<1>1. PICK f : f = Head(toClient[d])
  OBVIOUS
<1>2. /\ OnePending'
      /\ \A x \in Devices : Range(toClient'[x]) \subseteq Range(toClient[x])
      /\ f \in Range(toClient[d]) /\ f.t = t
      /\ Makes(f) => \A x \in Devices : \A g \in Range(toClient'[x]) : Makes(g) => g.e # f.e
      /\ Pending(toClient) = {} => Pending(toClient') = {}
  BY <1>1, TakeKeepsOne
<1>3. Makes(f) /\ GoodFrame(d, f)
  BY <1>2 DEF Makes, Inv, KeyInv, FramesGood
<1>4. PICK e \in Epochs : e = f.e /\ Owner[d] \in entitled[e] /\ ~Known(e) /\ Begun(e)
  BY <1>3 DEF GoodFrame
<1>5. PICK k : k = made + 1
  OBVIOUS
<1>6. /\ made' = k /\ k \in Nat /\ k # None /\ made \in Nat
      /\ keys' = [keys EXCEPT ![d][e] = k]
      /\ keys \in [Devices -> [Epochs -> {None} \cup Keys]]
  BY <1>1, <1>4, <1>5, Constants DEF NewKey, Inv, TypeInv, TypeOK, None
<1>7. UNCHANGED hubVars
  BY DEF Handles
<1>8. \A x \in Devices, g \in Epochs : keys'[x][g] = IF x = d /\ g = e THEN k ELSE keys[x][g]
  BY <1>6
<1>9. \A x \in Devices : keys[x][e] = None
  BY <1>4 DEF Known
<1>10. \A x \in Devices, g \in Epochs : keys[x][g] <= made /\ keys[x][g] \in Nat
  BY <1>6, Constants DEF Inv, KeyInv, KeysCounted, None, Keys
<1>11. KeysCounted'
  BY <1>5, <1>6, <1>8, <1>10 DEF KeysCounted
<1>12. KeysApart'
  <2>1. ASSUME NEW x \in Devices, NEW y \in Devices, NEW g \in Epochs, NEW h \in Epochs,
               keys'[x][g] # None, keys'[y][h] # None
        PROVE  g = h <=> keys'[x][g] = keys'[y][h]
    <3>1. CASE x = d /\ g = e
      <4>1. keys'[x][g] = k
        BY <1>8, <3>1
      <4>2. h = e => keys'[y][h] = k
        BY <1>8, <1>9, <2>1
      <4>3. h # e => keys'[y][h] # k
        BY <1>5, <1>6, <1>8, <1>10
      <4>. QED  BY <3>1, <4>1, <4>2, <4>3
    <3>2. CASE y = d /\ h = e
      <4>1. keys'[y][h] = k
        BY <1>8, <3>2
      <4>2. g = e => keys'[x][g] = k
        BY <1>8, <1>9, <2>1
      <4>3. g # e => keys'[x][g] # k
        BY <1>5, <1>6, <1>8, <1>10
      <4>. QED  BY <3>2, <4>1, <4>2, <4>3
    <3>3. CASE ~(x = d /\ g = e) /\ ~(y = d /\ h = e)
      <4>1. keys'[x][g] = keys[x][g] /\ keys'[y][h] = keys[y][h]
        BY <1>8, <3>3
      <4>. QED  BY <2>1, <4>1 DEF Inv, KeyInv, KeysApart, Has
    <3>. QED  BY <3>1, <3>2, <3>3
  <2>. QED  BY <2>1 DEF KeysApart, Has
<1>13. KeysEntitled'
  BY <1>4, <1>7, <1>8 DEF Inv, KeyInv, KeysEntitled, Has, Begun, hubVars
<1>14. ASSUME NEW g, KeyOK(g)
       PROVE  KeyOK(g)'
  <2>1. PICK x \in Devices : g.e \in Epochs /\ g.k # None /\ keys[x][g.e] = g.k
    BY <1>14 DEF KeyOK, Held
  <2>2. keys'[x][g.e] = g.k
    BY <1>8, <1>9, <2>1
  <2>. QED  BY <2>1, <2>2 DEF KeyOK, Held
<1>15. ASSUME NEW x \in Devices, NEW g \in Range(toClient'[x])
       PROVE  GoodFrame(x, g)'
  <2>1. GoodFrame(x, g)
    BY <1>2 DEF Inv, KeyInv, FramesGood
  <2>2. Carries(g) => KeyOK(g)'
    BY <1>14, <2>1 DEF GoodFrame
  <2>3. Makes(g) => g.e # e
    BY <1>2, <1>3, <1>4
  <2>4. Makes(g) => ~Known(g.e)'
    BY <1>8, <2>1, <2>3 DEF GoodFrame, Known
  <2>. QED  BY <1>7, <2>1, <2>2, <2>4 DEF GoodFrame, Begun, hubVars
<1>16. FramesGood'
  BY <1>15 DEF FramesGood
<1>17. RequestsGood'
  <2>1. \A r \in Range(rs) : Carries(r) => KeyOK(r)'
    <3>1. keys'[d][e] = k
      BY <1>8
    <3>2. \A r \in Range(rs) : Carries(r) => r.e = e /\ r.k = k
      BY <1>1, <1>4, <1>5
    <3>. QED  BY <1>6, <3>1, <3>2 DEF KeyOK, Held
  <2>. QED  BY <1>14, <2>1, WriteGood
<1>18. MembersEntitled'
  BY <1>7 DEF hubVars, MembersEntitled, Inv, KeyInv
<1>19. Unborn'
  <2>1. creates # 0
    <3>1. PICK i \in DOMAIN toClient[d] : f = toClient[d][i]
      BY <1>2 DEF Range
    <3>2. i \in Nat
      BY LenProperties DEF Inv, TypeInv, TypeOK
    <3>3. Pending(toClient) # {}
      BY <1>3, <3>1, <3>2, PendingIn
    <3>. QED  BY <3>3 DEF Inv, KeyInv, Unborn
  <2>. QED  BY <1>7, <2>1 DEF hubVars, Unborn
<1>. QED  BY <1>2, <1>11, <1>12, <1>13, <1>16, <1>17, <1>18, <1>19 DEF KeyInv

\* A key that comes is the one the others have.
LEMMA SharedKeys ==
  ASSUME Inv, NEW d \in Devices, OnKeyShare(d)
  PROVE  KeyInv'
<1>1. PICK f : f = Head(toClient[d])
  OBVIOUS
<1>2. /\ OnePending'
      /\ \A x \in Devices : Range(toClient'[x]) \subseteq Range(toClient[x])
      /\ f \in Range(toClient[d]) /\ f.t = "keyshare"
      /\ Pending(toClient) = {} => Pending(toClient') = {}
  BY <1>1, TakeKeepsOne DEF OnKeyShare
<1>3. GoodFrame(d, f) /\ Carries(f)
  BY <1>2 DEF Carries, Inv, KeyInv, FramesGood
<1>a. PICK x \in Devices : keys[x][f.e] = f.k
  BY <1>3 DEF GoodFrame, KeyOK, Held
<1>b. PICK k : k = f.k
  OBVIOUS
<1>4. PICK e \in Epochs : e = f.e /\ k # None /\ keys[x][e] = k /\ Owner[d] \in entitled[e]
  BY <1>2, <1>3, <1>a, <1>b DEF GoodFrame, KeyOK
<1>5. /\ keys' = [keys EXCEPT ![d][e] = k] /\ made' = made
      /\ UNCHANGED <<hubVars, toHub>>
      /\ keys \in [Devices -> [Epochs -> {None} \cup Keys]]
  BY <1>1, <1>b, <1>4 DEF OnKeyShare, Handles, Inv, TypeInv, TypeOK
<1>6. \A y \in Devices, g \in Epochs : keys'[y][g] = IF y = d /\ g = e THEN k ELSE keys[y][g]
  BY <1>5
<1>7. ASSUME NEW y \in Devices, NEW g \in Epochs, keys'[y][g] # None
      PROVE  \E z \in Devices : keys[z][g] = keys'[y][g]
  BY <1>4, <1>6
<1>8. KeysApart'
  <2>1. ASSUME NEW y \in Devices, NEW z \in Devices, NEW g \in Epochs, NEW h \in Epochs,
               keys'[y][g] # None, keys'[z][h] # None
        PROVE  g = h <=> keys'[y][g] = keys'[z][h]
    <3>1. PICK u \in Devices, w \in Devices : keys[u][g] = keys'[y][g] /\ keys[w][h] = keys'[z][h]
      BY <1>7, <2>1
    <3>. QED  BY <2>1, <3>1 DEF Inv, KeyInv, KeysApart, Has
  <2>. QED  BY <2>1 DEF KeysApart, Has
<1>9. KeysCounted'
  BY <1>4, <1>5, <1>6 DEF Inv, KeyInv, KeysCounted
<1>10. KeysEntitled'
  <2>1. Begun(e)
    BY <1>4 DEF Inv, KeyInv, KeysEntitled, Has
  <2>. QED  BY <1>4, <1>5, <1>6, <2>1 DEF Inv, KeyInv, KeysEntitled, Has, Begun, hubVars
<1>11. ASSUME NEW g, KeyOK(g)
       PROVE  KeyOK(g)'
  <2>1. PICK y \in Devices : g.e \in Epochs /\ g.k # None /\ keys[y][g.e] = g.k
    BY <1>11 DEF KeyOK, Held
  <2>2. y = d /\ g.e = e => g.k = k
    BY <1>4, <2>1 DEF Inv, KeyInv, KeysApart, Has
  <2>3. keys'[y][g.e] = g.k
    BY <1>6, <2>1, <2>2
  <2>. QED  BY <2>1, <2>3 DEF KeyOK, Held
<1>12. ASSUME NEW g \in Epochs, ~Known(g)
       PROVE  ~Known(g)'
  BY <1>7, <1>12 DEF Known
<1>13. \A y \in Devices : \A g \in Range(toClient'[y]) : GoodFrame(y, g)'
  <2>1. ASSUME NEW y \in Devices, NEW g \in Range(toClient'[y])
        PROVE  GoodFrame(y, g)'
    <3>1. GoodFrame(y, g)
      BY <1>2 DEF Inv, KeyInv, FramesGood
    <3>2. Carries(g) => KeyOK(g)'
      BY <1>11, <3>1 DEF GoodFrame
    <3>3. Makes(g) => ~Known(g.e)'
      BY <1>12, <3>1 DEF GoodFrame
    <3>. QED  BY <1>5, <3>1, <3>2, <3>3 DEF GoodFrame, Begun, hubVars
  <2>. QED  BY <2>1
<1>14. FramesGood'
  BY <1>13 DEF FramesGood
<1>15. RequestsGood'
  <2>1. \A y \in Devices : \A r \in Range(toHub[y]) : Carries(r) => KeyOK(r)'
    BY <1>11 DEF Inv, KeyInv, RequestsGood
  <2>. QED  BY <1>5, <2>1 DEF RequestsGood, Carries
<1>16. MembersEntitled'
  BY <1>5 DEF hubVars, MembersEntitled, Inv, KeyInv
<1>17. Unborn'
  BY <1>4, <1>5 DEF hubVars, Unborn, Inv, KeyInv
<1>. QED  BY <1>2, <1>8, <1>9, <1>10, <1>14, <1>15, <1>16, <1>17 DEF KeyInv

LEMMA ClientKeys ==
  ASSUME Inv, NEW d \in Devices, ClientStep(d)
  PROVE  KeyInv'
<1>e. <<>> \in Seq(Request) /\ Range(<<>>) = {}
  BY DEF Range
<1>s. /\ Sub \in Seq(Request) /\ \A r \in Range(Sub) : ~Carries(r)
      /\ \A e \in 0 .. MaxEpoch : /\ KeyReq(e) \in Seq(Request)
                                  /\ \A r \in Range(KeyReq(e)) : ~Carries(r)
  BY FrameTypes, NoneTypes, RangeOne DEF Sub, KeyReq, F, Carries
<1>k. /\ know \in [Devices -> 0 .. MaxEpoch]
      /\ keys \in [Devices -> [Epochs -> {None} \cup Keys]]
  BY DEF Inv, TypeInv, TypeOK
<1>f. ASSUME NEW t, Handles(d, t)
      PROVE  /\ Head(toClient[d]) \in Frame /\ GoodFrame(d, Head(toClient[d]))
             /\ Head(toClient[d]).t = t
             /\ t \in {"keyreq", "peers"} => Head(toClient[d]).who \subseteq Devices
  <2>1. /\ Head(toClient[d]) \in Frame /\ NamesDevices(Head(toClient[d]))
        /\ Head(toClient[d]).t = t
    BY <1>f, HandlesTypes DEF Inv
  <2>2. Head(toClient[d]) \in Range(toClient[d])
    BY <1>f, TakeKeepsOne
  <2>. QED  BY <2>1, <2>2 DEF NamesDevices, Inv, KeyInv, FramesGood
<1>a. ASSUME NEW e \in 0 .. MaxEpoch, NEW waiting, NEW then \in Seq(Request),
             \A r \in Range(then) : ~Carries(r), MaybeRequestKey(d, e, waiting, then)
      PROVE  \E rs \in Seq(Request) : Write(d, rs) /\ \A r \in Range(rs) : ~Carries(r)
  <2>1. CASE Write(d, then)
    BY <1>a, <2>1
  <2>2. CASE Write(d, KeyReq(e) \o then)
    <3>1. KeyReq(e) \o then \in Seq(Request)
      BY <1>s, ConcatProperties
    <3>2. Range(KeyReq(e) \o then) = Range(KeyReq(e)) \cup Range(then)
      BY <1>s, RangeConcatenation
    <3>. QED  BY <1>a, <1>s, <2>2, <3>1, <3>2
  <2>. QED  BY <1>a, <2>1, <2>2 DEF MaybeRequestKey
<1>1. CASE OnInfo(d)
  <2>1. Handles(d, "info") /\ UNCHANGED <<keys, made>>
    BY <1>1 DEF OnInfo
  <2>2. CASE UNCHANGED toHub
    BY <1>e, <2>1, <2>2, HandledCalm
  <2>3. CASE \E e \in 0 .. MaxEpoch : MaybeRequestKey(d, e, asked[d], Sub)
    BY <1>a, <1>s, <2>1, <2>3, HandledCalm
  <2>4. Larger(know[d], Head(toClient[d]).e) \in 0 .. MaxEpoch
    BY <1>f, <1>k, <2>1, LargerTypes DEF Frame
  <2>. QED  BY <1>1, <2>2, <2>3, <2>4 DEF OnInfo
<1>2. CASE OnGone(d)
  BY <1>2, <1>e, HandledCalm DEF OnGone
<1>3. CASE OnCreated(d)
  BY <1>3, <1>s, MadeKeys DEF OnCreated
<1>4. CASE OnJoin(d)
  <2>1. Handles(d, "join") /\ UNCHANGED <<keys, made>>
    BY <1>4 DEF OnJoin
  <2>2. CASE UNCHANGED toHub
    BY <1>e, <2>1, <2>2, HandledCalm
  <2>3. CASE MaybeRequestKey(d, know[d], FALSE, <<>>)
    <3>1. know[d] \in 0 .. MaxEpoch /\ \A r \in Range(<<>>) : ~Carries(r)
      BY <1>e, <1>k
    <3>2. PICK rs \in Seq(Request) : Write(d, rs) /\ \A r \in Range(rs) : ~Carries(r)
      BY <1>a, <1>e, <2>3, <3>1
    <3>. QED  BY <2>1, <3>2, HandledCalm
  <2>. QED  BY <1>4, <2>2, <2>3 DEF OnJoin
<1>5. CASE OnKeyReq(d)
  <2>1. Handles(d, "keyreq") /\ UNCHANGED <<keys, made>>
    BY <1>5 DEF OnKeyReq, clientVars
  <2>2. PICK f : f = Head(toClient[d])
    OBVIOUS
  <2>3. CASE UNCHANGED toHub
    BY <1>e, <2>1, <2>3, HandledCalm
  <2>4. CASE Has(d, f.e) /\ Write(d, <<F("keyshare", f.e, keys[d][f.e], f.who)>>)
    <3>1. PICK r : r = F("keyshare", f.e, keys[d][f.e], f.who)
      OBVIOUS
    <3>2. /\ f.e \in Epochs /\ keys[d][f.e] # None /\ keys[d][f.e] \in {None} \cup Keys
          /\ f.e \in 0 .. MaxEpoch /\ f.who \in SUBSET Devices
      BY <1>f, <1>k, <2>1, <2>2, <2>4 DEF Has, Frame
    <3>3. <<r>> \in Seq(Request)
      BY <3>1, <3>2, FrameTypes
    <3>4. r.e = f.e /\ r.k = keys[d][f.e]
      BY <3>1 DEF F
    <3>5. KeyOK(r)
      BY <3>2, <3>4 DEF KeyOK, Held
    <3>6. \A x \in Range(<<r>>) : KeyOK(x)
      BY <3>5, RangeOne
    <3>. QED  BY <2>1, <2>4, <3>1, <3>3, <3>6, HandledCalm
  <2>. QED  BY <1>5, <2>2, <2>3, <2>4 DEF OnKeyReq
<1>6. CASE OnKeyShare(d)
  BY <1>6, SharedKeys
<1>7. CASE OnRotated(d)
  <2>1. CASE know[d] > 0
    <3>1. PICK f : f = Head(toClient[d])
      OBVIOUS
    <3>2. Handles(d, "rotated") /\ NewKey(d, f.e) /\ Write(d, <<F("peers", f.e, made + 1, {})>>)
      BY <1>7, <2>1, <3>1 DEF OnRotated
    <3>3. made + 1 \in {None} \cup Keys /\ f.e \in 0 .. MaxEpoch
      BY <3>1, <3>2, KeyMade DEF Inv, NewKey
    <3>4. PICK r : r = F("peers", f.e, made + 1, {})
      OBVIOUS
    <3>5. <<r>> \in Seq(Request)
      BY <3>3, <3>4, FrameTypes
    <3>6. \A x \in Range(<<r>>) : x.e = f.e /\ x.k = made + 1
      BY <3>4, RangeOne DEF F
    <3>. QED  BY <3>1, <3>2, <3>4, <3>5, <3>6, MadeKeys
  <2>2. CASE ~(know[d] > 0)
    BY <1>7, <1>e, <2>2, HandledCalm DEF OnRotated
  <2>. QED  BY <2>1, <2>2
<1>8. CASE OnPeers(d)
  <2>1. Handles(d, "peers") /\ UNCHANGED <<keys, made>>
    BY <1>8 DEF OnPeers, clientVars
  <2>2. PICK f : f = Head(toClient[d])
    OBVIOUS
  <2>3. /\ f.e \in 0 .. MaxEpoch /\ f.k \in {None} \cup Keys /\ f.who \ {d} \in SUBSET Devices
        /\ KeyOK(f)
    BY <1>f, <2>1, <2>2 DEF Frame, GoodFrame, Carries
  <2>4. PICK others : others = SetToSeq(f.who \ {d})
    OBVIOUS
  <2>5. PICK rs : rs = [i \in DOMAIN others |-> F("keyshare", f.e, f.k, {others[i]})]
    OBVIOUS
  <2>6. rs \in Seq(Request)
    <3>1. [i \in DOMAIN SetToSeq(f.who \ {d}) |->
             F("keyshare", f.e, f.k, {SetToSeq(f.who \ {d})[i]})] \in Seq(Request)
      BY <2>3, SharesTypes
    <3>. QED  BY <2>4, <2>5, <3>1, Zenon
  <2>7. \A r \in Range(rs) : r.e = f.e /\ r.k = f.k
    BY <2>5 DEF Range, F
  <2>8. \A r \in Range(rs) : KeyOK(r)
    BY <2>3, <2>7 DEF KeyOK, Held
  <2>9. Write(d, rs)
    BY <1>8, <2>2, <2>4, <2>5 DEF OnPeers
  <2>. QED  BY <2>1, <2>6, <2>8, <2>9, HandledCalm
<1>. QED  BY <1>1, <1>2, <1>3, <1>4, <1>5, <1>6, <1>7, <1>8 DEF ClientStep

LEMMA UserKeys ==
  ASSUME Inv, NEW d \in Devices, Rotate(d) \/ Reshare(d)
  PROVE  KeyInv'
<1>1. UNCHANGED <<hubVars, clientVars, toClient>>
  BY DEF Rotate, Reshare
<1>2. Calm
  BY <1>1 DEF clientVars, hubVars, Calm, Begun
<1>3. /\ \A x \in Devices : \A f : GoodFrame(x, f) => GoodFrame(x, f)'
      /\ \A f : KeyOK(f) => KeyOK(f)'
      /\ KeysApart' /\ KeysCounted' /\ KeysEntitled'
  BY <1>2, CalmGood
<1>4. PICK rs \in Seq(Request) : Write(d, rs) /\ \A r \in Range(rs) : Carries(r) => KeyOK(r)
  <2>1. CASE Rotate(d)
    <3>1. PICK r : r = F("rotate", 0, None, {})
      OBVIOUS
    <3>2. <<r>> \in Seq(Request) /\ ~Carries(r)
      BY <3>1, FrameTypes, NoneTypes DEF F, Carries
    <3>. QED  BY <2>1, <3>1, <3>2, RangeOne DEF Rotate
  <2>2. CASE Reshare(d)
    <3>1. PICK e \in Epochs, k \in {None} \cup Keys : e = know[d] /\ k = keys[d][e] /\ k # None
      BY <2>2 DEF Reshare, Has, Inv, TypeInv, TypeOK
    <3>2. e \in 0 .. MaxEpoch
      BY <3>1, Constants DEF Epochs
    <3>3. PICK r : r = F("peers", e, k, {})
      OBVIOUS
    <3>4. <<r>> \in Seq(Request) /\ r.e = e /\ r.k = k
      BY <3>2, <3>3, FrameTypes DEF F
    <3>5. KeyOK(r)
      BY <3>1, <3>4 DEF KeyOK, Held
    <3>6. Write(d, <<r>>)
      BY <2>2, <3>1, <3>3 DEF Reshare
    <3>7. \A x \in Range(<<r>>) : KeyOK(x)
      BY <3>5, RangeOne
    <3>. QED  BY <3>4, <3>6, <3>7
  <2>. QED  BY <2>1, <2>2
<1>5. RequestsGood'
  <2>1. \A r \in Range(rs) : Carries(r) => KeyOK(r)'
    BY <1>3, <1>4
  <2>. QED  BY <1>3, <1>4, <2>1, WriteGood
<1>6. FramesGood'
  BY <1>1, <1>3, Zenon DEF Inv, KeyInv, FramesGood
<1>7. OnePending' /\ MembersEntitled' /\ Unborn'
  BY <1>1 DEF hubVars, clientVars, OnePending, MembersEntitled, Unborn, Inv, KeyInv
<1>. QED  BY <1>3, <1>5, <1>6, <1>7 DEF KeyInv

LEMMA NextKeys ==
  ASSUME Inv, MaxCreates = 1, [Next]_vars
  PROVE  Inv'
<1>1. TypeInv'
  BY NextTypes DEF Inv
<1>2. CASE UNCHANGED vars
  <2>1. KeyInv'
    BY <1>2 DEF vars, hubVars, clientVars, Inv, KeyInv, FramesGood, RequestsGood, OnePending,
                KeysApart, KeysCounted, KeysEntitled, MembersEntitled, Unborn, GoodFrame, KeyOK,
                Held, Known, Begun, Has, Carries, Makes
  <2>. QED  BY <1>1, <2>1 DEF Inv
<1>3. CASE Next
  <2>1. KeyInv'
    BY <1>3, DeleteKeys, MembersKeys, RelayKeys, RotateKeys, ClientKeys, CreateKeys, ConnectKeys,
       UserKeys, DropKeys DEF Next, HubStep
  <2>. QED  BY <1>1, <2>1 DEF Inv
<1>. QED  BY <1>2, <1>3

\* All devices that have a key for an epoch have the same one, where the channel is
\* created once: there is one frame on which the key of an epoch is made, nobody has a
\* key for it before, and what is passed on is a key that some device has (onCreated,
\* rotateAndReshare, onKeyReq, onKeyShare).
THEOREM OneKeyForEach == ASSUME MaxCreates = 1 PROVE Spec => []OneKey
<1>1. Init => Inv
  BY InitTypes, InitKeys DEF Inv
<1>2. Inv /\ [Next]_vars => Inv'
  BY NextKeys
<1>3. Inv => OneKey
  BY DEF Inv, KeyInv, KeysApart, OneKey
<1>. QED  BY <1>1, <1>2, <1>3, PTL DEF Spec

\* A key is known to users only who have been members in its epoch or since, where the
\* channel is created once: a rotation shuts out whoever was kicked before it, whatever
\* requests and answers are on their way (handleKeyShare, e2erotate).
THEOREM KeysForTheEntitled == ASSUME MaxCreates = 1 PROVE Spec => []OnlyEntitled
<1>1. Init => Inv
  BY InitTypes, InitKeys DEF Inv
<1>2. Inv /\ [Next]_vars => Inv'
  BY NextKeys
<1>3. Inv => OnlyEntitled
  <2>1. SUFFICES ASSUME Inv, NEW d \in Devices, NEW x \in Devices,
                        NEW e \in Epochs, NEW f \in Epochs,
                        Has(x, e), keys[d][f] = keys[x][e]
                 PROVE  Owner[d] \in entitled[e]
    BY DEF OnlyEntitled
  <2>2. Has(d, f)
    BY <2>1 DEF Has
  <2>3. e = f
    BY <2>1, <2>2 DEF Inv, KeyInv, KeysApart
  <2>. QED  BY <2>1, <2>2, <2>3 DEF Inv, KeyInv, KeysEntitled
<1>. QED  BY <1>1, <1>2, <1>3, PTL DEF Spec
=============================================================================
