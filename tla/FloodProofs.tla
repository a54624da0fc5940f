---------------------------- MODULE FloodProofs ----------------------------
(***************************************************************************)
(* The message limit holds for every rate, bucket size, length of time and *)
(* pattern of changed limits, forgotten buckets, mutes and restarts.       *)
(*                                                                         *)
(* SendBound is not inductive: what is left in the bucket has to be        *)
(* counted as well (Balance).                                              *)
(*                                                                         *)
(* Nor are refusals forgotten: the hub's own record of them and the record *)
(* of all of them agree on every refusal that can still count (HitsInv),   *)
(* as many as are later than any point of the last five minutes.           *)
(***************************************************************************)
EXTENDS Flood, TLAPS, FiniteSetTheorems, SequenceTheorems

\* The types of what the bucket and the window are made of.
Types ==
  /\ now \in Times /\ rate \in 1 .. MaxRate /\ burst \in Cost .. MaxBurst
  /\ tokens \in 0 .. MaxBurst /\ last \in 0 .. now
  /\ begun \in 0 .. now /\ count \in Nat
  /\ topRate \in rate .. MaxRate /\ topBurst \in burst .. MaxBurst

\* The products that occur: what some time is worth, what messages cost.
Credit(r, t) == r * t
Spent(n) == Cost * n

\* What was accepted, and what the bucket held after the last message or holds
\* when it is made anew, is within the largest bucket and the highest rate.
Balance ==
  \/ count = 0
  \/ known /\ begun <= last /\ Spent(count) + tokens <= topBurst + Credit(topRate, last - begun)
  \/ ~known /\ Spent(count) + MaxBurst <= topBurst + Credit(topRate, now - begun)

IInv == Types /\ Balance

\* What the proofs need of the constants.
Constants ==
  /\ Cost \in Nat /\ Cost > 0 /\ MaxRate \in Nat /\ MaxBurst \in Nat
  /\ Hour \in Nat /\ MaxTime \in Nat /\ Hour >= MaxBurst

-----------------------------------------------------------------------------
(***************************************************************************)
(* Products                                                                *)
(***************************************************************************)
LEMMA CreditIsNat == ASSUME NEW r \in Nat, NEW t \in Nat PROVE Credit(r, t) \in Nat
BY DEF Credit

\* An hour is worth at least an hour's ticks.
LEMMA CreditAtLeast == ASSUME NEW r \in Nat, r >= 1, NEW t \in Nat PROVE t <= Credit(r, t)
<1>1. (r - 1) * t >= 0
  OBVIOUS
<1>. QED  BY <1>1 DEF Credit

LEMMA CreditGrows ==
  ASSUME NEW r \in Nat, NEW q \in Nat, NEW t \in Nat, NEW u \in Nat, r <= q, t <= u
  PROVE  Credit(r, t) <= Credit(q, u)
<1>1. r * t <= r * u
  <2>1. r * (u - t) >= 0
    OBVIOUS
  <2>. QED  BY <2>1
<1>2. r * u <= q * u
  <2>1. (q - r) * u >= 0
    OBVIOUS
  <2>. QED  BY <2>1
<1>. QED  BY <1>1, <1>2 DEF Credit

\* Time that passes in two parts is credited in two parts.
LEMMA CreditSplits ==
  ASSUME NEW r \in Nat, NEW t \in Nat, NEW u \in Nat
  PROVE  Credit(r, t + u) = Credit(r, t) + Credit(r, u)
BY DEF Credit

LEMMA SpentSteps ==
  ASSUME Constants, NEW n \in Nat
  PROVE  Spent(n) \in Nat /\ Spent(0) = 0 /\ Spent(n + 1) = Spent(n) + Cost
BY DEF Spent, Constants

\* What the types say of the numbers.
Numbers ==
  /\ now \in Nat /\ last \in Nat /\ begun \in Nat /\ now - last \in Nat /\ now - begun \in Nat
  /\ rate \in Nat /\ topRate \in Nat /\ rate <= topRate /\ topRate >= 1 /\ count \in Nat
  /\ tokens \in Nat /\ burst \in Nat /\ topBurst \in Nat /\ MaxBurst \in Nat
  /\ tokens <= MaxBurst /\ burst <= topBurst /\ topBurst <= MaxBurst

LEMMA TypesGiveNumbers == ASSUME Types, Constants PROVE Numbers
BY DEF Types, Constants, Times, Numbers

-----------------------------------------------------------------------------
(***************************************************************************)
(* The bucket                                                              *)
(***************************************************************************)
\* take never makes more of a bucket than its size and what has passed.
LEMMA AvailableBounded ==
  ASSUME Types, Constants
  PROVE  /\ Available \in 0 .. burst
         /\ known => Available <= tokens + Credit(topRate, now - last)
<1>0. Numbers
  BY TypesGiveNumbers
<1>1. Credit(rate, now - last) \in Nat /\ Credit(topRate, now - last) \in Nat
  BY ONLY <1>0, CreditIsNat DEF Numbers
<1>2. Credit(rate, now - last) <= Credit(topRate, now - last)
  BY ONLY <1>0, CreditGrows DEF Numbers
<1>3. Available = IF known THEN Smaller(burst, tokens + Credit(rate, now - last)) ELSE burst
  <2>1. (now - last) * rate = Credit(rate, now - last)
    BY <1>0 DEF Credit, Numbers
  <2>. QED  BY <2>1 DEF Available
<1>. QED  BY ONLY <1>0, <1>1, <1>2, <1>3 DEF Smaller, Numbers

\* What is spent and what is available now are within the limits of the window.
LEMMA Affordable ==
  ASSUME IInv, Constants
  PROVE  Spent(count) + Available <= topBurst + Credit(topRate, now - begun)
<1>0. Numbers
  BY TypesGiveNumbers DEF IInv
<1>1. Spent(count) \in Nat /\ Credit(topRate, now - begun) \in Nat
  BY ONLY <1>0, Constants, SpentSteps, CreditIsNat DEF Numbers
<1>2. Available \in 0 .. burst /\ (known => Available <= tokens + Credit(topRate, now - last))
  BY AvailableBounded DEF IInv
<1>3. CASE count = 0
  <2>1. Spent(count) = 0
    BY <1>3, SpentSteps
  <2>. QED  BY ONLY <1>0, <1>1, <1>2, <2>1 DEF Numbers
<1>4. CASE known /\ begun <= last
           /\ Spent(count) + tokens <= topBurst + Credit(topRate, last - begun)
  <2>0. /\ topRate \in Nat /\ last - begun \in Nat /\ now - last \in Nat
        /\ now - begun = (last - begun) + (now - last)
    BY ONLY <1>0, <1>4 DEF Numbers
  <2>9. Credit(topRate, (last - begun) + (now - last))
          = Credit(topRate, last - begun) + Credit(topRate, now - last)
    BY ONLY <2>0, CreditSplits, Zenon
  <2>1. Credit(topRate, now - begun) = Credit(topRate, last - begun) + Credit(topRate, now - last)
    BY ONLY <2>0, <2>9, Zenon
  <2>2. Credit(topRate, last - begun) \in Nat /\ Credit(topRate, now - last) \in Nat
    BY ONLY <2>0, CreditIsNat, Zenon
  <2>. QED  BY ONLY <1>0, <1>1, <1>2, <1>4, <2>1, <2>2 DEF Numbers
<1>5. CASE ~known /\ Spent(count) + MaxBurst <= topBurst + Credit(topRate, now - begun)
  BY ONLY <1>0, <1>1, <1>2, <1>5 DEF Numbers
<1>. QED  BY <1>3, <1>4, <1>5 DEF Balance, IInv

-----------------------------------------------------------------------------
(***************************************************************************)
(* The invariant                                                           *)
(***************************************************************************)
LEMMA InitIInv == ASSUME Init, Constants PROVE IInv
BY DEF Init, IInv, Types, Balance, Times, Constants

\* A window begins: nothing has been accepted in it.
LEMMA WindowIInv ==
  ASSUME IInv, Constants, WindowBegins, UNCHANGED <<now, rate, burst>>,
         tokens' \in 0 .. MaxBurst, last' \in 0 .. now
  PROVE  IInv'
BY DEF IInv, Types, Balance, WindowBegins, Times, Constants

LEMMA SendIInv == ASSUME IInv, Constants, Send PROVE IInv'
<1>0. Numbers
  BY TypesGiveNumbers DEF IInv
<1>1. /\ Available \in 0 .. burst
      /\ Spent(count) + Available <= topBurst + Credit(topRate, now - begun)
  BY AvailableBounded, Affordable DEF IInv
<1>2. UNCHANGED <<now, rate, burst, begun, topRate, topBurst>> /\ known' = TRUE /\ last' = now
  BY DEF Send, Accept, Refuse
<1>3. Spent(count) \in Nat /\ Credit(topRate, now - begun) \in Nat
  BY ONLY <1>0, Constants, SpentSteps, CreditIsNat DEF Numbers
<1>4. ASSUME Types', Spent(count') + tokens' <= topBurst + Credit(topRate, now - begun)
      PROVE  IInv'
  BY <1>0, <1>2, <1>4 DEF IInv, Balance, Numbers
<1>5. CASE Accept
  <2>1. Available >= Cost /\ tokens' = Available - Cost /\ count' = count + 1
    BY <1>5 DEF Accept
  <2>2. Spent(count') = Spent(count) + Cost
    BY ONLY <1>0, Constants, <2>1, SpentSteps DEF Numbers
  <2>3. Types'
    BY <1>0, <1>1, <1>2, <2>1 DEF IInv, Types, Times, Numbers, Constants
  <2>4. Spent(count') + tokens' <= topBurst + Credit(topRate, now - begun)
    BY ONLY <1>0, Constants, <1>1, <1>3, <2>1, <2>2 DEF Numbers, Constants
  <2>. QED  BY <1>4, <2>3, <2>4
<1>6. CASE Refuse
  <2>1. tokens' = Available /\ count' = count
    BY <1>6 DEF Refuse
  <2>2. Types'
    BY <1>0, <1>1, <1>2, <2>1 DEF IInv, Types, Times, Numbers, Constants
  <2>. QED  BY <1>1, <1>4, <2>1, <2>2
<1>. QED  BY <1>5, <1>6 DEF Send

\* Another limit only raises what the window allows.
LEMMA SetRateIInv ==
  ASSUME IInv, Constants, NEW r \in 1 .. MaxRate, NEW b \in Cost .. MaxBurst, SetRate(r, b)
  PROVE  IInv'
<1>0. Numbers
  BY TypesGiveNumbers DEF IInv
<1>1. UNCHANGED <<now, known, tokens, last, begun, count>>
  BY DEF SetRate, bucket
<1>2. Types'
  BY <1>1 DEF SetRate, IInv, Types, Larger, Times, Constants
<1>3. topRate <= topRate' /\ topBurst <= topBurst' /\ topRate' \in Nat /\ topBurst' \in Nat
  BY <1>0 DEF SetRate, Larger, Numbers, Constants
<1>4. ASSUME NEW t \in Nat
      PROVE  /\ Credit(topRate, t) <= Credit(topRate', t)
             /\ Credit(topRate, t) \in Nat /\ Credit(topRate', t) \in Nat
  <2>1. t <= t /\ topRate \in Nat /\ topRate' \in Nat /\ topRate <= topRate'
    BY ONLY <1>0, <1>3, t \in Nat DEF Numbers
  <2>. QED  BY ONLY <2>1, <1>4, CreditGrows, CreditIsNat, Zenon
<1>5. Spent(count) \in Nat
  BY ONLY <1>0, Constants, SpentSteps DEF Numbers
<1>6. CASE count = 0
  BY <1>1, <1>2, <1>6 DEF Balance, IInv
<1>7. CASE known /\ begun <= last
           /\ Spent(count) + tokens <= topBurst + Credit(topRate, last - begun)
  <2>1. last - begun \in Nat
    BY ONLY <1>0, <1>7 DEF Numbers
  <2>2. Spent(count) + tokens <= topBurst' + Credit(topRate', last - begun)
    BY ONLY <1>0, <1>3, <1>4, <1>5, <1>7, <2>1 DEF Numbers
  <2>. QED  BY <1>1, <1>2, <1>7, <2>2 DEF Balance, IInv
<1>8. CASE ~known /\ Spent(count) + MaxBurst <= topBurst + Credit(topRate, now - begun)
  <2>1. Spent(count) + MaxBurst <= topBurst' + Credit(topRate', now - begun)
    BY ONLY <1>0, <1>3, <1>4, <1>5, <1>8 DEF Numbers
  <2>. QED  BY <1>1, <1>2, <1>8, <2>1 DEF Balance, IInv
<1>. QED  BY <1>6, <1>7, <1>8 DEF Balance, IInv

\* A bucket is forgotten only when the time since would have filled it.
LEMMA ForgetIInv == ASSUME IInv, Constants, Forget PROVE IInv'
<1>0. Numbers
  BY TypesGiveNumbers DEF IInv
<1>1. /\ known /\ now - last > Hour /\ known' = FALSE /\ tokens' = 0 /\ last' = 0
      /\ UNCHANGED <<now, rate, burst, begun, count, topRate, topBurst>>
  BY DEF Forget, window, history
<1>2. Types'
  BY <1>0, <1>1 DEF IInv, Types, Times, Numbers, Constants
<1>3. CASE count = 0
  BY <1>1, <1>2, <1>3 DEF Balance, IInv
<1>4. CASE begun <= last /\ Spent(count) + tokens <= topBurst + Credit(topRate, last - begun)
  <2>0. /\ topRate \in Nat /\ last - begun \in Nat /\ now - last \in Nat
        /\ now - begun = (last - begun) + (now - last)
    BY ONLY <1>0, <1>4 DEF Numbers
  <2>9. Credit(topRate, (last - begun) + (now - last))
          = Credit(topRate, last - begun) + Credit(topRate, now - last)
    BY ONLY <2>0, CreditSplits, Zenon
  <2>1. Credit(topRate, now - begun) = Credit(topRate, last - begun) + Credit(topRate, now - last)
    BY ONLY <2>0, <2>9, Zenon
  <2>2. now - last <= Credit(topRate, now - last)
    <3>1. topRate >= 1
      BY ONLY <1>0 DEF Numbers
    <3>. QED  BY ONLY <2>0, <3>1, CreditAtLeast, Zenon
  <2>3. Credit(topRate, last - begun) \in Nat /\ Credit(topRate, now - last) \in Nat
    BY ONLY <2>0, CreditIsNat, Zenon
  <2>6. Spent(count) \in Nat
    BY ONLY <1>0, Constants, SpentSteps DEF Numbers
  <2>4. MaxBurst < now - last
    BY ONLY <1>0, Constants, <1>1 DEF Numbers, Constants
  <2>5. Spent(count) + MaxBurst <= topBurst + Credit(topRate, now - begun)
    BY ONLY <1>0, <1>4, <2>1, <2>2, <2>3, <2>4, <2>6 DEF Numbers
  <2>. QED  BY <1>1, <1>2, <2>5 DEF Balance, IInv
<1>. QED  BY <1>1, <1>3, <1>4 DEF Balance, IInv

\* Time only adds to what the window allows.
LEMMA TickIInv == ASSUME IInv, Constants, Tick PROVE IInv'
<1>0. Numbers
  BY TypesGiveNumbers DEF IInv
<1>1. /\ now < MaxTime /\ now' = now + 1
      /\ UNCHANGED <<rate, burst, known, tokens, last, begun, count, topRate, topBurst>>
  BY DEF Tick, bucket, window, history
<1>2. Types'
  BY <1>1 DEF IInv, Types, Times, Constants
<1>3. CASE ~known /\ Spent(count) + MaxBurst <= topBurst + Credit(topRate, now - begun)
  <2>1. /\ now - begun \in Nat /\ now' - begun \in Nat /\ now - begun <= now' - begun
        /\ topRate \in Nat /\ topRate <= topRate
    BY ONLY <1>0, <1>1 DEF Numbers
  <2>2. Credit(topRate, now - begun) <= Credit(topRate, now' - begun)
    BY ONLY <2>1, CreditGrows, Zenon
  <2>4. Credit(topRate, now - begun) \in Nat /\ Credit(topRate, now' - begun) \in Nat
    BY ONLY <2>1, CreditIsNat, Zenon
  <2>5. Spent(count) \in Nat
    BY ONLY <1>0, Constants, SpentSteps DEF Numbers
  <2>3. Spent(count) + MaxBurst <= topBurst + Credit(topRate, now' - begun)
    BY ONLY <1>0, <1>3, <2>2, <2>4, <2>5 DEF Numbers
  <2>. QED  BY <1>1, <1>2, <1>3, <2>3 DEF Balance, IInv
<1>. QED  BY <1>1, <1>2, <1>3 DEF Balance, IInv

\* What concerns mutes and memberships alone.
Aside == UNCHANGED <<now, rate, burst, bucket, window>>

LEMMA NextIInv == ASSUME IInv, Constants, [Next]_vars PROVE IInv'
<1>1. CASE Aside
  BY <1>1 DEF IInv, Types, Balance, Aside, bucket, window
<1>2. CASE Send
  BY <1>2, SendIInv
<1>3. CASE Forget
  BY <1>3, ForgetIInv
<1>4. CASE Tick
  BY <1>4, TickIInv
<1>5. CASE \E r \in 1 .. MaxRate, b \in Cost .. MaxBurst : SetRate(r, b)
  BY <1>5, SetRateIInv
<1>6. CASE Restart
  <2>1. /\ WindowBegins /\ UNCHANGED <<now, rate, burst>>
        /\ tokens' = 0 /\ last' = 0
    BY <1>6 DEF Restart
  <2>2. 0 \in 0 .. MaxBurst /\ 0 \in 0 .. now
    BY DEF IInv, Types, Times, Constants
  <2>. QED  BY <2>1, <2>2, WindowIInv
<1>7. CASE Watch
  BY <1>7, WindowIInv DEF Watch, bucket, IInv, Types
<1>8. ASSUME \/ Leave \/ Join \/ Promote \/ Save \/ UNCHANGED vars
             \/ \E n \in MuteTimes \cup {0} : Mute(n)
      PROVE  Aside
  BY <1>8 DEF Leave, Join, Promote, Save, Mute, Standing, Aside, vars, bucket, window, history
<1>. QED  BY <1>1, <1>2, <1>3, <1>4, <1>5, <1>6, <1>7, <1>8 DEF Next

LEMMA BalanceGivesBound == ASSUME IInv, Constants PROVE SendBound
<1>0. Numbers
  BY TypesGiveNumbers DEF IInv
<1>1. Spent(count) + Available <= topBurst + Credit(topRate, now - begun) /\ Available \in 0 .. burst
  BY Affordable, AvailableBounded DEF IInv
<1>2. Spent(count) \in Nat /\ Credit(topRate, now - begun) \in Nat
  BY ONLY <1>0, Constants, SpentSteps, CreditIsNat DEF Numbers
<1>3. Spent(count) <= topBurst + Credit(topRate, now - begun)
  BY ONLY <1>0, <1>1, <1>2 DEF Numbers
<1>. QED  BY ONLY <1>3 DEF SendBound, Spent, Credit

\* However the limits change, whatever is forgotten and restarted: within any
\* stretch of time a sender gets no more through than the largest bucket and
\* the highest rate of that time allow (take and allowRate).
THEOREM FloodSendBound == Spec => []SendBound
<1>1. Constants
  BY FloodAssumption DEF Constants
<1>2. Init => IInv
  BY <1>1, InitIInv
<1>3. IInv /\ [Next]_vars => IInv'
  BY <1>1, NextIInv
<1>4. IInv => SendBound
  BY <1>1, BalanceGivesBound
<1>. QED  BY <1>2, <1>3, <1>4, PTL DEF Spec

-----------------------------------------------------------------------------
(***************************************************************************)
(* The refusals that count                                                 *)
(***************************************************************************)
After(s, c) == {i \in DOMAIN s : s[i] > c}
Count(s, c) == Cardinality(After(s, c))

LEMMA PlacesUpTo ==
  ASSUME NEW n \in Nat
  PROVE  IsFiniteSet(1 .. n) /\ Cardinality(1 .. n) = n
<1>1. n \in Int /\ 1 \in Int
  OBVIOUS
<1>2. IsFiniteSet(1 .. n) /\ Cardinality(1 .. n) = IF 1 > n THEN 0 ELSE n - 1 + 1
  BY <1>1, FS_Interval
<1>. QED  BY <1>2

\* The members of a finite set of numbers have different places in it, and each place
\* from the first to the last is somebody's.
LEMMA PlacesAre ==
  ASSUME NEW S \in SUBSET Nat, IsFiniteSet(S)
  PROVE  /\ Cardinality(S) \in Nat
         /\ \A m \in S : Cardinality({k \in S : k <= m}) \in 1 .. Cardinality(S)
         /\ \A j \in 1 .. Cardinality(S) : \E m \in S : Cardinality({k \in S : k <= m}) = j
         /\ \A l, m \in S :
              Cardinality({k \in S : k <= l}) = Cardinality({k \in S : k <= m}) => l = m
<1> DEFINE U(m) == {k \in S : k <= m}
           n == Cardinality(S)
           rank == [m \in S |-> Cardinality(U(m))]
<1>1. n \in Nat
  BY FS_CardinalityType
<1>2. ASSUME NEW m \in S
      PROVE  IsFiniteSet(U(m)) /\ Cardinality(U(m)) \in 1 .. n
  <2>1. IsFiniteSet(U(m)) /\ Cardinality(U(m)) <= n /\ Cardinality(U(m)) \in Nat
    BY FS_Subset, FS_CardinalityType
  <2>2. U(m) # {}
    OBVIOUS
  <2>3. Cardinality(U(m)) # 0
    BY <2>1, <2>2, FS_EmptySet
  <2>. QED  BY <1>1, <2>1, <2>3
<1>3. ASSUME NEW l \in S, NEW m \in S, l < m
      PROVE  rank[l] < rank[m]
  <2>1. U(l) \in SUBSET U(m) /\ U(l) # U(m)
    <3>1. \A x \in S : x <= l => x <= m
      <4>1. \A x \in S : x \in Nat
        OBVIOUS
      <4>2. l \in Nat /\ m \in Nat /\ l < m
        BY <1>3
      <4>. QED  BY <4>1, <4>2
    <3>2. m \in U(m) /\ m \notin U(l)
      BY <1>3
    <3>. QED  BY <3>1, <3>2
  <2>2. IsFiniteSet(U(m)) /\ Cardinality(U(l)) \in Nat /\ Cardinality(U(m)) \in Nat
    BY <1>1, <1>2
  <2>3. Cardinality(U(l)) <= Cardinality(U(m)) /\ Cardinality(U(l)) # Cardinality(U(m))
    BY <2>1, <2>2, FS_Subset
  <2>. QED  BY <2>2, <2>3
<1>4. rank \in [S -> 1 .. n]
  BY <1>2
<1>5. \A l, m \in S : rank[l] = rank[m] => l = m
  <2>1. SUFFICES ASSUME NEW l \in S, NEW m \in S, l # m PROVE rank[l] # rank[m]
    OBVIOUS
  <2>2. rank[l] \in Nat /\ rank[m] \in Nat
    BY <1>4
  <2>3. l < m \/ m < l
    BY <2>1
  <2>. QED  BY <1>3, <2>2, <2>3
<1>6. rank \in Injection(S, 1 .. n)
  BY <1>4, <1>5 DEF Injection, IsInjective
<1>7. IsFiniteSet(1 .. n) /\ Cardinality(1 .. n) = n
  BY <1>1, FS_Interval
<1>8. rank \in Surjection(S, 1 .. n)
  BY <1>6, <1>7, FS_Injection
<1>9. \A j \in 1 .. n : \E m \in S : rank[m] = j
  BY <1>8 DEF Surjection
<1>. QED  BY <1>1, <1>2, <1>5, <1>9

\* What is left of a sequence has what counted in it, and nothing else.
LEMMA LaterIs ==
  ASSUME NEW s \in Seq(Nat), NEW c \in Int
  PROVE  /\ Later(s, c) \in Seq(Nat) /\ Len(Later(s, c)) = Count(s, c)
         /\ Count(s, c) \in Nat
         /\ \A b \in Int : c <= b => Count(Later(s, c), b) = Count(s, b)
<1> DEFINE K == After(s, c)
           n == Cardinality(K)
           P(m) == Cardinality({k \in K : k <= m})
<1>1. DOMAIN s = 1 .. Len(s) /\ Len(s) \in Nat /\ \A i \in DOMAIN s : s[i] \in Nat
  BY LenProperties, ElementOfSeq
<1>2. IsFiniteSet(DOMAIN s) /\ \A b : IsFiniteSet(After(s, b))
  <2>1. IsFiniteSet(DOMAIN s)
    BY <1>1, FS_Interval
  <2>2. \A b : After(s, b) \in SUBSET DOMAIN s
    BY DEF After
  <2>. QED  BY <2>1, <2>2, FS_Subset
<1>3. K \in SUBSET Nat /\ IsFiniteSet(K)
  <2>1. IsFiniteSet(After(s, c))
    BY <1>2
  <2>2. \A i \in 1 .. Len(s) : i \in Nat
    BY <1>1
  <2>3. After(s, c) \in SUBSET (1 .. Len(s))
    BY <1>1 DEF After
  <2>. QED  BY <2>1, <2>2, <2>3
<1>. HIDE DEF K
<1>4. /\ n \in Nat
      /\ \A m \in K : P(m) \in 1 .. n
      /\ \A j \in 1 .. n : \E m \in K : P(m) = j
      /\ \A l, m \in K : P(l) = P(m) => l = m
  BY <1>3, PlacesAre
<1>. HIDE DEF P
<1> DEFINE o == [j \in 1 .. n |-> CHOOSE i \in K : P(i) = j]
<1>5. \A j \in 1 .. n : o[j] \in K /\ P(o[j]) = j
  BY <1>4
<1>6. \A i \in K : o[P(i)] = i
  <2>1. TAKE i \in K
  <2>2. P(i) \in 1 .. n
    BY <1>4
  <2>3. o[P(i)] \in K /\ P(o[P(i)]) = P(i)
    BY <1>5, <2>2
  <2>. QED  BY <1>4, <2>3
<1>7. PICK t : t = Later(s, c)
  OBVIOUS
<1>8. t = [j \in 1 .. n |-> s[o[j]]]
  <2>1. t = [j \in 1 .. n |-> s[CHOOSE i \in K : P(i) = j]]
    BY <1>7 DEF Later, K, P, After
  <2>. QED  BY <2>1
<1>. HIDE DEF o
<1>9. /\ DOMAIN t = 1 .. n /\ \A j \in 1 .. n : t[j] = s[o[j]] /\ o[j] \in DOMAIN s
      /\ \A j \in 1 .. n : t[j] > c
  <2>1. \A i \in K : i \in DOMAIN s /\ s[i] > c
    BY DEF K, After
  <2>. QED  BY <1>5, <1>8, <2>1
<1>10. t \in Seq(Nat) /\ Len(t) = n
  <2>1. t \in [1 .. n -> Nat]
    BY <1>1, <1>8, <1>9
  <2>2. t \in Seq(Nat)
    BY <1>4, <2>1, SeqDef
  <2>. QED  BY <1>4, <1>9, <2>2, LenProperties
<1>11. ASSUME NEW b \in Int, c <= b
       PROVE  Count(t, b) = Count(s, b)
  <2> DEFINE A == After(t, b)
             B == After(s, b)
             f == [j \in A |-> o[j]]
  <2>1. A \in SUBSET (1 .. n) /\ IsFiniteSet(A)
    <3>1. A \in SUBSET (1 .. n) /\ IsFiniteSet(1 .. n)
      BY <1>4, <1>9, FS_Interval DEF After
    <3>. QED  BY <3>1, FS_Subset
  <2>2. \A j \in A : o[j] \in B
    BY <1>9, <2>1 DEF After
  <2>3. B \subseteq K
    BY <1>1, <1>11 DEF After, K
  <2>4. \A i \in B : P(i) \in A /\ o[P(i)] = i
    <3>1. TAKE i \in B
    <3>2. P(i) \in 1 .. n /\ o[P(i)] = i
      BY <1>4, <1>6, <2>3
    <3>3. t[P(i)] = s[i] /\ s[i] > b
      BY <1>9, <3>2 DEF After
    <3>. QED  BY <1>9, <3>2, <3>3 DEF After
  <2>5. \A j, k \in A : o[j] = o[k] => j = k
    BY <1>5, <2>1
  <2>6. f \in [A -> B] /\ \A j \in A : f[j] = o[j]
    BY <2>2
  <2>. HIDE DEF A, B, f
  <2>7. f \in Injection(A, B)
    BY <2>5, <2>6 DEF Injection, IsInjective
  <2>8. f \in Surjection(A, B)
    BY <2>4, <2>6 DEF Surjection
  <2>9. Cardinality(B) = Cardinality(A)
    BY <2>1, <2>7, <2>8, FS_Surjection
  <2>. QED  BY <2>9 DEF A, B, Count
<1>12. Count(s, c) = n
  BY DEF Count, K
<1>. QED  BY <1>4, <1>7, <1>10, <1>11, <1>12

LEMMA CountAppend ==
  ASSUME NEW s \in Seq(Nat), NEW t \in Nat, NEW b \in Int
  PROVE  /\ Append(s, t) \in Seq(Nat) /\ Len(Append(s, t)) = Len(s) + 1
         /\ Count(s, b) \in Nat
         /\ Count(Append(s, t), b) = IF t > b THEN Count(s, b) + 1 ELSE Count(s, b)
<1>1. /\ DOMAIN s = 1 .. Len(s) /\ Len(s) \in Nat
      /\ Append(s, t) \in Seq(Nat) /\ Len(Append(s, t)) = Len(s) + 1
      /\ DOMAIN Append(s, t) = 1 .. Len(s) + 1
      /\ \A i \in 1 .. Len(s) : Append(s, t)[i] = s[i]
      /\ Append(s, t)[Len(s) + 1] = t
  BY LenProperties, AppendProperties
<1>2. PICK a : a = Append(s, t)
  OBVIOUS
<1>3. PICK A : A = After(s, b)
  OBVIOUS
<1>4. PICK e : e = Len(s) + 1
  OBVIOUS
<1>5. IsFiniteSet(A) /\ e \notin A
  <2>1. A \in SUBSET (1 .. Len(s)) /\ IsFiniteSet(1 .. Len(s))
    BY <1>1, <1>3, FS_Interval DEF After
  <2>2. e \notin 1 .. Len(s)
    BY <1>1, <1>4
  <2>. QED  BY <2>1, <2>2, FS_Subset
<1>6. DOMAIN a = (1 .. Len(s)) \cup {e} /\ a[e] = t /\ \A i \in 1 .. Len(s) : a[i] = s[i]
  <2>1. 1 .. Len(s) + 1 = (1 .. Len(s)) \cup {Len(s) + 1}
    BY <1>1
  <2>. QED  BY <1>1, <1>2, <1>4, <2>1
<1>7. After(a, b) = IF t > b THEN A \cup {e} ELSE A
  <2>1. \A i \in 1 .. Len(s) : i # e
    BY <1>1, <1>4
  <2>. QED  BY <1>1, <1>3, <1>6, <2>1 DEF After
<1>8. Cardinality(A) \in Nat
  BY <1>5, FS_CardinalityType
<1>9. Cardinality(A \cup {e}) = Cardinality(A) + 1
  BY <1>5, FS_AddElement
<1>10. Count(a, b) = IF t > b THEN Cardinality(A) + 1 ELSE Cardinality(A)
  BY <1>7, <1>9 DEF Count
<1>. QED  BY <1>1, <1>2, <1>3, <1>8, <1>10 DEF Count

LEMMA CountNone == \A b : Count(<<>>, b) = 0
<1>1. \A b : After(<<>>, b) = {}
  BY DEF After
<1>. QED  BY <1>1, FS_EmptySet DEF Count

-----------------------------------------------------------------------------
\* The hub has a record of as many refusals as it has not answered, from whatever moment on
\* they are counted.
HitsInv ==
  /\ now \in Nat /\ mutedUntil \in Nat /\ onDisk.mutedUntil \in Nat
  /\ hits \in Seq(Nat) /\ refused \in Seq(Nat) /\ Len(hits) <= MaxHits
  /\ \A b \in Int : now - Window <= b => Count(refused, b) = Count(hits, b)

HitsConstants ==
  /\ Window \in Nat /\ MaxHits \in Nat /\ MuteFor \in Nat /\ MuteTimes \subseteq Nat

LEMMA ConstantsForHits == HitsConstants
BY FloodAssumption DEF HitsConstants

LEMMA RecentIs ==
  ASSUME HitsInv
  PROVE  /\ Recent \in Seq(Nat) /\ Len(Recent) = Count(hits, now - Window) + 1
         /\ Count(hits, now - Window) \in Nat
         /\ \A b \in Int : now - Window <= b =>
              Count(Recent, b) = Count(Append(refused, now), b)
<1>1. now \in Nat /\ now - Window \in Int /\ hits \in Seq(Nat) /\ refused \in Seq(Nat)
  BY ConstantsForHits DEF HitsInv, HitsConstants
<1>2. PICK c : c = now - Window
  OBVIOUS
<1>3. PICK t : t = Later(hits, c)
  OBVIOUS
<1>4. /\ t \in Seq(Nat) /\ Len(t) = Count(hits, c) /\ Count(hits, c) \in Nat
      /\ \A b \in Int : c <= b => Count(t, b) = Count(hits, b)
  BY <1>1, <1>2, <1>3, LaterIs
<1>5. Recent = Append(t, now)
  BY <1>2, <1>3 DEF Recent
<1>6. Append(t, now) \in Seq(Nat) /\ Len(Append(t, now)) = Len(t) + 1
  BY <1>1, <1>4, AppendProperties
<1>7. ASSUME NEW b \in Int, c <= b
      PROVE  Count(Append(t, now), b) = Count(Append(refused, now), b)
  <2>1. Count(t, b) = Count(refused, b)
    BY <1>2, <1>4, <1>7 DEF HitsInv
  <2>2. Count(Append(t, now), b) = IF now > b THEN Count(t, b) + 1 ELSE Count(t, b)
    BY <1>1, <1>4, CountAppend
  <2>3. Count(Append(refused, now), b)
          = IF now > b THEN Count(refused, b) + 1 ELSE Count(refused, b)
    BY <1>1, CountAppend
  <2>. QED  BY <2>1, <2>2, <2>3
<1>. QED  BY <1>2, <1>4, <1>5, <1>6, <1>7

LEMMA HitsInit == ASSUME Init PROVE HitsInv
<1>1. /\ now = 0 /\ mutedUntil = 0 /\ onDisk.mutedUntil = 0
      /\ hits = <<>> /\ refused = <<>> /\ <<>> \in Seq(Nat) /\ Len(<<>>) = 0
  BY DEF Init, Membership
<1>. QED  BY <1>1, CountNone, ConstantsForHits DEF HitsInv, HitsConstants

\* No refusal is counted or forgotten.
LEMMA HitsStay ==
  ASSUME HitsInv, UNCHANGED <<now, hits, refused>>,
         mutedUntil' \in Nat, onDisk.mutedUntil' \in Nat
  PROVE  HitsInv'
BY DEF HitsInv

\* All are forgotten.
LEMMA HitsGone ==
  ASSUME HitsInv, now' = now, hits' = <<>>, refused' = <<>>,
         mutedUntil' \in Nat, onDisk.mutedUntil' \in Nat
  PROVE  HitsInv'
<1>1. <<>> \in Seq(Nat) /\ Len(<<>>) = 0 /\ now \in Nat
  BY DEF HitsInv
<1>. QED  BY <1>1, CountNone, ConstantsForHits DEF HitsInv, HitsConstants

LEMMA NoteKeeps ==
  ASSUME HitsInv, NoteRateHit, now' = now, onDisk' = onDisk
  PROVE  HitsInv'
<1>1. now + MuteFor \in Nat /\ mutedUntil \in Nat /\ onDisk'.mutedUntil \in Nat
  BY ConstantsForHits DEF HitsInv, HitsConstants
<1>2. mutedUntil' \in Nat
  BY <1>1 DEF NoteRateHit
<1>3. CASE Len(Recent) > MaxHits
  <2>1. hits' = <<>> /\ refused' = <<>>
    BY <1>3 DEF NoteRateHit
  <2>. QED  BY <1>1, <1>2, <2>1, HitsGone
<1>4. CASE ~(Len(Recent) > MaxHits)
  <2>1. hits' = Recent /\ refused' = Append(refused, now)
    BY <1>4 DEF NoteRateHit
  <2>2. /\ Recent \in Seq(Nat) /\ Len(Recent) \in Nat
        /\ \A b \in Int : now - Window <= b => Count(Recent, b) = Count(Append(refused, now), b)
    BY RecentIs, LenProperties
  <2>3. Append(refused, now) \in Seq(Nat)
    BY AppendProperties DEF HitsInv
  <2>4. Len(Recent) <= MaxHits
    BY <1>4, <2>2, ConstantsForHits DEF HitsConstants
  <2>. QED  BY <1>1, <1>2, <2>1, <2>2, <2>3, <2>4 DEF HitsInv
<1>. QED  BY <1>3, <1>4

LEMMA HitsNext == ASSUME HitsInv, [Next]_vars PROVE HitsInv'
<1>0. mutedUntil \in Nat /\ onDisk.mutedUntil \in Nat /\ now \in Nat
  BY DEF HitsInv
<1>1. CASE Send
  <2>1. now' = now /\ onDisk' = onDisk
    BY <1>1 DEF Send
  <2>2. CASE Accept
    BY <1>0, <2>1, <2>2, HitsStay DEF Accept
  <2>3. CASE Refuse
    BY <2>1, <2>3, NoteKeeps DEF Refuse
  <2>. QED  BY <1>1, <2>2, <2>3 DEF Send
<1>2. ASSUME NEW m, NEW until \in Nat, Standing(m, until)
      PROVE  HitsInv'
  BY <1>2, HitsStay DEF Standing, history
<1>3. CASE Leave \/ Join \/ \E n \in MuteTimes \cup {0} : Mute(n)
  <2>1. \A n \in MuteTimes : now + n \in Nat
    BY <1>0, ConstantsForHits DEF HitsConstants
  <2>2. ASSUME NEW n \in MuteTimes \cup {0}, Mute(n)
        PROVE  HitsInv'
    <3>1. PICK until : until = IF n = 0 THEN 0 ELSE now + n
      OBVIOUS
    <3>2. until \in Nat /\ Standing(TRUE, until)
      BY <2>1, <2>2, <3>1 DEF Mute
    <3>. QED  BY <1>2, <3>2
  <2>3. 0 \in Nat
    OBVIOUS
  <2>. QED  BY <1>2, <1>3, <2>2, <2>3 DEF Leave, Join
<1>4. CASE Save
  BY <1>0, <1>4, HitsStay DEF Save, Membership, history
<1>5. CASE Restart
  BY <1>0, <1>5, HitsGone DEF Restart
<1>6. CASE Tick
  <2>1. /\ now' = now + 1 /\ UNCHANGED <<hits, refused, mutedUntil, onDisk>>
    BY <1>6 DEF Tick, standing, history
  <2>2. \A b \in Int : (now + 1) - Window <= b => now - Window <= b
    BY <1>0, ConstantsForHits DEF HitsConstants
  <2>. QED  BY <1>0, <2>1, <2>2 DEF HitsInv
<1>7. CASE Forget \/ Promote \/ Watch \/ UNCHANGED vars
           \/ \E r \in 1 .. MaxRate, b \in Cost .. MaxBurst : SetRate(r, b)
  <2>1. UNCHANGED <<now, hits, refused, mutedUntil, onDisk>>
    BY <1>7 DEF Forget, Promote, Watch, SetRate, standing, history, vars
  <2>. QED  BY <1>0, <2>1, HitsStay
<1>. QED  BY <1>1, <1>3, <1>4, <1>5, <1>6, <1>7 DEF Next

LEMMA UnansweredIs ==
  ASSUME HitsInv
  PROVE  Unanswered = Count(hits, now - Window) /\ Unanswered \in Nat /\ Unanswered <= MaxHits
<1>1. now - Window \in Int /\ hits \in Seq(Nat) /\ refused \in Seq(Nat)
  BY ConstantsForHits DEF HitsInv, HitsConstants
<1>2. PICK c : c = now - Window
  OBVIOUS
<1>3. Unanswered = Count(refused, c) /\ Count(refused, c) \in Nat
  BY <1>1, <1>2, LaterIs DEF Unanswered
<1>4. Count(refused, c) = Count(hits, c)
  <2>1. now - Window <= c
    BY <1>1, <1>2
  <2>. QED  BY <1>1, <1>2, <2>1 DEF HitsInv
<1>5. Count(hits, c) <= Len(hits) /\ Len(hits) \in Nat
  <2>1. DOMAIN hits = 1 .. Len(hits) /\ Len(hits) \in Nat
    BY <1>1, LenProperties
  <2>2. IsFiniteSet(1 .. Len(hits)) /\ Cardinality(1 .. Len(hits)) = Len(hits)
    <3>1. PICK n \in Nat : n = Len(hits)
      BY <2>1
    <3>2. IsFiniteSet(1 .. n) /\ Cardinality(1 .. n) = n
      BY PlacesUpTo
    <3>. QED  BY <3>1, <3>2, SMTT(60)
  <2>3. After(hits, c) \in SUBSET (1 .. Len(hits))
    BY <2>1 DEF After
  <2>. QED  BY <2>1, <2>2, <2>3, FS_Subset DEF Count
<1>6. Len(hits) <= MaxHits /\ MaxHits \in Nat
  BY ConstantsForHits DEF HitsInv, HitsConstants
<1>. QED  BY <1>2, <1>3, <1>4, <1>5, <1>6

LEMMA HitsAlways == Spec => []HitsInv
<1>1. Init => HitsInv
  BY HitsInit
<1>2. HitsInv /\ [Next]_vars => HitsInv'
  BY HitsNext
<1>. QED  BY <1>1, <1>2, PTL DEF Spec

\* No refusal that still counts is lost from the record before the hub has answered it,
\* so that nobody is refused more than AutoMuteHits times in five minutes unanswered
\* (noteRateHit).
THEOREM RefusalsAreAnswered == Spec => []FloodAnswered
<1>1. HitsInv => FloodAnswered
  BY UnansweredIs DEF FloodAnswered
<1>. QED  BY <1>1, HitsAlways, PTL

LEMMA EarnedStep ==
  ASSUME HitsInv, Send, mutedUntil' > mutedUntil
  PROVE  Unanswered >= MaxHits
<1>1. mutedUntil \in Nat
  BY DEF HitsInv
<1>2. mutedUntil' # mutedUntil
  BY <1>1
<1>3. Len(Recent) > MaxHits
  BY <1>2 DEF Send, Accept, Refuse, NoteRateHit
<1>4. Len(Recent) = Unanswered + 1 /\ Unanswered \in Nat
  BY RecentIs, UnansweredIs
<1>. QED  BY <1>3, <1>4, ConstantsForHits DEF HitsConstants

\* The hub mutes only whoever has been refused AutoMuteHits times before within five
\* minutes, and no refusal is held against a sender twice (noteRateHit).
THEOREM MutesAreEarned == Spec => MuteEarned
<1>1. HitsInv /\ [Next]_vars => [Send /\ mutedUntil' > mutedUntil => Unanswered >= MaxHits]_vars
  BY EarnedStep
<1>. QED  BY <1>1, HitsAlways, PTL DEF Spec, MuteEarned
=============================================================================
