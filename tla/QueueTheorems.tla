---------------------------- MODULE QueueTheorems ---------------------------
(* What the operators of Queue return, for every queue. *)
EXTENDS Queue, SequenceTheorems, FiniteSetTheorems, WellFoundedInduction, TLAPS

\* Every non-empty set of naturals has a least element.
LEMMA LeastNatural ==
    ASSUME NEW T \in SUBSET Nat, T # {}
    PROVE  \E x \in T : \A y \in T : x <= y
<1> DEFINE R == OpToRel(<, Nat)
<1>1. IsWellFoundedOn(R, Nat)
  BY NatLessThanWellFounded, Zenon
<1>2. PICK x \in T : \A y \in T : ~(<<y, x>> \in R)
  BY <1>1, WFMin, Zenon
<1>3. \A y \in T : ~(y < x)
  BY <1>2 DEF OpToRel
<1>. QED
  BY <1>3

\* The rank of a position among the kept ones: it starts at 0, grows by one at
\* each kept position and ends at the number of kept positions.
LEMMA RankProperties ==
    ASSUME NEW L \in Nat, NEW S \in SUBSET (1 .. L)
    PROVE  /\ IsFiniteSet(S)
           /\ Cardinality(S) \in Nat
           /\ \A i \in Nat : rank(S, i) \in 0 .. Cardinality(S)
           /\ rank(S, 0) = 0
           /\ rank(S, L) = Cardinality(S)
           /\ \A i \in Nat :
                 /\ i + 1 \in S => rank(S, i + 1) = rank(S, i) + 1
                 /\ i + 1 \notin S => rank(S, i + 1) = rank(S, i)
           /\ \A i, j \in S : i < j => rank(S, i) < rank(S, j)
<1> DEFINE upTo(i) == {j \in S : j <= i}
<1>0. \A j \in S : j \in Int /\ 1 <= j /\ j <= L
  OBVIOUS
<1>1. IsFiniteSet(S) /\ Cardinality(S) \in Nat
  <2>1. IsFiniteSet(1 .. L)
    BY FS_Interval
  <2>2. IsFiniteSet(S)
    BY <2>1, FS_Subset, Zenon
  <2>. QED
    BY <2>2, FS_CardinalityType, Zenon
<1>2. \A i : IsFiniteSet(upTo(i)) /\ Cardinality(upTo(i)) \in Nat
                /\ Cardinality(upTo(i)) <= Cardinality(S)
  BY <1>1, FS_Subset, FS_CardinalityType
<1>3. \A i \in Nat : rank(S, i) \in 0 .. Cardinality(S)
  BY <1>1, <1>2 DEF rank
<1>4. rank(S, 0) = 0
  <2>1. \A j \in S : ~(j <= 0)
    BY <1>0
  <2>2. upTo(0) = {}
    BY <2>1, Zenon
  <2>. QED
    BY <2>2, FS_EmptySet, Zenon DEF rank
<1>5. rank(S, L) = Cardinality(S)
  <2>1. upTo(L) = S
    BY <1>0
  <2>. QED
    BY <2>1 DEF rank
<1>6. ASSUME NEW i \in Nat
      PROVE  /\ i + 1 \in S => rank(S, i + 1) = rank(S, i) + 1
             /\ i + 1 \notin S => rank(S, i + 1) = rank(S, i)
  <2>1. CASE i + 1 \in S
    <3>1. upTo(i + 1) = upTo(i) \cup {i + 1}
      <4>1. \A j \in S : j <= i + 1 <=> j <= i \/ j = i + 1
        BY <1>0
      <4>. QED
        BY <2>1, <4>1
    <3>2. i + 1 \notin upTo(i)
      OBVIOUS
    <3>3. Cardinality(upTo(i + 1)) = Cardinality(upTo(i)) + 1
      BY <3>1, <3>2, <1>2, FS_AddElement
    <3>. QED
      BY <2>1, <3>3 DEF rank
  <2>2. CASE i + 1 \notin S
    <3>1. upTo(i + 1) = upTo(i)
      <4>1. \A j \in S : j <= i + 1 <=> j <= i
        BY <1>0, <2>2
      <4>. QED
        BY <4>1
    <3>. QED
      BY <2>2, <3>1 DEF rank
  <2>. QED
    BY <2>1, <2>2
<1>7. ASSUME NEW i \in S, NEW j \in S, i < j
      PROVE  rank(S, i) < rank(S, j)
  <2>0. \A k \in S : k <= i \/ k = j => k <= j
    BY <1>0, <1>7
  <2>1. upTo(i) \cup {j} \subseteq upTo(j)
    BY <2>0, Zenon
  <2>2. Cardinality(upTo(i) \cup {j}) <= Cardinality(upTo(j))
    BY <1>2, <2>1, FS_Subset
  <2>3. j \notin upTo(i)
    BY <1>0, <1>7
  <2>4. Cardinality(upTo(i) \cup {j}) = Cardinality(upTo(i)) + 1
    BY <1>2, <2>3, FS_AddElement
  <2>. QED
    BY <1>2, <2>2, <2>4 DEF rank
<1>. QED
  BY <1>1, <1>3, <1>4, <1>5, <1>6, <1>7

\* nth and rank are inverse to each other, so nth enumerates S in order.
LEMMA NthProperties ==
    ASSUME NEW L \in Nat, NEW S \in SUBSET (1 .. L)
    PROVE  /\ \A n \in 1 .. Cardinality(S) : nth(S, n) \in S /\ rank(S, nth(S, n)) = n
           /\ \A i \in S : rank(S, i) \in 1 .. Cardinality(S) /\ nth(S, rank(S, i)) = i
<1>0. \A j \in S : j \in Nat /\ 1 <= j /\ j <= L
  OBVIOUS
<1>r. /\ Cardinality(S) \in Nat
      /\ \A i \in Nat : rank(S, i) \in 0 .. Cardinality(S)
      /\ rank(S, 0) = 0
      /\ rank(S, L) = Cardinality(S)
  BY RankProperties, Zenon
<1>s. \A i \in Nat : /\ i + 1 \in S => rank(S, i + 1) = rank(S, i) + 1
                     /\ i + 1 \notin S => rank(S, i + 1) = rank(S, i)
  BY RankProperties, Zenon
<1>m. \A i, j \in S : i < j => rank(S, i) < rank(S, j)
  BY RankProperties, Zenon
<1>1. \A i, j \in S : rank(S, i) = rank(S, j) => i = j
  <2>1. \A i, j \in S : i < j \/ j < i \/ i = j
    BY <1>0
  <2>2. \A i \in S : rank(S, i) \in Nat
    BY <1>0, <1>r
  <2>. QED
    BY <2>1, <2>2, <1>m
<1>2. ASSUME NEW n \in 1 .. Cardinality(S)
      PROVE  \E i \in S : rank(S, i) = n
  <2> DEFINE T == {m \in Nat : rank(S, m) >= n}
  <2>1. Cardinality(S) \in Nat
    BY <1>r
  <2>2. L \in T
    BY <2>1, <1>r
  <2>3. PICK m \in T : \A y \in T : m <= y
    BY <2>2, LeastNatural
  <2>4. m # 0
    BY <2>1, <2>3, <1>r
  <2>5. m - 1 \in Nat /\ m - 1 \notin T
    BY <2>3, <2>4
  <2>6. rank(S, m - 1) < n /\ rank(S, m - 1) \in Nat /\ rank(S, m) \in Nat
    BY <2>1, <2>3, <2>5, <1>r
  <2>7. rank(S, m) = IF m \in S THEN rank(S, m - 1) + 1 ELSE rank(S, m - 1)
    <3>1. (m - 1) + 1 = m
      BY <2>3
    <3>. QED
      BY <2>5, <3>1, <1>s
  <2>. QED
    BY <2>1, <2>3, <2>6, <2>7
<1>3. \A n \in 1 .. Cardinality(S) : nth(S, n) \in S /\ rank(S, nth(S, n)) = n
  BY <1>2 DEF nth
<1>4. ASSUME NEW i \in S
      PROVE  rank(S, i) \in 1 .. Cardinality(S)
  <2>1. i \in Nat /\ i - 1 \in Nat /\ (i - 1) + 1 = i
    BY <1>0
  <2>2. rank(S, i) = rank(S, i - 1) + 1
    BY <2>1, <1>s
  <2>. QED
    BY <2>1, <2>2, <1>r
<1>. QED
  BY <1>1, <1>3, <1>4

\* removeFromQueue keeps exactly the entries other than e, in their order.
THEOREM RemoveFromQueueProperties ==
    ASSUME NEW D, NEW q \in Seq(D), NEW e
    PROVE  /\ removeFromQueue(q, e) \in Seq(D)
           /\ \A d : isIn(d, removeFromQueue(q, e)) <=> isIn(d, q) /\ d # e
           /\ noRepeats(q) => noRepeats(removeFromQueue(q, e))
           /\ \A c, d : before(c, d, q) /\ c # e /\ d # e
                           => before(c, d, removeFromQueue(q, e))
<1> DEFINE S == keptPositions(q, e)
           r == removeFromQueue(q, e)
<1>1. Len(q) \in Nat /\ DOMAIN q = 1 .. Len(q) /\ S \in SUBSET (1 .. Len(q))
  BY LenProperties DEF keptPositions
<1>2. Cardinality(S) \in Nat
  BY <1>1, RankProperties
<1>3. /\ DOMAIN r = 1 .. Cardinality(S)
      /\ \A n \in 1 .. Cardinality(S) : r[n] = q[nth(S, n)]
  BY DEF removeFromQueue
<1>4. \A n \in 1 .. Cardinality(S) : nth(S, n) \in S /\ rank(S, nth(S, n)) = n
  BY <1>1, NthProperties
<1>5. \A i \in S : rank(S, i) \in 1 .. Cardinality(S) /\ nth(S, rank(S, i)) = i
  BY <1>1, NthProperties
<1>6. \A i \in S : i \in 1 .. Len(q) /\ q[i] # e /\ q[i] \in D
  BY <1>1, ElementOfSeq DEF keptPositions
<1>7. r \in Seq(D)
  <2>1. \A n \in 1 .. Cardinality(S) : q[nth(S, n)] \in D
    BY <1>4, <1>6
  <2>. QED
    BY <1>2, <2>1, IsASeq DEF removeFromQueue
<1>8. \A d : isIn(d, r) <=> isIn(d, q) /\ d # e
  <2>1. ASSUME NEW d, isIn(d, r)
        PROVE  isIn(d, q) /\ d # e
    <3>1. PICK n \in 1 .. Cardinality(S) : r[n] = d
      BY <1>3, <2>1 DEF isIn
    <3>. QED
      BY <1>1, <1>3, <1>4, <1>6, <3>1 DEF isIn
  <2>2. ASSUME NEW d, isIn(d, q), d # e
        PROVE  isIn(d, r)
    <3>1. PICK i \in S : q[i] = d
      BY <2>2 DEF isIn, keptPositions
    <3>. QED
      BY <1>3, <1>5, <3>1 DEF isIn
  <2>. QED
    BY <2>1, <2>2
<1>9. ASSUME noRepeats(q)
      PROVE  noRepeats(r)
  <2>1. \A i, j \in S : q[i] = q[j] => i = j
    BY <1>1, <1>9 DEF noRepeats
  <2>2. ASSUME NEW m \in 1 .. Cardinality(S), NEW n \in 1 .. Cardinality(S), r[m] = r[n]
        PROVE  m = n
    <3>1. nth(S, m) = nth(S, n)
      BY <1>3, <1>4, <2>1, <2>2
    <3>. QED
      BY <1>4, <3>1
  <2>. QED
    BY <1>3, <2>2 DEF noRepeats
<1>10. ASSUME NEW c, NEW d, before(c, d, q), c # e, d # e
       PROVE  before(c, d, r)
  <2>1. PICK i \in S, j \in S : i < j /\ q[i] = c /\ q[j] = d
    BY <1>10 DEF before, keptPositions
  <2>2. rank(S, i) < rank(S, j)
    BY <1>1, <2>1, RankProperties
  <2>. QED
    BY <1>3, <1>5, <2>1, <2>2 DEF before
<1>. QED
  BY <1>7, <1>8, <1>9, <1>10

\* An empty queue holds nobody.
LEMMA EmptyQueue ==
    /\ \A d : ~isIn(d, <<>>)
    /\ noRepeats(<<>>)
    /\ Len(<<>>) = 0
    /\ \A D : <<>> \in Seq(D)
  BY DEF isIn, noRepeats

\* enqueue: the new entry and the old ones, and no repetition unless it was there.
LEMMA EnqueueProperties ==
    ASSUME NEW D, NEW q \in Seq(D), NEW e \in D
    PROVE  /\ Append(q, e) \in Seq(D)
           /\ \A d : isIn(d, Append(q, e)) <=> isIn(d, q) \/ d = e
           /\ noRepeats(q) /\ ~isIn(e, q) => noRepeats(Append(q, e))
           /\ Len(Append(q, e)) = Len(q) + 1
<1> DEFINE r == Append(q, e)
<1>1. /\ r \in Seq(D) /\ Len(q) \in Nat /\ Len(r) = Len(q) + 1
      /\ DOMAIN q = 1 .. Len(q) /\ DOMAIN r = 1 .. Len(q) + 1
      /\ \A i \in 1 .. Len(q) : r[i] = q[i]
      /\ r[Len(q) + 1] = e
  OBVIOUS
<1> HIDE DEF r
<1>2. \A i \in 1 .. Len(q) + 1 : i \in 1 .. Len(q) \/ i = Len(q) + 1
  BY <1>1
<1>3. \A d : isIn(d, r) <=> isIn(d, q) \/ d = e
  BY <1>1, <1>2 DEF isIn
<1>4. ASSUME noRepeats(q), ~isIn(e, q) PROVE noRepeats(r)
  BY <1>1, <1>2, <1>4 DEF isIn, noRepeats
<1>. QED
  BY <1>1, <1>3, <1>4 DEF r

\* pollQueue: the head goes, and with it every trace of it if nothing repeats.
LEMMA PollProperties ==
    ASSUME NEW D, NEW q \in Seq(D), q # <<>>
    PROVE  /\ Tail(q) \in Seq(D) /\ Head(q) \in D /\ isIn(Head(q), q)
           /\ \A d : isIn(d, q) <=> isIn(d, Tail(q)) \/ d = Head(q)
           /\ noRepeats(q) => noRepeats(Tail(q)) /\ ~isIn(Head(q), Tail(q))
           /\ Len(Tail(q)) = Len(q) - 1
<1> DEFINE r == Tail(q)
           h == Head(q)
<1>1. /\ r \in Seq(D) /\ h \in D /\ h = q[1] /\ Len(q) \in Nat /\ Len(q) >= 1
      /\ Len(r) = Len(q) - 1
      /\ DOMAIN q = 1 .. Len(q) /\ DOMAIN r = 1 .. Len(q) - 1
      /\ \A i \in 1 .. Len(q) - 1 : r[i] = q[i + 1]
  OBVIOUS
<1> HIDE DEF r, h
<1>2. \A i \in 1 .. Len(q) : i = 1 \/ (i - 1 \in 1 .. Len(q) - 1 /\ r[i - 1] = q[i])
  <2>1. \A i \in 1 .. Len(q) : i = 1 \/ (i - 1 \in 1 .. Len(q) - 1 /\ (i - 1) + 1 = i)
    BY <1>1
  <2>. QED
    BY <1>1, <2>1
<1>3. \A i \in 1 .. Len(q) - 1 : i + 1 \in 1 .. Len(q) /\ i + 1 # 1
  BY <1>1
<1>4. \A d : isIn(d, q) <=> isIn(d, r) \/ d = h
  <2>1. ASSUME NEW d, isIn(d, q) PROVE isIn(d, r) \/ d = h
    BY <1>1, <1>2, <2>1 DEF isIn
  <2>2. ASSUME NEW d, isIn(d, r) PROVE isIn(d, q)
    BY <1>1, <1>3, <2>2 DEF isIn
  <2>3. 1 \in 1 .. Len(q)
    BY <1>1
  <2>4. isIn(h, q)
    BY <1>1, <2>3 DEF isIn
  <2>. QED
    BY <2>1, <2>2, <2>4
<1>5. ASSUME noRepeats(q) PROVE noRepeats(r) /\ ~isIn(h, r)
  <2>1. 1 \in 1 .. Len(q)
    BY <1>1
  <2>2. ASSUME NEW i \in 1 .. Len(q) - 1, NEW j \in 1 .. Len(q) - 1, r[i] = r[j] PROVE i = j
    <3>1. i + 1 = j + 1
      BY <1>1, <1>3, <1>5, <2>2 DEF noRepeats
    <3>. QED
      BY <1>1, <3>1
  <2>3. ASSUME NEW i \in 1 .. Len(q) - 1, r[i] = h PROVE FALSE
    BY <1>1, <1>3, <1>5, <2>1, <2>3 DEF noRepeats
  <2>. QED
    BY <1>1, <2>2, <2>3 DEF isIn, noRepeats
<1>. QED
  BY <1>1, <1>4, <1>5 DEF r, h

\* Without repetitions an entry that is there occurs at one position.
LEMMA OnePosition ==
    ASSUME NEW D, NEW q \in Seq(D), NEW e, noRepeats(q), isIn(e, q)
    PROVE  Cardinality({i \in DOMAIN q : q[i] = e}) = 1
<1>1. PICK k \in DOMAIN q : q[k] = e
  BY DEF isIn
<1>2. {i \in DOMAIN q : q[i] = e} = {k}
  BY <1>1 DEF noRepeats
<1>. QED
  BY <1>2, FS_Singleton

\* removeFromQueue shortens such a queue by one.
LEMMA RemovalShortens ==
    ASSUME NEW D, NEW q \in Seq(D), NEW e, noRepeats(q), isIn(e, q)
    PROVE  Len(removeFromQueue(q, e)) = Len(q) - 1
<1> DEFINE S == keptPositions(q, e)
           L == Len(q)
<1>1. L \in Nat /\ DOMAIN q = 1 .. L
  BY LenProperties
<1>2. PICK k \in 1 .. L : q[k] = e
  BY <1>1 DEF isIn
<1>3. S = (1 .. L) \ {k}
  BY <1>1, <1>2 DEF keptPositions, noRepeats
<1>4. IsFiniteSet(1 .. L) /\ Cardinality(1 .. L) = L
  BY <1>1, FS_Interval, SMTT(30)
<1>5. Cardinality(S) = L - 1
  BY <1>2, <1>3, <1>4, FS_RemoveElement
<1>6. /\ removeFromQueue(q, e) \in Seq(D)
      /\ DOMAIN removeFromQueue(q, e) = 1 .. Cardinality(S)
  BY RemoveFromQueueProperties DEF removeFromQueue
<1>7. L - 1 \in Nat
  BY <1>1, <1>2
<1>8. Len(removeFromQueue(q, e)) = Cardinality(S)
  BY <1>5, <1>6, <1>7
<1>. QED
  BY <1>5, <1>8

=============================================================================
