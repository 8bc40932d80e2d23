--------------------------- MODULE PeqOps_proofs ----------------------------
(***************************************************************************)
(* What the operators of PeqOps return, for every payload set and delay:   *)
(* the facts the proofs about the users of little_end::peq rest on.        *)
(***************************************************************************)
EXTENDS PeqOps, FiniteSetTheorems, SequenceTheorems, WellFoundedInduction, TLAPS

\* Concatenation keeps the element type and adds the lengths.
LEMMA ConcatType ==
  ASSUME NEW V, NEW a \in Seq(V), NEW b \in Seq(V)
  PROVE  a \o b \in Seq(V) /\ Len(a \o b) = Len(a) + Len(b)
BY ConcatProperties

\* Concatenation under a name the provers do not interpret.
Cat(x, y) == x \o y

\* The first element of a line is the first of its first non-empty part.
LEMMA ConcatHead ==
  ASSUME NEW V, NEW a \in Seq(V), NEW b \in Seq(V), a # <<>>
  PROVE  /\ a \o b # <<>> /\ a \o b \in Seq(V)
         /\ Head(a \o b) = Head(a)
         /\ Tail(a \o b) = Tail(a) \o b
<1>1. /\ a \o b \in Seq(V) /\ Len(a \o b) = Len(a) + Len(b)
      /\ \A i \in 1 .. Len(a) + Len(b) :
           (a \o b)[i] = IF i <= Len(a) THEN a[i] ELSE b[i - Len(a)]
  BY ConcatProperties
<1>2. Len(a) \in Nat \ {0} /\ Len(b) \in Nat
  OBVIOUS
<1>3. a \o b # <<>> /\ Head(a \o b) = Head(a)
  BY <1>1, <1>2
<1>4. /\ Tail(a) \in Seq(V) /\ Len(Tail(a)) = Len(a) - 1
      /\ \A i \in 1 .. Len(a) - 1 : Tail(a)[i] = a[i + 1]
  BY HeadTailProperties
<1>5. /\ Tail(a \o b) \in Seq(V) /\ Len(Tail(a \o b)) = Len(a) + Len(b) - 1
      /\ \A i \in 1 .. Len(a) + Len(b) - 1 : Tail(a \o b)[i] = (a \o b)[i + 1]
  BY <1>1, <1>3, HeadTailProperties
<1>6. /\ Tail(a) \o b \in Seq(V) /\ Len(Tail(a) \o b) = Len(a) - 1 + Len(b)
      /\ \A i \in 1 .. Len(a) - 1 + Len(b) : (Tail(a) \o b)[i]
           = IF i <= Len(a) - 1 THEN Tail(a)[i] ELSE b[i - (Len(a) - 1)]
  BY <1>4, ConcatProperties
<1>7. ASSUME NEW i \in 1 .. Len(a) + Len(b) - 1
      PROVE  Tail(a \o b)[i] = (Tail(a) \o b)[i]
  <2>1. i + 1 \in 1 .. Len(a) + Len(b) /\ i \in 1 .. Len(a) - 1 + Len(b)
    BY <1>2
  <2>2. CASE i <= Len(a) - 1
    <3>1. i + 1 <= Len(a) /\ i \in 1 .. Len(a) - 1
      BY <1>2, <2>2
    <3> QED BY <1>1, <1>4, <1>5, <1>6, <2>1, <2>2, <3>1
  <2>3. CASE ~(i <= Len(a) - 1)
    <3>1. ~(i + 1 <= Len(a)) /\ i + 1 - Len(a) = i - (Len(a) - 1)
      BY <1>2, <2>3
    <3> QED BY <1>1, <1>5, <1>6, <2>1, <2>3, <3>1
  <2> QED BY <2>2, <2>3
<1>8. Tail(a \o b) = Tail(a) \o b
  <2>1. Len(a) + Len(b) - 1 = Len(a) - 1 + Len(b)
    BY <1>2
  <2> QED BY <1>5, <1>6, <1>7, <2>1, SeqEqual
<1> QED BY <1>1, <1>3, <1>8

\* Joining a line at its end.
LEMMA ConcatLast ==
  ASSUME NEW V, NEW a \in Seq(V), NEW b \in Seq(V), NEW v \in V
  PROVE  a \o Append(b, v) = Append(a \o b, v)
<1>1. <<v>> \in Seq(V)
  OBVIOUS
<1>2. Append(b, v) = b \o <<v>>
  BY AppendIsConcat
<1>3. a \o b \in Seq(V)
  BY ConcatProperties
<1>4. Append(a \o b, v) = (a \o b) \o <<v>>
  BY <1>3, AppendIsConcat
<1>5. a \o (b \o <<v>>) = (a \o b) \o <<v>>
  BY <1>1, ConcatAssociative
<1> QED BY <1>2, <1>4, <1>5

\* The number of entries due within d is a number between 0 and the length.
LEMMA PeqWithinType ==
  ASSUME NEW q, NEW S, q \in Seq(S), NEW d
  PROVE  PeqWithin(q, d) \in 0 .. Len(q)
<1> DEFINE D == {i \in DOMAIN q : q[i].due <= d}
<1>1. DOMAIN q = 1 .. Len(q) /\ Len(q) \in Nat
  OBVIOUS
<1>2. IsFiniteSet(1 .. Len(q)) /\ Cardinality(1 .. Len(q)) = Len(q)
  <2>1. 1 \in Int /\ Len(q) \in Int
    BY <1>1
  <2>2. Cardinality(1 .. Len(q)) = IF 1 > Len(q) THEN 0 ELSE Len(q) - 1 + 1
    BY <2>1, FS_Interval
  <2> QED BY <1>1, <2>1, <2>2, FS_Interval, SMTT(30)
<1>3. D \in SUBSET (1 .. Len(q))
  BY <1>1
<1>4. IsFiniteSet(D) /\ Cardinality(D) <= Len(q)
  BY <1>2, <1>3, FS_Subset
<1>5. Cardinality(D) \in Nat
  BY <1>4, FS_CardinalityType
<1> QED BY <1>1, <1>4, <1>5 DEF PeqWithin

\* If every entry is due within d, all of them are counted.
LEMMA PeqWithinAll ==
  ASSUME NEW q, NEW S, q \in Seq(S), NEW d,
         \A i \in DOMAIN q : q[i].due <= d
  PROVE  PeqWithin(q, d) = Len(q)
<1>1. DOMAIN q = 1 .. Len(q) /\ Len(q) \in Nat
  OBVIOUS
<1>2. {i \in DOMAIN q : q[i].due <= d} = 1 .. Len(q)
  BY <1>1
<1>3. Cardinality(1 .. Len(q)) = IF 1 > Len(q) THEN 0 ELSE Len(q) - 1 + 1
  BY <1>1, FS_Interval, SMTT(30)
<1>4. PeqWithin(q, d) = Cardinality(1 .. Len(q))
  BY <1>2, Zenon DEF PeqWithin
<1>5. Cardinality(1 .. Len(q)) = Len(q)
  BY <1>1, <1>3
<1> QED BY <1>4, <1>5, Zenon

\* Queues with the same due times have the same number of entries due.
LEMMA PeqWithinSame ==
  ASSUME NEW q, NEW S, q \in Seq(S), NEW r, NEW T, r \in Seq(T), NEW d,
         Len(q) = Len(r), \A i \in DOMAIN q : q[i].due = r[i].due
  PROVE  PeqWithin(q, d) = PeqWithin(r, d)
<1>1. DOMAIN q = DOMAIN r
  OBVIOUS
<1>2. {i \in DOMAIN q : q[i].due <= d} = {i \in DOMAIN r : r[i].due <= d}
  BY <1>1
<1> QED BY <1>2 DEF PeqWithin

\* A delay no shorter than any pending one goes to the end of the queue.
LEMMA PeqDelayLast ==
  ASSUME NEW V, NEW t \in Nat, NEW q \in Seq(PeqEntry(V, t)), NEW v \in V
  PROVE  /\ PeqDelay(q, v, t) = Append(q, [due |-> t, val |-> v])
         /\ PeqDelay(q, v, t) \in Seq(PeqEntry(V, t))
<1> DEFINE e == [due |-> t, val |-> v]
<1>1. \A i \in DOMAIN q : q[i].due <= t
  <2> SUFFICES ASSUME NEW i \in DOMAIN q PROVE q[i].due <= t
    OBVIOUS
  <2>1. q[i] \in PeqEntry(V, t)
    OBVIOUS
  <2> QED BY <2>1 DEF PeqEntry
<1>2. PeqWithin(q, t) = Len(q)
  BY <1>1, PeqWithinAll
<1>3. SubSeq(q, 1, Len(q)) = q /\ SubSeq(q, Len(q) + 1, Len(q)) = <<>>
  OBVIOUS
<1>4. PeqDelay(q, v, t) = q \o <<e>> \o <<>>
  BY <1>2, <1>3 DEF PeqDelay
<1>5. e \in PeqEntry(V, t)
  BY DEF PeqEntry
<1>6. q \o <<e>> \o <<>> = Append(q, e)
  BY <1>5
<1> QED BY <1>4, <1>5, <1>6

\* The payloads of a queue are payloads, as many as there are entries.
LEMMA PeqValsType ==
  ASSUME NEW V, NEW m \in Nat, NEW q \in Seq(PeqEntry(V, m))
  PROVE  /\ PeqVals(q) \in Seq(V) /\ Len(PeqVals(q)) = Len(q)
         /\ \A i \in 1 .. Len(q) : PeqVals(q)[i] = q[i].val
<1>1. \A i \in 1 .. Len(q) : q[i].val \in V
  <2> SUFFICES ASSUME NEW i \in 1 .. Len(q) PROVE q[i].val \in V
    OBVIOUS
  <2>1. q[i] \in PeqEntry(V, m)
    OBVIOUS
  <2> QED BY <2>1 DEF PeqEntry
<1> QED BY <1>1 DEF PeqVals

\* An entry at the end puts its payload at the end.
LEMMA PeqValsAppend ==
  ASSUME NEW V, NEW m \in Nat, NEW q \in Seq(PeqEntry(V, m)),
         NEW t \in 0 .. m, NEW v \in V
  PROVE  PeqVals(Append(q, [due |-> t, val |-> v])) = PeqVals(q) \o <<v>>
<1> DEFINE e == [due |-> t, val |-> v]
           r == Append(q, e)
<1>1. e \in PeqEntry(V, m) /\ e.val = v
  BY DEF PeqEntry
<1> HIDE DEF e
<1>2. /\ r \in Seq(PeqEntry(V, m)) /\ Len(r) = Len(q) + 1
      /\ \A i \in 1 .. Len(q) : r[i] = q[i]
      /\ r[Len(q) + 1] = e
  BY <1>1
<1> HIDE DEF r
<1>3. /\ PeqVals(r) \in Seq(V) /\ Len(PeqVals(r)) = Len(q) + 1
      /\ \A i \in 1 .. Len(q) + 1 : PeqVals(r)[i] = r[i].val
  BY <1>2, PeqValsType
<1>4. /\ PeqVals(q) \in Seq(V) /\ Len(PeqVals(q)) = Len(q)
      /\ \A i \in 1 .. Len(q) : PeqVals(q)[i] = q[i].val
  BY PeqValsType
<1>5. /\ PeqVals(q) \o <<v>> \in Seq(V)
      /\ Len(PeqVals(q) \o <<v>>) = Len(q) + 1
      /\ \A i \in 1 .. Len(q) + 1 : (PeqVals(q) \o <<v>>)[i]
           = IF i <= Len(q) THEN PeqVals(q)[i] ELSE v
  BY <1>4
<1>6. \A i \in 1 .. Len(q) + 1 : PeqVals(r)[i] = (PeqVals(q) \o <<v>>)[i]
  <2> SUFFICES ASSUME NEW i \in 1 .. Len(q) + 1
               PROVE  PeqVals(r)[i] = (PeqVals(q) \o <<v>>)[i]
    OBVIOUS
  <2>0. Len(q) \in Nat
    OBVIOUS
  <2>1. CASE i \in 1 .. Len(q)
    BY <1>2, <1>3, <1>4, <1>5, <2>1, SMTT(30)
  <2>2. CASE i = Len(q) + 1
    <3>1. i \in 1 .. Len(q) + 1 /\ ~(i <= Len(q))
      BY <2>0, <2>2
    <3>2. (PeqVals(q) \o <<v>>)[i] = v
      BY <1>5, <3>1, Zenon
    <3>3. PeqVals(r)[i] = r[i].val
      BY <1>3, <3>1, Zenon
    <3>4. r[i].val = e.val
      BY <1>2, <2>2, Zenon
    <3> QED BY <1>1, <3>2, <3>3, <3>4, Zenon
  <2>3. i \in 1 .. Len(q) \/ i = Len(q) + 1
    BY <2>0
  <2> QED BY <2>1, <2>2, <2>3, Zenon
<1>7. PeqVals(r) = PeqVals(q) \o <<v>>
  BY <1>3, <1>5, <1>6, SeqEqual
<1> QED BY <1>7 DEF r, e

\* Draining splits the queue: what is returned and what stays have the types
\* and the lengths of a split, and nothing is lost, repeated or reordered.
LEMMA PeqDrain ==
  ASSUME NEW V, NEW m \in Nat, NEW q \in Seq(PeqEntry(V, m))
  PROVE  /\ PeqReady(q) \in Seq(V)
         /\ PeqLater(q) \in Seq(PeqEntry(V, m))
         /\ Len(PeqReady(q)) = PeqWithin(q, 0)
         /\ Len(PeqLater(q)) = Len(q) - PeqWithin(q, 0)
         /\ \A i \in DOMAIN PeqLater(q) :
              PeqLater(q)[i] = q[i + PeqWithin(q, 0)]
         /\ PeqReady(q) \o PeqVals(PeqLater(q)) = PeqVals(q)
<1> DEFINE k == PeqWithin(q, 0)
           a == PeqReady(q)
           b == PeqLater(q)
<1>1. k \in 0 .. Len(q) /\ Len(q) \in Nat
  BY PeqWithinType
<1> HIDE DEF k
<1>2. \A i \in DOMAIN q : q[i] \in PeqEntry(V, m) /\ q[i].val \in V
  <2> SUFFICES ASSUME NEW i \in DOMAIN q
               PROVE  q[i] \in PeqEntry(V, m) /\ q[i].val \in V
    OBVIOUS
  <2>1. q[i] \in PeqEntry(V, m)
    OBVIOUS
  <2> QED BY <2>1 DEF PeqEntry
<1>3. a = [i \in 1 .. k |-> q[i].val] /\ b = SubSeq(q, k + 1, Len(q))
  BY DEF PeqReady, PeqLater, k
<1>4. \A i \in 1 .. k : q[i].val \in V
  BY <1>1, <1>2
<1>5. a \in Seq(V) /\ Len(a) = k
  BY <1>1, <1>3, <1>4
<1>6. b \in Seq(PeqEntry(V, m)) /\ Len(b) = Len(q) - k
      /\ \A i \in 1 .. Len(q) - k : b[i] = q[i + k]
  BY <1>1, <1>3
<1>7. DOMAIN b = 1 .. Len(q) - k
  BY <1>6
<1>8. a \o PeqVals(b) = PeqVals(q)
  <2> DEFINE c == PeqVals(b)
  <2>1. c = [i \in 1 .. Len(q) - k |-> b[i].val]
    BY <1>7 DEF PeqVals
  <2>2. \A i \in 1 .. Len(q) - k : b[i].val \in V
    BY <1>6, <1>2, <1>1, SMTT(30)
  <2>3. c \in Seq(V) /\ Len(c) = Len(q) - k
    BY <1>1, <2>1, <2>2
  <2>4. PeqVals(q) = [i \in 1 .. Len(q) |-> q[i].val]
    BY <1>1 DEF PeqVals
  <2>5. \A i \in 1 .. Len(q) : (IF i <= k THEN a[i] ELSE c[i - k]) = q[i].val
    BY <1>1, <1>3, <1>6, <2>1
  <2> HIDE DEF a, c
  <2>6. /\ a \o c \in Seq(V) /\ Len(a \o c) = Len(q)
        /\ \A i \in 1 .. Len(q) :
             (a \o c)[i] = IF i <= k THEN a[i] ELSE c[i - k]
    BY <1>1, <1>5, <2>3, ConcatProperties
  <2>7. /\ PeqVals(q) \in Seq(V) /\ Len(PeqVals(q)) = Len(q)
        /\ \A i \in 1 .. Len(q) : PeqVals(q)[i] = q[i].val
    BY <1>1, <1>2, <2>4
  <2>8. \A i \in 1 .. Len(q) : (a \o c)[i] = PeqVals(q)[i]
    BY <2>5, <2>6, <2>7
  <2>9. a \o c = PeqVals(q)
    BY <2>6, <2>7, <2>8, SeqEqual
  <2> QED BY <2>9 DEF c
<1> QED BY <1>5, <1>6, <1>7, <1>8 DEF k

\* Time passing changes due times only, and alike in queues that agree.
LEMMA PeqAgeKeeps ==
  ASSUME NEW V, NEW m \in Nat, NEW q \in Seq(PeqEntry(V, m))
  PROVE  /\ PeqAge(q) \in Seq(PeqEntry(V, m))
         /\ Len(PeqAge(q)) = Len(q)
         /\ DOMAIN PeqAge(q) = DOMAIN q
         /\ \A i \in DOMAIN q :
              PeqAge(q)[i].due = IF q[i].due = 0 THEN 0 ELSE q[i].due - 1
         /\ PeqVals(PeqAge(q)) = PeqVals(q)
<1> DEFINE e(i) == [due |-> IF q[i].due = 0 THEN 0 ELSE q[i].due - 1,
                    val |-> q[i].val]
<1>1. DOMAIN q = 1 .. Len(q) /\ Len(q) \in Nat
  OBVIOUS
<1>2. \A i \in 1 .. Len(q) : e(i) \in PeqEntry(V, m)
  <2> SUFFICES ASSUME NEW i \in 1 .. Len(q) PROVE e(i) \in PeqEntry(V, m)
    OBVIOUS
  <2>0. q[i] \in PeqEntry(V, m)
    OBVIOUS
  <2>1. q[i].due \in 0 .. m /\ q[i].val \in V
    BY <2>0 DEF PeqEntry
  <2> QED BY <2>1 DEF PeqEntry
<1>3. PeqAge(q) = [i \in 1 .. Len(q) |-> e(i)]
  BY <1>1 DEF PeqAge
<1>4. PeqAge(q) \in Seq(PeqEntry(V, m)) /\ Len(PeqAge(q)) = Len(q)
  BY <1>1, <1>2, <1>3
<1>5. PeqVals(PeqAge(q)) = PeqVals(q)
  BY <1>1, <1>3, <1>4 DEF PeqVals
<1> QED BY <1>1, <1>3, <1>4, <1>5

-----------------------------------------------------------------------------
(* Queues in order of due time                                             *)

\* The walk over a multimap visits due times in ascending order.
Ordered(q) == \A i, j \in DOMAIN q : i <= j => q[i].due <= q[j].due

\* What an entry is made of.
LEMMA PeqFields ==
  ASSUME NEW V, NEW m \in Nat, NEW q \in Seq(PeqEntry(V, m)), NEW i \in DOMAIN q
  PROVE  /\ q[i] \in PeqEntry(V, m) /\ q[i].due \in 0 .. m /\ q[i].val \in V
         /\ i \in 1 .. Len(q) /\ Len(q) \in Nat
<1>1. q[i] \in PeqEntry(V, m) /\ i \in 1 .. Len(q) /\ Len(q) \in Nat
  OBVIOUS
<1> QED BY <1>1 DEF PeqEntry

\* The number of members of an interval from 1.
LEMMA UpTo ==
  ASSUME NEW n \in Nat
  PROVE  IsFiniteSet(1 .. n) /\ Cardinality(1 .. n) = n
<1>1. IsFiniteSet(1 .. n) /\ Cardinality(1 .. n) = IF 1 > n THEN 0 ELSE n - 1 + 1
  BY FS_Interval
<1> QED BY <1>1

\* On an ordered queue the entries due within d are its first ones.
LEMMA PeqWithinFirst ==
  ASSUME NEW V, NEW m \in Nat, NEW q \in Seq(PeqEntry(V, m)), Ordered(q),
         NEW d \in Nat, NEW i \in DOMAIN q
  PROVE  q[i].due <= d <=> i <= PeqWithin(q, d)
<1> DEFINE D == {j \in DOMAIN q : q[j].due <= d}
<1>0. /\ i \in 1 .. Len(q) /\ Len(q) \in Nat /\ DOMAIN q = 1 .. Len(q)
      /\ PeqWithin(q, d) = Cardinality(D)
  BY DEF PeqWithin
<1>1. \A j \in DOMAIN q : q[j].due \in Nat
  <2> SUFFICES ASSUME NEW j \in DOMAIN q PROVE q[j].due \in Nat
    OBVIOUS
  <2> QED BY PeqFields
<1>2. IsFiniteSet(D) /\ Cardinality(D) \in Nat
  <2>1. D \in SUBSET (1 .. Len(q))
    BY <1>0
  <2> QED BY <1>0, <2>1, UpTo, FS_Subset, FS_CardinalityType
<1>3. CASE q[i].due <= d
  <2>1. (1 .. i) \in SUBSET D
    <3> SUFFICES ASSUME NEW j \in 1 .. i PROVE j \in D
      OBVIOUS
    <3>1. j \in DOMAIN q /\ j <= i
      BY <1>0
    <3>2. q[j].due <= q[i].due
      BY <3>1 DEF Ordered
    <3> QED BY <1>1, <1>3, <3>1, <3>2
  <2>2. Cardinality(1 .. i) <= Cardinality(D) /\ Cardinality(1 .. i) = i
    <3>1. i \in Nat
      BY <1>0
    <3>2. Cardinality(1 .. i) = i
      BY <3>1, UpTo
    <3>3. Cardinality(1 .. i) <= Cardinality(D)
      BY <1>2, <2>1, FS_Subset
    <3> QED BY <3>2, <3>3
  <2> QED BY <1>0, <1>3, <2>2
<1>4. CASE ~(q[i].due <= d)
  <2>1. D \in SUBSET (1 .. i - 1)
    <3> SUFFICES ASSUME NEW j \in D PROVE j \in 1 .. i - 1
      OBVIOUS
    <3>1. j \in DOMAIN q /\ q[j].due <= d
      OBVIOUS
    <3>2. ~(i <= j)
      <4>1. ASSUME i <= j PROVE FALSE
        <5>1. q[i].due <= q[j].due
          BY <3>1, <4>1 DEF Ordered
        <5> QED BY <1>1, <1>4, <3>1, <5>1
      <4> QED BY <4>1
    <3> QED BY <1>0, <3>1, <3>2
  <2>2. i - 1 \in Nat
    BY <1>0
  <2>3. Cardinality(D) <= Cardinality(1 .. i - 1) /\ Cardinality(1 .. i - 1) = i - 1
    BY <2>1, <2>2, UpTo, FS_Subset
  <2>4. ~(i <= Cardinality(D))
    BY <1>0, <1>2, <2>3
  <2> QED BY <1>0, <1>4, <2>4
<1> QED BY <1>3, <1>4

\* delay puts one entry in, behind those due no later than it, and leaves the
\* queue in order.
LEMMA PeqDelayed ==
  ASSUME NEW V, NEW m \in Nat, NEW q \in Seq(PeqEntry(V, m)), Ordered(q),
         NEW v \in V, NEW t \in 0 .. m
  PROVE  /\ PeqDelay(q, v, t) \in Seq(PeqEntry(V, m))
         /\ Len(PeqDelay(q, v, t)) = Len(q) + 1
         /\ Ordered(PeqDelay(q, v, t))
         /\ PeqWithin(q, t) \in 0 .. Len(q)
         /\ \A i \in 1 .. Len(q) + 1 :
              PeqDelay(q, v, t)[i] =
                IF i <= PeqWithin(q, t) THEN q[i]
                ELSE IF i = PeqWithin(q, t) + 1 THEN [due |-> t, val |-> v]
                ELSE q[i - 1]
<1> DEFINE k == PeqWithin(q, t)
           e == [due |-> t, val |-> v]
           r == PeqDelay(q, v, t)
<1>0. k \in 0 .. Len(q) /\ Len(q) \in Nat /\ DOMAIN q = 1 .. Len(q) /\ t \in Nat
  BY PeqWithinType
<1>1. e \in PeqEntry(V, m) /\ e.due = t
  BY DEF PeqEntry
<1>2. \A i \in 1 .. Len(q) : q[i].due <= t <=> i <= k
  <2> SUFFICES ASSUME NEW i \in DOMAIN q PROVE q[i].due <= t <=> i <= k
    BY <1>0
  <2> QED BY <1>0, PeqWithinFirst
<1>3. \A i \in 1 .. Len(q) : q[i].due \in Nat
  <2> SUFFICES ASSUME NEW i \in DOMAIN q PROVE q[i].due \in Nat
    BY <1>0
  <2> QED BY PeqFields
<1>4. r = SubSeq(q, 1, k) \o <<e>> \o SubSeq(q, k + 1, Len(q))
  BY DEF PeqDelay
<1> HIDE DEF k, e, r
<1>5. /\ SubSeq(q, 1, k) \in Seq(PeqEntry(V, m)) /\ Len(SubSeq(q, 1, k)) = k
      /\ \A i \in 1 .. k : SubSeq(q, 1, k)[i] = q[i]
  BY <1>0
<1> DEFINE a == SubSeq(q, 1, k)
           b == SubSeq(q, k + 1, Len(q))
           c == a \o <<e>>
<1>7. /\ c \in Seq(PeqEntry(V, m)) /\ Len(c) = k + 1
      /\ \A i \in 1 .. k + 1 : c[i] = IF i <= k THEN q[i] ELSE e
  <2>1. <<e>> \in Seq(PeqEntry(V, m)) /\ Len(<<e>>) = 1 /\ <<e>>[1] = e
    BY <1>1
  <2> HIDE DEF a
  <2>2. /\ c \in Seq(PeqEntry(V, m)) /\ Len(c) = Len(a) + 1
        /\ \A i \in 1 .. Len(a) + 1 :
             c[i] = IF i <= Len(a) THEN a[i] ELSE <<e>>[i - Len(a)]
    BY <1>5, <2>1, ConcatProperties DEF a
  <2>3. Len(a) = k /\ \A i \in 1 .. k : a[i] = q[i]
    BY <1>5 DEF a
  <2>4. \A i \in 1 .. k + 1 : c[i] = IF i <= k THEN q[i] ELSE e
    <3> SUFFICES ASSUME NEW i \in 1 .. k + 1
                 PROVE  c[i] = IF i <= k THEN q[i] ELSE e
      OBVIOUS
    <3>1. CASE i <= k
      BY <1>0, <2>2, <2>3, <3>1
    <3>2. CASE ~(i <= k)
      <4>1. i = k + 1 /\ i - Len(a) = 1
        BY <1>0, <2>3, <3>2
      <4> HIDE DEF c
      <4>2. c[i] = <<e>>[1]
        BY <2>2, <2>3, <3>2, <4>1, Zenon
      <4> QED BY <2>1, <3>2, <4>2
    <3> QED BY <3>1, <3>2
  <2> QED BY <2>2, <2>3, <2>4
<1> HIDE DEF c
<1>8. r = c \o b
  BY <1>4 DEF c
<1>9. /\ b \in Seq(PeqEntry(V, m)) /\ Len(b) = Len(q) - k
      /\ \A i \in 1 .. Len(q) - k : b[i] = q[i + k]
  <2>1. b = SubSeq(q, k + 1, Len(q)) /\ k \in 0 .. Len(q) /\ Len(q) \in Nat
    BY <1>0
  <2> HIDE DEF b
  <2>2. b \in Seq(PeqEntry(V, m)) /\ Len(b) = Len(q) - k
    BY <2>1
  <2>3. \A i \in 1 .. Len(q) - k : b[i] = q[i + k]
    BY <2>1
  <2> QED BY <2>2, <2>3
<1> HIDE DEF b
<1>10. /\ r \in Seq(PeqEntry(V, m)) /\ Len(r) = Len(q) + 1
       /\ \A i \in 1 .. Len(q) + 1 :
            r[i] = IF i <= k + 1 THEN c[i] ELSE b[i - (k + 1)]
  <2>1. /\ r \in Seq(PeqEntry(V, m)) /\ Len(r) = Len(c) + Len(b)
        /\ \A i \in 1 .. Len(c) + Len(b) :
             r[i] = IF i <= Len(c) THEN c[i] ELSE b[i - Len(c)]
    BY <1>7, <1>8, <1>9, ConcatProperties
  <2>2. Len(c) + Len(b) = Len(q) + 1 /\ Len(c) = k + 1
    BY <1>0, <1>7, <1>9
  <2> QED BY <2>1, <2>2
<1>11. \A i \in 1 .. Len(q) + 1 :
         r[i] = IF i <= k THEN q[i] ELSE IF i = k + 1 THEN e ELSE q[i - 1]
  <2> SUFFICES ASSUME NEW i \in 1 .. Len(q) + 1
               PROVE  r[i] = IF i <= k THEN q[i]
                             ELSE IF i = k + 1 THEN e ELSE q[i - 1]
    OBVIOUS
  <2>1. CASE i <= k + 1
    <3>1. r[i] = c[i] /\ i \in 1 .. k + 1
      BY <1>0, <1>10, <2>1
    <3> QED BY <1>0, <1>7, <3>1
  <2>2. CASE ~(i <= k + 1)
    <3>1. /\ i - (k + 1) \in 1 .. Len(q) - k /\ (i - (k + 1)) + k = i - 1
          /\ ~(i <= k) /\ i # k + 1
      BY <1>0, <2>2
    <3>2. r[i] = b[i - (k + 1)]
      BY <1>10, <2>2
    <3> QED BY <1>9, <3>1, <3>2
  <2> QED BY <2>1, <2>2
<1>12. Ordered(r)
  <2> SUFFICES ASSUME NEW i \in 1 .. Len(q) + 1, NEW j \in 1 .. Len(q) + 1, i <= j
               PROVE  r[i].due <= r[j].due
    BY <1>0, <1>10 DEF Ordered
  <2>0. \A x, y \in 1 .. Len(q) : x <= y => q[x].due <= q[y].due
    BY <1>0 DEF Ordered
  <2>1. CASE i <= k
    <3>1. i \in 1 .. Len(q) /\ r[i] = q[i] /\ q[i].due <= t
      BY <1>0, <1>2, <1>11, <2>1
    <3>2. CASE j <= k
      BY <1>0, <1>11, <2>0, <3>1, <3>2
    <3>3. CASE j = k + 1
      BY <1>0, <1>1, <1>11, <3>1, <3>3
    <3>4. CASE ~(j <= k) /\ j # k + 1
      <4>1. j - 1 \in 1 .. Len(q) /\ i <= j - 1 /\ r[j] = q[j - 1]
        BY <1>0, <1>11, <2>1, <3>4
      <4> QED BY <2>0, <3>1, <4>1
    <3> QED BY <3>2, <3>3, <3>4
  <2>2. CASE i = k + 1
    <3>1. r[i] = e
      BY <1>0, <1>11, <2>2
    <3>2. CASE j = k + 1
      BY <1>0, <1>1, <2>2, <3>1, <3>2
    <3>3. CASE j # k + 1
      <4>1. /\ j - 1 \in 1 .. Len(q) /\ ~(j - 1 <= k) /\ r[j] = q[j - 1]
        BY <1>0, <1>11, <2>2, <3>3
      <4> QED BY <1>0, <1>1, <1>2, <1>3, <3>1, <4>1
    <3> QED BY <3>2, <3>3
  <2>3. CASE ~(i <= k) /\ i # k + 1
    <3>1. /\ i - 1 \in 1 .. Len(q) /\ j - 1 \in 1 .. Len(q) /\ i - 1 <= j - 1
          /\ r[i] = q[i - 1] /\ r[j] = q[j - 1]
      BY <1>0, <1>11, <2>3
    <3> QED BY <2>0, <3>1
  <2> QED BY <2>1, <2>2, <2>3
<1> QED BY <1>0, <1>10, <1>11, <1>12 DEF k, e, r

\* The front of a queue taken off, the rest is the queue one place further on
\* and still in order.
LEMMA PeqTail ==
  ASSUME NEW V, NEW m \in Nat, NEW q \in Seq(PeqEntry(V, m)), Ordered(q), q # <<>>
  PROVE  /\ Tail(q) \in Seq(PeqEntry(V, m)) /\ Ordered(Tail(q))
         /\ Len(Tail(q)) = Len(q) - 1 /\ Len(q) \in Nat \ {0}
         /\ \A i \in 1 .. Len(q) - 1 : Tail(q)[i] = q[i + 1]
<1>1. /\ Tail(q) \in Seq(PeqEntry(V, m)) /\ Len(Tail(q)) = Len(q) - 1
      /\ Len(q) \in Nat \ {0} /\ DOMAIN q = 1 .. Len(q)
      /\ \A i \in 1 .. Len(q) - 1 : Tail(q)[i] = q[i + 1]
  BY HeadTailProperties
<1>2. Ordered(Tail(q))
  <2> SUFFICES ASSUME NEW i \in 1 .. Len(q) - 1, NEW j \in 1 .. Len(q) - 1, i <= j
               PROVE  Tail(q)[i].due <= Tail(q)[j].due
    BY <1>1 DEF Ordered
  <2>1. i + 1 \in DOMAIN q /\ j + 1 \in DOMAIN q /\ i + 1 <= j + 1
    BY <1>1
  <2> QED BY <1>1, <2>1 DEF Ordered
<1> QED BY <1>1, <1>2

\* A period later the queue is still in order.
LEMMA PeqAgeOrdered ==
  ASSUME NEW V, NEW m \in Nat, NEW q \in Seq(PeqEntry(V, m)), Ordered(q)
  PROVE  Ordered(PeqAge(q))
<1>1. DOMAIN PeqAge(q) = DOMAIN q
  BY PeqAgeKeeps
<1> SUFFICES ASSUME NEW i \in DOMAIN q, NEW j \in DOMAIN q, i <= j
             PROVE  PeqAge(q)[i].due <= PeqAge(q)[j].due
  BY <1>1 DEF Ordered
<1>2. q[i].due <= q[j].due /\ q[i].due \in Nat /\ q[j].due \in Nat
  BY PeqFields DEF Ordered
<1>3. /\ PeqAge(q)[i].due = IF q[i].due = 0 THEN 0 ELSE q[i].due - 1
      /\ PeqAge(q)[j].due = IF q[j].due = 0 THEN 0 ELSE q[j].due - 1
  BY PeqAgeKeeps
<1> QED BY <1>2, <1>3

\* The first of a queue that is no longer empty: the new entry, or what was
\* first and is due no later.
LEMMA PeqDelayHead ==
  ASSUME NEW V, NEW m \in Nat, NEW q \in Seq(PeqEntry(V, m)), Ordered(q),
         NEW v \in V, NEW t \in 0 .. m
  PROVE  /\ PeqDelay(q, v, t) # <<>>
         /\ \/ Head(PeqDelay(q, v, t)) = [due |-> t, val |-> v]
            \/ q # <<>> /\ Head(PeqDelay(q, v, t)) = Head(q)
<1> DEFINE r == PeqDelay(q, v, t)
           k == PeqWithin(q, t)
           e == [due |-> t, val |-> v]
<1>1. /\ r \in Seq(PeqEntry(V, m)) /\ Len(r) = Len(q) + 1 /\ k \in 0 .. Len(q)
      /\ \A i \in 1 .. Len(q) + 1 :
           r[i] = IF i <= k THEN q[i] ELSE IF i = k + 1 THEN e ELSE q[i - 1]
  BY PeqDelayed
<1>2. Len(q) \in Nat
  OBVIOUS
<1> HIDE DEF r, k, e
<1>3. r # <<>> /\ Head(r) = r[1]
  BY <1>1, <1>2
<1>4. CASE k = 0
  <2>1. r[1] = e
    BY <1>1, <1>2, <1>4
  <2> QED BY <1>3, <2>1 DEF r, e
<1>5. CASE k # 0
  <2>1. r[1] = q[1] /\ Len(q) >= 1
    BY <1>1, <1>2, <1>5
  <2>2. q # <<>> /\ Head(q) = q[1]
    BY <1>2, <2>1
  <2> QED BY <1>3, <2>1, <2>2 DEF r
<1> QED BY <1>4, <1>5

\* Something is due now exactly if the first entry is.
LEMMA PeqReadyHead ==
  ASSUME NEW V, NEW m \in Nat, NEW q \in Seq(PeqEntry(V, m)), Ordered(q)
  PROVE  PeqReady(q) = <<>> <=> (q # <<>> => Head(q).due > 0)
<1>1. PeqWithin(q, 0) \in 0 .. Len(q) /\ Len(q) \in Nat
  BY PeqWithinType
<1>2. PeqReady(q) \in Seq(V) /\ Len(PeqReady(q)) = PeqWithin(q, 0)
  BY PeqDrain
<1>3. CASE q = <<>>
  BY <1>1, <1>2, <1>3
<1>4. CASE q # <<>>
  <2>1. 1 \in DOMAIN q /\ Head(q) = q[1]
    BY <1>4
  <2>2. q[1].due \in Nat /\ (q[1].due <= 0 <=> 1 <= PeqWithin(q, 0))
    BY <2>1, PeqWithinFirst, PeqFields
  <2>3. PeqReady(q) = <<>> <=> Len(PeqReady(q)) = 0
    BY <1>2
  <2> QED BY <1>1, <1>2, <1>4, <2>1, <2>2, <2>3
<1> QED BY <1>3, <1>4

-----------------------------------------------------------------------------
(* Natural numbers                                                         *)

\* A non-empty set of natural numbers has a least member.
LEMMA LeastNat ==
  ASSUME NEW S \in SUBSET Nat, S # {}
  PROVE  \E m \in S : \A n \in S : m <= n
<1>1. \E x \in S : \A y \in S : ~ (<<y, x>> \in OpToRel(<, Nat))
  BY NatLessThanWellFounded, WFMin
<1>2. PICK x \in S : \A y \in S : ~ (<<y, x>> \in OpToRel(<, Nat))
  BY <1>1
<1>3. \A y \in S : ~ (y < x)
  BY <1>2 DEF OpToRel
<1>4. x \in Nat /\ \A y \in S : y \in Nat
  BY <1>2
<1>5. \A y \in S : x <= y
  BY <1>3, <1>4
<1> QED BY <1>2, <1>5

\* A set that holds 0 and the successor of each of its members holds every
\* natural number.
LEMMA SetInduction ==
  ASSUME NEW S \in SUBSET Nat, 0 \in S, \A n \in S : n + 1 \in S
  PROVE  S = Nat
<1>1. SUFFICES ASSUME Nat \ S # {} PROVE FALSE
  OBVIOUS
<1>2. PICK m \in Nat \ S : \A n \in Nat \ S : m <= n
  <2> DEFINE R == Nat \ S
  <2>1. R \in SUBSET Nat /\ R # {}
    BY <1>1
  <2> HIDE DEF R
  <2>2. \E m \in R : \A n \in R : m <= n
    BY <2>1, LeastNat
  <2> QED BY <2>2 DEF R
<1>3. m - 1 \in Nat /\ m - 1 \notin S
  BY <1>2
<1> QED BY <1>2, <1>3
=============================================================================
