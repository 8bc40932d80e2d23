--------------------------- MODULE SrvTests_proofs --------------------------
(***************************************************************************)
(* Proofs about the objects srv_cpu/test/test.cpp drives, for every number *)
(* of inputs and ports, every rate and every capacity.  The objects share  *)
(* no state, so the inductive invariant is one conjunct for each.          *)
(***************************************************************************)
EXTENDS SrvTests, PeqOps_proofs

-----------------------------------------------------------------------------
(* Natural numbers                                                         *)

\* A remainder keeps its number when whole divisors are added.
LEMMA Remainder ==
  ASSUME NEW n \in Nat \ {0}, NEW a \in 0 .. n - 1
  PROVE  a % n = a /\ (a + n) % n = a
OBVIOUS

\* The difference of two remainders, taken round once.
LEMMA RoundOnce ==
  ASSUME NEW n \in Nat \ {0}, NEW a \in 0 .. n - 1, NEW b \in 0 .. n - 1
  PROVE  (a - b) % n = IF a >= b THEN a - b ELSE a - b + n
<1>1. CASE a >= b
  <2>1. a - b \in 0 .. n - 1
    BY <1>1
  <2> DEFINE d == a - b
  <2> HIDE DEF d
  <2>2. d % n = d
    BY <2>1, Remainder DEF d
  <2> QED BY <1>1, <2>2 DEF d
<1>2. CASE ~ (a >= b)
  <2> DEFINE d == a - b + n
  <2>1. d \in 0 .. n - 1 /\ d \in Int /\ n \in Nat \ {0}
    BY <1>2
  <2>2. (d - n) % n = d
    <3> HIDE DEF d
    <3> QED BY <2>1
  <2>3. d - n = a - b
    OBVIOUS
  <2> QED BY <1>2, <2>2, <2>3
<1> QED BY <1>1, <1>2

-----------------------------------------------------------------------------
(* rr_sch                                                                  *)

\* How far input i is from its turn when l was granted last.
Ahead(i, l) == IF i > l THEN i - l ELSE i - l + m_arb_num

\* How far the search goes for an input, without the modulus.
LEMMA DistanceIs ==
  ASSUME NEW l \in Sch!Inputs, NEW i \in Sch!Inputs
  PROVE  ((i - l - 1) % m_arb_num) + 1 = Ahead(i, l)
<1> DEFINE n == m_arb_num
<1>1. n \in Nat \ {0} /\ l \in 0 .. n - 1 /\ i \in 0 .. n - 1
  BY SrvTestsAssumption DEF Sch!Inputs
<1> HIDE DEF n
<1>3. CASE i = 0
  <2>1. /\ n - 1 \in 0 .. n - 1 /\ i - l - 1 = (n - 1 - l) - n
        /\ n - 1 - l \in 0 .. n - 1
    BY <1>1, <1>3
  <2> DEFINE d == n - 1 - l
  <2>2. (d - n) % n = d
    <3> HIDE DEF d
    <3> QED BY <1>1, <2>1 DEF d
  <2> QED BY <1>1, <1>3, <2>1, <2>2 DEF n, Ahead
<1>4. CASE i # 0
  <2> DEFINE j == i - 1
  <2>1. j \in 0 .. n - 1 /\ i - l - 1 = j - l
    BY <1>1, <1>4
  <2>2. (j - l) % n = IF j >= l THEN j - l ELSE j - l + n
    <3> HIDE DEF j
    <3> QED BY <1>1, <2>1, RoundOnce
  <2> QED BY <1>1, <1>4, <2>1, <2>2 DEF n, Ahead
<1> QED BY <1>3, <1>4

SchInv == m_input \in [Sch!Inputs -> Nat] /\ m_last_grant_id \in Sch!Inputs

\* The scheduler starts with its pointer on an input.
LEMMA SchInit == Sch!Init => SchInv
  BY SrvTestsAssumption DEF Sch!Init, SchInv, Sch!Inputs

\* The pointer stays on an input, and no input queue gets a negative count.
LEMMA SchStep == SchInv /\ Sch!Next => SchInv'
<1> SUFFICES ASSUME SchInv, Sch!Next PROVE SchInv'
  OBVIOUS
<1>1. ASSUME NEW i \in Sch!Inputs, Sch!set_val(i) PROVE SchInv'
  BY <1>1 DEF SchInv, Sch!set_val
<1>2. ASSUME Sch!rr_sch PROVE SchInv'
  <2>1. CASE Sch!Waiting = {}
    BY <1>2, <2>1 DEF SchInv, Sch!rr_sch
  <2>2. CASE Sch!Waiting # {}
    <3>1. PICK i \in Sch!Waiting : /\ m_last_grant_id' = i
                                   /\ m_input' = [m_input EXCEPT ![i] = @ - 1]
      BY <1>2, <2>2 DEF Sch!rr_sch
    <3>2. i \in Sch!Inputs /\ m_input[i] - 1 \in Nat
      BY <3>1 DEF Sch!Waiting, SchInv
    <3> QED BY <3>1, <3>2 DEF SchInv
  <2> QED BY <2>1, <2>2
<1> QED BY <1>1, <1>2 DEF Sch!Next

\* A grant brings every other waiting input closer to its turn.
LEMMA GrantBringsCloser ==
  ASSUME SchInv, Sch!rr_sch
  PROVE  /\ Sch!Waiting # {} => sch_ret' \in Sch!Waiting
         /\ \A i \in Sch!Waiting \ {sch_ret'} : Sch!Distance(i)' < Sch!Distance(i)
<1>1. CASE Sch!Waiting = {}
  BY <1>1
<1>2. CASE Sch!Waiting # {}
  <2>1. PICK g \in Sch!Waiting : /\ \A j \in Sch!Waiting : Sch!Distance(g) <= Sch!Distance(j)
                                 /\ m_last_grant_id' = g /\ sch_ret' = g
    BY <1>2 DEF Sch!rr_sch
  <2>2. ASSUME NEW i \in Sch!Waiting, i # g
        PROVE  Sch!Distance(i)' < Sch!Distance(i)
    <3>1. i \in Sch!Inputs /\ g \in Sch!Inputs /\ m_last_grant_id \in Sch!Inputs
      BY <2>1 DEF SchInv, Sch!Waiting
    <3>2. /\ Sch!Distance(i) = Ahead(i, m_last_grant_id)
          /\ Sch!Distance(g) = Ahead(g, m_last_grant_id)
          /\ Sch!Distance(i)' = Ahead(i, g)
      BY <2>1, <3>1, DistanceIs DEF Sch!Distance
    <3>4. Sch!Distance(g) <= Sch!Distance(i)
      BY <2>1
    <3>5. m_arb_num \in Nat /\ i \in 0 .. m_arb_num - 1 /\ g \in 0 .. m_arb_num - 1
          /\ m_last_grant_id \in 0 .. m_arb_num - 1
      BY <3>1, SrvTestsAssumption DEF Sch!Inputs
    <3> QED BY <2>2, <3>2, <3>4, <3>5 DEF Ahead
  <2> QED BY <2>1, <2>2
<1> QED BY <1>1, <1>2

-----------------------------------------------------------------------------
(* Switch                                                                  *)

\* Every full queue has been announced by the last packet.
PfcInv == /\ queues \in [Priorities -> Nat]
          /\ \A p \in Priorities : queues[p] >= QueueCapacity => p \in frames

\* The switch starts with empty queues, and none of them is full.
LEMMA PfcInit == Pfc!Init => PfcInv
  BY SrvTestsAssumption DEF Pfc!Init, PfcInv

\* The call that fills a queue announces it, and a dequeue leaves room in one.
LEMMA PfcStep == PfcInv /\ Pfc!Next => PfcInv'
<1> SUFFICES ASSUME PfcInv, Pfc!Next PROVE PfcInv'
  OBVIOUS
<1>0. QueueCapacity \in Nat \ {0}
  BY SrvTestsAssumption
<1>1. ASSUME UNCHANGED Pfc!switchVars PROVE PfcInv'
  BY <1>1 DEF PfcInv, Pfc!switchVars
<1>2. ASSUME NEW p \in Priorities, Pfc!sendPacket(p) PROVE PfcInv'
  <2>1. queues' \in [Priorities -> Nat]
    BY <1>2 DEF PfcInv, Pfc!sendPacket, Pfc!enqueue
  <2>2. frames' = {q \in Priorities : QueueCapacity - queues'[q] <= 0}
    BY <1>2 DEF Pfc!sendPacket, Pfc!Congested, Pfc!getRemainingCapacity
  <2>3. \A q \in Priorities : queues'[q] >= QueueCapacity => q \in frames'
    BY <1>0, <2>1, <2>2
  <2> QED BY <2>1, <2>3 DEF PfcInv
<1>3. ASSUME NEW p \in Priorities, Pfc!dequeue(p) PROVE PfcInv'
  <2>1. /\ queues[p] - 1 \in Nat /\ queues' = [queues EXCEPT ![p] = queues[p] - 1]
        /\ frames' = frames
    BY <1>3 DEF PfcInv, Pfc!dequeue
  <2>2. queues' \in [Priorities -> Nat]
    BY <2>1 DEF PfcInv
  <2>3. \A q \in Priorities : queues'[q] <= queues[q]
    BY <2>1 DEF PfcInv
  <2> QED BY <1>0, <2>1, <2>2, <2>3 DEF PfcInv
<1> QED BY <1>1, <1>2, <1>3 DEF Pfc!Next, Pfc!sendData, Pfc!receiveData

\* What is dropped was announced before it was sent.
LEMMA DropWasAnnounced ==
  ASSUME PfcInv, NEW p \in Priorities, Pfc!sendPacket(p), dropped' = {p}
  PROVE  p \in frames
<1>1. ~ (queues[p] < QueueCapacity)
  BY DEF Pfc!sendPacket, Pfc!enqueue
<1>2. queues[p] \in Nat /\ QueueCapacity \in Nat
  BY SrvTestsAssumption DEF PfcInv
<1> QED BY <1>1, <1>2 DEF PfcInv

-----------------------------------------------------------------------------
(* NetworkNode: sums over a sequence, as FoldSeq defines them              *)

\* The member a fold takes next, and what it computes for each subset of D.
Picked(s) == CHOOSE x \in s : TRUE
Sums(t, q, D) ==
  t = [s \in SUBSET D |-> IF s = {} THEN 0 ELSE q[Picked(s)] + t[s \ {Picked(s)}]]

Total(q) == Pfc!FoldSeq(LAMBDA d, sum : d + sum, 0, q)

\* What is left of a finite set when one member is taken is finite and smaller.
LEMMA OneLess ==
  ASSUME NEW s, IsFiniteSet(s), NEW x \in s
  PROVE  /\ IsFiniteSet(s \ {x}) /\ Cardinality(s) \in Nat \ {0}
         /\ Cardinality(s \ {x}) \in Nat
         /\ Cardinality(s \ {x}) = Cardinality(s) - 1
<1>1. IsFiniteSet(s \ {x}) /\ Cardinality(s) \in Nat /\ Cardinality(s \ {x}) \in Nat
      /\ Cardinality(s \ {x}) = Cardinality(s) - 1
  BY FS_RemoveElement, FS_CardinalityType
<1> QED BY <1>1

\* The sums exist for every finite set.
LEMMA SumsExist ==
  ASSUME NEW q, NEW D, IsFiniteSet(D)
  PROVE  \E t : Sums(t, q, D)
<1> DEFINE Small(k) == {s \in SUBSET D : Cardinality(s) <= k}
           Up(t, s) == IF s = {} THEN 0 ELSE q[Picked(s)] + t[s \ {Picked(s)}]
           Upto(t, k) == t = [s \in Small(k) |-> Up(t, s)]
           S == {k \in Nat : \E t : Upto(t, k)}
<1>0. \A s \in SUBSET D : IsFiniteSet(s) /\ Cardinality(s) \in Nat
                          /\ Cardinality(s) <= Cardinality(D)
  BY FS_Subset, FS_CardinalityType
<1>1. \A s \in SUBSET D : s # {} =>
        /\ s \ {Picked(s)} \in SUBSET D
        /\ Cardinality(s \ {Picked(s)}) = Cardinality(s) - 1
  BY <1>0, OneLess DEF Picked
<1>2. 0 \in S
  <2> DEFINE t == [s \in Small(0) |-> 0]
  <2>1. \A s \in Small(0) : s = {}
    <3> SUFFICES ASSUME NEW s \in SUBSET D, Cardinality(s) <= 0 PROVE s = {}
      OBVIOUS
    <3>1. IsFiniteSet(s) /\ Cardinality(s) = 0
      BY <1>0
    <3> QED BY <3>1, FS_EmptySet
  <2>2. Upto(t, 0)
    BY <2>1
  <2> QED BY <2>2
<1>3. ASSUME NEW k \in S PROVE k + 1 \in S
  <2>1. PICK t : Upto(t, k)
    OBVIOUS
  <2> DEFINE g == [s \in Small(k + 1) |-> Up(t, s)]
  <2>2. \A s \in Small(k) : s \in Small(k + 1) /\ g[s] = t[s]
    <3>1. \A s \in Small(k) : t[s] = Up(t, s)
      BY <2>1
    <3>2. \A s \in Small(k) : s \in Small(k + 1)
      BY <1>0
    <3> HIDE DEF Up, Small
    <3> QED BY <3>1, <3>2
  <2>3. \A s \in Small(k + 1) : Up(t, s) = Up(g, s)
    <3> SUFFICES ASSUME NEW s \in Small(k + 1), s # {}
                 PROVE  t[s \ {Picked(s)}] = g[s \ {Picked(s)}]
      OBVIOUS
    <3>1. s \ {Picked(s)} \in Small(k)
      BY <1>0, <1>1
    <3> HIDE DEF g
    <3> QED BY <2>2, <3>1
  <2>4. g = [s \in Small(k + 1) |-> Up(g, s)]
    <3> HIDE DEF Up, Small
    <3> QED BY <2>3
  <2>5. Upto(g, k + 1)
    BY <2>4
  <2> HIDE DEF g, Upto
  <2> QED BY <2>5
<1>4. S = Nat
  <2>1. S \in SUBSET Nat
    OBVIOUS
  <2> HIDE DEF S
  <2> QED BY <1>2, <1>3, <2>1, SetInduction
<1>5. Cardinality(D) \in Nat
  BY FS_CardinalityType
<1>6. PICK t : Upto(t, Cardinality(D))
  BY <1>4, <1>5
<1>7. Small(Cardinality(D)) = SUBSET D
  BY <1>0
<1> QED BY <1>6, <1>7 DEF Sums

\* Any member of a set may be added last.
AddedLast(t, q, s) == t[s] \in Nat /\ \A x \in s : t[s] = q[x] + t[s \ {x}]

\* A total over a finite set does not depend on which element is added last.
LEMMA AnyLast ==
  ASSUME NEW D, IsFiniteSet(D), NEW q, \A i \in D : q[i] \in Nat,
         NEW t, Sums(t, q, D)
  PROVE  \A s \in SUBSET D : AddedLast(t, q, s)
<1>0. \A s \in SUBSET D : IsFiniteSet(s) /\ Cardinality(s) \in Nat
  BY FS_Subset, FS_CardinalityType
<1>1. /\ t[{}] = 0
      /\ \A s \in SUBSET D : s # {} => t[s] = q[Picked(s)] + t[s \ {Picked(s)}]
  BY DEF Sums
<1> DEFINE S == {k \in Nat : \A s \in SUBSET D :
                               Cardinality(s) <= k => AddedLast(t, q, s)}
<1>2. 0 \in S
  <2> SUFFICES ASSUME NEW s \in SUBSET D, Cardinality(s) <= 0
               PROVE  AddedLast(t, q, s)
    OBVIOUS
  <2>1. IsFiniteSet(s) /\ Cardinality(s) = 0
    BY <1>0
  <2>2. s = {}
    BY <2>1, FS_EmptySet
  <2> QED BY <1>1, <2>2 DEF AddedLast
<1>3. ASSUME NEW k \in S PROVE k + 1 \in S
  <2>1. k \in Nat /\ \A r \in SUBSET D : Cardinality(r) <= k => AddedLast(t, q, r)
    OBVIOUS
  <2>2. ASSUME NEW s \in SUBSET D, Cardinality(s) = k + 1
        PROVE  AddedLast(t, q, s)
    <3>1. IsFiniteSet(s) /\ s # {}
      <4>1. IsFiniteSet(s) /\ Cardinality(s) # 0
        BY <1>0, <2>1, <2>2
      <4> QED BY <4>1, FS_EmptySet
    <3> DEFINE p == Picked(s)
    <3>2. p \in s /\ t[s] = q[p] + t[s \ {p}]
      BY <1>1, <3>1 DEF Picked
    <3> HIDE DEF p
    <3>3. ASSUME NEW x \in s
          PROVE  /\ q[x] \in Nat /\ s \ {x} \in SUBSET D
                 /\ AddedLast(t, q, s \ {x})
      <4>1. Cardinality(s \ {x}) = k
        BY <2>1, <2>2, <3>1, OneLess
      <4>2. s \ {x} \in SUBSET D /\ Cardinality(s \ {x}) <= k
        BY <2>1, <4>1
      <4> QED BY <2>1, <4>2
    <3>4. t[s] \in Nat
      <4>1. q[p] \in Nat /\ AddedLast(t, q, s \ {p})
        BY <3>2, <3>3
      <4>2. t[s \ {p}] \in Nat
        BY <4>1 DEF AddedLast
      <4> QED BY <3>2, <4>1, <4>2
    <3>5. ASSUME NEW x \in s, x # p PROVE t[s] = q[x] + t[s \ {x}]
      <4> DEFINE r == (s \ {p}) \ {x}
      <4>1. t[s \ {p}] = q[x] + t[r] /\ x \in s \ {p}
        BY <3>2, <3>3, <3>5 DEF AddedLast
      <4>2. t[s \ {x}] = q[p] + t[r]
        <5>1. r = (s \ {x}) \ {p} /\ p \in s \ {x}
          BY <3>2, <3>5
        <5> QED BY <3>3, <5>1 DEF AddedLast
      <4>3. t[r] \in Nat
        <5>1. Cardinality(s \ {p}) = k /\ IsFiniteSet(s \ {p})
          BY <2>1, <2>2, <3>1, <3>2, OneLess
        <5>2. Cardinality(r) = k - 1
          BY <4>1, <5>1, OneLess
        <5>3. r \in SUBSET D /\ Cardinality(r) <= k
          BY <2>1, <5>2
        <5> QED BY <2>1, <5>3 DEF AddedLast
      <4>4. q[x] \in Nat /\ q[p] \in Nat
        BY <3>2, <3>3
      <4> HIDE DEF r
      <4> QED BY <3>2, <4>1, <4>2, <4>3, <4>4
    <3> QED BY <3>2, <3>4, <3>5 DEF AddedLast
  <2>3. ASSUME NEW s \in SUBSET D, Cardinality(s) <= k + 1
        PROVE  AddedLast(t, q, s)
    <3>1. Cardinality(s) \in Nat
      BY <1>0
    <3>2. Cardinality(s) <= k \/ Cardinality(s) = k + 1
      BY <2>1, <2>3, <3>1
    <3> QED BY <2>1, <2>2, <3>2
  <2> QED BY <2>1, <2>3
<1>4. S = Nat
  <2>1. S \in SUBSET Nat
    OBVIOUS
  <2> HIDE DEF S
  <2> QED BY <1>2, <1>3, <2>1, SetInduction
<1> SUFFICES ASSUME NEW s \in SUBSET D PROVE AddedLast(t, q, s)
  OBVIOUS
<1>5. Cardinality(s) \in Nat /\ Cardinality(s) <= Cardinality(s)
  BY <1>0
<1>6. Cardinality(s) \in S
  BY <1>4, <1>5
<1> QED BY <1>5, <1>6

\* Two sequences that agree over n places, one of them o places on, have the
\* same sum there.
Tallied(t, q, D) ==
  IsFiniteSet(D) /\ (\A i \in D : q[i] \in Nat) /\ Sums(t, q, D)
Agree(q, D, r, E, n, o) ==
  \A i \in 1 .. n : i \in D /\ i + o \in E /\ q[i] = r[i + o]

\* Two sequences that agree on a stretch have the same sum there, wherever the
\* stretch lies in them.
LEMMA SameSum ==
  ASSUME NEW D, NEW E, NEW q, NEW r,
         NEW t, Tallied(t, q, D), NEW u, Tallied(u, r, E),
         NEW n \in Nat, NEW o \in Nat, Agree(q, D, r, E, n, o),
         NEW here, NEW there, here = 1 .. n, there = o + 1 .. o + n
  PROVE  t[here] = u[there]
<1>0. /\ \A s \in SUBSET D : AddedLast(t, q, s)
      /\ \A s \in SUBSET E : AddedLast(u, r, s)
      /\ \A i \in 1 .. n : i \in D /\ i + o \in E /\ q[i] = r[i + o]
      /\ Sums(t, q, D) /\ Sums(u, r, E)
  BY AnyLast DEF Tallied, Agree
<1> DEFINE S == {k \in Nat : k <= n => t[1 .. k] = u[o + 1 .. o + k]}
<1>1. 0 \in S
  <2>1. t[{}] = 0 /\ u[{}] = 0
    BY <1>0 DEF Sums
  <2>2. 1 .. 0 = {} /\ o + 1 .. o + 0 = {}
    OBVIOUS
  <2> QED BY <2>1, <2>2
<1>2. ASSUME NEW k \in S PROVE k + 1 \in S
  <2> SUFFICES ASSUME k + 1 <= n
               PROVE  t[1 .. k + 1] = u[o + 1 .. o + (k + 1)]
    OBVIOUS
  <2> DEFINE a == 1 .. k + 1
             b == o + 1 .. o + (k + 1)
             c == k + 1
             d == o + (k + 1)
  <2>1. k \in Nat /\ t[1 .. k] = u[o + 1 .. o + k]
    OBVIOUS
  <2>2. a \ {c} = 1 .. k /\ c \in a /\ a \in SUBSET D
    BY <1>0, <2>1
  <2>3. b \ {d} = o + 1 .. o + k /\ d \in b
    BY <2>1
  <2>4. b \in SUBSET E
    <3> SUFFICES ASSUME NEW j \in b PROVE j \in E
      OBVIOUS
    <3>1. j - o \in 1 .. n /\ (j - o) + o = j
      BY <2>1
    <3> QED BY <1>0, <3>1
  <2>5. q[c] = r[d]
    <3>1. c \in 1 .. n /\ c + o = d
      BY <2>1
    <3> QED BY <1>0, <3>1
  <2> HIDE DEF a, b, c, d
  <2>6. t[a] = q[c] + t[1 .. k] /\ u[b] = r[d] + u[o + 1 .. o + k]
    <3>1. AddedLast(t, q, a) /\ AddedLast(u, r, b)
      BY <1>0, <2>2, <2>4
    <3>2. t[a] = q[c] + t[a \ {c}] /\ u[b] = r[d] + u[b \ {d}]
      BY <2>2, <2>3, <3>1 DEF AddedLast
    <3> QED BY <2>2, <2>3, <3>2
  <2>7. t[a] = u[b]
    BY <2>1, <2>5, <2>6
  <2> QED BY <2>7 DEF a, b
<1>3. S = Nat
  <2>1. S \in SUBSET Nat
    OBVIOUS
  <2> HIDE DEF S
  <2> QED BY <1>1, <1>2, <2>1, SetInduction
<1> QED BY <1>3

\* The total of a sequence is the sum over its places.
LEMMA TotalIs ==
  ASSUME NEW q \in Seq(Nat)
  PROVE  \E t : /\ Sums(t, q, 1 .. Len(q)) /\ Total(q) = t[1 .. Len(q)]
                /\ IsFiniteSet(1 .. Len(q))
<1> DEFINE t == CHOOSE t : Sums(t, q, 1 .. Len(q))
<1>1. IsFiniteSet(1 .. Len(q))
  BY FS_Interval
<1>2. Sums(t, q, 1 .. Len(q))
  BY <1>1, SumsExist
<1>3. Total(q) = t[1 .. Len(q)]
  <2>1. DOMAIN q = 1 .. Len(q)
    OBVIOUS
  <2>2. Total(q) = (CHOOSE f : Sums(f, q, DOMAIN q))[DOMAIN q]
    BY DEF Total, Sums, Picked, Pfc!FoldSeq, Pfc!FoldFunction,
           Pfc!FoldFunctionOnSet, Pfc!MapThenFoldSet
  <2> QED BY <2>1, <2>2
<1> QED BY <1>1, <1>2, <1>3

\* The total of the empty sequence, of one with a value added behind, and of
\* one without its first.
LEMMA TotalEmpty == Total(<<>>) = 0
<1>1. <<>> \in Seq(Nat) /\ Len(<<>>) = 0 /\ 1 .. 0 = {}
  OBVIOUS
<1>2. PICK t : Sums(t, <<>>, 1 .. 0) /\ Total(<<>>) = t[1 .. 0]
  BY <1>1, TotalIs
<1>3. t[{}] = 0
  BY <1>2 DEF Sums
<1> QED BY <1>1, <1>2, <1>3

\* A value joined to a sequence adds itself to the sum.
LEMMA TotalAppend ==
  ASSUME NEW q \in Seq(Nat), NEW d \in Nat
  PROVE  Total(q) \in Nat /\ Total(Append(q, d)) = Total(q) + d
<1> DEFINE r == Append(q, d)
           n == Len(q)
<1>1. /\ r \in Seq(Nat) /\ Len(r) = n + 1 /\ n \in Nat
      /\ \A i \in 1 .. n : r[i] = q[i] /\ q[i] \in Nat
      /\ r[n + 1] = d
  BY AppendProperties
<1>2. PICK t : /\ Sums(t, q, 1 .. n) /\ Total(q) = t[1 .. n]
               /\ IsFiniteSet(1 .. n)
  BY TotalIs
<1> HIDE DEF r
<1>3. PICK u : /\ Sums(u, r, 1 .. n + 1) /\ Total(r) = u[1 .. n + 1]
               /\ IsFiniteSet(1 .. n + 1)
  BY <1>1, TotalIs
<1> HIDE DEF n
<1>4. \A i \in 1 .. n + 1 : r[i] \in Nat
  BY <1>1
<1> DEFINE A == 1 .. n
           B == 1 .. n + 1
<1>5. B \ {n + 1} = A /\ n + 1 \in B /\ A = 0 + 1 .. 0 + n
  BY <1>1
<1>6. /\ \A i \in A : i \in A /\ i + 0 \in B /\ q[i] = r[i + 0]
      /\ \A i \in A : q[i] \in Nat
  BY <1>1
<1>7. A = 1 .. n
  OBVIOUS
<1> HIDE DEF A, B
<1>8. AddedLast(t, q, A) /\ AddedLast(u, r, B)
  BY <1>2, <1>3, <1>4, <1>6, AnyLast DEF A, B
<1>9. t[A] = u[A]
  <2>1. 0 \in Nat /\ n \in Nat
    BY <1>1
  <2>2. Tallied(t, q, A) /\ Tallied(u, r, B)
    BY <1>2, <1>3, <1>4, <1>6 DEF A, B, Tallied
  <2>3. Agree(q, A, r, B, n, 0)
    BY <1>6, <1>7 DEF Agree
  <2> QED BY <1>5, <1>7, <2>1, <2>2, <2>3, SameSum
<1>10. u[B] = r[n + 1] + u[A] /\ t[A] \in Nat
  BY <1>5, <1>8 DEF AddedLast
<1>11. Total(q) = t[A] /\ Total(r) = u[B]
  BY <1>2, <1>3 DEF A, B
<1>12. Total(r) = Total(q) + d /\ Total(q) \in Nat
  BY <1>1, <1>9, <1>10, <1>11
<1> QED BY <1>12 DEF r

\* Without its head a sequence has as much less.
LEMMA TotalTail ==
  ASSUME NEW q \in Seq(Nat), q # <<>>
  PROVE  Head(q) \in Nat /\ Total(Tail(q)) \in Nat
         /\ Total(q) = Head(q) + Total(Tail(q))
<1> DEFINE r == Tail(q)
           n == Len(q)
<1>1. /\ r \in Seq(Nat) /\ Len(r) = n - 1 /\ n \in Nat \ {0} /\ n - 1 \in Nat
      /\ \A i \in 1 .. n - 1 : r[i] = q[i + 1]
      /\ \A i \in 1 .. n : q[i] \in Nat
      /\ Head(q) = q[1]
  BY HeadTailProperties
<1>2. PICK t : /\ Sums(t, q, 1 .. n) /\ Total(q) = t[1 .. n]
               /\ IsFiniteSet(1 .. n)
  BY TotalIs
<1> HIDE DEF r
<1>3. PICK u : /\ Sums(u, r, 1 .. n - 1) /\ Total(r) = u[1 .. n - 1]
               /\ IsFiniteSet(1 .. n - 1)
  BY <1>1, TotalIs
<1> HIDE DEF n
<1>4. \A i \in 1 .. n - 1 : r[i] \in Nat
  BY <1>1
<1> DEFINE A == 1 .. n
           B == 1 .. n - 1
           C == 2 .. n
<1>5. A \ {1} = C /\ 1 \in A /\ C \in SUBSET A /\ C = 1 + 1 .. 1 + (n - 1)
  BY <1>1
<1>6. /\ \A i \in B : i \in B /\ i + 1 \in A /\ r[i] = q[i + 1]
      /\ \A i \in B : r[i] \in Nat /\ \A j \in A : q[j] \in Nat
  BY <1>1
<1>7. B = 1 .. n - 1
  OBVIOUS
<1> HIDE DEF A, B, C
<1>8. \A i \in A : q[i] \in Nat
  BY <1>1 DEF A
<1>9. AddedLast(t, q, A) /\ AddedLast(u, r, B)
  BY <1>2, <1>3, <1>4, <1>8, AnyLast DEF A, B
<1>10. u[B] = t[C]
  <2> DEFINE m == n - 1
  <2>1. m \in Nat /\ 1 \in Nat /\ B = 1 .. m /\ C = 1 + 1 .. 1 + m
    BY <1>1, <1>5, <1>7
  <2> HIDE DEF m
  <2>2. Tallied(u, r, B) /\ Tallied(t, q, A)
    BY <1>2, <1>3, <1>4, <1>8 DEF A, B, Tallied
  <2>3. Agree(r, B, q, A, m, 1)
    BY <1>6, <2>1 DEF Agree
  <2> QED BY <2>1, <2>2, <2>3, SameSum
<1>11. t[A] = q[1] + t[C] /\ u[B] \in Nat
  BY <1>5, <1>9 DEF AddedLast
<1>12. Total(q) = t[A] /\ Total(r) = u[B] /\ q[1] \in Nat
  BY <1>1, <1>2, <1>3 DEF A, B
<1>13. Head(q) \in Nat /\ Total(r) \in Nat /\ Total(q) = Head(q) + Total(r)
  BY <1>1, <1>10, <1>11, <1>12
<1> QED BY <1>13 DEF r

\* The counter is the total of the buffer.
NodeInv == /\ buffer \in Seq(Nat)
           /\ buffer_usage = Total(buffer) /\ buffer_usage <= NodeCapacity

\* The node starts with nothing in its buffer and its counter at 0.
LEMMA NodeInit == Pfc!Init => NodeInv
  BY TotalEmpty, SrvTestsAssumption DEF Pfc!Init, NodeInv

\* sendData and processData change the buffer and the counter alike.
LEMMA NodeStep == NodeInv /\ Pfc!Next => NodeInv'
<1> SUFFICES ASSUME NodeInv, Pfc!Next PROVE NodeInv'
  OBVIOUS
<1>0. /\ buffer \in Seq(Nat) /\ buffer_usage = Total(buffer)
      /\ buffer_usage <= NodeCapacity /\ NodeCapacity \in Nat
  BY SrvTestsAssumption DEF NodeInv
<1>1. ASSUME NEW data \in Sizes, Pfc!sendData(data) PROVE NodeInv'
  <2>1. data \in Nat
    BY SrvTestsAssumption
  <2>2. CASE buffer_usage + data <= NodeCapacity
    <3>1. buffer' = Append(buffer, data) /\ buffer_usage' = buffer_usage + data
      BY <1>1, <2>2 DEF Pfc!sendData
    <3>2. Total(Append(buffer, data)) = Total(buffer) + data
      BY <1>0, <2>1, TotalAppend
    <3> QED BY <1>0, <2>1, <2>2, <3>1, <3>2 DEF NodeInv
  <2>3. CASE ~ (buffer_usage + data <= NodeCapacity)
    BY <1>0, <1>1, <2>3 DEF Pfc!sendData, Pfc!nodeVars, NodeInv
  <2> QED BY <2>2, <2>3
<1>2. CASE Pfc!receiveData
  <2>1. /\ buffer # <<>> /\ buffer' = Tail(buffer)
        /\ buffer_usage' = buffer_usage - Head(buffer)
    BY <1>2 DEF Pfc!receiveData
  <2>2. /\ Head(buffer) \in Nat /\ Total(Tail(buffer)) \in Nat
        /\ Total(buffer) = Head(buffer) + Total(Tail(buffer))
    BY <1>0, <2>1, TotalTail
  <2>3. Tail(buffer) \in Seq(Nat)
    BY <1>0, <2>1, HeadTailProperties
  <2> QED BY <1>0, <2>1, <2>2, <2>3 DEF NodeInv
<1>3. CASE UNCHANGED Pfc!nodeVars
  BY <1>0, <1>3 DEF Pfc!nodeVars, NodeInv
<1> QED BY <1>1, <1>2, <1>3 DEF Pfc!Next, Pfc!sendPacket, Pfc!dequeue

-----------------------------------------------------------------------------
(* TokenBucket                                                             *)

\* What a window that began at time s leaves to be handed out at time t, when
\* u[s] tokens have been consumed in it.
Left(t, u, s) == capacity + (t - s) * rate - u[s]

\* What is left in the bucket is what the tightest of the windows leaves.
BucketInv ==
  /\ tokens \in 0 .. capacity
  /\ now \in Bucket!Times /\ last_time \in 0 .. now
  /\ used \in [Bucket!Times -> Nat]
  /\ \A s \in Bucket!Times : s > now => used[s] = 0
  /\ \A s \in 0 .. now : Bucket!Refilled <= Left(now, used, s)
  /\ \E s \in 0 .. now : Bucket!Refilled = Left(now, used, s)

\* Time and rate as products, which are added up.
LEMMA OneMore ==
  ASSUME NEW a \in Int, NEW b \in Int, NEW r \in Int
  PROVE  (a + 1 - b) * r = (a - b) * r + r
OBVIOUS

\* What flows in at a constant rate is a number.
LEMMA Flows ==
  ASSUME NEW a \in Nat, NEW r \in Nat
  PROVE  a * r \in Nat
OBVIOUS

\* The smaller of two numbers.
LEMMA MinOfTwo ==
  ASSUME NEW a \in Int, NEW b \in Int
  PROVE  Bucket!Min({a, b}) = IF a <= b THEN a ELSE b
  BY DEF Bucket!Min

\* What Refilled is.
LEMMA RefilledIs ==
  ASSUME tokens \in Int, last_time \in Int, now \in Int
  PROVE  LET more == tokens + (now - last_time) * rate
         IN  /\ Bucket!Refilled = IF capacity <= more THEN capacity ELSE more
             /\ more \in Int
<1> DEFINE more == tokens + (now - last_time) * rate
<1>1. more \in Int /\ capacity \in Int
  BY SrvTestsAssumption
<1>2. Bucket!Refilled = Bucket!Min({capacity, more})
  BY DEF Bucket!Refilled
<1> HIDE DEF more
<1> QED BY <1>1, <1>2, MinOfTwo DEF more

\* What a window leaves is a number, negative if it was overdrawn.
LEMMA LeftIsInt ==
  ASSUME now \in Nat, used \in [0 .. MaxTime -> Nat], NEW s \in 0 .. now,
         now <= MaxTime
  PROVE  Left(now, used, s) \in Int
<1>1. now - s \in Int /\ rate \in Int /\ capacity \in Int
  BY SrvTestsAssumption
<1>2. used[s] \in Int
  BY SrvTestsAssumption
<1>3. (now - s) * rate \in Int
  BY <1>1
<1> QED BY <1>1, <1>2, <1>3 DEF Left

\* A full bucket has handed out nothing.
LEMMA BucketInit == Bucket!Init => BucketInv
<1> SUFFICES ASSUME Bucket!Init PROVE BucketInv
  OBVIOUS
<1>1. /\ tokens = capacity /\ last_time = 0 /\ now = 0
      /\ used = [s \in Bucket!Times |-> 0]
      /\ capacity \in Nat /\ rate \in Nat /\ MaxTime \in Nat
  BY SrvTestsAssumption DEF Bucket!Init
<1>2. Bucket!Refilled = capacity
  <2>1. (now - last_time) * rate = 0
    BY <1>1
  <2> QED BY <1>1, <2>1, RefilledIs
<1>3. Left(now, used, 0) = capacity
  <2>1. (now - 0) * rate = 0 /\ used[0] = 0
    BY <1>1 DEF Bucket!Times
  <2> QED BY <1>1, <2>1 DEF Left
<1>4. \A s \in 0 .. now : s = 0
  BY <1>1
<1> QED BY <1>1, <1>2, <1>3, <1>4 DEF BucketInv, Bucket!Times

\* consume, and time passing, keep the tokens what the windows leave of them.
LEMMA BucketStep == BucketInv /\ Bucket!Next => BucketInv'
<1> SUFFICES ASSUME BucketInv, Bucket!Next PROVE BucketInv'
  OBVIOUS
<1>0. /\ capacity \in Nat /\ rate \in Nat /\ MaxTime \in Nat
      /\ tokens \in 0 .. capacity /\ now \in 0 .. MaxTime /\ last_time \in 0 .. now
      /\ now \in Nat /\ last_time \in Nat
      /\ used \in [0 .. MaxTime -> Nat]
      /\ \A s \in 0 .. MaxTime : s > now => used[s] = 0
      /\ \A s \in 0 .. now : Bucket!Refilled <= Left(now, used, s)
      /\ \E s \in 0 .. now : Bucket!Refilled = Left(now, used, s)
  BY SrvTestsAssumption DEF BucketInv, Bucket!Times
<1> DEFINE in == (now - last_time) * rate
           full == Bucket!Refilled
<1>1. in \in Nat /\ full = IF capacity <= tokens + in THEN capacity ELSE tokens + in
  BY <1>0, Flows, RefilledIs
<1>2. full \in 0 .. capacity
  <2> HIDE DEF full, in
  <2> QED BY <1>0, <1>1
<1>3. ASSUME Bucket!TimePasses PROVE BucketInv'
  <2>1. /\ now' = now + 1 /\ now < MaxTime /\ tokens' = tokens
        /\ last_time' = last_time /\ used' = used
    BY <1>3 DEF Bucket!TimePasses
  <2>2. (now' - last_time') * rate = in + rate
    BY <1>0, <2>1, OneMore
  <2>3. full' = IF capacity <= full + rate THEN capacity ELSE full + rate
    <3>1. Bucket!Refilled' = Bucket!Min({capacity, tokens + (in + rate)})
      BY <2>1, <2>2 DEF Bucket!Refilled
    <3> HIDE DEF in
    <3>2. tokens + (in + rate) \in Int /\ capacity \in Int
      BY <1>0, <1>1
    <3>3. full' = IF capacity <= tokens + (in + rate) THEN capacity
                  ELSE tokens + (in + rate)
      BY <3>1, <3>2, MinOfTwo
    <3> HIDE DEF full
    <3> QED BY <1>0, <1>1, <3>3
  <2>4. \A s \in 0 .. now : /\ Left(now, used, s) \in Int
                            /\ Left(now', used', s) = Left(now, used, s) + rate
    <3> SUFFICES ASSUME NEW s \in 0 .. now
                 PROVE  /\ Left(now, used, s) \in Int
                        /\ Left(now', used', s) = Left(now, used, s) + rate
      OBVIOUS
    <3>1. Left(now, used, s) \in Int
      BY <1>0, LeftIsInt
    <3>2. s \in Int /\ now \in Int /\ rate \in Int /\ capacity \in Int /\ used[s] \in Int
      BY <1>0
    <3>3. (now + 1 - s) * rate = (now - s) * rate + rate /\ (now - s) * rate \in Int
      BY <3>2, OneMore
    <3> QED BY <2>1, <3>1, <3>2, <3>3 DEF Left
  <2>5. Left(now', used', now + 1) = capacity
    <3>1. used[now + 1] = 0 /\ (now' - (now + 1)) * rate = 0
      BY <1>0, <2>1
    <3> QED BY <1>0, <2>1, <3>1 DEF Left
  <2> HIDE DEF full, in
  <2>6. \A s \in 0 .. now' : full' <= Left(now', used', s)
    <3> SUFFICES ASSUME NEW s \in 0 .. now' PROVE full' <= Left(now', used', s)
      OBVIOUS
    <3>1. CASE s = now + 1
      BY <1>0, <1>2, <2>1, <2>3, <2>5, <3>1
    <3>2. CASE s # now + 1
      <4>1. s \in 0 .. now
        BY <1>0, <2>1, <3>2
      <4>2. full <= Left(now, used, s) /\ Left(now, used, s) \in Int
            /\ Left(now', used', s) = Left(now, used, s) + rate
        BY <1>0, <2>4, <4>1 DEF full
      <4> QED BY <1>0, <1>2, <2>3, <4>2
    <3> QED BY <3>1, <3>2
  <2>7. \E s \in 0 .. now' : full' = Left(now', used', s)
    <3>1. CASE capacity <= full + rate
      <4>1. now + 1 \in 0 .. now'
        BY <1>0, <2>1
      <4> QED BY <2>3, <2>5, <3>1, <4>1
    <3>2. CASE ~ (capacity <= full + rate)
      <4>1. PICK s \in 0 .. now : full = Left(now, used, s)
        BY <1>0 DEF full
      <4>2. s \in 0 .. now' /\ full' = Left(now', used', s)
        BY <1>0, <2>1, <2>3, <2>4, <3>2, <4>1
      <4> QED BY <4>2
    <3> QED BY <3>1, <3>2
  <2> QED BY <1>0, <2>1, <2>6, <2>7 DEF BucketInv, full, Bucket!Times
<1>4. ASSUME NEW n \in 1 .. capacity, Bucket!consume(n) PROVE BucketInv'
  <2>1. last_time' = now /\ now' = now
    BY <1>4 DEF Bucket!consume
  <2>2. (now' - last_time') * rate = 0
    BY <1>0, <2>1
  <2>3. tokens' \in 0 .. capacity => full' = tokens'
    <3> SUFFICES ASSUME tokens' \in 0 .. capacity PROVE full' = tokens'
      OBVIOUS
    <3>1. full' = Bucket!Min({capacity, tokens' + 0})
      BY <2>2 DEF Bucket!Refilled
    <3> QED BY <1>0, <3>1, MinOfTwo
  <2>4. CASE full >= n
    <3>1. /\ tokens' = full - n
          /\ used' = [s \in 0 .. MaxTime |-> IF s <= now THEN used[s] + n ELSE used[s]]
      BY <1>4, <2>4 DEF Bucket!consume, Bucket!Times
    <3>2. tokens' \in 0 .. capacity /\ full' = full - n
      <4>1. tokens' \in 0 .. capacity
        <5> HIDE DEF full
        <5> QED BY <1>0, <1>2, <2>4, <3>1
      <4> QED BY <2>3, <3>1, <4>1
    <3>3. \A s \in 0 .. now : /\ Left(now, used, s) \in Int
                              /\ Left(now', used', s) = Left(now, used, s) - n
      <4> SUFFICES ASSUME NEW s \in 0 .. now
                   PROVE  /\ Left(now, used, s) \in Int
                          /\ Left(now', used', s) = Left(now, used, s) - n
        OBVIOUS
      <4>1. Left(now, used, s) \in Int
        BY <1>0, LeftIsInt
      <4>2. used'[s] = used[s] + n /\ used[s] \in Int
        BY <1>0, <3>1
      <4> DEFINE w == (now - s) * rate
      <4>3. w \in Int /\ capacity \in Int
        BY <1>0
      <4>4. Left(now', used', s) = capacity + w - used'[s]
            /\ Left(now, used, s) = capacity + w - used[s]
        BY <2>1 DEF Left
      <4> HIDE DEF w
      <4> QED BY <4>1, <4>2, <4>3, <4>4
    <3>4. used' \in [0 .. MaxTime -> Nat] /\ \A s \in 0 .. MaxTime : s > now => used'[s] = 0
      BY <1>0, <3>1
    <3> HIDE DEF full, in
    <3>5. \A s \in 0 .. now' : full' <= Left(now', used', s)
      BY <1>0, <1>2, <2>1, <3>2, <3>3, SMTT(30) DEF full
    <3>6. \E s \in 0 .. now' : full' = Left(now', used', s)
      BY <1>0, <2>1, <3>2, <3>3 DEF full
    <3> QED BY <1>0, <2>1, <3>2, <3>4, <3>5, <3>6 DEF BucketInv, full, Bucket!Times
  <2>5. CASE ~ (full >= n)
    <3>1. tokens' = full /\ used' = used
      BY <1>4, <2>5 DEF Bucket!consume
    <3>2. full' = full
      BY <1>2, <2>3, <3>1
    <3>3. \A s \in 0 .. now : Left(now', used', s) = Left(now, used, s)
      BY <2>1, <3>1 DEF Left
    <3> HIDE DEF full, in
    <3> QED BY <1>0, <1>2, <2>1, <3>1, <3>2, <3>3 DEF BucketInv, full, Bucket!Times
  <2> QED BY <2>4, <2>5
<1> QED BY <1>3, <1>4 DEF Bucket!Next

\* The least of what the windows leave is what the bucket holds.
LEMMA BucketExact == BucketInv => RateExact
<1> SUFFICES ASSUME BucketInv PROVE RateExact
  OBVIOUS
<1>0. /\ capacity \in Nat /\ rate \in Nat
      /\ tokens \in 0 .. capacity /\ now \in Nat /\ last_time \in 0 .. now
      /\ \A s \in 0 .. now : Bucket!Refilled <= Left(now, used, s)
      /\ \E s \in 0 .. now : Bucket!Refilled = Left(now, used, s)
  BY SrvTestsAssumption DEF BucketInv, Bucket!Times
<1>1. Bucket!Refilled \in Nat
  BY <1>0, Flows, RefilledIs
<1> DEFINE S == {Left(now, used, s) : s \in 0 .. now}
<1>2. Bucket!Allowed = Bucket!Min(S)
  BY DEF Bucket!Allowed, Left
<1>3. Bucket!Refilled \in S /\ \A y \in S : Bucket!Refilled <= y
  BY <1>0
<1>4. \A y \in S : y \in Int
  <2>1. now <= MaxTime /\ used \in [0 .. MaxTime -> Nat]
    BY SrvTestsAssumption DEF BucketInv, Bucket!Times
  <2> QED BY <1>0, <2>1, LeftIsInt
<1> HIDE DEF S
<1>5. Bucket!Min(S) = Bucket!Refilled
  <2>1. Bucket!Min(S) \in S /\ \A y \in S : Bucket!Min(S) <= y
    BY <1>3 DEF Bucket!Min
  <2> DEFINE m == Bucket!Min(S)
             r == Bucket!Refilled
  <2>2. m \in S /\ r \in S /\ m <= r /\ r <= m
    BY <1>3, <2>1
  <2>3. m \in Int /\ r \in Int
    BY <1>4, <2>2
  <2> HIDE DEF m, r
  <2>4. m = r
    BY <2>2, <2>3
  <2> QED BY <2>4 DEF m, r
<1> QED BY <1>1, <1>2, <1>5 DEF RateExact, Bucket!RateExact

-----------------------------------------------------------------------------
(* dpa_scheduler                                                           *)

\* There is at least one port on the larger side.
LEMMA NIsNat == N \in Nat \ {0}
  BY DpaAssumption DEF N

\* a is in row q and column r, of rows of n.
At(a, n, q, r) == a = q * n + r
Divides(a, n, q, r) == a \div n = q /\ a % n = r

\* A division and its remainder.
LEMMA Divided ==
  ASSUME NEW n \in Nat \ {0}, NEW q \in Nat, NEW r \in 0 .. n - 1,
         NEW a \in Nat, At(a, n, q, r)
  PROVE  Divides(a, n, q, r)
<1>0. PICK d, m : d = a \div n /\ m = a % n
  OBVIOUS
<1>2. d \in Int /\ m \in 0 .. n - 1 /\ a = n * d + m
  BY <1>0
<1>1. a = q * n + r
  BY DEF At
<1>3. n * (q - d) = m - r
  <2>1. n * (q - d) = n * q - n * d
    BY <1>2
  <2> QED BY <1>1, <1>2, <2>1
<1>4. q = d
  <2> DEFINE e == q - d
  <2>1. e \in Int /\ n * e = m - r
    BY <1>2, <1>3
  <2> HIDE DEF e
  <2>2. n * e < n /\ n * e > 0 - n
    BY <1>2, <2>1
  <2>3. e >= 1 => n * e >= n
    BY <2>1
  <2>4. e <= -1 => n * e <= 0 - n
    BY <2>1
  <2>5. e = 0
    BY <2>1, <2>2, <2>3, <2>4
  <2> QED BY <1>2, <2>5 DEF e
<1>5. r = m
  BY <1>1, <1>2, <1>4
<1> QED BY <1>0, <1>4, <1>5, Zenon DEF Divides

\* The table sends row r and column c of the sweep to the cell on that
\* diagonal and in that column.
LEMMA CellIs ==
  ASSUME NEW ptr \in Ports, NEW row \in Ports, NEW col \in Ports, NEW k \in Nat,
         k = ((row - ptr) % N) * N + col
  PROVE  Cell(ptr, k) = <<(row - col) % N, col>>
<1> DEFINE n == N
           q == (row - ptr) % n
<1>1. /\ n \in Nat \ {0} /\ ptr \in 0 .. n - 1 /\ row \in 0 .. n - 1
      /\ col \in 0 .. n - 1
  BY NIsNat DEF Ports
<1>2. q \in 0 .. n - 1 /\ q = IF row >= ptr THEN row - ptr ELSE row - ptr + n
  <2> HIDE DEF n
  <2> QED BY <1>1, RoundOnce
<1>3. k \div n = q /\ k % n = col
  <2> HIDE DEF n, q
  <2>1. At(k, n, q, col)
    BY DEF n, q, At
  <2>2. q \in Nat
    BY <1>2
  <2>3. Divides(k, n, q, col)
    BY <1>1, <2>1, <2>2, Divided
  <2> QED BY <2>3, Zenon DEF Divides
<1>4. (ptr + q) % n = row
  <2> HIDE DEF n, q
  <2>1. CASE row >= ptr
    BY <1>1, <1>2, <2>1, Remainder
  <2>2. CASE ~ (row >= ptr)
    <3>1. ptr + q = row + n
      BY <1>1, <1>2, <2>2
    <3> QED BY <1>1, <3>1, Remainder
  <2> QED BY <2>1, <2>2
<1> DEFINE high == row + n - 1 - col
           lower == IF high < n - 1 THEN high + n ELSE high
           diag == (row - col) % n
<1>5. /\ high \in 0 .. 2 * n - 2
      /\ diag \in 0 .. n - 1 /\ lower - (n - 1) = diag
  <2> HIDE DEF n, q
  <2>1. diag = IF row >= col THEN row - col ELSE row - col + n
    BY <1>1, RoundOnce
  <2> QED BY <1>1, <2>1
<1>6. m_dpa_map[high][col] = diag * n + col
  <2>1. m_dpa_map[high][col] = (lower - (n - 1)) * n + col
    BY <1>1, <1>5 DEF m_dpa_map
  <2> QED BY <1>5, <2>1
<1>7. (diag * n + col) \div n = diag /\ (diag * n + col) % n = col
  <2>1. diag \in Nat
    BY <1>1, <1>5
  <2> DEFINE cur == diag * n + col
  <2>2. cur \in Nat
    BY <1>1, <2>1
  <2>3. At(cur, n, diag, col)
    BY DEF At
  <2> HIDE DEF n, diag, cur
  <2>4. Divides(cur, n, diag, col)
    BY <1>1, <2>1, <2>2, <2>3, Divided
  <2> QED BY <2>4, Zenon DEF Divides, cur
<1>8. Cell(ptr, k) = <<m_dpa_map[high][col] \div n, m_dpa_map[high][col] % n>>
  BY <1>3, <1>4 DEF Cell
<1> QED BY <1>6, <1>7, <1>8

\* Wherever a sweep starts, it comes by every cell.
LEMMA SweepCovers ==
  ASSUME NEW ptr \in Ports
  PROVE  /\ Len(Sweep[ptr]) = N * N /\ N * N \in Nat
         /\ \A c \in Ports \X Ports : \E k \in 1 .. N * N : Sweep[ptr][k] = c
<1>0. N \in Nat \ {0} /\ N * N \in Nat
  BY NIsNat
<1>1. Sweep[ptr] = [k \in 1 .. N * N |-> Cell(ptr, k - 1)]
  BY DEF Sweep
<1>2. Len(Sweep[ptr]) = N * N
  <2> DEFINE n == N * N
             s == [k \in 1 .. n |-> Cell(ptr, k - 1)]
  <2> HIDE DEF n
  <2>1. n \in Nat
    BY <1>0 DEF n
  <2>2. Len(s) = n
    BY <2>1
  <2> QED BY <1>1, <2>2 DEF n
<1>3. ASSUME NEW a \in Ports, NEW b \in Ports
      PROVE  \E k \in 1 .. N * N : Sweep[ptr][k] = <<a, b>>
  <2> DEFINE row == IF a + b < N THEN a + b ELSE a + b - N
             q == (row - ptr) % N
             k == q * N + b
  <2>1. /\ row \in Ports /\ a \in 0 .. N - 1 /\ b \in 0 .. N - 1 /\ ptr \in 0 .. N - 1
    BY <1>0 DEF Ports
  <2>2. q \in 0 .. N - 1
    <3> HIDE DEF row
    <3> QED BY <1>0, <2>1 DEF Ports
  <2>3. k \in 0 .. N * N - 1
    <3> HIDE DEF q
    <3>1. q * N <= (N - 1) * N
      BY <1>0, <2>2
    <3>2. (N - 1) * N = N * N - N /\ q * N \in Nat
      BY <1>0, <2>2
    <3> QED BY <1>0, <2>1, <3>1, <3>2
  <2>4. (row - b) % N = a
    <3>1. (row - b) % N = IF row >= b THEN row - b ELSE row - b + N
      <4> HIDE DEF row
      <4> QED BY <1>0, <2>1, RoundOnce DEF Ports
    <3> QED BY <1>0, <2>1, <3>1
  <2>5. Cell(ptr, k) = <<a, b>>
    <3>1. b \in Ports /\ k \in Nat
      BY <1>0, <2>3
    <3>2. row \in Ports
      BY <2>1
    <3>3. k = ((row - ptr) % N) * N + b
      OBVIOUS
    <3> HIDE DEF k, q, row
    <3>4. Cell(ptr, k) = <<(row - b) % N, b>>
      BY <3>1, <3>2, <3>3, CellIs
    <3> QED BY <2>4, <3>4
  <2>6. k + 1 \in 1 .. N * N /\ Sweep[ptr][k + 1] = Cell(ptr, k)
    <3>1. k + 1 \in 1 .. N * N
      <4> HIDE DEF k
      <4> QED BY <1>0, <2>3
    <3>2. (k + 1) - 1 = k
      <4> HIDE DEF k
      <4> QED BY <1>0, <2>3
    <3> HIDE DEF k
    <3> QED BY <1>1, <3>1, <3>2
  <2> HIDE DEF k
  <2> QED BY <2>5, <2>6
<1>4. ASSUME NEW c \in Ports \X Ports
      PROVE  \E k \in 1 .. N * N : Sweep[ptr][k] = c
  <2>1. PICK a \in Ports, b \in Ports : c = <<a, b>>
    OBVIOUS
  <2>2. \E k \in 1 .. N * N : Sweep[ptr][k] = <<a, b>>
    BY <1>3
  <2> QED BY <2>1, <2>2
<1>5. \A c \in Ports \X Ports : \E k \in 1 .. N * N : Sweep[ptr][k] = c
  BY <1>4
<1> QED BY <1>0, <1>2, <1>5

\* The cells granted when k cells of a sweep have been visited, for every k at
\* once: f is what Granted computes step by step.
Visited(f, sweep, upTo) ==
  f = [k \in 0 .. upTo |->
        IF k = 0 THEN {}
        ELSE LET before == f[k - 1]
             IN  IF sweep[k] \in m_requests /\ Open(sweep[k], before)
                 THEN before \cup {sweep[k]}
                 ELSE before]

\* It can be computed for a sweep of any length.
LEMMA VisitedExists ==
  ASSUME NEW sweep, NEW n \in Nat
  PROVE  \E f : Visited(f, sweep, n)
<1> DEFINE S == {m \in Nat : \E f : Visited(f, sweep, m)}
<1>1. 0 \in S
  <2> DEFINE f == [k \in 0 .. 0 |-> {}]
  <2>1. Visited(f, sweep, 0)
    BY DEF Visited
  <2> QED BY <2>1
<1>2. ASSUME NEW m \in S PROVE m + 1 \in S
  <2>1. m \in Nat
    OBVIOUS
  <2>2. PICK f : Visited(f, sweep, m)
    OBVIOUS
  <2> DEFINE Next1(before, c) == IF c \in m_requests /\ Open(c, before)
                                 THEN before \cup {c} ELSE before
             g == [k \in 0 .. m + 1 |-> IF k = m + 1 THEN Next1(f[m], sweep[m + 1])
                                        ELSE f[k]]
             h == [k \in 0 .. m + 1 |-> IF k = 0 THEN {} ELSE Next1(g[k - 1], sweep[k])]
  <2>3. f = [k \in 0 .. m |-> IF k = 0 THEN {} ELSE Next1(f[k - 1], sweep[k])]
    BY <2>2 DEF Visited
  <2> HIDE DEF Next1
  <2>4. ASSUME NEW k \in 0 .. m + 1
        PROVE  g[k] = IF k = 0 THEN {} ELSE Next1(g[k - 1], sweep[k])
    <3>1. CASE k = m + 1
      <4>1. k - 1 = m /\ m \in 0 .. m + 1 /\ m # m + 1 /\ k # 0
        BY <2>1, <3>1
      <4>2. g[m] = f[m] /\ g[k] = Next1(f[m], sweep[m + 1])
        BY <2>1, <3>1, <4>1
      <4> QED BY <3>1, <4>1, <4>2
    <3>2. CASE k # m + 1
      <4>1. k \in 0 .. m /\ g[k] = f[k]
        BY <2>1, <3>2
      <4>2. k # 0 => g[k - 1] = f[k - 1]
        BY <2>1, <3>2
      <4>3. f[k] = IF k = 0 THEN {} ELSE Next1(f[k - 1], sweep[k])
        BY <2>3, <4>1
      <4> QED BY <4>1, <4>2, <4>3
    <3> QED BY <3>1, <3>2
  <2>5. g = h
    BY <2>4
  <2>6. Visited(g, sweep, m + 1)
    <3> HIDE DEF g
    <3>1. g = [k \in 0 .. m + 1 |-> IF k = 0 THEN {} ELSE Next1(g[k - 1], sweep[k])]
      BY <2>5
    <3> QED BY <3>1 DEF Visited, Next1
  <2> HIDE DEF g
  <2> QED BY <2>1, <2>6
<1>3. S = Nat
  <2> HIDE DEF S
  <2>1. S \in SUBSET Nat
    BY DEF S
  <2> QED BY <1>1, <1>2, <2>1, SetInduction
<1> QED BY <1>3

\* Granted is what it ends with.
LEMMA GrantedIs ==
  ASSUME NEW sweep, Len(sweep) \in Nat
  PROVE  \E f : Visited(f, sweep, Len(sweep)) /\ Granted(sweep) = f[Len(sweep)]
<1> DEFINE f == CHOOSE f : Visited(f, sweep, Len(sweep))
<1>1. Visited(f, sweep, Len(sweep))
  BY VisitedExists
<1>2. Granted(sweep) = f[Len(sweep)]
  BY DEF Granted, Visited
<1> QED BY <1>1, <1>2

\* What a sweep grants: requesting pairs, no row and no column twice, and of
\* the requesting pairs it comes by none that could be added.
LEMMA GrantedFacts ==
  ASSUME NEW sweep, Len(sweep) \in Nat
  PROVE  /\ Granted(sweep) \subseteq m_requests
         /\ \A x, y \in Granted(sweep) : x # y => x[1] # y[1] /\ x[2] # y[2]
         /\ \A k \in 1 .. Len(sweep) :
              sweep[k] \in m_requests => ~ Open(sweep[k], Granted(sweep))
<1> DEFINE n == Len(sweep)
<1>1. PICK f : Visited(f, sweep, n) /\ Granted(sweep) = f[n]
  BY GrantedIs
<1> HIDE DEF n
<1>2. n \in Nat
  BY DEF n
<1>3. f[0] = {}
  BY <1>1, <1>2 DEF Visited
<1>4. ASSUME NEW k \in 1 .. n
      PROVE  f[k] = IF sweep[k] \in m_requests /\ Open(sweep[k], f[k - 1])
                    THEN f[k - 1] \cup {sweep[k]} ELSE f[k - 1]
  <2> DEFINE More(before, c) == IF c \in m_requests /\ Open(c, before)
                                THEN before \cup {c} ELSE before
  <2>1. f = [j \in 0 .. n |-> IF j = 0 THEN {} ELSE More(f[j - 1], sweep[j])]
    BY <1>1 DEF Visited
  <2> HIDE DEF More
  <2>2. k \in 0 .. n /\ k # 0
    BY <1>2
  <2>3. f[k] = More(f[k - 1], sweep[k])
    BY <2>1, <2>2
  <2> QED BY <2>3 DEF More
<1> DEFINE Good(g) == /\ g \subseteq m_requests
                      /\ \A x, y \in g : x # y => x[1] # y[1] /\ x[2] # y[2]
           Done(k) == \A j \in 1 .. k :
                        sweep[j] \in m_requests => ~ Open(sweep[j], f[k])
           S == {k \in Nat : k <= n => Good(f[k]) /\ Done(k)}
<1>5. 0 \in S
  BY <1>3
<1>6. ASSUME NEW k \in S PROVE k + 1 \in S
  <2> SUFFICES ASSUME k + 1 <= n PROVE Good(f[k + 1]) /\ Done(k + 1)
    OBVIOUS
  <2>1. /\ k \in Nat /\ k + 1 \in 1 .. n /\ (k + 1) - 1 = k
        /\ Good(f[k]) /\ Done(k)
    BY <1>2
  <2> DEFINE c == sweep[k + 1]
  <2>2. f[k + 1] = IF c \in m_requests /\ Open(c, f[k]) THEN f[k] \cup {c} ELSE f[k]
    BY <1>4, <2>1
  <2> HIDE DEF c
  <2>3. Good(f[k + 1])
    BY <2>1, <2>2 DEF Open
  <2>4. f[k] \subseteq f[k + 1]
    BY <2>2
  <2>5. c \in m_requests => ~ Open(c, f[k + 1])
    BY <2>2 DEF Open
  <2>6. ASSUME NEW j \in 1 .. k + 1, sweep[j] \in m_requests
        PROVE  ~ Open(sweep[j], f[k + 1])
    <3>1. CASE j = k + 1
      BY <2>5, <2>6, <3>1 DEF c
    <3>2. CASE j # k + 1
      <4>1. j \in 1 .. k
        BY <2>1, <3>2
      <4>2. ~ Open(sweep[j], f[k])
        BY <2>1, <2>6, <4>1
      <4> QED BY <2>4, <4>2 DEF Open
    <3> QED BY <3>1, <3>2
  <2> QED BY <2>3, <2>6
<1>7. S = Nat
  <2> HIDE DEF S
  <2>1. S \in SUBSET Nat
    BY DEF S
  <2> QED BY <1>5, <1>6, <2>1, SetInduction
<1>8. Good(f[n]) /\ Done(n)
  BY <1>2, <1>7
<1> QED BY <1>1, <1>8 DEF n

DpaInv == TypeOK /\ Matching

\* The arbiter starts without requests or grants.
LEMMA DpaInit == Init => DpaInv
  BY NIsNat DEF Init, DpaInv, TypeOK, Matching, Ports

\* An arbitration replaces every grant.
LEMMA Arbitrated ==
  ASSUME TypeOK, arbitration
  PROVE  m_grants' = Granted(Sweep[m_ptr]) /\ m_requests' = m_requests
<1> DEFINE sweep == Sweep[m_ptr]
<1>1. /\ m_grants' = (m_grants \ {sweep[k] : k \in DOMAIN sweep}) \cup Granted(sweep)
      /\ m_requests' = m_requests
  BY DEF arbitration
<1>2. /\ m_ptr \in Ports /\ m_grants \subseteq Ports \X Ports
  BY DEF TypeOK
<1>3. \A c \in Ports \X Ports : \E k \in 1 .. N * N : sweep[k] = c
  BY <1>2, SweepCovers
<1>4. DOMAIN sweep = 1 .. N * N
  BY <1>2 DEF Sweep
<1> HIDE DEF sweep
<1>5. m_grants \subseteq {sweep[k] : k \in DOMAIN sweep}
  BY <1>2, <1>3, <1>4
<1> QED BY <1>1, <1>5 DEF sweep

\* An arbitration leaves a matching of the requests, and a request changes no
\* grant.
LEMMA DpaStep ==
  ASSUME DpaInv, [Requests \/ arbitration]_vars
  PROVE  DpaInv'
<1>1. ASSUME NEW i \in -1 .. N, NEW j \in -1 .. N, request(i, j) PROVE DpaInv'
  <2>1. m_ptr' = m_ptr /\ m_grants' = m_grants /\ m_requests \subseteq m_requests'
    BY <1>1 DEF request
  <2>2. m_requests' \subseteq Ports \X Ports
    <3>1. CASE is_valid_port(i) /\ is_valid_port(j)
      <4>1. i \in Ports /\ j \in Ports
        BY <3>1, NIsNat DEF is_valid_port, Ports
      <4> QED BY <1>1, <3>1, <4>1 DEF request, DpaInv, TypeOK
    <3>2. CASE ~ (is_valid_port(i) /\ is_valid_port(j))
      BY <1>1, <3>2 DEF request, DpaInv, TypeOK
    <3> QED BY <3>1, <3>2
  <2> QED BY <2>1, <2>2 DEF DpaInv, TypeOK, Matching
<1>2. CASE arbitration
  <2>1. m_ptr' \in Ports
    BY <1>2, NIsNat DEF arbitration, Ports, DpaInv, TypeOK
  <2>2. /\ m_grants' = Granted(Sweep[m_ptr]) /\ m_requests' = m_requests
        /\ m_ptr \in Ports /\ m_requests \subseteq Ports \X Ports
    BY <1>2, Arbitrated DEF DpaInv, TypeOK
  <2>3. Len(Sweep[m_ptr]) \in Nat
    BY <2>2, SweepCovers
  <2>4. /\ m_grants' \subseteq m_requests'
        /\ \A x, y \in m_grants' : x # y => x[1] # y[1] /\ x[2] # y[2]
    BY <2>2, <2>3, GrantedFacts
  <2> QED BY <2>1, <2>2, <2>4 DEF DpaInv, TypeOK, Matching
<1>3. CASE UNCHANGED vars
  BY <1>3 DEF vars, DpaInv, TypeOK, Matching
<1> QED BY <1>1, <1>2, <1>3 DEF Requests

\* No requesting pair is left whose row and column are both free.
LEMMA NoneLeftOut ==
  ASSUME DpaInv, arbitration, NEW c \in m_requests
  PROVE  ~ Open(c, m_grants')
<1>1. /\ m_grants' = Granted(Sweep[m_ptr]) /\ m_ptr \in Ports
      /\ c \in Ports \X Ports
  BY Arbitrated DEF DpaInv, TypeOK
<1>2. /\ Len(Sweep[m_ptr]) = N * N /\ N * N \in Nat
      /\ \E k \in 1 .. N * N : Sweep[m_ptr][k] = c
  BY <1>1, SweepCovers
<1> QED BY <1>1, <1>2, GrantedFacts

-----------------------------------------------------------------------------
\* The invariant of the whole program.
IInv == SchInv /\ PfcInv /\ NodeInv /\ BucketInv /\ DpaInv

\* Every object starts sound.
LEMMA InitIInv == TestsInit => IInv
  BY SchInit, PfcInit, NodeInit, BucketInit, DpaInit DEF TestsInit, IInv

\* A call of one object leaves the others alone and its own invariant true.
LEMMA StepIInv == IInv /\ [TestsNext]_testVars => IInv'
<1> SUFFICES ASSUME IInv, [TestsNext]_testVars PROVE IInv'
  OBVIOUS
<1>1. UNCHANGED schVars => SchInv'
  BY DEF IInv, SchInv, schVars
<1>2. UNCHANGED pfcVars => PfcInv' /\ NodeInv'
  BY DEF IInv, PfcInv, NodeInv, pfcVars
<1>3. UNCHANGED bucketVars => BucketInv'
  BY DEF IInv, BucketInv, bucketVars, Bucket!Refilled
<1>4. UNCHANGED vars => DpaInv'
  BY DpaStep DEF IInv
<1>5. CASE Tokenbucket
  BY <1>1, <1>2, <1>4, <1>5, BucketStep DEF IInv, Tokenbucket
<1>6. CASE PFC
  BY <1>1, <1>3, <1>4, <1>6, PfcStep, NodeStep DEF IInv, PFC
<1>7. CASE Dpa_request
  BY <1>1, <1>2, <1>3, <1>7, DpaStep DEF IInv, Dpa_request
<1>8. CASE Dpa_arbitration
  BY <1>1, <1>2, <1>3, <1>8, DpaStep DEF IInv, Dpa_arbitration
<1>9. CASE TEST_sch
  BY <1>2, <1>3, <1>4, <1>9, SchStep DEF IInv, TEST_sch
<1>10. CASE UNCHANGED testVars
  BY <1>1, <1>2, <1>3, <1>4, <1>10 DEF IInv, testVars
<1> QED BY <1>5, <1>6, <1>7, <1>8, <1>9, <1>10 DEF TestsNext

\* Every object of the tests keeps its invariant.
THEOREM TestsSound == TestsSpec => []IInv
  BY InitIInv, StepIInv, PTL DEF TestsSpec

\* The bucket hands out what its rate and capacity allow (test.cpp:210-228).
THEOREM Exact == TestsSpec => []RateExact
<1>1. IInv => RateExact
  BY BucketExact DEF IInv
<1> QED BY TestsSound, <1>1, PTL

\* The counter of the node is the data in its buffer (test.cpp:254-275).
THEOREM Usage == TestsSpec => []UsageIsExact
<1>1. IInv => UsageIsExact
  BY DEF IInv, NodeInv, UsageIsExact, Pfc!UsageIsExact, Total
<1> QED BY TestsSound, <1>1, PTL

\* The grants are a matching of requests (dpa.cpp:79-122).
THEOREM GrantsMatch == TestsSpec => []Matching
<1>1. IInv => Matching
  BY DEF IInv, DpaInv
<1> QED BY TestsSound, <1>1, PTL

\* ... that cannot be extended (dpa.cpp:40-51, 85-122).
THEOREM GrantsMaximal == TestsSpec => Maximal
<1>1. IInv /\ [TestsNext]_testVars
        => [arbitration => \A c \in m_requests : ~ Open(c, m_grants')]_vars
  BY NoneLeftOut DEF IInv
<1> QED BY TestsSound, <1>1, PTL DEF TestsSpec, Maximal

\* A grant brings every other waiting input closer to its turn (sch.cpp:36-41).
THEOREM Bypass == TestsSpec => BoundedBypass
<1>1. IInv /\ [TestsNext]_testVars
        => [Sch!rr_sch =>
              /\ Sch!Waiting # {} => sch_ret' \in Sch!Waiting
              /\ \A i \in Sch!Waiting \ {sch_ret'} :
                   Sch!Distance(i)' < Sch!Distance(i)]_(Sch!vars)
  BY GrantBringsCloser DEF IInv
<1> QED BY TestsSound, <1>1, PTL DEF TestsSpec, BoundedBypass, Sch!BoundedBypass

\* Nothing is dropped from a queue that was not announced (test.cpp:340-349).
THEOREM Announced == TestsSpec => PausedBeforeDropped
<1>1. IInv /\ [TestsNext]_testVars
        => [\A p \in Priorities :
              Pfc!sendPacket(p) /\ dropped' = {p} => p \in frames]_(Pfc!pfcVars)
  BY DropWasAnnounced DEF IInv
<1> QED BY TestsSound, <1>1, PTL
        DEF TestsSpec, PausedBeforeDropped, Pfc!PausedBeforeDropped
=============================================================================
