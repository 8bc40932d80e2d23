---------------------------- MODULE Accl_proofs -----------------------------
(***************************************************************************)
(* Proofs about the accelerator, for every family size K, every number of  *)
(* sgs, all pool sizes and all delays.  mth_entry is a chain of calls on a *)
(* record of the state, so the facts are stated for the parts of any such  *)
(* record: the free ids of a level, the links between two levels, and the  *)
(* beats under way.                                                        *)
(***************************************************************************)
EXTENDS Accl, PeqOps_proofs

-----------------------------------------------------------------------------
(* Queues of ids                                                           *)

\* What an id joined at the end does to a queue.
LEMMA Joined ==
  ASSUME NEW S, NEW q \in Seq(S), NEW x \in S
  PROVE  /\ Append(q, x) \in Seq(S) /\ Len(Append(q, x)) = Len(q) + 1
         /\ Elems(Append(q, x)) = Elems(q) \cup {x}
         /\ Distinct(q) /\ x \notin Elems(q) => Distinct(Append(q, x))
<1> DEFINE r == Append(q, x)
           n == Len(q)
<1>1. /\ r \in Seq(S) /\ Len(r) = n + 1 /\ n \in Nat
      /\ DOMAIN q = 1 .. n /\ DOMAIN r = 1 .. n + 1
      /\ \A i \in 1 .. n : r[i] = q[i]
      /\ r[n + 1] = x
  OBVIOUS
<1> HIDE DEF r, n
<1>2. Elems(r) = Elems(q) \cup {x}
  <2>1. \A i \in 1 .. n + 1 : i \in 1 .. n \/ i = n + 1
    BY <1>1
  <2>2. n + 1 \in 1 .. n + 1 /\ \A i \in 1 .. n : i \in 1 .. n + 1
    BY <1>1
  <2> QED BY <1>1, <2>1, <2>2 DEF Elems
<1>3. ASSUME Distinct(q), x \notin Elems(q) PROVE Distinct(r)
  <2> SUFFICES ASSUME NEW i \in 1 .. n + 1, NEW j \in 1 .. n + 1, r[i] = r[j]
               PROVE  i = j
    BY <1>1 DEF Distinct
  <2>1. (i \in 1 .. n \/ i = n + 1) /\ (j \in 1 .. n \/ j = n + 1)
    BY <1>1
  <2>2. \A k \in 1 .. n : r[k] # x
    BY <1>1, <1>3 DEF Elems
  <2> QED BY <1>1, <1>3, <2>1, <2>2 DEF Distinct
<1> QED BY <1>1, <1>2, <1>3 DEF r, n

\* Two queues, one behind the other: what they hold.
LEMMA Both ==
  ASSUME NEW S, NEW a \in Seq(S), NEW b \in Seq(S), NEW r, r = Cat(a, b)
  PROVE  Elems(r) = Elems(a) \cup Elems(b)
<1> DEFINE m == Len(a)
           n == Len(b)
<1>1. /\ r \in Seq(S) /\ Len(r) = m + n /\ m \in Nat /\ n \in Nat
      /\ DOMAIN r = 1 .. m + n /\ DOMAIN a = 1 .. m /\ DOMAIN b = 1 .. n
      /\ \A i \in 1 .. m + n : r[i] = IF i <= m THEN a[i] ELSE b[i - m]
  <2>1. r = a \o b
    BY DEF Cat
  <2> QED BY <2>1, ConcatProperties
<1> HIDE DEF m, n
<1>2. /\ \A i \in 1 .. m : i \in 1 .. m + n /\ r[i] = a[i]
      /\ \A j \in 1 .. n : m + j \in 1 .. m + n /\ r[m + j] = b[j]
  <2>1. ASSUME NEW i \in 1 .. m PROVE i \in 1 .. m + n /\ r[i] = a[i]
    BY <1>1
  <2>2. ASSUME NEW j \in 1 .. n PROVE m + j \in 1 .. m + n /\ r[m + j] = b[j]
    <3>1. m + j \in 1 .. m + n /\ ~ (m + j <= m) /\ m + j - m = j
      BY <1>1
    <3> QED BY <1>1, <3>1
  <2> QED BY <2>1, <2>2
<1>3. ASSUME NEW i \in 1 .. m + n
      PROVE  i \in 1 .. m \/ \E j \in 1 .. n : i = m + j
  <2>1. CASE i <= m
    BY <1>1, <2>1
  <2>2. CASE ~ (i <= m)
    <3>1. i - m \in 1 .. n /\ i = m + (i - m)
      BY <1>1, <2>2
    <3> QED BY <3>1
  <2> QED BY <2>1, <2>2
<1>4. Elems(r) = Elems(a) \cup Elems(b)
  <2>1. Elems(r) \subseteq Elems(a) \cup Elems(b)
    <3> SUFFICES ASSUME NEW i \in 1 .. m + n PROVE r[i] \in Elems(a) \cup Elems(b)
      BY <1>1 DEF Elems
    <3>1. CASE i \in 1 .. m
      BY <1>1, <1>2, <3>1 DEF Elems
    <3>2. ASSUME NEW j \in 1 .. n, i = m + j PROVE r[i] \in Elems(b)
      BY <1>1, <1>2, <3>2 DEF Elems
    <3> QED BY <1>3, <3>1, <3>2
  <2>2. Elems(a) \subseteq Elems(r)
    BY <1>1, <1>2 DEF Elems
  <2>3. Elems(b) \subseteq Elems(r)
    <3> SUFFICES ASSUME NEW j \in 1 .. n PROVE b[j] \in Elems(r)
      BY <1>1 DEF Elems
    <3>1. m + j \in DOMAIN r /\ r[m + j] = b[j]
      BY <1>1, <1>2
    <3> QED BY <3>1 DEF Elems
  <2> QED BY <2>1, <2>2, <2>3
<1> QED BY <1>4

\* ... and that none is held twice.
LEMMA BothOnce ==
  ASSUME NEW S, NEW a \in Seq(S), NEW b \in Seq(S), NEW r, r = Cat(a, b)
  PROVE  Distinct(r) <=> /\ Distinct(a) /\ Distinct(b)
                         /\ Elems(a) \cap Elems(b) = {}
<1> DEFINE m == Len(a)
           n == Len(b)
<1>1. /\ r \in Seq(S) /\ Len(r) = m + n /\ m \in Nat /\ n \in Nat
      /\ DOMAIN r = 1 .. m + n /\ DOMAIN a = 1 .. m /\ DOMAIN b = 1 .. n
      /\ \A i \in 1 .. m + n : r[i] = IF i <= m THEN a[i] ELSE b[i - m]
  <2>1. r = a \o b
    BY DEF Cat
  <2> QED BY <2>1, ConcatProperties
<1> HIDE DEF m, n
<1>2. /\ \A i \in 1 .. m : i \in 1 .. m + n /\ r[i] = a[i]
      /\ \A j \in 1 .. n : m + j \in 1 .. m + n /\ r[m + j] = b[j]
  <2>1. ASSUME NEW i \in 1 .. m PROVE i \in 1 .. m + n /\ r[i] = a[i]
    BY <1>1
  <2>2. ASSUME NEW j \in 1 .. n PROVE m + j \in 1 .. m + n /\ r[m + j] = b[j]
    <3>1. m + j \in 1 .. m + n /\ ~ (m + j <= m) /\ m + j - m = j
      BY <1>1
    <3> QED BY <1>1, <3>1
  <2> QED BY <2>1, <2>2
<1>3. ASSUME NEW i \in 1 .. m + n
      PROVE  i \in 1 .. m \/ \E j \in 1 .. n : i = m + j
  <2>1. CASE i <= m
    BY <1>1, <2>1
  <2>2. CASE ~ (i <= m)
    <3>1. i - m \in 1 .. n /\ i = m + (i - m)
      BY <1>1, <2>2
    <3> QED BY <3>1
  <2> QED BY <2>1, <2>2
<1>4. ASSUME Distinct(r)
      PROVE  Distinct(a) /\ Distinct(b) /\ Elems(a) \cap Elems(b) = {}
  <2>1. Distinct(a)
    BY <1>1, <1>2, <1>4 DEF Distinct
  <2>2. Distinct(b)
    <3> SUFFICES ASSUME NEW i \in 1 .. n, NEW j \in 1 .. n, b[i] = b[j]
                 PROVE  i = j
      BY <1>1 DEF Distinct
    <3>1. m + i \in DOMAIN r /\ m + j \in DOMAIN r /\ r[m + i] = r[m + j]
      BY <1>1, <1>2
    <3>2. m + i = m + j
      BY <1>4, <3>1 DEF Distinct
    <3> QED BY <1>1, <3>2
  <2>3. ASSUME NEW i \in 1 .. m, NEW j \in 1 .. n, a[i] = b[j] PROVE FALSE
    <3>1. i \in DOMAIN r /\ m + j \in DOMAIN r /\ r[i] = r[m + j]
      BY <1>1, <1>2, <2>3
    <3>2. i = m + j
      BY <1>4, <3>1 DEF Distinct
    <3> QED BY <1>1, <3>2
  <2> QED BY <1>1, <2>1, <2>2, <2>3 DEF Elems
<1>5. ASSUME Distinct(a), Distinct(b), Elems(a) \cap Elems(b) = {}
      PROVE  Distinct(r)
  <2> SUFFICES ASSUME NEW i \in 1 .. m + n, NEW j \in 1 .. m + n, r[i] = r[j]
               PROVE  i = j
    BY <1>1 DEF Distinct
  <2>1. \A k \in 1 .. m : \A l \in 1 .. n : a[k] # b[l]
    BY <1>1, <1>5 DEF Elems
  <2>2. CASE i \in 1 .. m /\ j \in 1 .. m
    BY <1>1, <1>2, <1>5, <2>2 DEF Distinct
  <2>3. ASSUME NEW k \in 1 .. n, NEW l \in 1 .. n, i = m + k, j = m + l PROVE i = j
    <3>1. b[k] = b[l]
      BY <1>2, <2>3
    <3>2. k = l
      BY <1>1, <1>5, <3>1 DEF Distinct
    <3> QED BY <2>3, <3>2
  <2>4. ASSUME NEW k \in 1 .. n, i = m + k, j \in 1 .. m PROVE FALSE
    BY <1>1, <1>2, <2>1, <2>4
  <2>5. ASSUME NEW k \in 1 .. n, j = m + k, i \in 1 .. m PROVE FALSE
    BY <1>1, <1>2, <2>1, <2>5
  <2> QED BY <1>3, <2>2, <2>3, <2>4, <2>5
<1> QED BY <1>4, <1>5

\* A queue is its first n ids and the others.
LEMMA Parted ==
  ASSUME NEW S, NEW q \in Seq(S), NEW n \in 0 .. Len(q)
  PROVE  /\ SubSeq(q, 1, n) \in Seq(S) /\ Len(SubSeq(q, 1, n)) = n
         /\ SubSeq(q, n + 1, Len(q)) \in Seq(S)
         /\ Len(SubSeq(q, n + 1, Len(q))) = Len(q) - n
         /\ q = Cat(SubSeq(q, 1, n), SubSeq(q, n + 1, Len(q)))
         /\ Elems(q) = Elems(SubSeq(q, 1, n)) \cup Elems(SubSeq(q, n + 1, Len(q)))
         /\ Distinct(q) =>
              /\ Distinct(SubSeq(q, 1, n)) /\ Distinct(SubSeq(q, n + 1, Len(q)))
              /\ Elems(SubSeq(q, 1, n)) \cap Elems(SubSeq(q, n + 1, Len(q))) = {}
<1> DEFINE a == SubSeq(q, 1, n)
           b == SubSeq(q, n + 1, Len(q))
<1>1. /\ a \in Seq(S) /\ Len(a) = n /\ \A i \in 1 .. n : a[i] = q[i]
      /\ b \in Seq(S) /\ Len(b) = Len(q) - n /\ n \in Nat /\ Len(q) \in Nat
      /\ \A i \in 1 .. Len(q) - n : b[i] = q[i + n]
  OBVIOUS
<1> HIDE DEF a, b
<1>2. /\ a \o b \in Seq(S) /\ Len(a \o b) = Len(q)
      /\ \A i \in 1 .. Len(q) : (a \o b)[i] = IF i <= n THEN a[i] ELSE b[i - n]
  BY <1>1, ConcatProperties
<1>3. ASSUME NEW i \in 1 .. Len(q) PROVE q[i] = (a \o b)[i]
  <2>1. CASE i <= n
    BY <1>1, <1>2, <2>1
  <2>2. CASE ~ (i <= n)
    <3>1. i - n \in 1 .. Len(q) - n /\ i - n + n = i
      BY <1>1, <2>2
    <3> QED BY <1>1, <1>2, <2>2, <3>1
  <2> QED BY <2>1, <2>2
<1>4. q = Cat(a, b)
  BY <1>2, <1>3, SeqEqual DEF Cat
<1>5. /\ Elems(q) = Elems(a) \cup Elems(b)
      /\ Distinct(q) => Distinct(a) /\ Distinct(b) /\ Elems(a) \cap Elems(b) = {}
  <2>1. a \in Seq(S) /\ b \in Seq(S)
    BY <1>1
  <2> QED BY <2>1, <1>4, Both, BothOnce
<1> QED BY <1>1, <1>4, <1>5 DEF a, b

\* The first id of a queue and the others.
LEMMA Popped ==
  ASSUME NEW S, NEW q \in Seq(S), q # <<>>, Distinct(q)
  PROVE  /\ Head(q) \in S /\ Head(q) \in Elems(q) /\ Tail(q) \in Seq(S)
         /\ Distinct(Tail(q)) /\ Elems(Tail(q)) = Elems(q) \ {Head(q)}
<1> DEFINE r == Tail(q)
           n == Len(q)
<1>1. /\ n \in Nat \ {0} /\ DOMAIN q = 1 .. n /\ Head(q) = q[1] /\ Head(q) \in S
      /\ r \in Seq(S) /\ Len(r) = n - 1 /\ DOMAIN r = 1 .. n - 1
      /\ \A i \in 1 .. n - 1 : r[i] = q[i + 1]
  OBVIOUS
<1> HIDE DEF r, n
<1>2. 1 \in 1 .. n /\ \A i \in 1 .. n - 1 : i + 1 \in 1 .. n /\ i + 1 # 1
  BY <1>1
<1>3. Distinct(r)
  <2> SUFFICES ASSUME NEW i \in 1 .. n - 1, NEW j \in 1 .. n - 1, r[i] = r[j]
               PROVE  i = j
    BY <1>1 DEF Distinct
  <2>1. q[i + 1] = q[j + 1] /\ i + 1 \in DOMAIN q /\ j + 1 \in DOMAIN q
    BY <1>1, <1>2
  <2>2. i + 1 = j + 1
    BY <2>1, Zenon DEF Distinct
  <2> QED BY <1>1, <2>2
<1>4. Elems(r) = Elems(q) \ {q[1]}
  <2>1. ASSUME NEW i \in 1 .. n - 1 PROVE r[i] \in Elems(q) /\ r[i] # q[1]
    <3>1. r[i] = q[i + 1] /\ i + 1 \in DOMAIN q /\ 1 \in DOMAIN q /\ i + 1 # 1
      BY <1>1, <1>2
    <3>2. q[i + 1] # q[1]
      BY <3>1, Zenon DEF Distinct
    <3> QED BY <3>1, <3>2 DEF Elems
  <2>2. ASSUME NEW i \in 1 .. n, q[i] # q[1] PROVE q[i] \in Elems(r)
    <3>1. i - 1 \in 1 .. n - 1 /\ i - 1 + 1 = i
      BY <1>1, <2>2
    <3>2. r[i - 1] = q[i]
      BY <1>1, <3>1
    <3> QED BY <1>1, <3>1, <3>2, SMTT(30) DEF Elems
  <2> QED BY <1>1, <2>1, <2>2 DEF Elems
<1> QED BY <1>1, <1>2, <1>3, <1>4 DEF r, Elems

\* A queue of different ids has as many as it is long.
LEMMA Counted ==
  ASSUME NEW S, NEW q \in Seq(S), Distinct(q)
  PROVE  IsFiniteSet(Elems(q)) /\ Cardinality(Elems(q)) = Len(q)
<1>1. Len(q) \in Nat /\ DOMAIN q = 1 .. Len(q)
  OBVIOUS
<1>2. q \in Bijection(1 .. Len(q), Elems(q))
  <2>1. q \in [1 .. Len(q) -> Elems(q)]
    BY <1>1 DEF Elems
  <2>2. \A y \in Elems(q) : \E i \in 1 .. Len(q) : q[i] = y
    BY <1>1 DEF Elems
  <2>3. \A i, j \in 1 .. Len(q) : q[i] = q[j] => i = j
    BY <1>1 DEF Distinct
  <2> QED BY <2>1, <2>2, <2>3 DEF Bijection, Injection, IsInjective, Surjection
<1>3. ExistsBijection(1 .. Len(q), Elems(q))
  BY <1>2 DEF ExistsBijection
<1>4. IsFiniteSet(Elems(q))
  BY <1>1, <1>3, FS_NatBijection
<1> QED BY <1>1, <1>3, <1>4, FS_CountingElements

-----------------------------------------------------------------------------
(* The free ids of a level                                                 *)

\* f are the free ids of the level with the ids S, and a those in use.
Stocked(f, a, S) ==
  /\ f \in Seq(S) /\ Distinct(f)
  /\ Elems(f) \cup a = S /\ Elems(f) \cap a = {}

\* new are n ids of S, each once, none of them in use.
Fresh(new, n, a, S) ==
  /\ new \in Seq(S) /\ Distinct(new) /\ Elems(new) \cap a = {}
  /\ IsFiniteSet(Elems(new)) /\ Cardinality(Elems(new)) = n

\* Ids drawn from the front are in use from then on.
LEMMA StockDrawn ==
  ASSUME NEW S, NEW f, NEW a, Stocked(f, a, S), NEW n \in 0 .. Len(f),
         NEW new, new = SubSeq(f, 1, n)
  PROVE  /\ Fresh(new, n, a, S)
         /\ Stocked(SubSeq(f, n + 1, Len(f)), a \cup Elems(new), S)
<1> DEFINE rest == SubSeq(f, n + 1, Len(f))
<1>1. /\ f \in Seq(S) /\ Distinct(f)
  BY DEF Stocked
<1>2. /\ new \in Seq(S) /\ rest \in Seq(S) /\ Len(new) = n
      /\ Elems(f) = Elems(new) \cup Elems(rest)
      /\ Distinct(new) /\ Distinct(rest) /\ Elems(new) \cap Elems(rest) = {}
  BY <1>1, Parted
<1> HIDE DEF rest
<1>3. IsFiniteSet(Elems(new)) /\ Cardinality(Elems(new)) = n
  BY <1>1, <1>2, Counted
<1>4. Stocked(rest, a \cup Elems(new), S) /\ Elems(new) \cap a = {}
  BY <1>1, <1>2 DEF Stocked
<1> QED BY <1>1, <1>2, <1>3, <1>4 DEF rest, Fresh

\* An id that comes back is free from then on.
LEMMA StockReturned ==
  ASSUME NEW S, NEW f, NEW a, Stocked(f, a, S), NEW id \in a
  PROVE  Stocked(Append(f, id), a \ {id}, S)
<1>1. id \in S /\ id \notin Elems(f) /\ f \in Seq(S) /\ Distinct(f)
  BY DEF Stocked
<1>2. /\ Append(f, id) \in Seq(S) /\ Distinct(Append(f, id))
      /\ Elems(Append(f, id)) = Elems(f) \cup {id}
  BY <1>1, Joined
<1> QED BY <1>1, <1>2 DEF Stocked

-----------------------------------------------------------------------------
(* The links between two levels                                            *)

\* The children of p, what it has still to be given, what it got back.
KidsOf(par, p) == {x \in DOMAIN par : par[x] = p}
OwedTo(q, c, p) == IF q # <<>> /\ Head(q) = p THEN K - c
                   ELSE IF p \in Elems(q) THEN K ELSE 0
BackOf(ctx_l, p) == IF p \in DOMAIN ctx_l THEN ctx_l[p] ELSE 0

\* q is the split queue of a level, a its ids in use, c the children already
\* drawn for the id in front, par the parents of the level below and ctx_l the
\* children returned.  Whatever is mentioned is in use, and the books balance.
Linked(q, a, c, par, ctx_l) ==
  /\ q \in Seq(a) /\ Distinct(q)
  /\ c \in 0 .. K - 1 /\ (q = <<>> => c = 0)
  /\ IsFiniteSet(DOMAIN par) /\ \A x \in DOMAIN par : par[x] \in a
  /\ \A p \in DOMAIN ctx_l : p \in a /\ ctx_l[p] \in Nat \ {0}
  /\ \A p \in a : Cardinality(KidsOf(par, p)) + OwedTo(q, c, p) + BackOf(ctx_l, p) = K

\* The three terms of the balance are numbers.
LEMMA Numbers ==
  ASSUME NEW q, NEW a, NEW c, NEW par, NEW ctx_l, Linked(q, a, c, par, ctx_l), NEW p
  PROVE  /\ K \in Nat \ {0} /\ c \in 0 .. K - 1
         /\ IsFiniteSet(KidsOf(par, p)) /\ Cardinality(KidsOf(par, p)) \in Nat
         /\ OwedTo(q, c, p) \in Nat /\ BackOf(ctx_l, p) \in Nat
         /\ p \in Elems(q) => OwedTo(q, c, p) > 0
<1>1. K \in Nat \ {0} /\ c \in 0 .. K - 1
  BY AcclAssumption DEF Linked
<1>2. KidsOf(par, p) \in SUBSET DOMAIN par
  BY DEF KidsOf
<1>3. IsFiniteSet(KidsOf(par, p)) /\ Cardinality(KidsOf(par, p)) \in Nat
  BY <1>2, FS_Subset, FS_CardinalityType DEF Linked
<1>4. OwedTo(q, c, p) \in Nat /\ (p \in Elems(q) => OwedTo(q, c, p) > 0)
  BY <1>1 DEF OwedTo
<1>5. BackOf(ctx_l, p) \in Nat
  BY DEF Linked, BackOf
<1> QED BY <1>1, <1>3, <1>4, <1>5

\* New ids in use join the queue: they have no children yet and all to be given.
LEMMA LinkedGrows ==
  ASSUME NEW q, NEW a, NEW c, NEW par, NEW ctx_l, Linked(q, a, c, par, ctx_l),
         NEW S, NEW new \in Seq(S), Distinct(new), Elems(new) \cap a = {}
  PROVE  Linked(q \o new, a \cup Elems(new), c, par, ctx_l)
<1> DEFINE r == q \o new
           b == a \cup Elems(new)
<1>0. /\ K \in Nat \ {0} /\ c \in 0 .. K - 1 /\ q \in Seq(a) /\ Distinct(q)
      /\ Elems(q) \subseteq a
  <2>1. K \in Nat \ {0} /\ c \in 0 .. K - 1 /\ q \in Seq(a) /\ Distinct(q)
    BY AcclAssumption DEF Linked
  <2> QED BY <2>1 DEF Elems
<1>1. q \in Seq(b) /\ new \in Seq(b)
  <2>1. q \in Seq(b)
    BY <1>0, SeqMonotonic
  <2>2. \A i \in 1 .. Len(new) : new[i] \in b
    BY DEF Elems
  <2> QED BY <2>1, <2>2
<1>2. /\ r \in Seq(b) /\ Distinct(r) /\ Elems(r) = Elems(q) \cup Elems(new)
      /\ Len(r) = Len(q) + Len(new)
  <2>1. r = Cat(q, new)
    BY DEF Cat
  <2>2. r \in Seq(b) /\ Len(r) = Len(q) + Len(new)
    BY <1>1, ConcatType
  <2> HIDE DEF r, b
  <2> QED BY <1>0, <1>1, <2>1, <2>2, Both, BothOnce
<1>3. r # <<>> => Head(r) \in Elems(r)
  BY <1>2, Popped
<1>4. ASSUME NEW p \in b
      PROVE  OwedTo(r, c, p) = IF p \in Elems(new) THEN K ELSE OwedTo(q, c, p)
  <2>1. CASE q = <<>>
    <3>1. c = 0 /\ Elems(q) = {}
      BY <2>1 DEF Linked, Elems
    <3>2. OwedTo(r, c, p) = IF p \in Elems(r) THEN K ELSE 0
      BY <1>0, <1>3, <3>1 DEF OwedTo
    <3>3. OwedTo(q, c, p) = 0
      BY <2>1, <3>1 DEF OwedTo
    <3>4. p \in Elems(r) <=> p \in Elems(new)
      BY <1>2, <3>1
    <3> QED BY <3>2, <3>3, <3>4
  <2>2. CASE q # <<>>
    <3>1. r # <<>> /\ Head(r) = Head(q)
      BY <1>1, <2>2, ConcatHead
    <3>2. Head(q) \in Elems(q)
      BY <1>0, <2>2, Popped
    <3> QED BY <1>0, <1>2, <2>2, <3>1, <3>2 DEF OwedTo
  <2> QED BY <2>1, <2>2
<1>5. ASSUME NEW p \in b
      PROVE  Cardinality(KidsOf(par, p)) + OwedTo(r, c, p) + BackOf(ctx_l, p) = K
  <2>1. CASE p \in Elems(new)
    <3>1. p \notin a
      BY <2>1
    <3>2. KidsOf(par, p) = {} /\ BackOf(ctx_l, p) = 0
      BY <3>1 DEF Linked, KidsOf, BackOf
    <3> QED BY <1>0, <1>4, <2>1, <3>2, FS_EmptySet
  <2>2. CASE p \notin Elems(new)
    BY <1>4, <2>2 DEF Linked
  <2> QED BY <2>1, <2>2
<1>6. r = <<>> => c = 0
  BY <1>2, <1>0 DEF Linked
<1> HIDE DEF r, b
<1>7. Linked(r, b, c, par, ctx_l)
  BY <1>2, <1>5, <1>6 DEF Linked, b
<1> QED BY <1>7 DEF r, b

\* The front id gets the children D: it is owed as many less, and leaves the
\* queue with the last of them.
LEMMA LinkedDraws ==
  ASSUME NEW q, NEW a, NEW c, NEW par, NEW ctx_l, Linked(q, a, c, par, ctx_l),
         q # <<>>, NEW D, IsFiniteSet(D), D \cap DOMAIN par = {},
         NEW n, n = Cardinality(D), c + n <= K,
         NEW drawn, drawn = Put(par, D, Head(q))
  PROVE  /\ c + n # K => Linked(q, a, c + n, drawn, ctx_l)
         /\ c + n = K => Linked(Tail(q), a, 0, drawn, ctx_l)
<1> DEFINE h == Head(q)
           r == Tail(q)
<1>0. /\ K \in Nat \ {0} /\ c \in 0 .. K - 1 /\ q \in Seq(a) /\ Distinct(q)
      /\ n \in Nat
  BY AcclAssumption, FS_CardinalityType DEF Linked
<1>1. /\ h \in a /\ h \in Elems(q) /\ r \in Seq(a) /\ Distinct(r)
      /\ Elems(r) = Elems(q) \ {h}
  BY <1>0, Popped
<1>2. r # <<>> => Head(r) \in Elems(r)
  BY <1>1, Popped
<1>3. /\ DOMAIN drawn = DOMAIN par \cup D
      /\ \A x \in DOMAIN par : drawn[x] = par[x]
      /\ \A x \in D : drawn[x] = h
  BY DEF Put
<1> HIDE DEF h, r
<1>4. /\ IsFiniteSet(DOMAIN drawn) /\ \A x \in DOMAIN drawn : drawn[x] \in a
      /\ \A p \in DOMAIN ctx_l : p \in a /\ ctx_l[p] \in Nat \ {0}
  <2>1. /\ IsFiniteSet(DOMAIN par) /\ \A x \in DOMAIN par : par[x] \in a
        /\ \A p \in DOMAIN ctx_l : p \in a /\ ctx_l[p] \in Nat \ {0}
    BY DEF Linked
  <2>2. IsFiniteSet(DOMAIN drawn)
    <3>1. IsFiniteSet(DOMAIN par \cup D)
      BY <2>1, FS_Union
    <3> QED BY <1>3, <3>1, Zenon
  <2> QED BY <1>1, <1>3, <2>1, <2>2
<1>5. ASSUME NEW p \in a, p # h PROVE KidsOf(drawn, p) = KidsOf(par, p)
  BY <1>3, <1>5 DEF KidsOf
<1>6. Cardinality(KidsOf(drawn, h)) = Cardinality(KidsOf(par, h)) + n
  <2>1. KidsOf(drawn, h) = KidsOf(par, h) \cup D /\ KidsOf(par, h) \cap D = {}
    BY <1>3 DEF KidsOf
  <2>2. IsFiniteSet(KidsOf(par, h)) /\ Cardinality(KidsOf(par, h)) \in Nat
    BY Numbers
  <2>3. Cardinality(KidsOf(par, h) \cap D) = 0
    BY <2>1, FS_EmptySet
  <2>4. Cardinality(KidsOf(drawn, h))
          = Cardinality(KidsOf(par, h)) + Cardinality(D) - Cardinality(KidsOf(par, h) \cap D)
    BY <2>1, <2>2, FS_Union
  <2> QED BY <1>0, <2>2, <2>3, <2>4
<1>7. ASSUME NEW p \in a
      PROVE  /\ Cardinality(KidsOf(par, p)) + OwedTo(q, c, p) + BackOf(ctx_l, p) = K
             /\ Cardinality(KidsOf(par, p)) \in Nat /\ BackOf(ctx_l, p) \in Nat
  <2>1. Cardinality(KidsOf(par, p)) + OwedTo(q, c, p) + BackOf(ctx_l, p) = K
    BY DEF Linked
  <2> QED BY <2>1, Numbers
<1>8. OwedTo(q, c, h) = K - c
  BY DEF OwedTo, h
<1>9. ASSUME c + n # K PROVE Linked(q, a, c + n, drawn, ctx_l)
  <2>1. c + n \in 0 .. K - 1
    BY <1>0, <1>9
  <2>2. ASSUME NEW p \in a
        PROVE  Cardinality(KidsOf(drawn, p)) + OwedTo(q, c + n, p) + BackOf(ctx_l, p) = K
    <3>1. CASE p = h
      <4>1. OwedTo(q, c + n, h) = K - (c + n)
        BY DEF OwedTo, h
      <4> QED BY <1>0, <1>6, <1>7, <1>8, <3>1, <4>1
    <3>2. CASE p # h
      <4>1. OwedTo(q, c + n, p) = OwedTo(q, c, p)
        BY <3>2 DEF OwedTo, h
      <4> QED BY <1>5, <1>7, <3>2, <4>1
    <3> QED BY <3>1, <3>2
  <2> QED BY <1>0, <1>4, <2>1, <2>2 DEF Linked
<1>10. ASSUME c + n = K PROVE Linked(r, a, 0, drawn, ctx_l)
  <2>1. ASSUME NEW p \in a
        PROVE  Cardinality(KidsOf(drawn, p)) + OwedTo(r, 0, p) + BackOf(ctx_l, p) = K
    <3>0. OwedTo(r, 0, p) = IF p \in Elems(r) THEN K ELSE 0
      BY <1>0, <1>2 DEF OwedTo
    <3>1. CASE p = h
      <4>1. OwedTo(r, 0, p) = 0
        BY <1>1, <3>0, <3>1
      <4>2. /\ Cardinality(KidsOf(par, p)) + (K - c) + BackOf(ctx_l, p) = K
            /\ Cardinality(KidsOf(drawn, p)) = Cardinality(KidsOf(par, p)) + n
        BY <1>6, <1>7, <1>8, <3>1
      <4>3. Cardinality(KidsOf(par, p)) \in Nat /\ BackOf(ctx_l, p) \in Nat
        BY <1>7
      <4>4. Cardinality(KidsOf(par, p)) + BackOf(ctx_l, p) = c
        BY <1>0, <4>2, <4>3, SMTT(30)
      <4>5. Cardinality(KidsOf(drawn, p)) + BackOf(ctx_l, p) = K
        BY <1>0, <1>10, <4>2, <4>3, <4>4
      <4>6. Cardinality(KidsOf(drawn, p)) \in Nat
        BY <1>0, <4>2, <4>3
      <4> QED BY <3>1, <4>1, <4>3, <4>5, <4>6
    <3>2. CASE p # h
      <4>1. OwedTo(r, 0, p) = OwedTo(q, c, p)
        BY <1>1, <3>0, <3>2 DEF OwedTo, h
      <4> QED BY <1>5, <1>7, <3>2, <4>1
    <3> QED BY <3>1, <3>2
  <2>2. 0 \in 0 .. K - 1
    BY <1>0
  <2> QED BY <1>1, <1>4, <2>1, <2>2 DEF Linked
<1> QED BY <1>9, <1>10 DEF r

\* What a parent counts when one more of its children returns.
Counts(ctx_l, p) == Put(ctx_l, {p}, IF p \in DOMAIN ctx_l THEN ctx_l[p] + 1 ELSE 1)

\* A child that returns is one less in use and one more returned.
LEMMA LinkedReturns ==
  ASSUME NEW q, NEW a, NEW c, NEW par, NEW ctx_l, Linked(q, a, c, par, ctx_l),
         NEW id \in DOMAIN par
  PROVE  Linked(q, a, c, Erase(par, id), Counts(ctx_l, par[id]))
<1> DEFINE h == par[id]
           left == Erase(par, id)
           back == Counts(ctx_l, h)
<1>0. h \in a /\ \A p \in DOMAIN ctx_l : p \in a /\ ctx_l[p] \in Nat \ {0}
  BY DEF Linked
<1>1. DOMAIN left = DOMAIN par \ {id} /\ \A x \in DOMAIN left : left[x] = par[x]
  BY DEF Erase
<1>2. /\ DOMAIN back = DOMAIN ctx_l \cup {h}
      /\ back[h] = BackOf(ctx_l, h) + 1
      /\ \A p \in DOMAIN ctx_l : p # h => back[p] = ctx_l[p]
  BY DEF Counts, Put, BackOf
<1>3. \A p \in DOMAIN back : p \in a /\ back[p] \in Nat \ {0}
  BY <1>0, <1>2 DEF BackOf
<1> HIDE DEF h, left, back
<1>4. IsFiniteSet(DOMAIN left) /\ \A x \in DOMAIN left : left[x] \in a
  <2>1. DOMAIN left \in SUBSET DOMAIN par
    BY <1>1
  <2> QED BY <1>1, <2>1, FS_Subset DEF Linked
<1>5. ASSUME NEW p \in a
      PROVE  Cardinality(KidsOf(left, p)) + OwedTo(q, c, p) + BackOf(back, p) = K
  <2>0. /\ Cardinality(KidsOf(par, p)) + OwedTo(q, c, p) + BackOf(ctx_l, p) = K
        /\ Cardinality(KidsOf(par, p)) \in Nat /\ BackOf(ctx_l, p) \in Nat
        /\ OwedTo(q, c, p) \in Nat /\ IsFiniteSet(KidsOf(par, p)) /\ K \in Nat
    <3>1. Cardinality(KidsOf(par, p)) + OwedTo(q, c, p) + BackOf(ctx_l, p) = K
      BY DEF Linked
    <3> QED BY <3>1, Numbers
  <2>1. CASE p = h
    <3>1. KidsOf(left, h) = KidsOf(par, h) \ {id} /\ id \in KidsOf(par, h)
      BY <1>1 DEF KidsOf, h
    <3>2. Cardinality(KidsOf(left, p)) = Cardinality(KidsOf(par, p)) - 1
      BY <2>0, <2>1, <3>1, FS_RemoveElement
    <3>3. BackOf(back, p) = BackOf(ctx_l, p) + 1
      BY <1>2, <2>1 DEF BackOf
    <3> QED BY <2>0, <3>2, <3>3
  <2>2. CASE p # h
    <3>1. KidsOf(left, p) = KidsOf(par, p)
      BY <1>1, <2>2 DEF KidsOf, h
    <3>2. BackOf(back, p) = BackOf(ctx_l, p)
      BY <1>2, <2>2 DEF BackOf
    <3> QED BY <2>0, <3>1, <3>2
  <2> QED BY <2>1, <2>2
<1>6. Linked(q, a, c, left, back)
  BY <1>3, <1>4, <1>5 DEF Linked
<1> QED BY <1>6 DEF left, back, h

\* An id that has all its children back has none in use and none to be given,
\* so nothing mentions it any more.
LEMMA LinkedCloses ==
  ASSUME NEW q, NEW a, NEW c, NEW par, NEW ctx_l, Linked(q, a, c, par, ctx_l),
         NEW id \in DOMAIN ctx_l, ctx_l[id] = K
  PROVE  id \in a /\ Linked(q, a \ {id}, c, par, Erase(ctx_l, id))
<1> DEFINE b == a \ {id}
           left == Erase(ctx_l, id)
<1>0. /\ id \in a /\ BackOf(ctx_l, id) = K
      /\ \A p \in DOMAIN ctx_l : p \in a /\ ctx_l[p] \in Nat \ {0}
  BY DEF Linked, BackOf
<1>1. /\ Cardinality(KidsOf(par, id)) = 0 /\ OwedTo(q, c, id) = 0
      /\ IsFiniteSet(KidsOf(par, id)) /\ id \notin Elems(q)
  <2>1. Cardinality(KidsOf(par, id)) + OwedTo(q, c, id) + BackOf(ctx_l, id) = K
    BY <1>0 DEF Linked
  <2>2. /\ Cardinality(KidsOf(par, id)) \in Nat /\ OwedTo(q, c, id) \in Nat
        /\ K \in Nat /\ IsFiniteSet(KidsOf(par, id))
        /\ id \in Elems(q) => OwedTo(q, c, id) > 0
    BY Numbers
  <2> QED BY <1>0, <2>1, <2>2
<1>2. KidsOf(par, id) = {}
  BY <1>1, FS_EmptySet
<1>3. \A x \in DOMAIN par : par[x] \in b
  BY <1>2 DEF KidsOf, Linked
<1>4. q \in Seq(b)
  <2>1. q \in Seq(a)
    BY DEF Linked
  <2>2. \A i \in 1 .. Len(q) : q[i] \in b
    BY <1>1, <2>1 DEF Elems
  <2> QED BY <2>1, <2>2
<1>5. DOMAIN left = DOMAIN ctx_l \ {id} /\ \A p \in DOMAIN left : left[p] = ctx_l[p]
  BY DEF Erase
<1> HIDE DEF b, left
<1>6. \A p \in DOMAIN left : p \in b /\ left[p] \in Nat \ {0}
  BY <1>0, <1>5 DEF b
<1>7. ASSUME NEW p \in b
      PROVE  Cardinality(KidsOf(par, p)) + OwedTo(q, c, p) + BackOf(left, p) = K
  <2>1. p \in a /\ BackOf(left, p) = BackOf(ctx_l, p)
    BY <1>5 DEF BackOf, b
  <2> QED BY <2>1 DEF Linked
<1>8. Linked(q, b, c, par, left)
  BY <1>3, <1>4, <1>6, <1>7 DEF Linked
<1> QED BY <1>0, <1>8 DEF b, left

-----------------------------------------------------------------------------
(* The beats under way                                                     *)

\* q are the beats delayed, que those that came back, a the beats in use and S
\* all of them.
Carried(q, que, a, S) ==
  /\ \E m \in Nat : q \in Seq(PeqEntry(S, m))
  /\ que \in Seq(S) /\ Distinct(PeqVals(q)) /\ Distinct(que)
  /\ Elems(PeqVals(q)) \cap Elems(que) = {}
  /\ Elems(PeqVals(q)) \cup Elems(que) = a

\* The payloads of two queues in a row.
LEMMA BothVals ==
  ASSUME NEW V, NEW m \in Nat, NEW a \in Seq(PeqEntry(V, m)),
         NEW b \in Seq(PeqEntry(V, m)), NEW r, r = Cat(a, b)
  PROVE  PeqVals(r) = Cat(PeqVals(a), PeqVals(b))
<1> DEFINE k == Len(a)
           n == Len(b)
<1>1. /\ r \in Seq(PeqEntry(V, m)) /\ Len(r) = k + n /\ k \in Nat /\ n \in Nat
      /\ \A i \in 1 .. k + n : r[i] = IF i <= k THEN a[i] ELSE b[i - k]
  <2>1. r = a \o b
    BY DEF Cat
  <2> QED BY <2>1, ConcatProperties
<1> HIDE DEF k, n
<1>2. /\ PeqVals(r) \in Seq(V) /\ Len(PeqVals(r)) = k + n
      /\ \A i \in 1 .. k + n : PeqVals(r)[i] = r[i].val
  BY <1>1, PeqValsType
<1>3. /\ PeqVals(a) \in Seq(V) /\ Len(PeqVals(a)) = k
      /\ \A i \in 1 .. k : PeqVals(a)[i] = a[i].val
  BY PeqValsType DEF k
<1>4. /\ PeqVals(b) \in Seq(V) /\ Len(PeqVals(b)) = n
      /\ \A i \in 1 .. n : PeqVals(b)[i] = b[i].val
  BY PeqValsType DEF n
<1> DEFINE c == PeqVals(a)
           d == PeqVals(b)
           x == c \o d
<1> HIDE DEF c, d
<1>5. /\ x \in Seq(V) /\ Len(x) = k + n
      /\ \A i \in 1 .. k + n : x[i] = IF i <= k THEN c[i] ELSE d[i - k]
  BY <1>3, <1>4, ConcatProperties DEF c, d
<1> HIDE DEF x
<1>6. ASSUME NEW i \in 1 .. k + n PROVE PeqVals(r)[i] = x[i]
  <2>1. CASE i <= k
    <3>1. i \in 1 .. k
      BY <1>1, <2>1
    <3> QED BY <1>1, <1>2, <1>3, <1>5, <2>1, <3>1 DEF c
  <2>2. CASE ~ (i <= k)
    <3>1. i - k \in 1 .. n
      BY <1>1, <2>2
    <3> QED BY <1>1, <1>2, <1>4, <1>5, <2>2, <3>1 DEF d
  <2> QED BY <2>1, <2>2
<1>7. PeqVals(r) = x
  BY <1>2, <1>5, <1>6, SeqEqual
<1> QED BY <1>7 DEF x, c, d, Cat

\* q is a queue of beats with the payloads W, each once.
Lined(q, W, S) ==
  /\ \E m \in Nat : q \in Seq(PeqEntry(S, m))
  /\ Distinct(PeqVals(q)) /\ Elems(PeqVals(q)) = W

\* A beat that starts its delay joins the others, wherever it is put.
LEMMA BeatJoins ==
  ASSUME NEW V, NEW W, NEW q, Lined(q, W, V), NEW v \in V \ W, NEW t \in Nat
  PROVE  Lined(PeqDelay(q, v, t), W \cup {v}, V)
<1>1. PICK m \in Nat : q \in Seq(PeqEntry(V, m))
  BY DEF Lined
<1>2. Distinct(PeqVals(q)) /\ Elems(PeqVals(q)) = W /\ v \in V /\ v \notin W
  BY DEF Lined
<1> DEFINE r == PeqDelay(q, v, t)
<1> DEFINE n == IF m <= t THEN t ELSE m
           E == PeqEntry(V, n)
           k == PeqWithin(q, t)
           e == [due |-> t, val |-> v]
           a == SubSeq(q, 1, k)
           b == SubSeq(q, k + 1, Len(q))
<1>3. n \in Nat /\ e \in E /\ q \in Seq(E)
  <2>1. n \in Nat /\ t \in 0 .. n /\ 0 .. m \subseteq 0 .. n
    OBVIOUS
  <2> HIDE DEF n
  <2>2. PeqEntry(V, m) \subseteq E
    BY <2>1 DEF PeqEntry
  <2>3. q \in Seq(E)
    BY <1>1, <2>2, SeqMonotonic
  <2> QED BY <1>2, <2>1, <2>3 DEF PeqEntry
<1> HIDE DEF n
<1>4. k \in 0 .. Len(q)
  BY <1>1, PeqWithinType
<1> HIDE DEF k
<1>5. a \in Seq(E) /\ b \in Seq(E) /\ q = Cat(a, b)
  BY <1>3, <1>4, Parted
<1> DEFINE c == Append(a, e)
<1>6. r = Cat(c, b)
  <2>1. c = a \o <<e>>
    BY <1>3, <1>5, AppendIsConcat
  <2> QED BY <2>1 DEF PeqDelay, Cat, k
<1>7. /\ a \in Seq(E) /\ b \in Seq(E) /\ c \in Seq(E) /\ e \in E /\ n \in Nat
      /\ t \in 0 .. n /\ q = Cat(a, b) /\ r = Cat(c, b)
      /\ c = Append(a, [due |-> t, val |-> v])
  <2>1. t \in 0 .. n
    BY <1>3 DEF PeqEntry
  <2> QED BY <1>3, <1>5, <1>6, <2>1
<1> HIDE DEF a, b, c, e, r
<1> DEFINE A == PeqVals(a)
           B == PeqVals(b)
<1>8. /\ A \in Seq(V) /\ B \in Seq(V)
      /\ PeqVals(q) = Cat(A, B) /\ PeqVals(r) = Cat(PeqVals(c), B)
  <2>1. A \in Seq(V) /\ B \in Seq(V)
    BY <1>3, <1>7, PeqValsType
  <2>2. PeqVals(q) = Cat(A, B)
    BY <1>3, <1>7, BothVals
  <2>3. PeqVals(r) = Cat(PeqVals(c), B)
    <3>1. /\ c \in Seq(PeqEntry(V, n)) /\ b \in Seq(PeqEntry(V, n)) /\ n \in Nat
          /\ r = Cat(c, b)
      BY <1>7
    <3> HIDE DEF B
    <3>2. PeqVals(r) = Cat(PeqVals(c), PeqVals(b))
      BY <3>1, BothVals
    <3> QED BY <3>2 DEF B
  <2> QED BY <2>1, <2>2, <2>3
<1>9. PeqVals(c) = Append(A, v)
  <2>1. PeqVals(c) = A \o <<v>>
    BY <1>7, PeqValsAppend
  <2>2. A \o <<v>> = Append(A, v)
    BY <1>8, AppendIsConcat
  <2> QED BY <2>1, <2>2
<1> HIDE DEF A, B
<1>10. /\ Distinct(A) /\ Distinct(B) /\ Elems(A) \cap Elems(B) = {}
      /\ Elems(PeqVals(q)) = Elems(A) \cup Elems(B)
  BY <1>8, <1>2, Both, BothOnce
<1>11. /\ Append(A, v) \in Seq(V) /\ Elems(Append(A, v)) = Elems(A) \cup {v}
      /\ Distinct(Append(A, v))
  <2>1. v \in V /\ v \notin Elems(A)
    BY <1>10, <1>2
  <2> QED BY <1>8, <1>10, <2>1, Joined
<1>12. /\ Elems(PeqVals(r)) = Elems(Append(A, v)) \cup Elems(B)
       /\ Distinct(PeqVals(r))
  <2> DEFINE D == Append(A, v)
  <2>1. D \in Seq(V) /\ B \in Seq(V) /\ PeqVals(r) = Cat(D, B)
    BY <1>8, <1>9, <1>11
  <2>2. Distinct(D) /\ Elems(D) \cap Elems(B) = {}
    BY <1>10, <1>11, <1>2
  <2> HIDE DEF D
  <2>3. Elems(PeqVals(r)) = Elems(D) \cup Elems(B)
    BY <2>1, Both
  <2>4. Distinct(PeqVals(r))
    <3> DEFINE R == PeqVals(r)
    <3>1. R = Cat(D, B)
      BY <2>1
    <3> HIDE DEF R
    <3>2. Distinct(R) <=> Distinct(D) /\ Distinct(B) /\ Elems(D) \cap Elems(B) = {}
      BY <2>1, <3>1, BothOnce
    <3>3. Distinct(B)
      BY <1>10
    <3> QED BY <2>2, <3>2, <3>3 DEF R
  <2> QED BY <2>3, <2>4 DEF D
<1>13. r \in Seq(E)
  <2>1. r = c \o b
    BY <1>7 DEF Cat
  <2> QED BY <1>7, <2>1, ConcatType
<1> QED BY <1>3, <1>10, <1>11, <1>12, <1>13, <1>2 DEF Lined, r

\* The function that BeatsDelayed computes, up to the n-th of the beats drawn.
Delayed(f, q, new, d, n) ==
  f = [i \in 0 .. n |-> IF i = 0 THEN q ELSE PeqDelay(f[i - 1], new[i], d[new[i]])]

\* It can be computed for any number of beats.
LEMMA DelayedExists ==
  ASSUME NEW q, NEW new, NEW d, NEW n \in Nat
  PROVE  \E f : Delayed(f, q, new, d, n)
<1> DEFINE S == {m \in Nat : \E f : Delayed(f, q, new, d, m)}
<1>1. 0 \in S
  <2> DEFINE f == [k \in 0 .. 0 |-> q]
  <2>1. Delayed(f, q, new, d, 0)
    BY DEF Delayed
  <2> QED BY <2>1
<1>2. ASSUME NEW m \in S PROVE m + 1 \in S
  <2>1. m \in Nat
    OBVIOUS
  <2>2. PICK f : Delayed(f, q, new, d, m)
    OBVIOUS
  <2> DEFINE Next1(before, x) == PeqDelay(before, x, d[x])
             g == [k \in 0 .. m + 1 |-> IF k = m + 1 THEN Next1(f[m], new[m + 1])
                                        ELSE f[k]]
             h == [k \in 0 .. m + 1 |-> IF k = 0 THEN q ELSE Next1(g[k - 1], new[k])]
  <2>3. f = [k \in 0 .. m |-> IF k = 0 THEN q ELSE Next1(f[k - 1], new[k])]
    BY <2>2 DEF Delayed
  <2> HIDE DEF Next1
  <2>4. ASSUME NEW k \in 0 .. m + 1
        PROVE  g[k] = IF k = 0 THEN q ELSE Next1(g[k - 1], new[k])
    <3>1. CASE k = m + 1
      <4>1. k - 1 = m /\ m \in 0 .. m + 1 /\ m # m + 1 /\ k # 0
        BY <2>1, <3>1
      <4>2. g[m] = f[m] /\ g[k] = Next1(f[m], new[m + 1])
        BY <2>1, <3>1, <4>1
      <4> QED BY <3>1, <4>1, <4>2
    <3>2. CASE k # m + 1
      <4>1. k \in 0 .. m /\ g[k] = f[k]
        BY <2>1, <3>2
      <4>2. k # 0 => g[k - 1] = f[k - 1]
        BY <2>1, <3>2
      <4>3. f[k] = IF k = 0 THEN q ELSE Next1(f[k - 1], new[k])
        BY <2>3, <4>1
      <4> QED BY <4>1, <4>2, <4>3
    <3> QED BY <3>1, <3>2
  <2>5. g = h
    BY <2>4
  <2>6. Delayed(g, q, new, d, m + 1)
    <3> HIDE DEF g
    <3>1. g = [k \in 0 .. m + 1 |-> IF k = 0 THEN q ELSE Next1(g[k - 1], new[k])]
      BY <2>5
    <3> QED BY <3>1 DEF Delayed, Next1
  <2> HIDE DEF g
  <2> QED BY <2>1, <2>6
<1>3. S = Nat
  <2> HIDE DEF S
  <2>1. S \in SUBSET Nat
    BY DEF S
  <2> QED BY <1>1, <1>2, <2>1, SetInduction
<1> QED BY <1>3

\* BeatsDelayed is what it ends with.
LEMMA DelayedIs ==
  ASSUME NEW q, NEW new, NEW d, Len(new) \in Nat
  PROVE  \E f : Delayed(f, q, new, d, Len(new)) /\ BeatsDelayed(q, new, d) = f[Len(new)]
<1> DEFINE f == CHOOSE f : Delayed(f, q, new, d, Len(new))
<1>1. Delayed(f, q, new, d, Len(new))
  BY DelayedExists
<1>2. BeatsDelayed(q, new, d) = f[Len(new)]
  BY DEF BeatsDelayed, Delayed
<1> QED BY <1>1, <1>2

\* All the beats drawn join those delayed before.
LEMMA LinedAll ==
  ASSUME NEW S, NEW W, NEW q, Lined(q, W, S), NEW new \in Seq(S), Distinct(new),
         Elems(new) \cap W = {}, NEW d, \A x \in Elems(new) : d[x] \in Nat
  PROVE  Lined(BeatsDelayed(q, new, d), W \cup Elems(new), S)
<1> DEFINE n == Len(new)
           First(k) == {new[j] : j \in 1 .. k}
<1>0. n \in Nat /\ DOMAIN new = 1 .. n /\ \A i \in 1 .. n : new[i] \in S
  OBVIOUS
<1>1. PICK f : Delayed(f, q, new, d, n) /\ BeatsDelayed(q, new, d) = f[n]
  BY <1>0, DelayedIs
<1> HIDE DEF n
<1>2. f[0] = q
  BY <1>0, <1>1 DEF Delayed
<1>3. ASSUME NEW k \in 1 .. n PROVE f[k] = PeqDelay(f[k - 1], new[k], d[new[k]])
  <2> DEFINE More(before, x) == PeqDelay(before, x, d[x])
  <2>1. f = [j \in 0 .. n |-> IF j = 0 THEN q ELSE More(f[j - 1], new[j])]
    BY <1>1 DEF Delayed
  <2> HIDE DEF More
  <2>2. k \in 0 .. n /\ k # 0
    BY <1>0
  <2>3. f[k] = More(f[k - 1], new[k])
    BY <2>1, <2>2
  <2> QED BY <2>3 DEF More
<1> DEFINE T == {k \in Nat : k <= n => Lined(f[k], W \cup First(k), S)}
<1>4. 0 \in T
  <2>1. W \cup First(0) = W
    OBVIOUS
  <2> QED BY <1>2, <2>1
<1>5. ASSUME NEW k \in T PROVE k + 1 \in T
  <2> SUFFICES ASSUME k + 1 <= n PROVE Lined(f[k + 1], W \cup First(k + 1), S)
    OBVIOUS
  <2>1. /\ k \in Nat /\ k + 1 \in 1 .. n /\ (k + 1) - 1 = k
        /\ Lined(f[k], W \cup First(k), S)
    BY <1>0
  <2> DEFINE v == new[k + 1]
             t == d[v]
  <2>2. f[k + 1] = PeqDelay(f[k], v, t)
    BY <1>3, <2>1
  <2>3. v \in S /\ v \notin W /\ t \in Nat
    <3>1. v \in Elems(new)
      BY <1>0, <2>1 DEF Elems
    <3> QED BY <1>0, <2>1, <3>1
  <2>4. v \notin First(k)
    <3> SUFFICES ASSUME NEW j \in 1 .. k, new[j] = v PROVE FALSE
      OBVIOUS
    <3>1. j \in 1 .. n /\ k + 1 \in 1 .. n /\ j # k + 1
      BY <1>0, <2>1
    <3> QED BY <1>0, <3>1 DEF Distinct
  <2>5. First(k + 1) = First(k) \cup {v}
    <3>1. \A j : j \in 1 .. k + 1 <=> j \in 1 .. k \/ j = k + 1
      BY <2>1
    <3> QED BY <3>1
  <2> HIDE DEF First, v, t
  <2> DEFINE X == W \cup First(k)
  <2>6. v \in S \ X /\ Lined(f[k], X, S) /\ W \cup First(k + 1) = X \cup {v}
    BY <2>1, <2>3, <2>4, <2>5
  <2> HIDE DEF X
  <2>7. Lined(PeqDelay(f[k], v, t), X \cup {v}, S)
    BY <2>3, <2>6, BeatJoins
  <2> QED BY <2>2, <2>6, <2>7
<1>6. T = Nat
  <2> HIDE DEF T
  <2>1. T \in SUBSET Nat
    BY DEF T
  <2> QED BY <1>4, <1>5, <2>1, SetInduction
<1>7. Lined(f[n], W \cup First(n), S)
  <2>1. n \in T
    BY <1>0, <1>6
  <2> HIDE DEF First
  <2> QED BY <1>0, <2>1
<1>8. First(n) = Elems(new)
  BY <1>0 DEF Elems
<1> QED BY <1>1, <1>7, <1>8

\* The beats under way, in terms of those in line.
LEMMA CarriedIs ==
  ASSUME NEW q, NEW que, NEW a, NEW S
  PROVE  Carried(q, que, a, S) <=>
           /\ Lined(q, Elems(PeqVals(q)), S) /\ que \in Seq(S) /\ Distinct(que)
           /\ Elems(PeqVals(q)) \cap Elems(que) = {}
           /\ Elems(PeqVals(q)) \cup Elems(que) = a
BY DEF Carried, Lined

\* Beats newly drawn are under way.
LEMMA CarriedDraws ==
  ASSUME NEW S, NEW q, NEW que, NEW a, Carried(q, que, a, S),
         NEW new \in Seq(S), Distinct(new), Elems(new) \cap a = {},
         NEW d, \A x \in Elems(new) : d[x] \in Nat
  PROVE  Carried(BeatsDelayed(q, new, d), que, a \cup Elems(new), S)
<1> DEFINE W == Elems(PeqVals(q))
           r == BeatsDelayed(q, new, d)
<1>1. /\ Lined(q, W, S) /\ que \in Seq(S) /\ Distinct(que)
      /\ W \cap Elems(que) = {} /\ W \cup Elems(que) = a
  BY CarriedIs
<1>2. Elems(new) \cap W = {} /\ Elems(new) \cap Elems(que) = {}
  BY <1>1
<1> HIDE DEF W
<1>3. Lined(r, W \cup Elems(new), S)
  BY <1>1, <1>2, LinedAll
<1> HIDE DEF r
<1>4. Elems(PeqVals(r)) = W \cup Elems(new)
  BY <1>3 DEF Lined
<1>5. Lined(r, Elems(PeqVals(r)), S)
  BY <1>3, <1>4
<1>6. Carried(r, que, a \cup Elems(new), S)
  BY <1>1, <1>2, <1>4, <1>5, CarriedIs
<1> QED BY <1>6 DEF r

\* Beats whose delay has passed are among those that came back.
LEMMA CarriedDrains ==
  ASSUME NEW S, NEW q, NEW que, NEW a, Carried(q, que, a, S)
  PROVE  Carried(PeqLater(q), que \o PeqReady(q), a, S)
<1> DEFINE x == PeqReady(q)
           l == PeqLater(q)
           y == PeqVals(l)
           r == que \o x
<1>1. PICK m \in Nat : q \in Seq(PeqEntry(S, m))
  BY DEF Carried
<1>2. /\ x \in Seq(S) /\ l \in Seq(PeqEntry(S, m)) /\ PeqVals(q) = Cat(x, y)
      /\ y \in Seq(S)
  <2>1. x \in Seq(S) /\ l \in Seq(PeqEntry(S, m)) /\ x \o PeqVals(l) = PeqVals(q)
    BY <1>1, PeqDrain
  <2> QED BY <2>1, PeqValsType DEF Cat
<1>3. que \in Seq(S) /\ r = Cat(que, x)
  BY DEF Carried, Cat
<1> HIDE DEF x, l, y, r
<1>4. /\ Distinct(x) /\ Distinct(y) /\ Elems(x) \cap Elems(y) = {}
      /\ Elems(PeqVals(q)) = Elems(x) \cup Elems(y)
  <2>1. Distinct(PeqVals(q))
    BY DEF Carried
  <2> QED BY <1>2, <2>1, Both, BothOnce
<1>5. /\ Distinct(que) /\ Elems(PeqVals(q)) \cap Elems(que) = {}
      /\ Elems(PeqVals(q)) \cup Elems(que) = a
  BY DEF Carried
<1>6. Elems(que) \cap Elems(x) = {}
  BY <1>4, <1>5
<1>7. r \in Seq(S) /\ Elems(r) = Elems(que) \cup Elems(x) /\ Distinct(r)
  <2>1. r \in Seq(S)
    BY <1>2, <1>3, ConcatType DEF r
  <2>2. Elems(r) = Elems(que) \cup Elems(x)
    BY <1>2, <1>3, Both
  <2>3. Distinct(r) <=> Distinct(que) /\ Distinct(x) /\ Elems(que) \cap Elems(x) = {}
    BY <1>2, <1>3, BothOnce
  <2> QED BY <1>4, <1>5, <1>6, <2>1, <2>2, <2>3
<1>8. Elems(y) \cap Elems(r) = {} /\ Elems(y) \cup Elems(r) = a
  BY <1>4, <1>5, <1>7
<1>9. Carried(l, r, a, S)
  BY <1>2, <1>4, <1>7, <1>8 DEF Carried, y
<1> QED BY <1>9 DEF l, r, x

\* The first beat that came back leaves.
LEMMA CarriedReturns ==
  ASSUME NEW S, NEW q, NEW que, NEW a, Carried(q, que, a, S), que # <<>>
  PROVE  Head(que) \in a /\ Carried(q, Tail(que), a \ {Head(que)}, S)
<1>1. /\ que \in Seq(S) /\ Distinct(que) /\ Elems(PeqVals(q)) \cap Elems(que) = {}
      /\ Elems(PeqVals(q)) \cup Elems(que) = a
  BY DEF Carried
<1> DEFINE h == Head(que)
           r == Tail(que)
<1>2. /\ h \in Elems(que) /\ r \in Seq(S) /\ Distinct(r)
      /\ Elems(r) = Elems(que) \ {h}
  BY <1>1, Popped
<1> HIDE DEF h, r
<1>3. /\ h \in a /\ Elems(PeqVals(q)) \cap Elems(r) = {}
      /\ Elems(PeqVals(q)) \cup Elems(r) = a \ {h}
  BY <1>1, <1>2
<1>4. Carried(q, r, a \ {h}, S)
  BY <1>2, <1>3 DEF Carried
<1> QED BY <1>3, <1>4 DEF h, r

\* A period that passes changes nothing of this.
LEMMA CarriedAges ==
  ASSUME NEW S, NEW q, NEW que, NEW a, Carried(q, que, a, S)
  PROVE  Carried(PeqAge(q), que, a, S)
<1>1. PICK m \in Nat : q \in Seq(PeqEntry(S, m))
  BY DEF Carried
<1>2. PeqAge(q) \in Seq(PeqEntry(S, m)) /\ PeqVals(PeqAge(q)) = PeqVals(q)
  BY <1>1, PeqAgeKeeps
<1> QED BY <1>2 DEF Carried

-----------------------------------------------------------------------------
(* The record of the state                                                 *)

\* The first of the n ids in front leaves: one less in front, the same behind.
LEMMA FrontPopped ==
  ASSUME NEW S, NEW q \in Seq(S), NEW n \in 1 .. Len(q)
  PROVE  /\ SubSeq(q, 1, n) # <<>> /\ Head(SubSeq(q, 1, n)) = Head(q)
         /\ SubSeq(Tail(q), 1, n - 1) = Tail(SubSeq(q, 1, n))
         /\ SubSeq(Tail(q), n, Len(Tail(q))) = SubSeq(q, n + 1, Len(q))
         /\ Tail(q) \in Seq(S) /\ n - 1 \in 0 .. Len(Tail(q))
<1> DEFINE t == Tail(q)
           a == SubSeq(q, 1, n)
           b == SubSeq(q, n + 1, Len(q))
           c == SubSeq(t, 1, n - 1)
           d == SubSeq(t, n, Len(t))
           e == Tail(a)
<1>1. /\ Len(q) \in Nat \ {0} /\ n \in Nat \ {0} /\ n <= Len(q)
      /\ t \in Seq(S) /\ Len(t) = Len(q) - 1 /\ Head(q) = q[1]
      /\ \A i \in 1 .. Len(q) - 1 : t[i] = q[i + 1]
  OBVIOUS
<1>2. a \in Seq(S) /\ Len(a) = n /\ \A i \in 1 .. n : a[i] = q[i]
  BY <1>1
<1>3. b \in Seq(S) /\ Len(b) = Len(q) - n /\ \A i \in 1 .. Len(q) - n : b[i] = q[i + n]
  <2>1. Len(q) \in Nat /\ n \in 0 .. Len(q)
    BY <1>1
  <2>2. b \in Seq(S) /\ Len(b) = Len(q) - n
    BY <2>1
  <2>3. \A i \in 1 .. Len(q) - n : b[i] = q[i + n]
    BY <2>1
  <2> QED BY <2>2, <2>3
<1> HIDE DEF t, a, b
<1>4. c \in Seq(S) /\ Len(c) = n - 1 /\ \A i \in 1 .. n - 1 : c[i] = t[i]
  BY <1>1
<1>5. d \in Seq(S) /\ Len(d) = Len(q) - n /\ \A i \in 1 .. Len(q) - n : d[i] = t[n + i - 1]
  BY <1>1
<1>6. /\ a # <<>> /\ Head(a) = a[1] /\ e \in Seq(S) /\ Len(e) = n - 1
      /\ \A i \in 1 .. n - 1 : e[i] = a[i + 1]
  BY <1>1, <1>2
<1> HIDE DEF c, d, e
<1>7. c = e
  <2>1. ASSUME NEW i \in 1 .. n - 1 PROVE c[i] = e[i]
    <3>1. i \in 1 .. Len(q) - 1 /\ i + 1 \in 1 .. n
      BY <1>1
    <3> QED BY <1>1, <1>2, <1>4, <1>6, <3>1
  <2> QED BY <1>4, <1>6, <2>1, SeqEqual
<1>8. d = b
  <2>1. ASSUME NEW i \in 1 .. Len(q) - n PROVE d[i] = b[i]
    <3>1. n + i - 1 \in 1 .. Len(q) - 1 /\ (n + i - 1) + 1 = i + n
      BY <1>1
    <3> QED BY <1>1, <1>3, <1>5, <3>1
  <2> QED BY <1>3, <1>5, <2>1, SeqEqual
<1>9. n - 1 \in 0 .. Len(t) /\ Head(a) = Head(q)
  BY <1>1, <1>2, <1>6
<1> QED BY <1>1, <1>6, <1>7, <1>8, <1>9 DEF t, a, b, c, d, e

\* r is q with x behind the n in front.
JoinsBehind(q, n, x, r, S) ==
  /\ SubSeq(r, 1, n) = SubSeq(q, 1, n)
  /\ SubSeq(r, n + 1, Len(r)) = Append(SubSeq(q, n + 1, Len(q)), x)
  /\ r \in Seq(S) /\ n \in 0 .. Len(r)

\* An id that joins at the end is behind the n in front.
LEMMA BehindJoined ==
  ASSUME NEW S, NEW q \in Seq(S), NEW n \in 0 .. Len(q), NEW x \in S,
         NEW r, r = Append(q, x)
  PROVE  JoinsBehind(q, n, x, r, S)
<1> DEFINE a == SubSeq(q, 1, n)
           b == SubSeq(q, n + 1, Len(q))
           c == SubSeq(r, 1, n)
           d == SubSeq(r, n + 1, Len(r))
           e == Append(b, x)
<1>1. /\ Len(q) \in Nat /\ n \in Nat /\ n <= Len(q)
      /\ r \in Seq(S) /\ Len(r) = Len(q) + 1 /\ r[Len(q) + 1] = x
      /\ \A i \in 1 .. Len(q) : r[i] = q[i]
  OBVIOUS
<1>2. a \in Seq(S) /\ Len(a) = n /\ \A i \in 1 .. n : a[i] = q[i]
  BY <1>1
<1>3. b \in Seq(S) /\ Len(b) = Len(q) - n /\ \A i \in 1 .. Len(q) - n : b[i] = q[i + n]
  <2>1. Len(q) \in Nat /\ n \in 0 .. Len(q)
    BY <1>1
  <2>2. b \in Seq(S) /\ Len(b) = Len(q) - n
    BY <2>1
  <2>3. \A i \in 1 .. Len(q) - n : b[i] = q[i + n]
    BY <2>1
  <2> QED BY <2>2, <2>3
<1> HIDE DEF a, b
<1>4. c \in Seq(S) /\ Len(c) = n /\ \A i \in 1 .. n : c[i] = r[i]
  BY <1>1
<1>5. /\ d \in Seq(S) /\ Len(d) = Len(q) - n + 1
      /\ \A i \in 1 .. Len(q) - n + 1 : d[i] = r[i + n]
  BY <1>1
<1>6. /\ e \in Seq(S) /\ Len(e) = Len(q) - n + 1 /\ e[Len(q) - n + 1] = x
      /\ \A i \in 1 .. Len(q) - n : e[i] = b[i]
  BY <1>1, <1>3
<1> HIDE DEF c, d, e
<1>7. c = a
  <2>1. ASSUME NEW i \in 1 .. n PROVE c[i] = a[i]
    BY <1>1, <1>2, <1>4
  <2> QED BY <1>2, <1>4, <2>1, SeqEqual
<1>8. d = e
  <2>1. ASSUME NEW i \in 1 .. Len(q) - n + 1 PROVE d[i] = e[i]
    <3>1. CASE i \in 1 .. Len(q) - n
      <4>1. i + n \in 1 .. Len(q)
        BY <1>1, <3>1
      <4> QED BY <1>1, <1>3, <1>5, <1>6, <3>1, <4>1
    <3>2. CASE i = Len(q) - n + 1
      <4>1. i + n = Len(q) + 1
        BY <1>1, <3>2
      <4> QED BY <1>1, <1>5, <1>6, <3>2, <4>1
    <3> QED BY <1>1, <3>1, <3>2
  <2> QED BY <1>5, <1>6, <2>1, SeqEqual
<1>9. n \in 0 .. Len(r)
  BY <1>1
<1> QED BY <1>1, <1>7, <1>8, <1>9 DEF a, b, c, d, e, JoinsBehind

\* The free ids of a level (for sgs: those behind the ones to be split), its
\* queue of ids to be split, and its ids in use.
Free(s, l) == IF l = SG THEN SubSeq(s.pool[SG], s.sg_num + 1, Len(s.pool[SG]))
              ELSE s.pool[l]
Queue(s, l) == IF l = SG THEN SubSeq(s.pool[SG], 1, s.sg_num) ELSE s.split[l]
Alive(s, l) == IF l = SG THEN Ids(SG) \ Elems(Free(s, SG)) ELSE DOMAIN s.parent[l]

\* The record and its functions have the fields and levels they are to have.
Shape(s) ==
  /\ s = [sg_num |-> s.sg_num, pool |-> s.pool, split |-> s.split, cnt |-> s.cnt,
          parent |-> s.parent, ctx |-> s.ctx, peq |-> s.peq, peq_que |-> s.peq_que]
  /\ s.pool = [k \in Levels |-> s.pool[k]]
  /\ s.split = [k \in STRIPE .. RDTXN |-> s.split[k]]
  /\ s.cnt = [k \in STRIPE .. DAT |-> s.cnt[k]]
  /\ s.parent = [k \in STRIPE .. DAT |-> s.parent[k]]
  /\ s.ctx = [k \in SG .. RDTXN |-> s.ctx[k]]

\* The books of the accelerator: at every level the free ids and those in use
\* partition the ids, the levels are linked, and the beats are under way.
Inv(s) ==
  /\ Shape(s)
  /\ s.pool[SG] \in Seq(Ids(SG)) /\ s.sg_num \in 0 .. Len(s.pool[SG])
  /\ \A l \in Levels : Stocked(Free(s, l), Alive(s, l), Ids(l))
  /\ \A l \in SG .. RDTXN :
       Linked(Queue(s, l), Alive(s, l), s.cnt[l + 1], s.parent[l + 1], s.ctx[l])
  /\ Carried(s.peq, s.peq_que, Alive(s, DAT), Ids(DAT))

\* The levels are numbers, and the one below each is another.
LEMMA LevelsAre ==
  /\ SG = 1 /\ STRIPE = 2 /\ SU = 3 /\ RDTXN = 4 /\ DAT = 5
  /\ Levels = 1 .. 5
  /\ \A l : l \in 1 .. 5 <=> l = 1 \/ l = 2 \/ l = 3 \/ l = 4 \/ l = 5
  /\ \A l \in 1 .. 4 : l + 1 \in 2 .. 5 /\ l + 1 # l /\ l + 1 \in 1 .. 5
BY DEF SG, STRIPE, SU, RDTXN, DAT, Levels

\* t is s after one draw at level l for the parent p, field by field.
DrawIs(s, t, l, p) ==
  LET new == Drawn(s, l)
  IN  /\ Shape(t)
      /\ \A k \in 1 .. 5 : k # l => t.pool[k] = s.pool[k]
      /\ t.pool[l] = SubSeq(s.pool[l], Len(new) + 1, Len(s.pool[l]))
      /\ \A k \in 2 .. 5 : k # l => t.cnt[k] = s.cnt[k] /\ t.parent[k] = s.parent[k]
      /\ t.cnt[l] = IF Completes(s, l) THEN 0 ELSE s.cnt[l] + Len(new)
      /\ t.parent[l] = Put(s.parent[l], Elems(new), p)
      /\ t.split = s.split /\ t.ctx = s.ctx /\ t.sg_num = s.sg_num
      /\ t.peq = s.peq /\ t.peq_que = s.peq_que

\* Draw does this and no more.
LEMMA Draws ==
  ASSUME NEW s, Shape(s), NEW l \in 2 .. 5, NEW p
  PROVE  DrawIs(s, Draw(s, l, p), l, p)
<1> DEFINE t == Draw(s, l, p)
           new == Drawn(s, l)
           done == Completes(s, l)
           par == Put(s.parent[l], Elems(new), p)
           rest == SubSeq(s.pool[l], Len(new) + 1, Len(s.pool[l]))
           u == [s EXCEPT !.pool[l] = rest,
                          !.cnt[l] = IF done THEN 0 ELSE @ + Len(new),
                          !.parent[l] = par]
<1>1. t = u
  BY DEF Draw
<1> DEFINE P == [s.pool EXCEPT ![l] = rest]
           C == [s.cnt EXCEPT ![l] = IF done THEN 0 ELSE @ + Len(new)]
           R == [s.parent EXCEPT ![l] = par]
<1>2. t = [sg_num |-> s.sg_num, pool |-> P, split |-> s.split, cnt |-> C,
           parent |-> R, ctx |-> s.ctx, peq |-> s.peq, peq_que |-> s.peq_que]
  <2> HIDE DEF new, done, par, rest
  <2>1. s = [sg_num |-> s.sg_num, pool |-> s.pool, split |-> s.split, cnt |-> s.cnt,
          parent |-> s.parent, ctx |-> s.ctx, peq |-> s.peq, peq_que |-> s.peq_que]
    BY Zenon DEF Shape
  <2> QED BY <1>1, <2>1
<1> HIDE DEF new, done, par, rest, u
<1>3. \A k \in 1 .. 5 : P[k] = IF k = l THEN rest ELSE s.pool[k]
  <2>1. DOMAIN s.pool = 1 .. 5
    BY LevelsAre DEF Shape
  <2> QED BY <2>1
<1>4. \A k \in 2 .. 5 : C[k] = 
              IF k = l THEN IF done THEN 0 ELSE s.cnt[l] + Len(new) ELSE s.cnt[k]
  <2>1. DOMAIN s.cnt = 2 .. 5
    BY LevelsAre DEF Shape
  <2> QED BY <2>1
<1>5. \A k \in 2 .. 5 : R[k] = IF k = l THEN par ELSE s.parent[k]
  <2>1. DOMAIN s.parent = 2 .. 5
    BY LevelsAre DEF Shape
  <2> QED BY <2>1
<1>6. P = [k \in Levels |-> P[k]]
  BY DEF Shape
<1>7. C = [k \in STRIPE .. DAT |-> C[k]]
  BY DEF Shape
<1>8. R = [k \in STRIPE .. DAT |-> R[k]]
  BY DEF Shape
<1> HIDE DEF P, C, R
<1>9. Shape(t)
  BY <1>2, <1>6, <1>7, <1>8 DEF Shape
<1>10. l \in 1 .. 5
  OBVIOUS
<1> HIDE DEF t
<1>11. /\ \A k \in 1 .. 5 : k # l => t.pool[k] = s.pool[k]
       /\ t.pool[l] = rest
  BY <1>2, <1>3, <1>10
<1>12. /\ \A k \in 2 .. 5 : k # l => t.cnt[k] = s.cnt[k] /\ t.parent[k] = s.parent[k]
       /\ t.cnt[l] = IF done THEN 0 ELSE s.cnt[l] + Len(new)
       /\ t.parent[l] = par
  BY <1>2, <1>4, <1>5
<1>13. /\ t.split = s.split /\ t.ctx = s.ctx /\ t.sg_num = s.sg_num
       /\ t.peq = s.peq /\ t.peq_que = s.peq_que
  BY <1>2
<1>14. DrawIs(s, t, l, p)
  BY <1>9, <1>11, <1>12, <1>13, Zenon DEF DrawIs, new, done, par, rest
<1> QED BY <1>14 DEF t

\* t is s after the ids of level l have been split: the front of its queue got
\* the children drawn, and has left if it has them all.
SplitIs(s, t, l) ==
  LET new == Drawn(s, l + 1)
      done == Completes(s, l + 1)
  IN  /\ Shape(t)
      /\ t.pool[SG] \in Seq(Ids(SG)) /\ t.sg_num \in 0 .. Len(t.pool[SG])
      /\ \A k \in 1 .. 5 : k # l + 1 => Free(t, k) = Free(s, k)
      /\ Free(t, l + 1) = SubSeq(Free(s, l + 1), Len(new) + 1, Len(Free(s, l + 1)))
      /\ \A k \in 1 .. 4 : k # l /\ k # l + 1 => Queue(t, k) = Queue(s, k)
      /\ Queue(t, l) = IF done THEN Tail(Queue(s, l)) ELSE Queue(s, l)
      /\ l # RDTXN => Queue(t, l + 1) = Queue(s, l + 1) \o new
      /\ \A k \in 2 .. 5 : k # l + 1 => t.cnt[k] = s.cnt[k] /\ t.parent[k] = s.parent[k]
      /\ t.cnt[l + 1] = IF done THEN 0 ELSE s.cnt[l + 1] + Len(new)
      /\ t.parent[l + 1] = Put(s.parent[l + 1], Elems(new), Head(Queue(s, l)))
      /\ t.ctx = s.ctx /\ t.peq_que = s.peq_que
      /\ l # RDTXN => t.peq = s.peq

\* split_stripe and split_su, when there is something to split.
LEMMA SplitsInto ==
  ASSUME NEW s, Shape(s), s.pool[SG] \in Seq(Ids(SG)), s.sg_num \in 0 .. Len(s.pool[SG]),
         NEW l \in {STRIPE, SU}, s.split[l] # <<>>,
         NEW t, t = SplitInto(s, l)
  PROVE  SplitIs(s, t, l)
<1> DEFINE m == l + 1
           new == Drawn(s, m)
           done == Completes(s, m)
           h == Head(s.split[l])
           w == Draw(s, m, h)
           a == s.split[m] \o new
           b == IF done THEN Tail(s.split[l]) ELSE s.split[l]
           Q == [[s.split EXCEPT ![m] = a] EXCEPT ![l] = b]
<1>1. l \in 2 .. 3 /\ m \in 3 .. 4 /\ m # l /\ m \in 2 .. 5 /\ l \in 2 .. 4
      /\ SG # l /\ SG # m /\ l # RDTXN /\ SG = 1 /\ m = l + 1
  BY LevelsAre
<1>2. t = [w EXCEPT !.split[m] = @ \o new,
                    !.split[l] = IF done THEN Tail(@) ELSE @]
  BY DEF SplitInto
<1> HIDE DEF m, new, done, h
<1>3. DrawIs(s, w, m, h)
  BY <1>1, Draws
<1>14. /\ Shape(w)
       /\ \A k \in 1 .. 5 : k # m => w.pool[k] = s.pool[k]
       /\ w.pool[m] = SubSeq(s.pool[m], Len(new) + 1, Len(s.pool[m]))
       /\ \A k \in 2 .. 5 : k # m => w.cnt[k] = s.cnt[k] /\ w.parent[k] = s.parent[k]
       /\ w.cnt[m] = IF done THEN 0 ELSE s.cnt[m] + Len(new)
       /\ w.parent[m] = Put(s.parent[m], Elems(new), h)
       /\ w.split = s.split /\ w.ctx = s.ctx /\ w.sg_num = s.sg_num
       /\ w.peq = s.peq /\ w.peq_que = s.peq_que
  BY <1>3, Zenon DEF DrawIs, new, done
<1> HIDE DEF w
<1>4. w = [sg_num |-> w.sg_num, pool |-> w.pool, split |-> w.split, cnt |-> w.cnt,
          parent |-> w.parent, ctx |-> w.ctx, peq |-> w.peq, peq_que |-> w.peq_que]
  BY <1>14, Zenon DEF Shape
<1>5. t = [sg_num |-> w.sg_num, pool |-> w.pool, split |-> Q, cnt |-> w.cnt,
          parent |-> w.parent, ctx |-> w.ctx, peq |-> w.peq, peq_que |-> w.peq_que]
  <2>1. DOMAIN s.split = 2 .. 4
    BY LevelsAre DEF Shape
  <2>2. t = [w EXCEPT !.split = Q]
    BY <1>1, <1>2, <1>14, <1>4, <2>1
  <2> HIDE DEF Q
  <2> QED BY <1>4, <2>2
<1>6. \A k \in 2 .. 4 : Q[k] = IF k = l THEN b ELSE IF k = m THEN a ELSE s.split[k]
  <2>1. DOMAIN s.split = 2 .. 4
    BY LevelsAre DEF Shape
  <2> HIDE DEF a, b
  <2> QED BY <1>1, <2>1
<1>7. Q = [k \in STRIPE .. RDTXN |-> Q[k]]
  BY DEF Shape
<1> HIDE DEF a, b, Q
<1>8. Shape(t)
  BY <1>14, <1>5, <1>7 DEF Shape
<1>9. SplitIs(s, t, l)
  <2>1. t.pool[SG] \in Seq(Ids(SG)) /\ t.sg_num \in 0 .. Len(t.pool[SG])
    BY <1>1, <1>14, <1>5
  <2>2. ASSUME NEW k \in 1 .. 5, k # m PROVE Free(t, k) = Free(s, k)
    BY <1>1, <1>14, <1>5, <2>2 DEF Free
  <2>3. Free(t, m) = SubSeq(Free(s, m), Len(new) + 1, Len(Free(s, m)))
    <3>1. m # SG
      BY <1>1
    <3>2. t.pool[m] = SubSeq(s.pool[m], Len(new) + 1, Len(s.pool[m]))
      BY <1>14, <1>5
    <3>3. Free(t, m) = t.pool[m] /\ Free(s, m) = s.pool[m]
      BY <3>1, Zenon DEF Free
    <3> QED BY <3>2, <3>3, Zenon
  <2>4. ASSUME NEW k \in 1 .. 4, k # l, k # m PROVE Queue(t, k) = Queue(s, k)
    BY <1>1, <1>14, <1>5, <1>6, <2>4 DEF Queue
  <2>5. Queue(t, l) = IF done THEN Tail(Queue(s, l)) ELSE Queue(s, l)
    BY <1>1, <1>5, <1>6 DEF Queue, b
  <2>6. Queue(t, m) = Queue(s, m) \o new
    <3>1. m \in 2 .. 4 /\ t.split[m] = Q[m]
      BY <1>1, <1>5
    <3>2. t.split[m] = a
      BY <1>1, <1>6, <3>1
    <3>3. Queue(t, m) = t.split[m] /\ Queue(s, m) = s.split[m]
      BY <1>1 DEF Queue
    <3> QED BY <3>2, <3>3 DEF a
  <2>7. h = Head(Queue(s, l))
    BY <1>1 DEF Queue, h
  <2>8. \A k \in 2 .. 5 : k # m => t.cnt[k] = s.cnt[k] /\ t.parent[k] = s.parent[k]
    BY <1>14, <1>5
  <2>9. /\ t.cnt[m] = IF done THEN 0 ELSE s.cnt[m] + Len(new)
        /\ t.parent[m] = Put(s.parent[m], Elems(new), h)
    BY <1>1, <1>14, <1>5
  <2>10. t.ctx = s.ctx /\ t.peq_que = s.peq_que /\ t.peq = s.peq
    BY <1>14, <1>5
  <2>11. t.parent[m] = Put(s.parent[m], Elems(new), Head(Queue(s, l)))
    BY <2>7, <2>9
  <2> QED BY <1>1, <1>8, <2>1, <2>2, <2>3, <2>4, <2>5, <2>6, <2>8, <2>9, <2>10, <2>11, Zenon
          DEF SplitIs, new, done, m
<1> QED BY <1>9

\* split_rdtxn, when there is something to split.
LEMMA SplitsTxn ==
  ASSUME NEW s, Shape(s), s.pool[SG] \in Seq(Ids(SG)), s.sg_num \in 0 .. Len(s.pool[SG]),
         s.split[RDTXN] # <<>>, NEW d,
         NEW t, t = split_rdtxn(s, d)
  PROVE  /\ SplitIs(s, t, RDTXN)
         /\ t.peq = BeatsDelayed(s.peq, Drawn(s, DAT), d)
<1> DEFINE l == RDTXN
           m == DAT
           new == Drawn(s, m)
           done == Completes(s, m)
           h == Head(s.split[l])
           w == Draw(s, m, h)
           b == IF done THEN Tail(s.split[l]) ELSE s.split[l]
           Q == [s.split EXCEPT ![l] = b]
           e == BeatsDelayed(s.peq, new, d)
<1>1. l = 4 /\ m = 5 /\ m = l + 1 /\ SG = 1 /\ l = RDTXN /\ m = DAT
  BY LevelsAre
<1>2. t = [w EXCEPT !.split[l] = IF done THEN Tail(@) ELSE @,
                    !.peq = BeatsDelayed(@, new, d)]
  BY DEF split_rdtxn
<1> HIDE DEF l, m, new, done, h
<1>3. DrawIs(s, w, m, h)
  BY <1>1, Draws
<1>4. /\ Shape(w)
      /\ \A k \in 1 .. 5 : k # m => w.pool[k] = s.pool[k]
      /\ w.pool[m] = SubSeq(s.pool[m], Len(new) + 1, Len(s.pool[m]))
      /\ \A k \in 2 .. 5 : k # m => w.cnt[k] = s.cnt[k] /\ w.parent[k] = s.parent[k]
      /\ w.cnt[m] = IF done THEN 0 ELSE s.cnt[m] + Len(new)
      /\ w.parent[m] = Put(s.parent[m], Elems(new), h)
      /\ w.split = s.split /\ w.ctx = s.ctx /\ w.sg_num = s.sg_num
      /\ w.peq = s.peq /\ w.peq_que = s.peq_que
  BY <1>3, Zenon DEF DrawIs, new, done
<1> HIDE DEF w
<1>5. w = [sg_num |-> w.sg_num, pool |-> w.pool, split |-> w.split, cnt |-> w.cnt,
          parent |-> w.parent, ctx |-> w.ctx, peq |-> w.peq, peq_que |-> w.peq_que]
  BY <1>4, Zenon DEF Shape
<1>6. t = [sg_num |-> w.sg_num, pool |-> w.pool, split |-> Q, cnt |-> w.cnt,
          parent |-> w.parent, ctx |-> w.ctx, peq |-> e, peq_que |-> w.peq_que]
  <2>1. DOMAIN s.split = 2 .. 4
    BY LevelsAre DEF Shape
  <2>2. t = [w EXCEPT !.split = Q, !.peq = e]
    BY <1>1, <1>2, <1>4, <1>5, <2>1
  <2> HIDE DEF Q, e
  <2> QED BY <1>5, <2>2
<1>7. \A k \in 2 .. 4 : Q[k] = IF k = l THEN b ELSE s.split[k]
  <2>1. DOMAIN s.split = 2 .. 4
    BY LevelsAre DEF Shape
  <2> HIDE DEF b
  <2> QED BY <1>1, <2>1
<1>8. Q = [k \in STRIPE .. RDTXN |-> Q[k]]
  BY DEF Shape
<1> HIDE DEF b, Q, e
<1>9. Shape(t)
  BY <1>4, <1>6, <1>8 DEF Shape
<1>10. SplitIs(s, t, l)
  <2>1. t.pool[SG] \in Seq(Ids(SG)) /\ t.sg_num \in 0 .. Len(t.pool[SG])
    BY <1>1, <1>4, <1>6
  <2>2. ASSUME NEW k \in 1 .. 5, k # m PROVE Free(t, k) = Free(s, k)
    BY <1>1, <1>4, <1>6, <2>2 DEF Free
  <2>3. Free(t, m) = SubSeq(Free(s, m), Len(new) + 1, Len(Free(s, m)))
    BY <1>1, <1>4, <1>6 DEF Free
  <2>4. ASSUME NEW k \in 1 .. 4, k # l, k # m PROVE Queue(t, k) = Queue(s, k)
    BY <1>1, <1>4, <1>6, <1>7, <2>4 DEF Queue
  <2>5. Queue(t, l) = IF done THEN Tail(Queue(s, l)) ELSE Queue(s, l)
    BY <1>1, <1>6, <1>7 DEF Queue, b
  <2>6. h = Head(Queue(s, l))
    BY <1>1 DEF Queue, h
  <2>7. \A k \in 2 .. 5 : k # m => t.cnt[k] = s.cnt[k] /\ t.parent[k] = s.parent[k]
    BY <1>4, <1>6
  <2>8. /\ t.cnt[m] = IF done THEN 0 ELSE s.cnt[m] + Len(new)
        /\ t.parent[m] = Put(s.parent[m], Elems(new), Head(Queue(s, l)))
    BY <1>1, <1>4, <1>6, <2>6
  <2>9. t.ctx = s.ctx /\ t.peq_que = s.peq_que
    BY <1>4, <1>6
  <2> QED BY <1>1, <1>9, <2>1, <2>2, <2>3, <2>4, <2>5, <2>7, <2>8, <2>9, Zenon
          DEF SplitIs, new, done
<1>11. t.peq = e
  BY <1>6
<1> QED BY <1>10, <1>11 DEF l, e, new, m

\* split_sg, when there is something to split.
LEMMA SplitsSg ==
  ASSUME NEW s, Shape(s), s.pool[SG] \in Seq(Ids(SG)), s.sg_num \in 0 .. Len(s.pool[SG]),
         s.sg_num # 0, NEW t, t = split_sg(s)
  PROVE  SplitIs(s, t, SG) /\ Queue(s, SG) # <<>>
<1> DEFINE l == SG
           m == STRIPE
           new == Drawn(s, m)
           done == Completes(s, m)
           h == Head(s.pool[l])
           w == Draw(s, m, h)
           a == s.split[m] \o new
           Q == [s.split EXCEPT ![m] = a]
           f == IF done THEN Tail(s.pool[l]) ELSE s.pool[l]
           P == [w.pool EXCEPT ![l] = f]
           n == IF done THEN s.sg_num - 1 ELSE s.sg_num
<1>1. l = 1 /\ m = 2 /\ m = l + 1 /\ RDTXN = 4 /\ l = SG /\ m = STRIPE
  BY LevelsAre
<1>2. t = [w EXCEPT !.split[m] = @ \o new,
                    !.pool[l] = IF done THEN Tail(@) ELSE @,
                    !.sg_num = IF done THEN @ - 1 ELSE @]
  BY DEF split_sg
<1> HIDE DEF l, m, new, done, h
<1>3. DrawIs(s, w, m, h)
  BY <1>1, Draws
<1>4. /\ Shape(w)
      /\ \A k \in 1 .. 5 : k # m => w.pool[k] = s.pool[k]
      /\ w.pool[m] = SubSeq(s.pool[m], Len(new) + 1, Len(s.pool[m]))
      /\ \A k \in 2 .. 5 : k # m => w.cnt[k] = s.cnt[k] /\ w.parent[k] = s.parent[k]
      /\ w.cnt[m] = IF done THEN 0 ELSE s.cnt[m] + Len(new)
      /\ w.parent[m] = Put(s.parent[m], Elems(new), h)
      /\ w.split = s.split /\ w.ctx = s.ctx /\ w.sg_num = s.sg_num
      /\ w.peq = s.peq /\ w.peq_que = s.peq_que
  BY <1>3, Zenon DEF DrawIs, new, done
<1> HIDE DEF w
<1>5. w = [sg_num |-> w.sg_num, pool |-> w.pool, split |-> w.split, cnt |-> w.cnt,
          parent |-> w.parent, ctx |-> w.ctx, peq |-> w.peq, peq_que |-> w.peq_que]
  BY <1>4, Zenon DEF Shape
<1>6. t = [sg_num |-> n, pool |-> P, split |-> Q, cnt |-> w.cnt,
          parent |-> w.parent, ctx |-> w.ctx, peq |-> w.peq, peq_que |-> w.peq_que]
  <2>1. DOMAIN s.split = 2 .. 4 /\ DOMAIN w.pool = 1 .. 5
    BY <1>4, LevelsAre DEF Shape
  <2>2. w.pool[l] = s.pool[l] /\ w.sg_num = s.sg_num
    BY <1>1, <1>4
  <2>3. t = [w EXCEPT !.split = Q, !.pool = P, !.sg_num = n]
    BY <1>1, <1>2, <1>4, <1>5, <2>1, <2>2
  <2> HIDE DEF Q, P, n
  <2> QED BY <1>5, <2>3
<1>7. \A k \in 2 .. 4 : Q[k] = IF k = m THEN a ELSE s.split[k]
  <2>1. DOMAIN s.split = 2 .. 4
    BY LevelsAre DEF Shape
  <2> HIDE DEF a
  <2> QED BY <1>1, <2>1
<1>8. \A k \in 1 .. 5 : P[k] = IF k = l THEN f ELSE w.pool[k]
  <2>1. DOMAIN w.pool = 1 .. 5
    BY <1>4, LevelsAre DEF Shape
  <2> HIDE DEF f
  <2> QED BY <1>1, <2>1
<1>9. Q = [k \in STRIPE .. RDTXN |-> Q[k]] /\ P = [k \in Levels |-> P[k]]
  BY <1>4 DEF Shape
<1> HIDE DEF a, Q, P
<1>10. Shape(t)
  BY <1>4, <1>6, <1>9 DEF Shape
<1> DEFINE p == s.pool[SG]
           c == s.sg_num
<1>11. p \in Seq(Ids(SG)) /\ c \in 1 .. Len(p) /\ p = s.pool[l]
  BY <1>1
<1>12. /\ t.pool[SG] = IF done THEN Tail(p) ELSE p
       /\ t.sg_num = IF done THEN c - 1 ELSE c
  BY <1>1, <1>6, <1>8 DEF f
<1> HIDE DEF p, c, f, n
<1>13. /\ SubSeq(p, 1, c) # <<>> /\ Head(SubSeq(p, 1, c)) = Head(p)
       /\ SubSeq(Tail(p), 1, c - 1) = Tail(SubSeq(p, 1, c))
       /\ SubSeq(Tail(p), c, Len(Tail(p))) = SubSeq(p, c + 1, Len(p))
       /\ Tail(p) \in Seq(Ids(SG)) /\ c - 1 \in 0 .. Len(Tail(p))
  BY <1>11, FrontPopped
<1>14. /\ Queue(s, l) = SubSeq(p, 1, c) /\ Free(s, l) = SubSeq(p, c + 1, Len(p))
       /\ Queue(t, l) = SubSeq(t.pool[SG], 1, t.sg_num)
       /\ Free(t, l) = SubSeq(t.pool[SG], t.sg_num + 1, Len(t.pool[SG]))
  BY <1>1 DEF Queue, Free, p, c
<1>15. SplitIs(s, t, l)
  <2>1. t.pool[SG] \in Seq(Ids(SG)) /\ t.sg_num \in 0 .. Len(t.pool[SG])
    BY <1>11, <1>12, <1>13
  <2>2. ASSUME NEW k \in 1 .. 5, k # m PROVE Free(t, k) = Free(s, k)
    <3>1. CASE k = l
      <4>1. CASE done
        <5>1. t.pool[SG] = Tail(p) /\ t.sg_num + 1 = c
          BY <1>11, <1>12, <4>1
        <5> QED BY <1>13, <1>14, <3>1, <5>1
      <4>2. CASE ~ done
        BY <1>12, <1>14, <3>1, <4>2
      <4> QED BY <4>1, <4>2
    <3>2. CASE k # l
      BY <1>1, <1>4, <1>6, <1>8, <2>2, <3>2 DEF Free
    <3> QED BY <3>1, <3>2
  <2>3. Free(t, m) = SubSeq(Free(s, m), Len(new) + 1, Len(Free(s, m)))
    <3>1. t.pool[m] = w.pool[m]
      BY <1>1, <1>6, <1>8
    <3>2. Free(t, m) = t.pool[m] /\ Free(s, m) = s.pool[m]
      BY <1>1 DEF Free
    <3> QED BY <1>4, <3>1, <3>2
  <2>4. ASSUME NEW k \in 1 .. 4, k # l, k # m PROVE Queue(t, k) = Queue(s, k)
    BY <1>1, <1>4, <1>6, <1>7, <2>4 DEF Queue
  <2>5. Queue(t, l) = IF done THEN Tail(Queue(s, l)) ELSE Queue(s, l)
    BY <1>12, <1>13, <1>14
  <2>6. h = Head(Queue(s, l))
    BY <1>11, <1>13, <1>14 DEF h
  <2>7. Queue(t, m) = Queue(s, m) \o new
    <3>1. t.split[m] = a
      BY <1>1, <1>6, <1>7
    <3>2. Queue(t, m) = t.split[m] /\ Queue(s, m) = s.split[m]
      BY <1>1 DEF Queue
    <3> QED BY <3>1, <3>2 DEF a
  <2>8. \A k \in 2 .. 5 : k # m => t.cnt[k] = s.cnt[k] /\ t.parent[k] = s.parent[k]
    BY <1>4, <1>6
  <2>9. /\ t.cnt[m] = IF done THEN 0 ELSE s.cnt[m] + Len(new)
        /\ t.parent[m] = Put(s.parent[m], Elems(new), Head(Queue(s, l)))
    BY <1>1, <1>4, <1>6, <2>6
  <2>10. t.ctx = s.ctx /\ t.peq_que = s.peq_que /\ t.peq = s.peq
    BY <1>4, <1>6
  <2> QED BY <1>1, <1>10, <2>1, <2>2, <2>3, <2>4, <2>5, <2>7, <2>8, <2>9, <2>10, Zenon
          DEF SplitIs, new, done
<1> QED BY <1>13, <1>14, <1>15 DEF l

\* What is drawn: as many ids from the front as fit and as there are.
LEMMA DrawnIs ==
  ASSUME NEW s, NEW l, NEW S, s.pool[l] \in Seq(S), s.cnt[l] \in 0 .. K - 1
  PROVE  /\ Len(Drawn(s, l)) \in 0 .. Len(s.pool[l])
         /\ Drawn(s, l) = SubSeq(s.pool[l], 1, Len(Drawn(s, l)))
         /\ s.cnt[l] + Len(Drawn(s, l)) <= K
<1> DEFINE f == s.pool[l]
           c == s.cnt[l]
           n == IF K - c <= Len(f) THEN K - c ELSE Len(f)
           new == SubSeq(f, 1, n)
<1>1. f \in Seq(S) /\ Len(f) \in Nat /\ c \in Nat /\ K \in Nat /\ c <= K
  BY AcclAssumption
<1>2. Drawn(s, l) = new
  BY DEF Drawn
<1> HIDE DEF f, c
<1>3. n \in 0 .. Len(f) /\ c + n <= K
  BY <1>1
<1> HIDE DEF n
<1>4. Len(new) = n
  BY <1>1, <1>3
<1> QED BY <1>2, <1>3, <1>4 DEF f, c

\* Splitting keeps the books.
LEMMA SplitKeeps ==
  ASSUME NEW s, Inv(s), NEW l \in 1 .. 4, Queue(s, l) # <<>>,
         NEW t, SplitIs(s, t, l),
         NEW d, \A x \in Elems(Drawn(s, DAT)) : d[x] \in Nat,
         l = RDTXN => t.peq = BeatsDelayed(s.peq, Drawn(s, DAT), d)
  PROVE  Inv(t)
<1> DEFINE m == l + 1
           new == Drawn(s, m)
           n == Len(new)
           c == s.cnt[m]
           f == Free(s, m)
<1>1. /\ m \in 2 .. 5 /\ m \in 1 .. 5 /\ m # l /\ m = l + 1 /\ m # SG /\ DAT = 5
      /\ SG = 1 /\ Levels = 1 .. 5 /\ SG .. RDTXN = 1 .. 4 /\ RDTXN = 4 /\ l \in 1 .. 5
  BY LevelsAre
<1> HIDE DEF m
<1>2. /\ \A k \in 1 .. 5 : Stocked(Free(s, k), Alive(s, k), Ids(k))
      /\ \A k \in 1 .. 4 :
           Linked(Queue(s, k), Alive(s, k), s.cnt[k + 1], s.parent[k + 1], s.ctx[k])
      /\ Carried(s.peq, s.peq_que, Alive(s, DAT), Ids(DAT))
  BY <1>1 DEF Inv
<1>3. /\ f = s.pool[m] /\ Alive(s, m) = DOMAIN s.parent[m]
      /\ Stocked(f, Alive(s, m), Ids(m)) /\ f \in Seq(Ids(m))
  <2>1. f = s.pool[m] /\ Alive(s, m) = DOMAIN s.parent[m]
    BY <1>1 DEF Free, Alive
  <2>2. Stocked(f, Alive(s, m), Ids(m))
    BY <1>1, <1>2
  <2> QED BY <2>1, <2>2 DEF Stocked
<1>4. Linked(Queue(s, l), Alive(s, l), c, s.parent[m], s.ctx[l]) /\ c \in 0 .. K - 1
  <2>1. Linked(Queue(s, l), Alive(s, l), c, s.parent[m], s.ctx[l])
    BY <1>1, <1>2
  <2> QED BY <2>1 DEF Linked
<1>5. n \in 0 .. Len(f) /\ new = SubSeq(f, 1, n) /\ c + n <= K
  BY <1>3, <1>4, DrawnIs
<1>6. Completes(s, m) <=> c + n = K
  BY DEF Completes
<1> DEFINE done == Completes(s, m)
           a == Alive(s, m) \cup Elems(new)
<1>7. /\ Shape(t)
      /\ t.pool[SG] \in Seq(Ids(SG)) /\ t.sg_num \in 0 .. Len(t.pool[SG])
      /\ \A k \in 1 .. 5 : k # m => Free(t, k) = Free(s, k)
      /\ Free(t, m) = SubSeq(f, n + 1, Len(f))
      /\ \A k \in 1 .. 4 : k # l /\ k # m => Queue(t, k) = Queue(s, k)
      /\ Queue(t, l) = IF done THEN Tail(Queue(s, l)) ELSE Queue(s, l)
      /\ l # RDTXN => Queue(t, m) = Queue(s, m) \o new
      /\ \A k \in 2 .. 5 : k # m => t.cnt[k] = s.cnt[k] /\ t.parent[k] = s.parent[k]
      /\ t.cnt[m] = IF done THEN 0 ELSE c + n
      /\ t.parent[m] = Put(s.parent[m], Elems(new), Head(Queue(s, l)))
      /\ t.ctx = s.ctx /\ t.peq_que = s.peq_que
      /\ l # RDTXN => t.peq = s.peq
  BY Zenon DEF SplitIs, m
<1> HIDE DEF new, n, c, f, done, a
<1>8. /\ new \in Seq(Ids(m)) /\ Distinct(new) /\ Elems(new) \cap Alive(s, m) = {}
      /\ IsFiniteSet(Elems(new)) /\ Cardinality(Elems(new)) = n
  <2>1. Fresh(new, n, Alive(s, m), Ids(m))
    BY <1>3, <1>5, StockDrawn
  <2> QED BY <2>1 DEF Fresh
<1>9. Stocked(Free(t, m), a, Ids(m))
  <2>1. Stocked(SubSeq(f, n + 1, Len(f)), Alive(s, m) \cup Elems(new), Ids(m))
    BY <1>3, <1>5, StockDrawn
  <2> QED BY <1>7, <2>1 DEF a
<1>10. Alive(t, m) = a
  BY <1>1, <1>3, <1>7 DEF Alive, Put, a
<1>11. ASSUME NEW k \in 1 .. 5, k # m PROVE Alive(t, k) = Alive(s, k)
  <2>1. CASE k = SG
    BY <1>1, <1>7, <1>11, <2>1 DEF Alive
  <2>2. CASE k # SG
    <3>1. k \in 2 .. 5
      BY <1>1, <2>2
    <3>2. t.parent[k] = s.parent[k]
      BY <1>7, <1>11, <3>1
    <3> QED BY <2>2, <3>2 DEF Alive
  <2> QED BY <2>1, <2>2
<1>12. ASSUME NEW k \in 1 .. 5 PROVE Stocked(Free(t, k), Alive(t, k), Ids(k))
  <2>1. CASE k = m
    BY <1>9, <1>10, <2>1
  <2>2. CASE k # m
    <3>1. Free(t, k) = Free(s, k) /\ Alive(t, k) = Alive(s, k)
      BY <1>7, <1>11, <2>2
    <3> QED BY <1>2, <3>1
  <2> QED BY <2>1, <2>2
<1>13. Linked(Queue(t, l), Alive(t, l), t.cnt[m], t.parent[m], t.ctx[l])
  <2> DEFINE D == Elems(new)
  <2>1. /\ IsFiniteSet(D) /\ D \cap DOMAIN s.parent[m] = {} /\ n = Cardinality(D)
        /\ t.parent[m] = Put(s.parent[m], D, Head(Queue(s, l)))
    BY <1>3, <1>7, <1>8
  <2> HIDE DEF D
  <2>2. /\ c + n # K => Linked(Queue(s, l), Alive(s, l), c + n, t.parent[m], s.ctx[l])
        /\ c + n = K => Linked(Tail(Queue(s, l)), Alive(s, l), 0, t.parent[m], s.ctx[l])
    BY <1>4, <1>5, <2>1, LinkedDraws
  <2>3. Alive(t, l) = Alive(s, l) /\ t.ctx[l] = s.ctx[l]
    BY <1>1, <1>7, <1>11
  <2>4. CASE done
    <3>1. c + n = K /\ Queue(t, l) = Tail(Queue(s, l)) /\ t.cnt[m] = 0
      BY <1>6, <1>7, <2>4 DEF done
    <3> QED BY <2>2, <2>3, <3>1
  <2>5. CASE ~ done
    <3>1. c + n # K /\ Queue(t, l) = Queue(s, l) /\ t.cnt[m] = c + n
      BY <1>6, <1>7, <2>5 DEF done
    <3> QED BY <2>2, <2>3, <3>1
  <2> QED BY <2>4, <2>5
<1>14. ASSUME l # RDTXN
       PROVE  Linked(Queue(t, m), Alive(t, m), t.cnt[m + 1], t.parent[m + 1], t.ctx[m])
  <2>1. m \in 1 .. 4 /\ m + 1 \in 2 .. 5 /\ m + 1 # m
    BY <1>1, <1>14
  <2>2. /\ t.cnt[m + 1] = s.cnt[m + 1] /\ t.parent[m + 1] = s.parent[m + 1]
        /\ t.ctx[m] = s.ctx[m] /\ Queue(t, m) = Queue(s, m) \o new
    BY <1>7, <1>14, <2>1
  <2>3. Linked(Queue(s, m), Alive(s, m), s.cnt[m + 1], s.parent[m + 1], s.ctx[m])
    BY <1>2, <2>1
  <2>4. Linked(Queue(s, m) \o new, a, s.cnt[m + 1], s.parent[m + 1], s.ctx[m])
    BY <1>8, <2>3, LinkedGrows DEF a
  <2> QED BY <1>10, <2>2, <2>4
<1>15. ASSUME NEW k \in 1 .. 4
       PROVE  Linked(Queue(t, k), Alive(t, k), t.cnt[k + 1], t.parent[k + 1], t.ctx[k])
  <2>1. CASE k = l
    BY <1>1, <1>13, <2>1
  <2>2. CASE k = m
    BY <1>1, <1>14, <2>2
  <2>3. CASE k # l /\ k # m
    <3>1. k + 1 \in 2 .. 5 /\ k + 1 # m /\ k \in 1 .. 5
      BY <1>1, <2>3
    <3>2. /\ t.cnt[k + 1] = s.cnt[k + 1] /\ t.parent[k + 1] = s.parent[k + 1]
          /\ t.ctx[k] = s.ctx[k] /\ Queue(t, k) = Queue(s, k) /\ Alive(t, k) = Alive(s, k)
      BY <1>7, <1>11, <2>3, <3>1
    <3> QED BY <1>2, <3>2
  <2> QED BY <2>1, <2>2, <2>3
<1>16. Carried(t.peq, t.peq_que, Alive(t, DAT), Ids(DAT))
  <2>1. CASE l = RDTXN
    <3>1. m = DAT
      BY <1>1, <2>1
    <3>2. /\ new \in Seq(Ids(DAT)) /\ Distinct(new) /\ Elems(new) \cap Alive(s, DAT) = {}
          /\ new = Drawn(s, DAT) /\ Alive(t, DAT) = Alive(s, DAT) \cup Elems(new)
      BY <1>8, <1>10, <3>1 DEF a, new
    <3>3. \A x \in Elems(new) : d[x] \in Nat
      BY <3>2
    <3>4. Carried(BeatsDelayed(s.peq, new, d), s.peq_que, Alive(s, DAT) \cup Elems(new), Ids(DAT))
      BY <1>2, <3>2, <3>3, CarriedDraws
    <3> QED BY <1>7, <2>1, <3>2, <3>4
  <2>2. CASE l # RDTXN
    <3>1. DAT \in 1 .. 5 /\ DAT # m
      BY <1>1, <2>2
    <3>2. Alive(t, DAT) = Alive(s, DAT) /\ t.peq = s.peq /\ t.peq_que = s.peq_que
      BY <1>7, <1>11, <2>2, <3>1
    <3> QED BY <1>2, <3>2
  <2> QED BY <2>1, <2>2
<1> QED BY <1>1, <1>7, <1>12, <1>15, <1>16 DEF Inv

\* t is s after the id of level l went back to its pool.
FreedIs(s, t, l, id) ==
  /\ Shape(t)
  /\ t.pool[SG] \in Seq(Ids(SG)) /\ t.sg_num \in 0 .. Len(t.pool[SG])
  /\ \A k \in 1 .. 5 : k # l => Free(t, k) = Free(s, k)
  /\ Free(t, l) = Append(Free(s, l), id)
  /\ \A k \in 1 .. 4 : Queue(t, k) = Queue(s, k)
  /\ \A k \in 2 .. 5 : t.cnt[k] = s.cnt[k]
  /\ \A k \in 2 .. 5 : k # l => t.parent[k] = s.parent[k]
  /\ l # SG => t.parent[l] = Erase(s.parent[l], id)
  /\ \A k \in 1 .. 4 : k # l /\ k + 1 # l => t.ctx[k] = s.ctx[k]
  /\ l # DAT => t.ctx[l] = Erase(s.ctx[l], id)
  /\ l # SG => t.ctx[l - 1] = Counts(s.ctx[l - 1], s.parent[l][id])
  /\ t.peq = s.peq
  /\ t.peq_que = IF l = DAT THEN Tail(s.peq_que) ELSE s.peq_que

\* t is s after a Return at level l, field by field.
ReturnIs(s, t, l, id) ==
  /\ Shape(t)
  /\ \A k \in 1 .. 5 : k # l => t.pool[k] = s.pool[k]
  /\ t.pool[l] = Append(s.pool[l], id)
  /\ \A k \in 2 .. 5 : k # l => t.parent[k] = s.parent[k]
  /\ t.parent[l] = Erase(s.parent[l], id)
  /\ \A k \in 1 .. 4 : k + 1 # l => t.ctx[k] = s.ctx[k]
  /\ t.ctx[l - 1] = Counts(s.ctx[l - 1], s.parent[l][id])
  /\ t.split = s.split /\ t.cnt = s.cnt /\ t.sg_num = s.sg_num
  /\ t.peq = s.peq /\ t.peq_que = s.peq_que

\* Return does this and no more.
LEMMA Returns ==
  ASSUME NEW s, Shape(s), NEW l \in 2 .. 5, NEW id
  PROVE  ReturnIs(s, Return(s, l, id), l, id)
<1> DEFINE t == Return(s, l, id)
           j == l - 1
           h == s.parent[l][id]
           more == Append(s.pool[l], id)
           left == Erase(s.parent[l], id)
           back == Counts(s.ctx[j], h)
           P == [s.pool EXCEPT ![l] = more]
           R == [s.parent EXCEPT ![l] = left]
           C == [s.ctx EXCEPT ![j] = back]
<1>1. s = [sg_num |-> s.sg_num, pool |-> s.pool, split |-> s.split, cnt |-> s.cnt,
          parent |-> s.parent, ctx |-> s.ctx, peq |-> s.peq, peq_que |-> s.peq_que]
  BY Zenon DEF Shape
<1>2. /\ DOMAIN s.pool = 1 .. 5 /\ DOMAIN s.parent = 2 .. 5 /\ DOMAIN s.ctx = 1 .. 4
  BY LevelsAre DEF Shape
<1>3. l \in 1 .. 5 /\ j \in 1 .. 4 /\ j = l - 1 /\ \A k \in 1 .. 4 : k + 1 # l <=> k # j
  OBVIOUS
<1>4. t = [s EXCEPT !.pool[l] = more, !.parent[l] = left, !.ctx[j] = back]
  <2>1. s.ctx[j] = s.ctx[l - 1]
    OBVIOUS
  <2> QED BY <1>1, <1>2, <1>3 DEF Return, Counts
<1> HIDE DEF t, j, h, more, left, back
<1>5. t = [sg_num |-> s.sg_num, pool |-> P, split |-> s.split, cnt |-> s.cnt,
           parent |-> R, ctx |-> C, peq |-> s.peq, peq_que |-> s.peq_que]
  BY <1>1, <1>4
<1>6. \A k \in 1 .. 5 : P[k] = IF k = l THEN more ELSE s.pool[k]
  BY <1>2, <1>3
<1>7. \A k \in 2 .. 5 : R[k] = IF k = l THEN left ELSE s.parent[k]
  BY <1>2
<1>8. \A k \in 1 .. 4 : C[k] = IF k = j THEN back ELSE s.ctx[k]
  BY <1>2, <1>3
<1>9. P = [k \in Levels |-> P[k]] /\ R = [k \in STRIPE .. DAT |-> R[k]]
      /\ C = [k \in SG .. RDTXN |-> C[k]]
  BY DEF Shape
<1> HIDE DEF P, R, C
<1>10. Shape(t)
  BY <1>5, <1>9 DEF Shape
<1>11. /\ \A k \in 1 .. 5 : k # l => t.pool[k] = s.pool[k]
       /\ t.pool[l] = more
  BY <1>3, <1>5, <1>6
<1>12. /\ \A k \in 2 .. 5 : k # l => t.parent[k] = s.parent[k]
       /\ t.parent[l] = left
  BY <1>5, <1>7
<1>13. /\ \A k \in 1 .. 4 : k + 1 # l => t.ctx[k] = s.ctx[k]
       /\ t.ctx[j] = back
  BY <1>3, <1>5, <1>8
<1>14. /\ t.split = s.split /\ t.cnt = s.cnt /\ t.sg_num = s.sg_num
       /\ t.peq = s.peq /\ t.peq_que = s.peq_que
  BY <1>5
<1>15. ReturnIs(s, t, l, id)
  BY <1>10, <1>11, <1>12, <1>13, <1>14, Zenon DEF ReturnIs, more, left, back, h, j
<1> QED BY <1>15 DEF t

\* Close frees an id that lies between others.
LEMMA Closes ==
  ASSUME NEW s, Shape(s), s.pool[SG] \in Seq(Ids(SG)), s.sg_num \in 0 .. Len(s.pool[SG]),
         NEW l \in 2 .. 4, NEW id
  PROVE  FreedIs(s, Close(s, l, id), l, id)
<1> DEFINE left == Erase(s.ctx[l], id)
           C == [s.ctx EXCEPT ![l] = left]
           u == [s EXCEPT !.ctx = C]
           w == [s EXCEPT !.ctx[l] = Erase(@, id)]
           t == Close(s, l, id)
<1>1. s = [sg_num |-> s.sg_num, pool |-> s.pool, split |-> s.split, cnt |-> s.cnt,
          parent |-> s.parent, ctx |-> s.ctx, peq |-> s.peq, peq_que |-> s.peq_que]
  BY Zenon DEF Shape
<1>2. DOMAIN s.ctx = 1 .. 4 /\ l \in 1 .. 4 /\ l \in 2 .. 5 /\ SG = 1 /\ l # SG
      /\ l # DAT /\ l \in 1 .. 5
  BY LevelsAre DEF Shape
<1>3. w = u
  BY <1>1, <1>2
<1>4. t = Return(u, l, id)
  BY <1>3, Zenon DEF Close
<1> HIDE DEF left, w, t
<1>5. \A k \in 1 .. 4 : C[k] = IF k = l THEN left ELSE s.ctx[k]
  BY <1>2
<1>6. C = [k \in SG .. RDTXN |-> C[k]]
  BY DEF Shape
<1> HIDE DEF C
<1>7. u = [sg_num |-> s.sg_num, pool |-> s.pool, split |-> s.split, cnt |-> s.cnt,
          parent |-> s.parent, ctx |-> C, peq |-> s.peq, peq_que |-> s.peq_que]
  BY <1>1
<1> HIDE DEF u
<1>8. Shape(u)
  BY <1>6, <1>7 DEF Shape
<1>9. ReturnIs(u, t, l, id)
  BY <1>2, <1>4, <1>8, Returns
<1>10. /\ Shape(t)
       /\ \A k \in 1 .. 5 : k # l => t.pool[k] = s.pool[k]
       /\ t.pool[l] = Append(s.pool[l], id)
       /\ \A k \in 2 .. 5 : k # l => t.parent[k] = s.parent[k]
       /\ t.parent[l] = Erase(s.parent[l], id)
       /\ \A k \in 1 .. 4 : k + 1 # l => t.ctx[k] = C[k]
       /\ t.ctx[l - 1] = Counts(C[l - 1], s.parent[l][id])
       /\ t.split = s.split /\ t.cnt = s.cnt /\ t.sg_num = s.sg_num
       /\ t.peq = s.peq /\ t.peq_que = s.peq_que
  BY <1>7, <1>9 DEF ReturnIs
<1>11. FreedIs(s, t, l, id)
  <2>1. t.pool[SG] \in Seq(Ids(SG)) /\ t.sg_num \in 0 .. Len(t.pool[SG])
    BY <1>2, <1>10
  <2>2. ASSUME NEW k \in 1 .. 5, k # l PROVE Free(t, k) = Free(s, k)
    BY <1>2, <1>10, <2>2 DEF Free
  <2>3. Free(t, l) = Append(Free(s, l), id)
    BY <1>2, <1>10 DEF Free
  <2>4. ASSUME NEW k \in 1 .. 4 PROVE Queue(t, k) = Queue(s, k)
    BY <1>2, <1>10 DEF Queue
  <2>5. \A k \in 1 .. 4 : k # l /\ k + 1 # l => t.ctx[k] = s.ctx[k]
    BY <1>5, <1>10
  <2>6. t.ctx[l] = left
    <3>1. l + 1 # l
      OBVIOUS
    <3> QED BY <1>2, <1>5, <1>10, <3>1
  <2>7. C[l - 1] = s.ctx[l - 1]
    <3>1. l - 1 \in 1 .. 4 /\ l - 1 # l
      OBVIOUS
    <3> QED BY <1>5, <3>1
  <2>8. t.ctx[l - 1] = Counts(s.ctx[l - 1], s.parent[l][id])
    BY <1>10, <2>7
  <2>9. \A k \in 2 .. 5 : t.cnt[k] = s.cnt[k]
    BY <1>10
  <2> QED BY <1>2, <1>10, <2>1, <2>2, <2>3, <2>4, <2>5, <2>6, <2>8, <2>9, Zenon
          DEF FreedIs, left
<1> QED BY <1>11 DEF t

\* reclaim_rdtxn frees the beat in front of those that came back.
LEMMA BeatReturns ==
  ASSUME NEW s, Shape(s), s.pool[SG] \in Seq(Ids(SG)), s.sg_num \in 0 .. Len(s.pool[SG]),
         NEW id, NEW t, t = Return([s EXCEPT !.peq_que = Tail(@)], DAT, id)
  PROVE  FreedIs(s, t, DAT, id)
<1> DEFINE l == DAT
           r == Tail(s.peq_que)
           u == [s EXCEPT !.peq_que = r]
<1>1. s = [sg_num |-> s.sg_num, pool |-> s.pool, split |-> s.split, cnt |-> s.cnt,
          parent |-> s.parent, ctx |-> s.ctx, peq |-> s.peq, peq_que |-> s.peq_que]
  BY Zenon DEF Shape
<1>2. SG = 1 /\ l = 5 /\ l # SG /\ l = DAT /\ l \in 1 .. 5 /\ l \in 2 .. 5
  BY LevelsAre
<1>3. t = Return(u, l, id)
  BY <1>1
<1> HIDE DEF l, r
<1>4. u = [sg_num |-> s.sg_num, pool |-> s.pool, split |-> s.split, cnt |-> s.cnt,
          parent |-> s.parent, ctx |-> s.ctx, peq |-> s.peq, peq_que |-> r]
  BY <1>1
<1> HIDE DEF u
<1>5. Shape(u)
  BY <1>4 DEF Shape
<1>6. ReturnIs(u, t, l, id)
  BY <1>2, <1>3, <1>5, Returns
<1>7. /\ Shape(t)
      /\ \A k \in 1 .. 5 : k # l => t.pool[k] = s.pool[k]
      /\ t.pool[l] = Append(s.pool[l], id)
      /\ \A k \in 2 .. 5 : k # l => t.parent[k] = s.parent[k]
      /\ t.parent[l] = Erase(s.parent[l], id)
      /\ \A k \in 1 .. 4 : k + 1 # l => t.ctx[k] = s.ctx[k]
      /\ t.ctx[l - 1] = Counts(s.ctx[l - 1], s.parent[l][id])
      /\ t.split = s.split /\ t.cnt = s.cnt /\ t.sg_num = s.sg_num
      /\ t.peq = s.peq /\ t.peq_que = r
  BY <1>4, <1>6 DEF ReturnIs
<1>8. FreedIs(s, t, l, id)
  <2>1. t.pool[SG] \in Seq(Ids(SG)) /\ t.sg_num \in 0 .. Len(t.pool[SG])
    BY <1>2, <1>7
  <2>2. ASSUME NEW k \in 1 .. 5, k # l PROVE Free(t, k) = Free(s, k)
    BY <1>2, <1>7, <2>2 DEF Free
  <2>3. Free(t, l) = Append(Free(s, l), id)
    BY <1>2, <1>7 DEF Free
  <2>4. ASSUME NEW k \in 1 .. 4 PROVE Queue(t, k) = Queue(s, k)
    BY <1>2, <1>7 DEF Queue
  <2>5. \A k \in 2 .. 5 : t.cnt[k] = s.cnt[k]
    BY <1>7
  <2> QED BY <1>2, <1>7, <2>1, <2>2, <2>3, <2>4, <2>5, Zenon DEF FreedIs, r
<1> QED BY <1>8 DEF l

\* reclaim_sg frees the id of an sg.
LEMMA SgReturns ==
  ASSUME NEW s, Shape(s), s.pool[SG] \in Seq(Ids(SG)), s.sg_num \in 0 .. Len(s.pool[SG]),
         NEW id \in Ids(SG), Complete(s, SG, id), NEW t, t = reclaim_sg(s, id)
  PROVE  FreedIs(s, t, SG, id)
<1> DEFINE l == SG
           left == Erase(s.ctx[l], id)
           C == [s.ctx EXCEPT ![l] = left]
           p == s.pool[l]
           n == s.sg_num
           more == Append(p, id)
           P == [s.pool EXCEPT ![l] = more]
<1>1. s = [sg_num |-> s.sg_num, pool |-> s.pool, split |-> s.split, cnt |-> s.cnt,
          parent |-> s.parent, ctx |-> s.ctx, peq |-> s.peq, peq_que |-> s.peq_que]
  BY Zenon DEF Shape
<1>2. /\ DOMAIN s.ctx = 1 .. 4 /\ DOMAIN s.pool = 1 .. 5 /\ l = 1 /\ l = SG /\ l # DAT
      /\ l \in 1 .. 5 /\ l \in 1 .. 4
  BY LevelsAre DEF Shape
<1>3. t = [s EXCEPT !.pool[l] = Append(@, id), !.ctx[l] = Erase(@, id)]
  BY DEF reclaim_sg
<1>4. t = [sg_num |-> s.sg_num, pool |-> P, split |-> s.split, cnt |-> s.cnt,
          parent |-> s.parent, ctx |-> C, peq |-> s.peq, peq_que |-> s.peq_que]
  BY <1>1, <1>2, <1>3
<1> HIDE DEF l, left, more
<1>5. \A k \in 1 .. 4 : C[k] = IF k = l THEN left ELSE s.ctx[k]
  BY <1>2
<1>6. \A k \in 1 .. 5 : P[k] = IF k = l THEN more ELSE s.pool[k]
  BY <1>2
<1>7. C = [k \in SG .. RDTXN |-> C[k]] /\ P = [k \in Levels |-> P[k]]
  BY DEF Shape
<1> HIDE DEF C, P
<1>8. Shape(t)
  BY <1>4, <1>7 DEF Shape
<1>9. /\ p \in Seq(Ids(SG)) /\ n \in 0 .. Len(p) /\ t.pool[SG] = more /\ t.sg_num = n
      /\ p = s.pool[SG]
  BY <1>2, <1>4, <1>6
<1> HIDE DEF p, n
<1>10. /\ SubSeq(more, 1, n) = SubSeq(p, 1, n)
       /\ SubSeq(more, n + 1, Len(more)) = Append(SubSeq(p, n + 1, Len(p)), id)
       /\ more \in Seq(Ids(SG)) /\ n \in 0 .. Len(more)
  <2>1. p \in Seq(Ids(SG)) /\ n \in 0 .. Len(p) /\ more = Append(p, id)
    BY <1>9 DEF more, p
  <2>2. JoinsBehind(p, n, id, more, Ids(SG))
    BY <2>1, BehindJoined
  <2> QED BY <2>2, Zenon DEF JoinsBehind
<1>11. /\ Queue(s, l) = SubSeq(p, 1, n) /\ Free(s, l) = SubSeq(p, n + 1, Len(p))
       /\ Queue(t, l) = SubSeq(more, 1, n) /\ Free(t, l) = SubSeq(more, n + 1, Len(more))
  BY <1>2, <1>9 DEF Queue, Free, n
<1>12. FreedIs(s, t, l, id)
  <2>1. t.pool[SG] \in Seq(Ids(SG)) /\ t.sg_num \in 0 .. Len(t.pool[SG])
    BY <1>9, <1>10
  <2>2. ASSUME NEW k \in 1 .. 5, k # l PROVE Free(t, k) = Free(s, k)
    BY <1>2, <1>4, <1>6, <2>2 DEF Free
  <2>3. Free(t, l) = Append(Free(s, l), id)
    BY <1>10, <1>11
  <2>4. ASSUME NEW k \in 1 .. 4 PROVE Queue(t, k) = Queue(s, k)
    <3>1. CASE k = l
      BY <1>10, <1>11, <3>1
    <3>2. CASE k # l
      BY <1>2, <1>4, <3>2 DEF Queue
    <3> QED BY <3>1, <3>2
  <2>5. t.parent = s.parent /\ t.cnt = s.cnt /\ t.peq = s.peq /\ t.peq_que = s.peq_que
    BY <1>4
  <2>6. \A k \in 1 .. 4 : k # l => t.ctx[k] = s.ctx[k]
    BY <1>4, <1>5
  <2>7. t.ctx[l] = left
    BY <1>2, <1>4, <1>5
  <2> QED BY <1>2, <1>8, <2>1, <2>2, <2>3, <2>4, <2>5, <2>6, <2>7, Zenon
          DEF FreedIs, left
<1> QED BY <1>12 DEF l

\* The ids that may be freed: a beat that is first of those that came back, or
\* an id with all its children returned.
Freeable(s, l, id) ==
  /\ l = DAT => s.peq_que # <<>> /\ id = Head(s.peq_que)
  /\ l # DAT => id \in DOMAIN s.ctx[l] /\ s.ctx[l][id] = K

\* Freeing keeps the books, and the parent has an entry in its counts.
LEMMA FreedKeeps ==
  ASSUME NEW s, Inv(s), NEW l \in 1 .. 5, NEW id, Freeable(s, l, id),
         NEW t, FreedIs(s, t, l, id)
  PROVE  /\ Inv(t)
         /\ l # SG => s.parent[l][id] \in DOMAIN t.ctx[l - 1]
<1>1. /\ DAT = 5 /\ SG = 1 /\ Levels = 1 .. 5 /\ SG .. RDTXN = 1 .. 4 /\ RDTXN = 4
      /\ DAT \in 1 .. 5
  BY LevelsAre
<1>2. /\ \A k \in 1 .. 5 : Stocked(Free(s, k), Alive(s, k), Ids(k))
      /\ \A k \in 1 .. 4 :
           Linked(Queue(s, k), Alive(s, k), s.cnt[k + 1], s.parent[k + 1], s.ctx[k])
      /\ Carried(s.peq, s.peq_que, Alive(s, DAT), Ids(DAT))
  BY <1>1 DEF Inv
<1>3. /\ Shape(t)
      /\ t.pool[SG] \in Seq(Ids(SG)) /\ t.sg_num \in 0 .. Len(t.pool[SG])
      /\ \A k \in 1 .. 5 : k # l => Free(t, k) = Free(s, k)
      /\ Free(t, l) = Append(Free(s, l), id)
      /\ \A k \in 1 .. 4 : Queue(t, k) = Queue(s, k)
      /\ \A k \in 2 .. 5 : t.cnt[k] = s.cnt[k]
      /\ \A k \in 2 .. 5 : k # l => t.parent[k] = s.parent[k]
      /\ l # SG => t.parent[l] = Erase(s.parent[l], id)
      /\ \A k \in 1 .. 4 : k # l /\ k + 1 # l => t.ctx[k] = s.ctx[k]
      /\ l # DAT => t.ctx[l] = Erase(s.ctx[l], id)
      /\ l # SG => t.ctx[l - 1] = Counts(s.ctx[l - 1], s.parent[l][id])
      /\ t.peq = s.peq
      /\ t.peq_que = IF l = DAT THEN Tail(s.peq_que) ELSE s.peq_que
  BY Zenon DEF FreedIs
<1>4. /\ l = DAT => s.peq_que # <<>> /\ id = Head(s.peq_que)
      /\ l # DAT => id \in DOMAIN s.ctx[l] /\ s.ctx[l][id] = K
  BY DEF Freeable
<1> DEFINE a == Alive(s, l)
           b == a \ {id}
<1> HIDE DEF a, b
\* The id was in use, and nothing mentions it any more.
<1>5. /\ id \in a
      /\ l # DAT => Linked(Queue(s, l), b, s.cnt[l + 1], s.parent[l + 1], Erase(s.ctx[l], id))
      /\ l = DAT => Carried(s.peq, Tail(s.peq_que), b, Ids(DAT))
  <2>1. CASE l = DAT
    <3>1. s.peq_que # <<>> /\ id = Head(s.peq_que)
      BY <1>4, <2>1
    <3>2. /\ Head(s.peq_que) \in Alive(s, DAT)
          /\ Carried(s.peq, Tail(s.peq_que), Alive(s, DAT) \ {Head(s.peq_que)}, Ids(DAT))
      BY <1>2, <3>1, CarriedReturns
    <3> QED BY <2>1, <3>1, <3>2 DEF a, b
  <2>2. CASE l # DAT
    <3>1. l \in 1 .. 4 /\ id \in DOMAIN s.ctx[l] /\ s.ctx[l][id] = K
      BY <1>1, <1>4, <2>2
    <3>2. Linked(Queue(s, l), a, s.cnt[l + 1], s.parent[l + 1], s.ctx[l])
      BY <1>2, <3>1 DEF a
    <3>3. /\ id \in a
          /\ Linked(Queue(s, l), a \ {id}, s.cnt[l + 1], s.parent[l + 1], Erase(s.ctx[l], id))
      BY <3>1, <3>2, LinkedCloses
    <3> QED BY <2>2, <3>3 DEF b
  <2> QED BY <2>1, <2>2
<1>6. /\ Stocked(Append(Free(s, l), id), b, Ids(l))
      /\ Free(s, l) \in Seq(Ids(l)) /\ id \in Ids(l)
  <2>1. Stocked(Free(s, l), a, Ids(l))
    BY <1>2 DEF a
  <2>2. Stocked(Append(Free(s, l), id), a \ {id}, Ids(l))
    BY <1>5, <2>1, StockReturned
  <2>3. Free(s, l) \in Seq(Ids(l)) /\ id \in Ids(l)
    BY <1>5, <2>1 DEF Stocked
  <2> QED BY <2>2, <2>3 DEF b
<1>7. Alive(t, l) = b
  <2>1. CASE l = SG
    <3>1. Elems(Append(Free(s, l), id)) = Elems(Free(s, l)) \cup {id}
      BY <1>6, Joined
    <3>2. Alive(t, l) = Ids(SG) \ Elems(Append(Free(s, l), id))
      BY <1>3, <2>1 DEF Alive
    <3>3. a = Ids(SG) \ Elems(Free(s, l))
      BY <2>1 DEF Alive, a
    <3> QED BY <3>1, <3>2, <3>3 DEF b
  <2>2. CASE l # SG
    <3>1. t.parent[l] = Erase(s.parent[l], id)
      BY <1>3, <2>2
    <3>2. Alive(t, l) = DOMAIN t.parent[l] /\ a = DOMAIN s.parent[l]
      BY <2>2 DEF Alive, a
    <3> QED BY <3>1, <3>2 DEF Erase, b
  <2> QED BY <2>1, <2>2
<1>8. ASSUME NEW k \in 1 .. 5, k # l PROVE Alive(t, k) = Alive(s, k)
  <2>1. CASE k = SG
    BY <1>1, <1>3, <1>8, <2>1 DEF Alive
  <2>2. CASE k # SG
    <3>1. k \in 2 .. 5
      BY <1>1, <2>2
    <3>2. t.parent[k] = s.parent[k]
      BY <1>3, <1>8, <3>1
    <3> QED BY <2>2, <3>2 DEF Alive
  <2> QED BY <2>1, <2>2
<1>9. ASSUME NEW k \in 1 .. 5 PROVE Stocked(Free(t, k), Alive(t, k), Ids(k))
  <2>1. CASE k = l
    BY <1>3, <1>6, <1>7, <2>1
  <2>2. CASE k # l
    <3>1. Free(t, k) = Free(s, k) /\ Alive(t, k) = Alive(s, k)
      BY <1>3, <1>8, <2>2
    <3> QED BY <1>2, <3>1
  <2> QED BY <2>1, <2>2
<1>10. ASSUME NEW k \in 1 .. 4
       PROVE  Linked(Queue(t, k), Alive(t, k), t.cnt[k + 1], t.parent[k + 1], t.ctx[k])
  <2>0. k + 1 \in 2 .. 5 /\ k \in 1 .. 5 /\ Queue(t, k) = Queue(s, k) /\ t.cnt[k + 1] = s.cnt[k + 1]
    BY <1>3
  <2>1. CASE k = l
    <3>1. l # DAT /\ k + 1 # l
      BY <1>1, <2>1
    <3>2. t.parent[k + 1] = s.parent[k + 1] /\ t.ctx[k] = Erase(s.ctx[k], id)
      BY <1>3, <2>0, <2>1, <3>1
    <3> QED BY <1>5, <1>7, <2>0, <2>1, <3>1, <3>2
  <2>2. CASE k + 1 = l
    <3>1. l # SG /\ k = l - 1 /\ k # l
      BY <1>1, <2>2
    <3> DEFINE par == s.parent[l]
    <3>2. t.parent[l] = Erase(par, id) /\ t.ctx[k] = Counts(s.ctx[k], par[id])
      BY <1>3, <3>1
    <3>3. id \in DOMAIN par
      BY <1>5, <3>1 DEF Alive, a
    <3>4. Linked(Queue(s, k), Alive(s, k), s.cnt[l], par, s.ctx[k])
      BY <1>2, <2>2
    <3> HIDE DEF par
    <3>5. Linked(Queue(s, k), Alive(s, k), s.cnt[l], Erase(par, id), Counts(s.ctx[k], par[id]))
      BY <3>3, <3>4, LinkedReturns
    <3>6. Alive(t, k) = Alive(s, k)
      BY <1>8, <2>0, <3>1
    <3> QED BY <2>0, <2>2, <3>2, <3>5, <3>6
  <2>3. CASE k # l /\ k + 1 # l
    <3>1. t.parent[k + 1] = s.parent[k + 1] /\ t.ctx[k] = s.ctx[k] /\ Alive(t, k) = Alive(s, k)
      BY <1>3, <1>8, <2>0, <2>3
    <3> QED BY <1>2, <2>0, <3>1
  <2> QED BY <2>1, <2>2, <2>3
<1>11. Carried(t.peq, t.peq_que, Alive(t, DAT), Ids(DAT))
  <2>1. CASE l = DAT
    BY <1>3, <1>5, <1>7, <2>1
  <2>2. CASE l # DAT
    <3>1. Alive(t, DAT) = Alive(s, DAT)
      BY <1>1, <1>8, <2>2
    <3> QED BY <1>2, <1>3, <2>2, <3>1
  <2> QED BY <2>1, <2>2
<1>12. Inv(t)
  BY <1>1, <1>3, <1>9, <1>10, <1>11 DEF Inv
<1>13. l # SG => s.parent[l][id] \in DOMAIN t.ctx[l - 1]
  BY <1>3 DEF Counts, Put
<1> QED BY <1>12, <1>13

-----------------------------------------------------------------------------
(* The calls of mth_entry                                                  *)

\* The calls of mth_entry keep the books sound.  First split_sg,
LEMMA SgSplitKeeps ==
  ASSUME NEW s, Inv(s)
  PROVE  Inv(split_sg(s))
<1>1. CASE s.sg_num = 0
  BY <1>1 DEF split_sg
<1>2. CASE s.sg_num # 0
  <2> DEFINE t == split_sg(s)
             d == [x \in Elems(Drawn(s, DAT)) |-> 0]
  <2>1. t = split_sg(s)
    OBVIOUS
  <2>2. Shape(s) /\ s.pool[SG] \in Seq(Ids(SG)) /\ s.sg_num \in 0 .. Len(s.pool[SG])
    BY DEF Inv
  <2> HIDE DEF t
  <2>3. SplitIs(s, t, SG) /\ Queue(s, SG) # <<>>
    BY <1>2, <2>1, <2>2, SplitsSg
  <2>4. SG \in 1 .. 4 /\ SG # RDTXN
    BY LevelsAre
  <2>5. \A x \in Elems(Drawn(s, DAT)) : d[x] \in Nat
    OBVIOUS
  <2> HIDE DEF d
  <2>6. Inv(t)
    BY <2>3, <2>4, <2>5, SplitKeeps
  <2> QED BY <2>1, <2>6
<1> QED BY <1>1, <1>2

\* split_stripe and split_su,
LEMMA IntoKeeps ==
  ASSUME NEW s, Inv(s), NEW l \in {STRIPE, SU}
  PROVE  Inv(SplitInto(s, l))
<1>1. CASE s.split[l] = <<>>
  BY <1>1 DEF SplitInto
<1>2. CASE s.split[l] # <<>>
  <2> DEFINE t == SplitInto(s, l)
             d == [x \in Elems(Drawn(s, DAT)) |-> 0]
  <2>1. t = SplitInto(s, l)
    OBVIOUS
  <2>2. Shape(s) /\ s.pool[SG] \in Seq(Ids(SG)) /\ s.sg_num \in 0 .. Len(s.pool[SG])
    BY DEF Inv
  <2> HIDE DEF t
  <2>3. SplitIs(s, t, l)
    BY <1>2, <2>1, <2>2, SplitsInto
  <2>4. l \in 1 .. 4 /\ l # RDTXN /\ l # SG
    BY LevelsAre
  <2>5. Queue(s, l) # <<>>
    BY <1>2, <2>4 DEF Queue
  <2>6. \A x \in Elems(Drawn(s, DAT)) : d[x] \in Nat
    OBVIOUS
  <2> HIDE DEF d
  <2>7. Inv(t)
    BY <2>3, <2>4, <2>5, <2>6, SplitKeeps
  <2> QED BY <2>1, <2>7
<1> QED BY <1>1, <1>2

\* split_rdtxn,
LEMMA TxnSplitKeeps ==
  ASSUME NEW s, Inv(s), NEW d \in [Elems(BeatsDrawn(s)) -> Delays]
  PROVE  Inv(split_rdtxn(s, d))
<1>1. CASE s.split[RDTXN] = <<>>
  BY <1>1 DEF split_rdtxn
<1>2. CASE s.split[RDTXN] # <<>>
  <2> DEFINE t == split_rdtxn(s, d)
  <2>1. t = split_rdtxn(s, d)
    OBVIOUS
  <2>2. Shape(s) /\ s.pool[SG] \in Seq(Ids(SG)) /\ s.sg_num \in 0 .. Len(s.pool[SG])
    BY DEF Inv
  <2> HIDE DEF t
  <2>3. SplitIs(s, t, RDTXN) /\ t.peq = BeatsDelayed(s.peq, Drawn(s, DAT), d)
    BY <1>2, <2>1, <2>2, SplitsTxn
  <2>4. RDTXN \in 1 .. 4 /\ RDTXN # SG
    BY LevelsAre
  <2>5. Queue(s, RDTXN) # <<>>
    BY <1>2, <2>4 DEF Queue
  <2>6. \A x \in Elems(Drawn(s, DAT)) : d[x] \in Nat
    <3>1. BeatsDrawn(s) = Drawn(s, DAT)
      BY <1>2 DEF BeatsDrawn
    <3> QED BY <3>1, AcclAssumption
  <2>7. Inv(t)
    BY <2>3, <2>4, <2>5, <2>6, SplitKeeps
  <2> QED BY <2>1, <2>7
<1> QED BY <1>1, <1>2

\* Nothing but the beats under way has changed.
LEMMA BeatsMove ==
  ASSUME NEW s, Inv(s), NEW q, NEW que,
         Carried(q, que, Alive(s, DAT), Ids(DAT)), NEW t,
         t = [sg_num |-> s.sg_num, pool |-> s.pool, split |-> s.split, cnt |-> s.cnt,
              parent |-> s.parent, ctx |-> s.ctx, peq |-> q, peq_que |-> que]
  PROVE  Inv(t)
<1>1. Shape(s)
  BY DEF Inv
<1>2. /\ t.sg_num = s.sg_num /\ t.pool = s.pool /\ t.split = s.split /\ t.cnt = s.cnt
      /\ t.parent = s.parent /\ t.ctx = s.ctx /\ t.peq = q /\ t.peq_que = que
  OBVIOUS
<1>3. Shape(t)
  BY <1>1, <1>2 DEF Shape
<1>4. \A l : Free(t, l) = Free(s, l) /\ Queue(t, l) = Queue(s, l)
  BY <1>2 DEF Free, Queue
<1>5. \A l : Alive(t, l) = Alive(s, l)
  BY <1>2, <1>4 DEF Alive
<1>6. /\ t.pool[SG] \in Seq(Ids(SG)) /\ t.sg_num \in 0 .. Len(t.pool[SG])
      /\ \A l \in Levels : Stocked(Free(t, l), Alive(t, l), Ids(l))
  BY <1>2, <1>4, <1>5, Zenon DEF Inv
<1>7. \A l \in SG .. RDTXN :
        Linked(Queue(t, l), Alive(t, l), t.cnt[l + 1], t.parent[l + 1], t.ctx[l])
  BY <1>2, <1>4, <1>5, Zenon DEF Inv
<1>8. Carried(t.peq, t.peq_que, Alive(t, DAT), Ids(DAT))
  BY <1>2, <1>5
<1> QED BY <1>3, <1>6, <1>7, <1>8 DEF Inv

\* mth_get_peq, which only moves beats from the peq to the queue,
LEMMA GetKeeps ==
  ASSUME NEW s, Inv(s)
  PROVE  Inv(mth_get_peq(s))
<1> DEFINE q == PeqLater(s.peq)
           que == s.peq_que \o PeqReady(s.peq)
           t == mth_get_peq(s)
<1>1. Shape(s) /\ Carried(s.peq, s.peq_que, Alive(s, DAT), Ids(DAT))
  BY DEF Inv
<1>2. Carried(q, que, Alive(s, DAT), Ids(DAT))
  BY <1>1, CarriedDrains
<1>3. s = [sg_num |-> s.sg_num, pool |-> s.pool, split |-> s.split, cnt |-> s.cnt,
          parent |-> s.parent, ctx |-> s.ctx, peq |-> s.peq, peq_que |-> s.peq_que]
  BY <1>1, Zenon DEF Shape
<1>4. t = [s EXCEPT !.peq = q, !.peq_que = que]
  BY <1>3 DEF mth_get_peq
<1> HIDE DEF q, que, t
<1>5. t = [sg_num |-> s.sg_num, pool |-> s.pool, split |-> s.split, cnt |-> s.cnt,
           parent |-> s.parent, ctx |-> s.ctx, peq |-> q, peq_que |-> que]
  BY <1>3, <1>4
<1>6. Inv(t)
  BY <1>2, <1>5, BeatsMove
<1> QED BY <1>6 DEF t

\* What the counts are kept for is in use.
LEMMA CountedLives ==
  ASSUME NEW s, Inv(s), NEW l \in 1 .. 4, NEW id \in DOMAIN s.ctx[l]
  PROVE  id \in Alive(s, l) /\ id \in Ids(l)
<1>1. Levels = 1 .. 5 /\ SG .. RDTXN = 1 .. 4 /\ l \in 1 .. 5
  BY LevelsAre
<1>2. Linked(Queue(s, l), Alive(s, l), s.cnt[l + 1], s.parent[l + 1], s.ctx[l])
  BY <1>1 DEF Inv
<1>3. id \in Alive(s, l)
  BY <1>2 DEF Linked
<1>4. Stocked(Free(s, l), Alive(s, l), Ids(l))
  BY <1>1 DEF Inv
<1> QED BY <1>3, <1>4 DEF Stocked

\* reclaim_sg, called with an sg that counts a child,
LEMMA ReclaimSgKeeps ==
  ASSUME NEW s, Inv(s), NEW id \in DOMAIN s.ctx[SG]
  PROVE  Inv(reclaim_sg(s, id))
<1>1. CASE ~ Complete(s, SG, id)
  BY <1>1 DEF reclaim_sg
<1>2. CASE Complete(s, SG, id)
  <2> DEFINE t == reclaim_sg(s, id)
  <2>1. Shape(s) /\ s.pool[SG] \in Seq(Ids(SG)) /\ s.sg_num \in 0 .. Len(s.pool[SG])
    BY DEF Inv
  <2>2. SG \in 1 .. 5 /\ SG \in 1 .. 4 /\ SG # DAT
    BY LevelsAre
  <2>3. id \in Ids(SG)
    BY <2>2, CountedLives
  <2>4. FreedIs(s, t, SG, id)
    BY <1>2, <2>1, <2>3, SgReturns
  <2>5. Freeable(s, SG, id)
    BY <1>2, <2>2 DEF Freeable, Complete
  <2> HIDE DEF t
  <2>6. Inv(t)
    BY <2>2, <2>4, <2>5, FreedKeeps
  <2> QED BY <2>6 DEF t
<1> QED BY <1>1, <1>2

\* Closing an id keeps the books, and its parent is next.
LEMMA CloseKeeps ==
  ASSUME NEW s, Inv(s), NEW l \in 2 .. 4, NEW id \in DOMAIN s.ctx[l], Complete(s, l, id)
  PROVE  /\ Inv(Close(s, l, id))
         /\ s.parent[l][id] \in DOMAIN Close(s, l, id).ctx[l - 1]
<1> DEFINE t == Close(s, l, id)
<1>1. Shape(s) /\ s.pool[SG] \in Seq(Ids(SG)) /\ s.sg_num \in 0 .. Len(s.pool[SG])
  BY DEF Inv
<1>2. l \in 1 .. 5 /\ l # SG /\ l # DAT
  BY LevelsAre
<1>3. FreedIs(s, t, l, id)
  BY <1>1, Closes
<1>4. Freeable(s, l, id)
  BY <1>2 DEF Freeable, Complete
<1> HIDE DEF t
<1>5. Inv(t)
  BY <1>2, <1>3, <1>4, FreedKeeps
<1>6. s.parent[l][id] \in DOMAIN t.ctx[l - 1]
  BY <1>2, <1>3, <1>4, FreedKeeps
<1> QED BY <1>5, <1>6 DEF t

\* reclaim_stripe and the call it makes,
LEMMA ReclaimStripeKeeps ==
  ASSUME NEW s, Inv(s), NEW id \in DOMAIN s.ctx[STRIPE]
  PROVE  Inv(reclaim_stripe(s, id))
<1>1. CASE ~ Complete(s, STRIPE, id)
  BY <1>1 DEF reclaim_stripe
<1>2. CASE Complete(s, STRIPE, id)
  <2> DEFINE t == Close(s, STRIPE, id)
             p == s.parent[STRIPE][id]
  <2>1. STRIPE \in 2 .. 4 /\ STRIPE - 1 = SG
    BY LevelsAre
  <2>2. Inv(t) /\ p \in DOMAIN t.ctx[STRIPE - 1]
    BY <1>2, <2>1, CloseKeeps
  <2> HIDE DEF t, p
  <2>3. Inv(reclaim_sg(t, p))
    BY <2>1, <2>2, ReclaimSgKeeps
  <2> QED BY <1>2, <2>3 DEF reclaim_stripe, t, p
<1> QED BY <1>1, <1>2

\* reclaim_su and the calls it makes,
LEMMA ReclaimSuKeeps ==
  ASSUME NEW s, Inv(s), NEW id \in DOMAIN s.ctx[SU]
  PROVE  Inv(reclaim_su(s, id))
<1>1. CASE ~ Complete(s, SU, id)
  BY <1>1 DEF reclaim_su
<1>2. CASE Complete(s, SU, id)
  <2> DEFINE t == Close(s, SU, id)
             p == s.parent[SU][id]
  <2>1. SU \in 2 .. 4 /\ SU - 1 = STRIPE
    BY LevelsAre
  <2>2. Inv(t) /\ p \in DOMAIN t.ctx[SU - 1]
    BY <1>2, <2>1, CloseKeeps
  <2> HIDE DEF t, p
  <2>3. Inv(reclaim_stripe(t, p))
    BY <2>1, <2>2, ReclaimStripeKeeps
  <2> QED BY <1>2, <2>3 DEF reclaim_su, t, p
<1> QED BY <1>1, <1>2

\* and reclaim_rdtxn, which starts the chain with a returned beat.
LEMMA ReclaimTxnKeeps ==
  ASSUME NEW s, Inv(s)
  PROVE  Inv(reclaim_rdtxn(s))
<1>1. CASE s.peq_que = <<>>
  BY <1>1 DEF reclaim_rdtxn
<1>2. CASE s.peq_que # <<>>
  <2> DEFINE dat == Head(s.peq_que)
             p == s.parent[DAT][dat]
             t == Return([s EXCEPT !.peq_que = Tail(@)], DAT, dat)
             w == Close(t, RDTXN, p)
             g == s.parent[RDTXN][p]
  <2>1. Shape(s) /\ s.pool[SG] \in Seq(Ids(SG)) /\ s.sg_num \in 0 .. Len(s.pool[SG])
    BY DEF Inv
  <2>2. DAT \in 1 .. 5 /\ DAT # SG /\ DAT - 1 = RDTXN /\ RDTXN - 1 = SU /\ RDTXN \in 2 .. 4
        /\ RDTXN \in 2 .. 5 /\ RDTXN # DAT
    BY LevelsAre
  <2>3. FreedIs(s, t, DAT, dat)
    BY <2>1, BeatReturns
  <2>4. Freeable(s, DAT, dat)
    BY <1>2, <2>2 DEF Freeable
  <2>5. t.parent[RDTXN] = s.parent[RDTXN]
    BY <2>2, <2>3 DEF FreedIs
  <2>6. reclaim_rdtxn(s) = IF ~ Complete(t, RDTXN, p) THEN t ELSE reclaim_su(w, g)
    BY <1>2, Zenon DEF reclaim_rdtxn
  <2> HIDE DEF dat, p, t, w, g
  <2>7. Inv(t)
    BY <2>2, <2>3, <2>4, FreedKeeps
  <2>8. p \in DOMAIN t.ctx[RDTXN]
    <3>1. s.parent[DAT][dat] \in DOMAIN t.ctx[DAT - 1]
      BY <2>2, <2>3, <2>4, FreedKeeps
    <3> QED BY <2>2, <3>1 DEF p
  <2>9. CASE Complete(t, RDTXN, p)
    <3>1. Inv(w) /\ t.parent[RDTXN][p] \in DOMAIN w.ctx[RDTXN - 1]
      BY <2>2, <2>7, <2>8, <2>9, CloseKeeps DEF w
    <3>2. g \in DOMAIN w.ctx[SU]
      BY <2>2, <2>5, <3>1 DEF g
    <3>3. Inv(reclaim_su(w, g))
      BY <3>1, <3>2, ReclaimSuKeeps
    <3> QED BY <2>6, <2>9, <3>3
  <2> QED BY <2>6, <2>7, <2>9
<1> QED BY <1>1, <1>2

-----------------------------------------------------------------------------
(* The accelerator                                                         *)

\* The pools as the constructor fills them.
LEMMA FilledPool ==
  ASSUME NEW n \in Nat, NEW q, q = [i \in 1 .. n |-> i - 1]
  PROVE  /\ q \in Seq(0 .. n - 1) /\ Len(q) = n /\ Distinct(q)
         /\ Elems(q) = 0 .. n - 1
<1>1. /\ q \in Seq(0 .. n - 1) /\ Len(q) = n /\ DOMAIN q = 1 .. n
      /\ \A i \in 1 .. n : q[i] = i - 1
  OBVIOUS
<1>2. Distinct(q)
  BY <1>1 DEF Distinct
<1>3. ASSUME NEW x \in 0 .. n - 1 PROVE x \in Elems(q)
  <2>1. x + 1 \in 1 .. n /\ q[x + 1] = x
    BY <1>1
  <2> QED BY <1>1, <2>1 DEF Elems
<1>4. ASSUME NEW i \in 1 .. n PROVE q[i] \in 0 .. n - 1
  BY <1>1
<1>5. Elems(q) = 0 .. n - 1
  <2>1. Elems(q) \subseteq 0 .. n - 1
    BY <1>1, <1>4 DEF Elems
  <2> QED BY <1>3, <2>1
<1> QED BY <1>1, <1>2, <1>5

\* At the start every id is free but those of the sgs to be split.
LEMMA InitBooks == Init => Inv(Now)
<1> SUFFICES ASSUME Init PROVE Inv(Now)
  OBVIOUS
<1> DEFINE s == Now
           p == pool[SG]
           f == SubSeq(p, m_sg_num + 1, Len(p))
           q == SubSeq(p, 1, m_sg_num)
           a == Ids(SG) \ Elems(f)
<1>1. /\ SG = 1 /\ STRIPE = 2 /\ RDTXN = 4 /\ DAT = 5 /\ Levels = 1 .. 5
  BY LevelsAre
<1>2. /\ s.sg_num = m_sg_num /\ s.pool = pool /\ s.split = split /\ s.cnt = cnt
      /\ s.parent = parent /\ s.ctx = ctx /\ s.peq = m_peq /\ s.peq_que = m_peq_que
  BY DEF Now
<1>3. Shape(s)
  <2>1. s = [sg_num |-> s.sg_num, pool |-> s.pool, split |-> s.split, cnt |-> s.cnt,
             parent |-> s.parent, ctx |-> s.ctx, peq |-> s.peq, peq_que |-> s.peq_que]
    BY DEF Now
  <2> HIDE DEF s
  <2> QED BY <1>2, <2>1 DEF Init, Shape
<1> HIDE DEF s
<1>4. ASSUME NEW l \in 1 .. 5
      PROVE  /\ pool[l] \in Seq(Ids(l)) /\ Len(pool[l]) = PoolSize[l]
             /\ Distinct(pool[l]) /\ Elems(pool[l]) = Ids(l)
  <2>1. PoolSize[l] \in Nat /\ pool[l] = [i \in 1 .. PoolSize[l] |-> i - 1]
    BY <1>1, AcclAssumption DEF Init
  <2> QED BY <2>1, FilledPool DEF Ids
<1>5. /\ p \in Seq(Ids(SG)) /\ m_sg_num \in 0 .. Len(p) /\ Distinct(p)
      /\ Elems(p) = Ids(SG)
  <2>1. p \in Seq(Ids(SG)) /\ Len(p) = PoolSize[SG] /\ Distinct(p) /\ Elems(p) = Ids(SG)
    BY <1>1, <1>4
  <2>2. m_sg_num = SgNum /\ SgNum \in Nat /\ SgNum <= PoolSize[SG] /\ PoolSize[SG] \in Nat
    BY <1>1, AcclAssumption DEF Init
  <2> QED BY <2>1, <2>2
<1> HIDE DEF p
<1>6. /\ f \in Seq(Ids(SG)) /\ q \in Seq(Ids(SG)) /\ Distinct(f) /\ Distinct(q)
      /\ Elems(q) \cap Elems(f) = {} /\ Elems(q) \cup Elems(f) = Ids(SG)
  BY <1>5, Parted
<1>7. Free(s, SG) = f /\ Queue(s, SG) = q /\ Alive(s, SG) = a
  BY <1>2 DEF Free, Queue, Alive, p
<1> HIDE DEF f, q
<1>8. ASSUME NEW l \in 2 .. 5
      PROVE  /\ Alive(s, l) = {} /\ Free(s, l) = pool[l] /\ cnt[l] = 0
             /\ DOMAIN parent[l] = {}
  <2>1. parent[l] = <<>> /\ cnt[l] = 0
    BY <1>1 DEF Init, Empty
  <2> QED BY <1>1, <1>2, <2>1 DEF Alive, Free
<1>9. ASSUME NEW l \in 1 .. 5 PROVE Stocked(Free(s, l), Alive(s, l), Ids(l))
  <2>1. CASE l = 1
    BY <1>1, <1>6, <1>7, <2>1 DEF Stocked
  <2>2. CASE l \in 2 .. 5
    BY <1>4, <1>8, <2>2 DEF Stocked
  <2> QED BY <2>1, <2>2
<1>10. ASSUME NEW l \in 1 .. 4, NEW v, NEW b, v \in Seq(b), Distinct(v), b = Elems(v)
       PROVE  Linked(v, b, cnt[l + 1], parent[l + 1], ctx[l])
  <2>1. l + 1 \in 2 .. 5 /\ l \in SG .. RDTXN
    BY <1>1
  <2>2. cnt[l + 1] = 0 /\ DOMAIN parent[l + 1] = {} /\ DOMAIN ctx[l] = {}
    <3>1. ctx[l] = <<>>
      BY <2>1 DEF Init, Empty
    <3> QED BY <1>8, <2>1, <3>1
  <2> DEFINE par == parent[l + 1]
             c == cnt[l + 1]
             back == ctx[l]
  <2>3. K \in Nat \ {0} /\ c = 0 /\ DOMAIN par = {} /\ DOMAIN back = {}
    BY <2>2, AcclAssumption
  <2> HIDE DEF par, c, back
  <2>4. ASSUME NEW x \in b
        PROVE  Cardinality(KidsOf(par, x)) + OwedTo(v, c, x) + BackOf(back, x) = K
    <3>1. KidsOf(par, x) = {} /\ BackOf(back, x) = 0
      BY <2>3 DEF KidsOf, BackOf
    <3>2. Cardinality(KidsOf(par, x)) = 0
      BY <3>1, FS_EmptySet
    <3>3. OwedTo(v, c, x) = K
      BY <1>10, <2>3, <2>4 DEF OwedTo
    <3> QED BY <2>3, <3>1, <3>2, <3>3
  <2>5. IsFiniteSet(DOMAIN par)
    BY <2>3, FS_EmptySet
  <2>6. Linked(v, b, c, par, back)
    BY <1>10, <2>3, <2>4, <2>5 DEF Linked
  <2> QED BY <2>6 DEF par, c, back
<1>11. ASSUME NEW l \in 1 .. 4
       PROVE  Linked(Queue(s, l), Alive(s, l), cnt[l + 1], parent[l + 1], ctx[l])
  <2>1. CASE l = 1
    <3>1. a = Elems(q)
      BY <1>6
    <3>2. q \in Seq(a)
      BY <1>6, <3>1 DEF Elems
    <3> QED BY <1>1, <1>6, <1>7, <1>10, <2>1, <3>1, <3>2
  <2>2. CASE l \in 2 .. 4
    <3>1. Queue(s, l) = <<>> /\ Alive(s, l) = {}
      BY <1>1, <1>2, <1>8, <2>2 DEF Init, Queue
    <3>2. <<>> \in Seq({}) /\ Distinct(<<>>) /\ {} = Elems(<<>>)
      BY DEF Distinct, Elems
    <3> QED BY <1>10, <3>1, <3>2
  <2> QED BY <2>1, <2>2
<1>12. Carried(s.peq, s.peq_que, Alive(s, DAT), Ids(DAT))
  <2>1. s.peq = <<>> /\ s.peq_que = <<>> /\ Alive(s, DAT) = {}
    BY <1>1, <1>2, <1>8 DEF Init
  <2>2. PeqVals(<<>>) = <<>> /\ Distinct(<<>>) /\ Elems(<<>>) = {}
    BY DEF PeqVals, Distinct, Elems
  <2>3. \E m \in Nat : <<>> \in Seq(PeqEntry(Ids(DAT), m))
    OBVIOUS
  <2> QED BY <2>1, <2>2, <2>3 DEF Carried
<1>13. Inv(s)
  <2>1. s.pool[SG] \in Seq(Ids(SG)) /\ s.sg_num \in 0 .. Len(s.pool[SG])
    BY <1>2, <1>5 DEF p
  <2>2. \A l \in Levels : Stocked(Free(s, l), Alive(s, l), Ids(l))
    BY <1>1, <1>9
  <2>3. \A l \in SG .. RDTXN :
          Linked(Queue(s, l), Alive(s, l), s.cnt[l + 1], s.parent[l + 1], s.ctx[l])
    BY <1>1, <1>2, <1>11
  <2> QED BY <1>3, <1>12, <2>1, <2>2, <2>3 DEF Inv
<1> QED BY <1>13 DEF s

\* The clock advances: the state the calls leave, a period later.
LEMMA BecomesKeeps ==
  ASSUME NEW s, Inv(s), Becomes(s)
  PROVE  Inv(Now)'
<1> DEFINE q == PeqAge(s.peq)
           t == [sg_num |-> s.sg_num, pool |-> s.pool, split |-> s.split, cnt |-> s.cnt,
                 parent |-> s.parent, ctx |-> s.ctx, peq |-> q, peq_que |-> s.peq_que]
<1>1. Now' = t
  BY DEF Becomes, Now
<1>2. Carried(q, s.peq_que, Alive(s, DAT), Ids(DAT))
  BY CarriedAges DEF Inv
<1>3. t = [sg_num |-> s.sg_num, pool |-> s.pool, split |-> s.split, cnt |-> s.cnt,
           parent |-> s.parent, ctx |-> s.ctx, peq |-> q, peq_que |-> s.peq_que]
  OBVIOUS
<1> HIDE DEF q, t
<1>4. Inv(t)
  BY <1>2, <1>3, BeatsMove
<1>5. Inv(Now')
  BY <1>1, <1>4
<1> QED BY <1>5

\* One edge of the clock keeps the books.
LEMMA EntryKeeps == Inv(Now) /\ mth_entry => Inv(Now)'
<1> SUFFICES ASSUME Inv(Now), mth_entry PROVE Inv(Now)'
  OBVIOUS
<1>1. PICK s1 \in {split_sg(Now)} :
      \E s2 \in {SplitInto(s1, STRIPE)} :
      \E s3 \in {SplitInto(s2, SU)} :
      \E d \in [Elems(BeatsDrawn(s3)) -> Delays] :
      \E s4 \in {split_rdtxn(s3, d)} :
      \E s5 \in {mth_get_peq(s4)} :
        Becomes(reclaim_rdtxn(s5))
  BY Zenon DEF mth_entry
<1>2. PICK s2 \in {SplitInto(s1, STRIPE)} :
      \E s3 \in {SplitInto(s2, SU)} :
      \E d \in [Elems(BeatsDrawn(s3)) -> Delays] :
      \E s4 \in {split_rdtxn(s3, d)} :
      \E s5 \in {mth_get_peq(s4)} :
        Becomes(reclaim_rdtxn(s5))
  BY <1>1, Zenon
<1>3. PICK s3 \in {SplitInto(s2, SU)} :
      \E d \in [Elems(BeatsDrawn(s3)) -> Delays] :
      \E s4 \in {split_rdtxn(s3, d)} :
      \E s5 \in {mth_get_peq(s4)} :
        Becomes(reclaim_rdtxn(s5))
  BY <1>2, Zenon
<1>4. PICK d \in [Elems(BeatsDrawn(s3)) -> Delays] :
      \E s4 \in {split_rdtxn(s3, d)} :
      \E s5 \in {mth_get_peq(s4)} :
        Becomes(reclaim_rdtxn(s5))
  BY <1>3, Zenon
<1>5. Becomes(reclaim_rdtxn(mth_get_peq(split_rdtxn(s3, d))))
  BY <1>4, Zenon
<1>6. Inv(s1)
  <2>1. Inv(split_sg(Now))
    BY SgSplitKeeps
  <2> QED BY <2>1
<1>7. Inv(s2)
  <2>1. Inv(SplitInto(s1, STRIPE))
    BY <1>6, IntoKeeps
  <2> QED BY <2>1
<1>8. Inv(s3)
  <2>1. Inv(SplitInto(s2, SU))
    BY <1>7, IntoKeeps
  <2> QED BY <2>1
<1>9. Inv(reclaim_rdtxn(mth_get_peq(split_rdtxn(s3, d))))
  <2> DEFINE s4 == split_rdtxn(s3, d)
             s5 == mth_get_peq(s4)
  <2>1. Inv(s4)
    BY <1>8, TxnSplitKeeps
  <2> HIDE DEF s4
  <2>2. Inv(s5)
    BY <2>1, GetKeeps
  <2> HIDE DEF s5
  <2>3. Inv(reclaim_rdtxn(s5))
    BY <2>2, ReclaimTxnKeeps
  <2> QED BY <2>3 DEF s4, s5
<1> DEFINE s6 == reclaim_rdtxn(mth_get_peq(split_rdtxn(s3, d)))
<1> HIDE DEF s6
<1>10. Inv(s6) /\ Becomes(s6)
  BY <1>5, <1>9 DEF s6
<1> QED BY <1>10, BecomesKeeps

\* Without a step nothing changes.
LEMMA StutterKeeps == Inv(Now) /\ UNCHANGED vars => Inv(Now)'
<1> SUFFICES ASSUME Inv(Now), UNCHANGED vars PROVE Inv(Now)'
  OBVIOUS
<1>1. Now' = Now
  BY DEF vars, Now
<1>2. Inv(Now')
  BY <1>1
<1> QED BY <1>2

\* The books of the accelerator are sound whatever the delays: at every level
\* the ids are free or in use, what is in use is linked to what is above it,
\* and the beats in use are those delayed or back.
THEOREM BooksSound == Spec => []Inv(Now)
<1>1. Init => Inv(Now)
  BY InitBooks
<1>2. Inv(Now) /\ [mth_entry]_vars => Inv(Now)'
  BY EntryKeeps, StutterKeeps
<1> QED BY <1>1, <1>2, PTL DEF Spec

\* What the books say in terms of the variables.
LEMMA BooksRead ==
  ASSUME Inv(Now)
  PROVE  /\ pool[SG] \in Seq(Ids(SG)) /\ m_sg_num \in 0 .. Len(pool[SG])
         /\ \A l \in 2 .. 5 : Stocked(pool[l], DOMAIN parent[l], Ids(l))
         /\ \A l \in 1 .. 4 :
              Linked(Queue(Now, l), Alive(Now, l), cnt[l + 1], parent[l + 1], ctx[l])
         /\ \A l \in 2 .. 5 : Alive(Now, l) = DOMAIN parent[l]
         /\ \A l \in 2 .. 4 : Queue(Now, l) = split[l]
         /\ Queue(Now, SG) = SubSeq(pool[SG], 1, m_sg_num)
         /\ Carried(m_peq, m_peq_que, DOMAIN parent[DAT], Ids(DAT))
<1> DEFINE s == Now
<1>1. /\ s.sg_num = m_sg_num /\ s.pool = pool /\ s.split = split /\ s.cnt = cnt
      /\ s.parent = parent /\ s.ctx = ctx /\ s.peq = m_peq /\ s.peq_que = m_peq_que
  BY DEF Now
<1> HIDE DEF s
<1>2. Inv(s)
  BY DEF s
<1>3. SG = 1 /\ DAT = 5 /\ RDTXN = 4 /\ Levels = 1 .. 5
  BY LevelsAre
<1>4. \A l \in 2 .. 5 : Alive(s, l) = DOMAIN parent[l] /\ Free(s, l) = pool[l]
  BY <1>1, <1>3 DEF Alive, Free
<1>5. /\ \A l \in 2 .. 4 : Queue(s, l) = split[l]
      /\ Queue(s, SG) = SubSeq(pool[SG], 1, m_sg_num)
  BY <1>1, <1>3 DEF Queue
<1>6. pool[SG] \in Seq(Ids(SG)) /\ m_sg_num \in 0 .. Len(pool[SG])
  BY <1>1, <1>2 DEF Inv
<1>7. \A l \in 2 .. 5 : Stocked(pool[l], DOMAIN parent[l], Ids(l))
  <2>1. \A l \in 1 .. 5 : Stocked(Free(s, l), Alive(s, l), Ids(l))
    BY <1>2, <1>3 DEF Inv
  <2> QED BY <1>4, <2>1
<1>8. \A l \in 1 .. 4 : Linked(Queue(s, l), Alive(s, l), cnt[l + 1], parent[l + 1], ctx[l])
  BY <1>1, <1>2, <1>3 DEF Inv
<1>9. Carried(m_peq, m_peq_que, DOMAIN parent[DAT], Ids(DAT))
  <2>1. Carried(s.peq, s.peq_que, Alive(s, DAT), Ids(DAT))
    BY <1>2 DEF Inv
  <2> QED BY <1>1, <1>3, <1>4, <2>1
<1> QED BY <1>4, <1>5, <1>6, <1>7, <1>8, <1>9 DEF s

\* Every id of every level is either free or in use, never both and never
\* twice, and split_sg always finds an sg id in front of the pool.
THEOREM Partitioned == Spec => []PoolsPartition
<1>1. Inv(Now) => PoolsPartition
  <2> SUFFICES ASSUME Inv(Now) PROVE PoolsPartition
    OBVIOUS
  <2>1. /\ pool[SG] \in Seq(Ids(SG)) /\ m_sg_num \in 0 .. Len(pool[SG])
        /\ \A l \in 2 .. 5 : Stocked(pool[l], DOMAIN parent[l], Ids(l))
    BY BooksRead
  <2>2. STRIPE .. DAT = 2 .. 5
    BY LevelsAre
  <2>3. m_sg_num <= Len(pool[SG])
    BY <2>1
  <2> QED BY <2>1, <2>2, <2>3 DEF PoolsPartition, Stocked
<1> QED BY <1>1, BooksSound, PTL

\* Nothing refers to a free id: no queue, no parent, no count.
THEOREM NoneDangling == Spec => []NoDanglingIds
<1>1. Inv(Now) => NoDanglingIds
  <2> SUFFICES ASSUME Inv(Now) PROVE NoDanglingIds
    OBVIOUS
  <2>1. /\ \A l \in 1 .. 4 :
             Linked(Queue(Now, l), Alive(Now, l), cnt[l + 1], parent[l + 1], ctx[l])
        /\ \A l \in 2 .. 5 : Alive(Now, l) = DOMAIN parent[l]
        /\ \A l \in 2 .. 4 : Queue(Now, l) = split[l]
        /\ Carried(m_peq, m_peq_que, DOMAIN parent[DAT], Ids(DAT))
    BY BooksRead
  <2>2. STRIPE .. RDTXN = 2 .. 4
    BY LevelsAre
  <2>3. ASSUME NEW l \in 2 .. 4
        PROVE  /\ Distinct(split[l]) /\ Elems(split[l]) \subseteq DOMAIN parent[l]
               /\ \A x \in DOMAIN parent[l + 1] : parent[l + 1][x] \in DOMAIN parent[l]
               /\ DOMAIN ctx[l] \subseteq DOMAIN parent[l]
    <3>1. Linked(split[l], DOMAIN parent[l], cnt[l + 1], parent[l + 1], ctx[l])
      BY <2>1
    <3>2. split[l] \in Seq(DOMAIN parent[l]) /\ Distinct(split[l])
      BY <3>1 DEF Linked
    <3>3. Elems(split[l]) \subseteq DOMAIN parent[l]
      BY <3>2 DEF Elems
    <3> QED BY <3>1, <3>2, <3>3 DEF Linked
  <2>4. Distinct(Beats) /\ Elems(Beats) = DOMAIN parent[DAT]
    <3> DEFINE S == Ids(DAT)
               v == PeqVals(m_peq)
    <3>1. PICK m \in Nat : m_peq \in Seq(PeqEntry(S, m))
      BY <2>1 DEF Carried
    <3>2. v \in Seq(S)
      BY <3>1, PeqValsType
    <3>3. /\ m_peq_que \in Seq(S) /\ Distinct(v) /\ Distinct(m_peq_que)
          /\ Elems(v) \cap Elems(m_peq_que) = {}
          /\ Elems(v) \cup Elems(m_peq_que) = DOMAIN parent[DAT]
      BY <2>1 DEF Carried
    <3>4. Beats = Cat(v, m_peq_que)
      BY DEF Beats, Cat
    <3> HIDE DEF S, v
    <3>5. Elems(Beats) = Elems(v) \cup Elems(m_peq_que)
      BY <3>2, <3>3, <3>4, Both
    <3>6. Distinct(Beats)
      BY <3>2, <3>3, <3>4, BothOnce
    <3> QED BY <3>3, <3>5, <3>6
  <2> QED BY <2>2, <2>3, <2>4 DEF NoDanglingIds
<1> QED BY <1>1, BooksSound, PTL

\* The books balance at every node of every live tree: an id is reclaimed
\* exactly when its whole subtree has been.
THEOREM Balanced == Spec => []TreeBalanced
<1>1. Inv(Now) => TreeBalanced
  <2> SUFFICES ASSUME Inv(Now) PROVE TreeBalanced
    OBVIOUS
  <2>1. /\ \A l \in 1 .. 4 :
             Linked(Queue(Now, l), Alive(Now, l), cnt[l + 1], parent[l + 1], ctx[l])
        /\ \A l \in 2 .. 5 : Alive(Now, l) = DOMAIN parent[l]
        /\ \A l \in 2 .. 4 : Queue(Now, l) = split[l]
        /\ Queue(Now, SG) = SubSeq(pool[SG], 1, m_sg_num)
    BY BooksRead
  <2>2. SG .. RDTXN = 1 .. 4 /\ SG = 1 /\ STRIPE = 2
    BY LevelsAre
  <2>3. ASSUME NEW l \in 1 .. 4, NEW p
        PROVE  /\ Children(l, p) = KidsOf(parent[l + 1], p)
               /\ Owed(l, p) = OwedTo(Queue(Now, l), cnt[l + 1], p)
    <3>1. (IF l = SG THEN SubSeq(pool[SG], 1, m_sg_num) ELSE split[l]) = Queue(Now, l)
      BY <2>1, <2>2
    <3> QED BY <3>1, Zenon DEF Children, KidsOf, Owed, OwedTo
  <2>4. ASSUME NEW l \in 1 .. 4, NEW p \in Alive(Now, l)
        PROVE  Cardinality(Children(l, p)) + Owed(l, p)
                 + (IF p \in DOMAIN ctx[l] THEN ctx[l][p] ELSE 0) = K
    <3>1. Cardinality(KidsOf(parent[l + 1], p)) + OwedTo(Queue(Now, l), cnt[l + 1], p)
            + BackOf(ctx[l], p) = K
      BY <2>1 DEF Linked
    <3> QED BY <2>3, <3>1, Zenon DEF BackOf
  <2>5. ASSUME NEW l \in 1 .. 4,
               NEW p \in (IF l = SG
                          THEN {parent[STRIPE][x] : x \in DOMAIN parent[STRIPE]}
                                 \cup DOMAIN ctx[SG]
                          ELSE DOMAIN parent[l])
        PROVE  p \in Alive(Now, l)
    <3>1. CASE l = SG
      <4>1. Linked(Queue(Now, l), Alive(Now, l), cnt[l + 1], parent[l + 1], ctx[l])
        BY <2>1
      <4>2. l + 1 = STRIPE
        BY <2>2, <3>1
      <4>3. /\ \A x \in DOMAIN parent[STRIPE] : parent[STRIPE][x] \in Alive(Now, l)
            /\ \A x \in DOMAIN ctx[SG] : x \in Alive(Now, l)
        BY <3>1, <4>1, <4>2 DEF Linked
      <4> QED BY <2>5, <3>1, <4>3
    <3>2. CASE l # SG
      BY <2>1, <2>2, <2>5, <3>2
    <3> QED BY <3>1, <3>2
  <2> QED BY <2>2, <2>4, <2>5 DEF TreeBalanced
<1> QED BY <1>1, BooksSound, PTL

-----------------------------------------------------------------------------
(* No id is left over                                                      *)

\* All counts are below K, but perhaps that of the id of level l.
SettledBut(s, l, id) ==
  \A k \in 1 .. 4 : \A p \in DOMAIN s.ctx[k] :
    s.ctx[k][p] < K \/ (k = l /\ p = id)
Settled(s) == \A k \in 1 .. 4 : \A p \in DOMAIN s.ctx[k] : s.ctx[k][p] < K

\* A count is at most K.
LEMMA CountsBounded ==
  ASSUME NEW s, Inv(s), NEW l \in 1 .. 4, NEW p \in DOMAIN s.ctx[l]
  PROVE  s.ctx[l][p] \in 1 .. K /\ K \in Nat
<1> DEFINE q == Queue(s, l)
           a == Alive(s, l)
           c == s.cnt[l + 1]
           par == s.parent[l + 1]
           back == s.ctx[l]
<1>1. Linked(q, a, c, par, back)
  <2>1. SG .. RDTXN = 1 .. 4
    BY LevelsAre
  <2> QED BY <2>1 DEF Inv
<1>2. p \in DOMAIN back
  OBVIOUS
<1> HIDE DEF q, a, c, par, back
<1>3. p \in a /\ back[p] \in Nat \ {0} /\ BackOf(back, p) = back[p]
  BY <1>1, <1>2 DEF Linked, BackOf
<1>4. Cardinality(KidsOf(par, p)) + OwedTo(q, c, p) + BackOf(back, p) = K
  BY <1>1, <1>3 DEF Linked
<1>5. Cardinality(KidsOf(par, p)) \in Nat /\ OwedTo(q, c, p) \in Nat /\ K \in Nat
  BY <1>1, Numbers
<1> QED BY <1>3, <1>4, <1>5 DEF back

\* An id whose count is still below K leaves nothing over.
LEMMA Incomplete ==
  ASSUME NEW s, Inv(s), NEW l \in 1 .. 4, NEW id \in DOMAIN s.ctx[l],
         ~ Complete(s, l, id), SettledBut(s, l, id)
  PROVE  Settled(s)
<1>1. s.ctx[l][id] < K
  BY CountsBounded DEF Complete
<1> QED BY <1>1 DEF Settled, SettledBut

\* Freeing an id leaves at most its parent over.
LEMMA FreedSettles ==
  ASSUME NEW s, Inv(s), NEW l \in 1 .. 5, NEW id, SettledBut(s, l, id),
         NEW t, FreedIs(s, t, l, id)
  PROVE  /\ l # SG => SettledBut(t, l - 1, s.parent[l][id])
         /\ l = SG => Settled(t)
<1>1. /\ \A k \in 1 .. 4 : k # l /\ k + 1 # l => t.ctx[k] = s.ctx[k]
      /\ l # DAT => t.ctx[l] = Erase(s.ctx[l], id)
      /\ l # SG => t.ctx[l - 1] = Counts(s.ctx[l - 1], s.parent[l][id])
  BY DEF FreedIs
<1>2. SG = 1 /\ DAT = 5
  BY LevelsAre
<1>3. ASSUME NEW k \in 1 .. 4, NEW p \in DOMAIN t.ctx[k],
             ~ (l # SG /\ k = l - 1 /\ p = s.parent[l][id])
      PROVE  t.ctx[k][p] < K
  <2>1. CASE k = l
    <3>1. t.ctx[k] = Erase(s.ctx[k], id)
      BY <1>1, <1>2, <2>1
    <3>2. p \in DOMAIN s.ctx[k] /\ p # id /\ t.ctx[k][p] = s.ctx[k][p]
      BY <1>3, <3>1 DEF Erase
    <3> QED BY <3>2 DEF SettledBut
  <2>2. CASE k + 1 = l
    <3>1. l # SG /\ k = l - 1 /\ k # l
      BY <1>2, <2>2
    <3> DEFINE h == s.parent[l][id]
    <3>2. t.ctx[k] = Counts(s.ctx[k], h) /\ p # h
      BY <1>1, <1>3, <3>1
    <3> HIDE DEF h
    <3>3. p \in DOMAIN s.ctx[k] /\ t.ctx[k][p] = s.ctx[k][p]
      BY <1>3, <3>2 DEF Counts, Put
    <3> QED BY <3>1, <3>3 DEF SettledBut
  <2>3. CASE k # l /\ k + 1 # l
    <3>1. t.ctx[k] = s.ctx[k]
      BY <1>1, <2>3
    <3> QED BY <1>3, <2>3, <3>1 DEF SettledBut
  <2> QED BY <2>1, <2>2, <2>3
<1> QED BY <1>3 DEF Settled, SettledBut

\* If no other count than that of its sg is at K, reclaim_sg leaves none there;
LEMMA ReclaimSgSettles ==
  ASSUME NEW s, Inv(s), NEW id \in DOMAIN s.ctx[SG], SettledBut(s, SG, id)
  PROVE  Settled(reclaim_sg(s, id))
<1>0. SG \in 1 .. 5 /\ SG \in 1 .. 4
  BY LevelsAre
<1>1. CASE ~ Complete(s, SG, id)
  <2>1. Settled(s)
    BY <1>0, <1>1, Incomplete
  <2> QED BY <1>1, <2>1 DEF reclaim_sg
<1>2. CASE Complete(s, SG, id)
  <2> DEFINE t == reclaim_sg(s, id)
  <2>1. Shape(s) /\ s.pool[SG] \in Seq(Ids(SG)) /\ s.sg_num \in 0 .. Len(s.pool[SG])
    BY DEF Inv
  <2>2. id \in Ids(SG)
    BY <1>0, CountedLives
  <2>3. FreedIs(s, t, SG, id)
    BY <1>2, <2>1, <2>2, SgReturns
  <2> HIDE DEF t
  <2>4. Settled(t)
    BY <1>0, <2>3, FreedSettles
  <2> QED BY <2>4 DEF t
<1> QED BY <1>1, <1>2

\* Closing an id leaves at most its parent over.
LEMMA CloseSettles ==
  ASSUME NEW s, Inv(s), NEW l \in 2 .. 4, NEW id, SettledBut(s, l, id)
  PROVE  SettledBut(Close(s, l, id), l - 1, s.parent[l][id])
<1> DEFINE t == Close(s, l, id)
<1>1. Shape(s) /\ s.pool[SG] \in Seq(Ids(SG)) /\ s.sg_num \in 0 .. Len(s.pool[SG])
  BY DEF Inv
<1>2. l \in 1 .. 5 /\ l # SG
  BY LevelsAre
<1>3. FreedIs(s, t, l, id)
  BY <1>1, Closes
<1> HIDE DEF t
<1>4. SettledBut(t, l - 1, s.parent[l][id])
  BY <1>2, <1>3, FreedSettles
<1> QED BY <1>4 DEF t

\* so does reclaim_stripe, with the call it makes;
LEMMA ReclaimStripeSettles ==
  ASSUME NEW s, Inv(s), NEW id \in DOMAIN s.ctx[STRIPE], SettledBut(s, STRIPE, id)
  PROVE  Settled(reclaim_stripe(s, id))
<1>0. STRIPE \in 2 .. 4 /\ STRIPE - 1 = SG /\ STRIPE \in 1 .. 4
  BY LevelsAre
<1>1. CASE ~ Complete(s, STRIPE, id)
  <2>1. Settled(s)
    BY <1>0, <1>1, Incomplete
  <2> QED BY <1>1, <2>1 DEF reclaim_stripe
<1>2. CASE Complete(s, STRIPE, id)
  <2> DEFINE t == Close(s, STRIPE, id)
             p == s.parent[STRIPE][id]
  <2>1. Inv(t) /\ p \in DOMAIN t.ctx[STRIPE - 1]
    BY <1>0, <1>2, CloseKeeps
  <2>2. SettledBut(t, STRIPE - 1, p)
    BY <1>0, CloseSettles
  <2> HIDE DEF t, p
  <2>3. Settled(reclaim_sg(t, p))
    BY <1>0, <2>1, <2>2, ReclaimSgSettles
  <2> QED BY <1>2, <2>3 DEF reclaim_stripe, t, p
<1> QED BY <1>1, <1>2

\* so does reclaim_su, with the calls it makes;
LEMMA ReclaimSuSettles ==
  ASSUME NEW s, Inv(s), NEW id \in DOMAIN s.ctx[SU], SettledBut(s, SU, id)
  PROVE  Settled(reclaim_su(s, id))
<1>0. SU \in 2 .. 4 /\ SU - 1 = STRIPE /\ SU \in 1 .. 4
  BY LevelsAre
<1>1. CASE ~ Complete(s, SU, id)
  <2>1. Settled(s)
    BY <1>0, <1>1, Incomplete
  <2> QED BY <1>1, <2>1 DEF reclaim_su
<1>2. CASE Complete(s, SU, id)
  <2> DEFINE t == Close(s, SU, id)
             p == s.parent[SU][id]
  <2>1. Inv(t) /\ p \in DOMAIN t.ctx[SU - 1]
    BY <1>0, <1>2, CloseKeeps
  <2>2. SettledBut(t, SU - 1, p)
    BY <1>0, CloseSettles
  <2> HIDE DEF t, p
  <2>3. Settled(reclaim_stripe(t, p))
    BY <1>0, <2>1, <2>2, ReclaimStripeSettles
  <2> QED BY <1>2, <2>3 DEF reclaim_su, t, p
<1> QED BY <1>1, <1>2

\* and so reclaim_rdtxn leaves none, if there was none before it.
LEMMA ReclaimTxnSettles ==
  ASSUME NEW s, Inv(s), Settled(s)
  PROVE  Settled(reclaim_rdtxn(s))
<1>1. CASE s.peq_que = <<>>
  BY <1>1 DEF reclaim_rdtxn
<1>2. CASE s.peq_que # <<>>
  <2> DEFINE dat == Head(s.peq_que)
             p == s.parent[DAT][dat]
             t == Return([s EXCEPT !.peq_que = Tail(@)], DAT, dat)
             w == Close(t, RDTXN, p)
             g == s.parent[RDTXN][p]
  <2>1. Shape(s) /\ s.pool[SG] \in Seq(Ids(SG)) /\ s.sg_num \in 0 .. Len(s.pool[SG])
    BY DEF Inv
  <2>2. DAT \in 1 .. 5 /\ DAT # SG /\ DAT - 1 = RDTXN /\ RDTXN - 1 = SU /\ RDTXN \in 2 .. 4
        /\ RDTXN \in 2 .. 5 /\ RDTXN # DAT /\ RDTXN \in 1 .. 4
    BY LevelsAre
  <2>3. FreedIs(s, t, DAT, dat)
    BY <2>1, BeatReturns
  <2>4. Freeable(s, DAT, dat)
    BY <1>2, <2>2 DEF Freeable
  <2>5. t.parent[RDTXN] = s.parent[RDTXN]
    BY <2>2, <2>3 DEF FreedIs
  <2>6. reclaim_rdtxn(s) = IF ~ Complete(t, RDTXN, p) THEN t ELSE reclaim_su(w, g)
    BY <1>2, Zenon DEF reclaim_rdtxn
  <2>7. SettledBut(s, DAT, dat)
    BY DEF Settled, SettledBut
  <2> HIDE DEF dat, t, w, g
  <2>8. Inv(t) /\ p \in DOMAIN t.ctx[RDTXN] /\ SettledBut(t, RDTXN, p)
    <3>1. Inv(t)
      BY <2>2, <2>3, <2>4, FreedKeeps
    <3>2. p \in DOMAIN t.ctx[DAT - 1]
      BY <2>2, <2>3, <2>4, FreedKeeps
    <3>3. SettledBut(t, DAT - 1, p)
      BY <2>2, <2>3, <2>7, FreedSettles
    <3> QED BY <2>2, <3>1, <3>2, <3>3
  <2> HIDE DEF p
  <2>9. CASE Complete(t, RDTXN, p)
    <3>1. Inv(w) /\ t.parent[RDTXN][p] \in DOMAIN w.ctx[RDTXN - 1]
      BY <2>2, <2>8, <2>9, CloseKeeps DEF w
    <3>2. SettledBut(w, RDTXN - 1, t.parent[RDTXN][p])
      BY <2>2, <2>8, CloseSettles DEF w
    <3>3. g \in DOMAIN w.ctx[SU] /\ SettledBut(w, SU, g)
      BY <2>2, <2>5, <3>1, <3>2 DEF g
    <3>4. Settled(reclaim_su(w, g))
      BY <3>1, <3>3, ReclaimSuSettles
    <3> QED BY <2>6, <2>9, <3>4
  <2>10. CASE ~ Complete(t, RDTXN, p)
    <3>1. Settled(t)
      BY <2>2, <2>8, <2>10, Incomplete
    <3> QED BY <2>6, <2>10, <3>1
  <2> QED BY <2>9, <2>10
<1> QED BY <1>1, <1>2

\* Splitting and draining leave the counts alone.
LEMMA CountsStay ==
  ASSUME NEW s, Inv(s)
  PROVE  /\ split_sg(s).ctx = s.ctx
         /\ \A l \in {STRIPE, SU} : SplitInto(s, l).ctx = s.ctx
         /\ \A d : split_rdtxn(s, d).ctx = s.ctx
         /\ mth_get_peq(s).ctx = s.ctx
<1>1. Shape(s) /\ s.pool[SG] \in Seq(Ids(SG)) /\ s.sg_num \in 0 .. Len(s.pool[SG])
  BY DEF Inv
<1>2. split_sg(s).ctx = s.ctx
  <2>1. CASE s.sg_num = 0
    BY <2>1 DEF split_sg
  <2>2. CASE s.sg_num # 0
    <3>1. SplitIs(s, split_sg(s), SG)
      BY <1>1, <2>2, SplitsSg
    <3> QED BY <3>1 DEF SplitIs
  <2> QED BY <2>1, <2>2
<1>3. ASSUME NEW l \in {STRIPE, SU} PROVE SplitInto(s, l).ctx = s.ctx
  <2>1. CASE s.split[l] = <<>>
    BY <2>1 DEF SplitInto
  <2>2. CASE s.split[l] # <<>>
    <3>1. SplitIs(s, SplitInto(s, l), l)
      BY <1>1, <2>2, SplitsInto
    <3> QED BY <3>1 DEF SplitIs
  <2> QED BY <2>1, <2>2
<1>4. ASSUME NEW d PROVE split_rdtxn(s, d).ctx = s.ctx
  <2>1. CASE s.split[RDTXN] = <<>>
    BY <2>1 DEF split_rdtxn
  <2>2. CASE s.split[RDTXN] # <<>>
    <3>1. SplitIs(s, split_rdtxn(s, d), RDTXN)
      BY <1>1, <2>2, SplitsTxn
    <3> QED BY <3>1 DEF SplitIs
  <2> QED BY <2>1, <2>2
<1>5. mth_get_peq(s).ctx = s.ctx
  <2>1. s = [sg_num |-> s.sg_num, pool |-> s.pool, split |-> s.split, cnt |-> s.cnt,
             parent |-> s.parent, ctx |-> s.ctx, peq |-> s.peq, peq_que |-> s.peq_que]
    BY <1>1, Zenon DEF Shape
  <2> QED BY <2>1 DEF mth_get_peq
<1> QED BY <1>2, <1>3, <1>4, <1>5

\* One edge of the clock leaves no id over.
LEMMA EntrySettles ==
  ASSUME Inv(Now), Settled(Now), mth_entry
  PROVE  Settled(Now)'
<1>1. PICK s1 \in {split_sg(Now)} :
      \E s2 \in {SplitInto(s1, STRIPE)} :
      \E s3 \in {SplitInto(s2, SU)} :
      \E d \in [Elems(BeatsDrawn(s3)) -> Delays] :
      \E s4 \in {split_rdtxn(s3, d)} :
      \E s5 \in {mth_get_peq(s4)} :
        Becomes(reclaim_rdtxn(s5))
  BY Zenon DEF mth_entry
<1>2. PICK s2 \in {SplitInto(s1, STRIPE)} :
      \E s3 \in {SplitInto(s2, SU)} :
      \E d \in [Elems(BeatsDrawn(s3)) -> Delays] :
      \E s4 \in {split_rdtxn(s3, d)} :
      \E s5 \in {mth_get_peq(s4)} :
        Becomes(reclaim_rdtxn(s5))
  BY <1>1, Zenon
<1>3. PICK s3 \in {SplitInto(s2, SU)} :
      \E d \in [Elems(BeatsDrawn(s3)) -> Delays] :
      \E s4 \in {split_rdtxn(s3, d)} :
      \E s5 \in {mth_get_peq(s4)} :
        Becomes(reclaim_rdtxn(s5))
  BY <1>2, Zenon
<1>4. PICK d \in [Elems(BeatsDrawn(s3)) -> Delays] :
      \E s4 \in {split_rdtxn(s3, d)} :
      \E s5 \in {mth_get_peq(s4)} :
        Becomes(reclaim_rdtxn(s5))
  BY <1>3, Zenon
<1> DEFINE s4 == split_rdtxn(s3, d)
           s5 == mth_get_peq(s4)
           s6 == reclaim_rdtxn(s5)
<1>5. Becomes(s6)
  BY <1>4, Zenon
<1>6. Inv(s1) /\ s1.ctx = Now.ctx
  <2>1. Inv(split_sg(Now)) /\ split_sg(Now).ctx = Now.ctx
    BY SgSplitKeeps, CountsStay
  <2> QED BY <2>1
<1>7. Inv(s2) /\ s2.ctx = s1.ctx
  <2>1. Inv(SplitInto(s1, STRIPE)) /\ SplitInto(s1, STRIPE).ctx = s1.ctx
    BY <1>6, IntoKeeps, CountsStay
  <2> QED BY <2>1
<1>8. Inv(s3) /\ s3.ctx = s2.ctx
  <2>1. Inv(SplitInto(s2, SU)) /\ SplitInto(s2, SU).ctx = s2.ctx
    BY <1>7, IntoKeeps, CountsStay
  <2> QED BY <2>1
<1>9. Inv(s4) /\ s4.ctx = s3.ctx
  BY <1>8, TxnSplitKeeps, CountsStay
<1> HIDE DEF s4
<1>10. Inv(s5) /\ s5.ctx = s4.ctx
  BY <1>9, GetKeeps, CountsStay
<1> HIDE DEF s5
<1>11. Settled(s5)
  BY <1>6, <1>7, <1>8, <1>9, <1>10 DEF Settled
<1>12. Settled(s6)
  BY <1>10, <1>11, ReclaimTxnSettles
<1> HIDE DEF s6
<1>13. Now'.ctx = s6.ctx
  BY <1>5 DEF Becomes, Now
<1>14. Settled(Now')
  BY <1>12, <1>13 DEF Settled
<1> QED BY <1>14

\* No id all of whose children are back is left unreclaimed: it is reclaimed
\* by the very call that counted the last of them.
NoneLeftOver == \A l \in SG .. RDTXN : \A p \in DOMAIN ctx[l] : ctx[l][p] < K

\* An id whose subtree is done is reclaimed at the same edge of the clock.
THEOREM ReclaimedAtOnce == Spec => []NoneLeftOver
<1>1. Init => Settled(Now)
  <2> SUFFICES ASSUME Init PROVE Settled(Now)
    OBVIOUS
  <2>1. \A k \in 1 .. 4 : DOMAIN ctx[k] = {}
    BY LevelsAre DEF Init, Empty
  <2>2. Now.ctx = ctx
    BY DEF Now
  <2> QED BY <2>1, <2>2 DEF Settled
<1>2. Inv(Now) /\ Settled(Now) /\ [mth_entry]_vars => Settled(Now)'
  <2> SUFFICES ASSUME Inv(Now), Settled(Now), [mth_entry]_vars PROVE Settled(Now)'
    OBVIOUS
  <2>1. CASE mth_entry
    BY <2>1, EntrySettles
  <2>2. CASE UNCHANGED vars
    <3>1. Now' = Now
      BY <2>2 DEF vars, Now
    <3>2. Settled(Now')
      BY <3>1
    <3> QED BY <3>2
  <2> QED BY <2>1, <2>2
<1>3. Settled(Now) => NoneLeftOver
  <2>1. SG .. RDTXN = 1 .. 4
    BY LevelsAre
  <2> QED BY <2>1 DEF Settled, NoneLeftOver, Now
<1> QED BY <1>1, <1>2, <1>3, BooksSound, PTL DEF Spec

-----------------------------------------------------------------------------
(* The types                                                               *)

\* The record has its fields; a function is a function, and so are several.
Fields(s) ==
  s = [sg_num |-> s.sg_num, pool |-> s.pool, split |-> s.split, cnt |-> s.cnt,
       parent |-> s.parent, ctx |-> s.ctx, peq |-> s.peq, peq_que |-> s.peq_que]

IsMap(f) == f = [x \in DOMAIN f |-> f[x]]
AreMaps(F) == \A k \in DOMAIN F : IsMap(F[k])

\* s is a record of the state whose parents and counts are functions.
Typed(s) == Fields(s) /\ AreMaps(s.parent) /\ AreMaps(s.ctx)

\* So is t, with as many sgs to split as s.
SameSgs(s, t) == Typed(t) /\ t.sg_num = s.sg_num

\* What Put and Erase return is a function, and stays one among others.
LEMMA Maps ==
  /\ \A f, S, v : IsMap(Put(f, S, v))
  /\ \A f, x : IsMap(Erase(f, x))
  /\ \A F, l, g : AreMaps(F) /\ IsMap(g) => AreMaps([F EXCEPT ![l] = g])
<1>1. ASSUME NEW f, NEW S, NEW v PROVE IsMap(Put(f, S, v))
  BY DEF IsMap, Put
<1>2. ASSUME NEW f, NEW x PROVE IsMap(Erase(f, x))
  BY DEF IsMap, Erase
<1>3. ASSUME NEW F, NEW l, NEW g, AreMaps(F), IsMap(g)
      PROVE  AreMaps([F EXCEPT ![l] = g])
  <2> SUFFICES ASSUME NEW k \in DOMAIN [F EXCEPT ![l] = g]
               PROVE  IsMap([F EXCEPT ![l] = g][k])
    BY DEF AreMaps
  <2>1. k \in DOMAIN F
    OBVIOUS
  <2>2. [F EXCEPT ![l] = g][k] = IF k = l THEN g ELSE F[k]
    BY <2>1
  <2> QED BY <1>3, <2>1, <2>2 DEF AreMaps
<1> QED BY <1>1, <1>2, <1>3

\* Returning an id, or closing one, is such a step.
LEMMA ReturnSgs ==
  ASSUME NEW s, Typed(s), NEW l, NEW id
  PROVE  SameSgs(s, Return(s, l, id)) /\ SameSgs(s, Close(s, l, id))
<1>1. ASSUME NEW u, Typed(u) PROVE SameSgs(u, Return(u, l, id))
  <2> DEFINE t == Return(u, l, id)
             p == u.parent[l][id]
             A == [u.pool EXCEPT ![l] = Append(@, id)]
             B == [u.parent EXCEPT ![l] = Erase(@, id)]
             C == [u.ctx EXCEPT ![l - 1] = Put(@, {p}, IF p \in DOMAIN @ THEN @[p] + 1 ELSE 1)]
  <2>1. t = [u EXCEPT !.pool = A, !.parent = B, !.ctx = C]
    BY <1>1 DEF Return, Typed, Fields
  <2>4. AreMaps(B) /\ AreMaps(C)
    BY <1>1, Maps DEF Typed
  <2> HIDE DEF A, B, C, t
  <2>2. t = [sg_num |-> u.sg_num, pool |-> A, split |-> u.split, cnt |-> u.cnt,
             parent |-> B, ctx |-> C, peq |-> u.peq, peq_que |-> u.peq_que]
    BY <1>1, <2>1 DEF Typed, Fields
  <2>3. SameSgs(u, t)
    BY <2>2, <2>4 DEF SameSgs, Typed, Fields
  <2> QED BY <2>3 DEF t
<1>2. SameSgs(s, [s EXCEPT !.ctx[l] = Erase(@, id)])
  <2> DEFINE C == [s.ctx EXCEPT ![l] = Erase(@, id)]
             t == [s EXCEPT !.ctx[l] = Erase(@, id)]
  <2>1. t = [s EXCEPT !.ctx = C]
    BY DEF Typed, Fields
  <2>4. AreMaps(C)
    BY Maps DEF Typed
  <2> HIDE DEF C, t
  <2>2. t = [sg_num |-> s.sg_num, pool |-> s.pool, split |-> s.split, cnt |-> s.cnt,
             parent |-> s.parent, ctx |-> C, peq |-> s.peq, peq_que |-> s.peq_que]
    BY <2>1 DEF Typed, Fields
  <2>3. SameSgs(s, t)
    BY <2>2, <2>4 DEF SameSgs, Typed, Fields
  <2> QED BY <2>3 DEF t
<1> DEFINE u == [s EXCEPT !.ctx[l] = Erase(@, id)]
<1>3. Close(s, l, id) = Return(u, l, id)
  BY Zenon DEF Close
<1>4. SameSgs(s, u)
  BY <1>2
<1> HIDE DEF u
<1>5. SameSgs(u, Return(u, l, id))
  BY <1>1, <1>4 DEF SameSgs
<1>6. SameSgs(s, Close(s, l, id))
  BY <1>3, <1>4, <1>5 DEF SameSgs
<1> QED BY <1>1, <1>6

\* So is the reclaiming of a beat.
LEMMA ReclaimSgs ==
  ASSUME NEW s, Typed(s)
  PROVE  SameSgs(s, reclaim_rdtxn(s))
<1>1. ASSUME NEW u, Typed(u), NEW id PROVE SameSgs(u, reclaim_sg(u, id))
  <2> DEFINE A == [u.pool EXCEPT ![SG] = Append(@, id)]
             C == [u.ctx EXCEPT ![SG] = Erase(@, id)]
             t == [u EXCEPT !.pool[SG] = Append(@, id), !.ctx[SG] = Erase(@, id)]
  <2>1. t = [u EXCEPT !.pool = A, !.ctx = C]
    BY <1>1 DEF Typed, Fields
  <2>6. AreMaps(C)
    BY <1>1, Maps DEF Typed
  <2> HIDE DEF A, C, t
  <2>2. t = [sg_num |-> u.sg_num, pool |-> A, split |-> u.split, cnt |-> u.cnt,
             parent |-> u.parent, ctx |-> C, peq |-> u.peq, peq_que |-> u.peq_que]
    BY <1>1, <2>1 DEF Typed, Fields
  <2>3. SameSgs(u, t)
    BY <1>1, <2>2, <2>6 DEF SameSgs, Typed, Fields
  <2>4. SameSgs(u, u)
    BY <1>1 DEF SameSgs
  <2>5. reclaim_sg(u, id) = IF ~ Complete(u, SG, id) THEN u ELSE t
    BY Zenon DEF reclaim_sg, t
  <2> QED BY <2>3, <2>4, <2>5
<1>2. ASSUME NEW u, Typed(u), NEW id PROVE SameSgs(u, reclaim_stripe(u, id))
  <2> DEFINE c == Close(u, STRIPE, id)
             t == reclaim_sg(c, u.parent[STRIPE][id])
  <2>1. SameSgs(u, c)
    BY <1>2, ReturnSgs
  <2>2. SameSgs(c, t)
    BY <1>1, <2>1 DEF SameSgs
  <2>3. SameSgs(u, u)
    BY <1>2 DEF SameSgs
  <2>4. reclaim_stripe(u, id) = IF ~ Complete(u, STRIPE, id) THEN u ELSE t
    BY Zenon DEF reclaim_stripe
  <2> HIDE DEF c, t
  <2> QED BY <2>1, <2>2, <2>3, <2>4 DEF SameSgs
<1>3. ASSUME NEW u, Typed(u), NEW id PROVE SameSgs(u, reclaim_su(u, id))
  <2> DEFINE c == Close(u, SU, id)
             t == reclaim_stripe(c, u.parent[SU][id])
  <2>1. SameSgs(u, c)
    BY <1>3, ReturnSgs
  <2>2. SameSgs(c, t)
    BY <1>2, <2>1 DEF SameSgs
  <2>3. SameSgs(u, u)
    BY <1>3 DEF SameSgs
  <2>4. reclaim_su(u, id) = IF ~ Complete(u, SU, id) THEN u ELSE t
    BY Zenon DEF reclaim_su
  <2> HIDE DEF c, t
  <2> QED BY <2>1, <2>2, <2>3, <2>4 DEF SameSgs
<1> DEFINE dat == Head(s.peq_que)
           txn == s.parent[DAT][dat]
           t == Return([s EXCEPT !.peq_que = Tail(@)], DAT, dat)
           c == Close(t, RDTXN, txn)
           w == reclaim_su(c, s.parent[RDTXN][txn])
<1>4. SameSgs(s, t)
  <2> DEFINE r == Tail(s.peq_que)
             u == [s EXCEPT !.peq_que = r]
  <2>1. t = Return(u, DAT, dat)
    BY DEF Typed, Fields
  <2> HIDE DEF r
  <2>2. u = [sg_num |-> s.sg_num, pool |-> s.pool, split |-> s.split, cnt |-> s.cnt,
             parent |-> s.parent, ctx |-> s.ctx, peq |-> s.peq, peq_que |-> r]
    BY DEF Typed, Fields
  <2> HIDE DEF u, t, dat
  <2>3. SameSgs(s, u)
    BY <2>2 DEF SameSgs, Typed, Fields
  <2>4. SameSgs(u, Return(u, DAT, dat))
    BY <2>3, ReturnSgs DEF SameSgs
  <2> QED BY <2>1, <2>3, <2>4 DEF SameSgs
<1>5. s.peq_que = <<>> => reclaim_rdtxn(s) = s
  BY DEF reclaim_rdtxn
<1>6. s.peq_que # <<>> =>
        reclaim_rdtxn(s) = IF ~ Complete(t, RDTXN, txn) THEN t ELSE w
  <2> SUFFICES ASSUME s.peq_que # <<>>
               PROVE  reclaim_rdtxn(s) = IF ~ Complete(t, RDTXN, txn) THEN t ELSE w
    OBVIOUS
  <2> QED BY Zenon DEF reclaim_rdtxn
<1> HIDE DEF t
<1>7. SameSgs(t, c)
  BY <1>4, ReturnSgs DEF SameSgs
<1> HIDE DEF c
<1>8. SameSgs(c, w)
  BY <1>3, <1>7 DEF SameSgs
<1> HIDE DEF w
<1>9. SameSgs(s, s)
  BY DEF SameSgs
<1> QED BY <1>4, <1>5, <1>6, <1>7, <1>8, <1>9 DEF SameSgs

\* So are the other calls, but that split_sg may have one sg less to split.
LEMMA SplitSgs ==
  ASSUME NEW s, Shape(s), Typed(s), s.sg_num \in Nat
  PROVE  /\ Typed(split_sg(s)) /\ split_sg(s).sg_num \in 0 .. s.sg_num
         /\ \A l \in {STRIPE, SU} : SameSgs(s, SplitInto(s, l))
         /\ \A d : SameSgs(s, split_rdtxn(s, d))
         /\ SameSgs(s, mth_get_peq(s))
<1>0. Typed(s) /\ DOMAIN s.split = 2 .. 4
  BY LevelsAre DEF Shape, Fields
<1>1. ASSUME NEW l, NEW p
      PROVE  SameSgs(s, Draw(s, l, p)) /\ DOMAIN Draw(s, l, p).split = 2 .. 4
  <2> DEFINE new == Drawn(s, l)
             A == [s.pool EXCEPT ![l] = SubSeq(@, Len(new) + 1, Len(@))]
             B == [s.cnt EXCEPT ![l] = IF Completes(s, l) THEN 0 ELSE @ + Len(new)]
             C == [s.parent EXCEPT ![l] = Put(@, Elems(new), p)]
             t == Draw(s, l, p)
  <2>1. t = [s EXCEPT !.pool = A, !.cnt = B, !.parent = C]
    BY <1>0 DEF Typed, Fields, Draw
  <2>4. AreMaps(C)
    BY <1>0, Maps DEF Typed
  <2> HIDE DEF A, B, C, t
  <2>2. t = [sg_num |-> s.sg_num, pool |-> A, split |-> s.split, cnt |-> B,
             parent |-> C, ctx |-> s.ctx, peq |-> s.peq, peq_que |-> s.peq_que]
    BY <1>0, <2>1 DEF Typed, Fields
  <2>3. SameSgs(s, t) /\ t.split = s.split
    BY <1>0, <2>2, <2>4 DEF SameSgs, Typed, Fields
  <2> QED BY <1>0, <2>3 DEF t
<1>2. SameSgs(s, s)
  BY <1>0 DEF SameSgs
<1>3. Typed(split_sg(s)) /\ split_sg(s).sg_num \in 0 .. s.sg_num
  <2>1. CASE s.sg_num = 0
    BY <1>0, <2>1 DEF split_sg
  <2>2. CASE s.sg_num # 0
    <3> DEFINE new == Drawn(s, STRIPE)
               done == Completes(s, STRIPE)
               w == Draw(s, STRIPE, Head(s.pool[SG]))
               A == [w.split EXCEPT ![STRIPE] = @ \o new]
               B == [w.pool EXCEPT ![SG] = IF done THEN Tail(@) ELSE @]
               n == IF done THEN w.sg_num - 1 ELSE w.sg_num
               t == [w EXCEPT !.split[STRIPE] = @ \o new,
                       !.pool[SG] = IF done THEN Tail(@) ELSE @,
                       !.sg_num = IF done THEN @ - 1 ELSE @]
    <3>1. SameSgs(s, w)
      BY <1>1
    <3>2. split_sg(s) = t
      BY <2>2, Zenon DEF split_sg
    <3> HIDE DEF w, new, done
    <3>3. t = [w EXCEPT !.split = A, !.pool = B, !.sg_num = n]
      BY <3>1 DEF SameSgs, Typed, Fields
    <3>4. n \in 0 .. s.sg_num
      BY <2>2, <3>1 DEF SameSgs
    <3> HIDE DEF A, B, n, t
    <3>5. t = [sg_num |-> n, pool |-> B, split |-> A, cnt |-> w.cnt,
               parent |-> w.parent, ctx |-> w.ctx, peq |-> w.peq, peq_que |-> w.peq_que]
      BY <3>1, <3>3 DEF SameSgs, Typed, Fields
    <3>6. Typed(t) /\ t.sg_num = n
      BY <3>1, <3>5 DEF SameSgs, Typed, Fields
    <3> QED BY <3>2, <3>4, <3>6
  <2> QED BY <2>1, <2>2
<1>4. ASSUME NEW l \in {STRIPE, SU} PROVE SameSgs(s, SplitInto(s, l))
  <2> DEFINE new == Drawn(s, l + 1)
             done == Completes(s, l + 1)
             w == Draw(s, l + 1, Head(s.split[l]))
             t == [w EXCEPT !.split[l + 1] = @ \o new,
                            !.split[l] = IF done THEN Tail(@) ELSE @]
             A == [[w.split EXCEPT ![l + 1] = @ \o new]
                    EXCEPT ![l] = IF done THEN Tail(@) ELSE @]
  <2>1. SameSgs(s, w) /\ DOMAIN w.split = 2 .. 4
    BY <1>1
  <2>2. SplitInto(s, l) = IF s.split[l] = <<>> THEN s ELSE t
    BY Zenon DEF SplitInto
  <2> HIDE DEF w, new, done
  <2>5. l \in 2 .. 4 /\ l + 1 \in 2 .. 4 /\ l + 1 # l
    BY LevelsAre
  <2>6. t = [w EXCEPT !.split = A]
    BY <2>1, <2>5 DEF SameSgs, Typed, Fields
  <2> HIDE DEF A, t
  <2>3. t = [sg_num |-> w.sg_num, pool |-> w.pool, split |-> A, cnt |-> w.cnt,
             parent |-> w.parent, ctx |-> w.ctx, peq |-> w.peq, peq_que |-> w.peq_que]
    BY <2>1, <2>6 DEF SameSgs, Typed, Fields
  <2>4. SameSgs(s, t)
    BY <2>1, <2>3 DEF SameSgs, Typed, Fields
  <2> QED BY <1>2, <2>2, <2>4
<1>5. ASSUME NEW d PROVE SameSgs(s, split_rdtxn(s, d))
  <2> DEFINE done == Completes(s, DAT)
             w == Draw(s, DAT, Head(s.split[RDTXN]))
             q == BeatsDelayed(w.peq, Drawn(s, DAT), d)
             A == [w.split EXCEPT ![RDTXN] = IF done THEN Tail(@) ELSE @]
             t == [w EXCEPT !.split[RDTXN] = IF done THEN Tail(@) ELSE @, !.peq = q]
  <2>1. SameSgs(s, w)
    BY <1>1
  <2>2. split_rdtxn(s, d) = IF s.split[RDTXN] = <<>> THEN s ELSE t
    BY Zenon DEF split_rdtxn
  <2> HIDE DEF w, q, done
  <2>3. t = [w EXCEPT !.split = A, !.peq = q]
    BY <2>1 DEF SameSgs, Typed, Fields
  <2> HIDE DEF A, t
  <2>4. t = [sg_num |-> w.sg_num, pool |-> w.pool, split |-> A, cnt |-> w.cnt,
             parent |-> w.parent, ctx |-> w.ctx, peq |-> q, peq_que |-> w.peq_que]
    BY <2>1, <2>3 DEF SameSgs, Typed, Fields
  <2>5. SameSgs(s, t)
    BY <2>1, <2>4 DEF SameSgs, Typed, Fields
  <2> QED BY <1>2, <2>2, <2>5
<1>6. SameSgs(s, mth_get_peq(s))
  <2> DEFINE q == PeqLater(s.peq)
             r == s.peq_que \o PeqReady(s.peq)
             t == mth_get_peq(s)
  <2>1. t = [s EXCEPT !.peq = q, !.peq_que = r]
    BY <1>0 DEF mth_get_peq, Typed, Fields
  <2> HIDE DEF q, r, t
  <2>2. t = [sg_num |-> s.sg_num, pool |-> s.pool, split |-> s.split, cnt |-> s.cnt,
             parent |-> s.parent, ctx |-> s.ctx, peq |-> q, peq_que |-> r]
    BY <1>0, <2>1 DEF Typed, Fields
  <2>3. SameSgs(s, t)
    BY <2>2 DEF SameSgs, Typed, Fields
  <2> QED BY <2>3 DEF t
<1> QED BY <1>3, <1>4, <1>5, <1>6

\* No more sgs are left to split than there were at the start.
SgsLeft(s) == Typed(s) /\ s.sg_num \in 0 .. SgNum

\* The calls of one edge keep that so.
LEMMA EntrySgs ==
  ASSUME Inv(Now), SgsLeft(Now), mth_entry
  PROVE  SgsLeft(Now)'
<1>1. PICK s1 \in {split_sg(Now)} :
      \E s2 \in {SplitInto(s1, STRIPE)} :
      \E s3 \in {SplitInto(s2, SU)} :
      \E d \in [Elems(BeatsDrawn(s3)) -> Delays] :
      \E s4 \in {split_rdtxn(s3, d)} :
      \E s5 \in {mth_get_peq(s4)} :
        Becomes(reclaim_rdtxn(s5))
  BY Zenon DEF mth_entry
<1>2. PICK s2 \in {SplitInto(s1, STRIPE)} :
      \E s3 \in {SplitInto(s2, SU)} :
      \E d \in [Elems(BeatsDrawn(s3)) -> Delays] :
      \E s4 \in {split_rdtxn(s3, d)} :
      \E s5 \in {mth_get_peq(s4)} :
        Becomes(reclaim_rdtxn(s5))
  BY <1>1, Zenon
<1>3. PICK s3 \in {SplitInto(s2, SU)} :
      \E d \in [Elems(BeatsDrawn(s3)) -> Delays] :
      \E s4 \in {split_rdtxn(s3, d)} :
      \E s5 \in {mth_get_peq(s4)} :
        Becomes(reclaim_rdtxn(s5))
  BY <1>2, Zenon
<1>4. PICK d \in [Elems(BeatsDrawn(s3)) -> Delays] :
      \E s4 \in {split_rdtxn(s3, d)} :
      \E s5 \in {mth_get_peq(s4)} :
        Becomes(reclaim_rdtxn(s5))
  BY <1>3, Zenon
<1> DEFINE s4 == split_rdtxn(s3, d)
           s5 == mth_get_peq(s4)
           s6 == reclaim_rdtxn(s5)
<1>5. Becomes(s6)
  BY <1>4, Zenon
<1>0. SgNum \in Nat
  BY AcclAssumption
<1>16. ASSUME NEW s, NEW t, SgsLeft(s), SameSgs(s, t) PROVE SgsLeft(t)
  BY <1>16 DEF SgsLeft, SameSgs
<1>17. ASSUME NEW s, Inv(s), SgsLeft(s)
       PROVE  Shape(s) /\ Typed(s) /\ s.sg_num \in Nat
  BY <1>0, <1>17 DEF SgsLeft, Inv
<1>6. Inv(s1) /\ SgsLeft(s1)
  <2>1. Inv(split_sg(Now))
    BY SgSplitKeeps
  <2>2. Typed(split_sg(Now)) /\ split_sg(Now).sg_num \in 0 .. Now.sg_num
    BY <1>17, SplitSgs
  <2>3. SgsLeft(split_sg(Now))
    BY <1>0, <2>2 DEF SgsLeft
  <2> QED BY <2>1, <2>3
<1>7. Inv(s2) /\ SgsLeft(s2)
  <2>1. Inv(SplitInto(s1, STRIPE)) /\ SameSgs(s1, SplitInto(s1, STRIPE))
    BY <1>6, <1>17, IntoKeeps, SplitSgs
  <2> QED BY <1>6, <1>16, <2>1
<1>8. Inv(s3) /\ SgsLeft(s3)
  <2>1. Inv(SplitInto(s2, SU)) /\ SameSgs(s2, SplitInto(s2, SU))
    BY <1>7, <1>17, IntoKeeps, SplitSgs
  <2> QED BY <1>7, <1>16, <2>1
<1>9. Inv(s4) /\ SgsLeft(s4)
  <2>1. Inv(s4) /\ SameSgs(s3, s4)
    BY <1>8, <1>17, TxnSplitKeeps, SplitSgs
  <2> QED BY <1>8, <1>16, <2>1
<1> HIDE DEF s4
<1>10. Inv(s5) /\ SgsLeft(s5)
  <2>1. Inv(s5) /\ SameSgs(s4, s5)
    BY <1>9, <1>17, GetKeeps, SplitSgs
  <2> QED BY <1>9, <1>16, <2>1
<1> HIDE DEF s5
<1>11. SgsLeft(s6)
  <2>1. SameSgs(s5, s6)
    BY <1>10, <1>17, ReclaimSgs
  <2> QED BY <1>10, <1>16, <2>1
<1> HIDE DEF s6
<1>12. /\ Now'.sg_num = s6.sg_num /\ Now'.parent = s6.parent /\ Now'.ctx = s6.ctx
  BY <1>5 DEF Becomes, Now
<1>13. Fields(Now')
  BY DEF Fields, Now
<1>14. SgsLeft(Now')
  BY <1>11, <1>12, <1>13 DEF SgsLeft, Typed
<1> QED BY <1>14

\* A queue of live ids is a queue of ids.
LEMMA QueuesOfIds ==
  ASSUME NEW q, NEW a, NEW S, q \in Seq(a), a \subseteq S
  PROVE  q \in Seq(S)
<1>1. /\ q = [i \in 1 .. Len(q) |-> q[i]] /\ Len(q) \in Nat
      /\ \A i \in 1 .. Len(q) : q[i] \in S
  OBVIOUS
<1> QED BY <1>1

\* All variables have their types: in particular no id keeps a count of K.
THEOREM AcclTyped == Spec => []TypeOK
<1>1. Init => SgsLeft(Now)
  <2> SUFFICES ASSUME Init PROVE SgsLeft(Now)
    OBVIOUS
  <2>1. IsMap(Empty)
    BY DEF IsMap, Empty
  <2>2. AreMaps(parent) /\ AreMaps(ctx)
    BY <2>1 DEF Init, AreMaps
  <2>3. m_sg_num \in 0 .. SgNum
    BY AcclAssumption DEF Init
  <2>4. Fields(Now) /\ Now.sg_num = m_sg_num /\ Now.parent = parent /\ Now.ctx = ctx
    BY DEF Fields, Now
  <2> QED BY <2>2, <2>3, <2>4 DEF SgsLeft, Typed
<1>2. Inv(Now) /\ SgsLeft(Now) /\ [mth_entry]_vars => SgsLeft(Now)'
  <2> SUFFICES ASSUME Inv(Now), SgsLeft(Now), [mth_entry]_vars PROVE SgsLeft(Now)'
    OBVIOUS
  <2>1. CASE mth_entry
    BY <2>1, EntrySgs
  <2>2. CASE UNCHANGED vars
    <3>1. Now' = Now
      BY <2>2 DEF vars, Now
    <3>2. SgsLeft(Now')
      BY <3>1
    <3> QED BY <3>2
  <2> QED BY <2>1, <2>2
<1>3. Inv(Now) /\ SgsLeft(Now) /\ NoneLeftOver => TypeOK
  <2> SUFFICES ASSUME Inv(Now), SgsLeft(Now), NoneLeftOver PROVE TypeOK
    OBVIOUS
  <2> DEFINE U == UNION {Seq(Ids(l)) : l \in Levels}
  <2>1. /\ Levels = 1 .. 5 /\ STRIPE .. RDTXN = 2 .. 4 /\ STRIPE .. DAT = 2 .. 5
        /\ SG .. RDTXN = 1 .. 4 /\ SG = 1
        /\ \A l \in 2 .. 5 : l \in 1 .. 5 /\ l # 1 /\ l - 1 \in 1 .. 4 /\ l - 1 + 1 = l
    BY LevelsAre
  <2>2. /\ Now.sg_num = m_sg_num /\ Now.pool = pool /\ Now.split = split
        /\ Now.cnt = cnt /\ Now.parent = parent /\ Now.ctx = ctx
    BY DEF Now
  <2>3. /\ pool = [k \in Levels |-> pool[k]] /\ split = [k \in STRIPE .. RDTXN |-> split[k]]
        /\ cnt = [k \in STRIPE .. DAT |-> cnt[k]]
        /\ DOMAIN parent = 2 .. 5 /\ DOMAIN ctx = 1 .. 4
    BY <2>1, <2>2 DEF Inv, Shape
  <2>4. m_sg_num \in 0 .. SgNum
    BY <2>2 DEF SgsLeft
  <2>5. ASSUME NEW l \in 1 .. 5 PROVE pool[l] \in U
    <3>1. pool[l] \in Seq(Ids(l))
      BY <2>1, <2>2 DEF Inv, Stocked, Free
    <3> QED BY <2>1, <3>1
  <2>6. ASSUME NEW l \in 1 .. 5 PROVE Alive(Now, l) \subseteq Ids(l)
    BY <2>1 DEF Inv, Stocked
  <2>7. ASSUME NEW l \in 1 .. 4
        PROVE  Linked(Queue(Now, l), Alive(Now, l), cnt[l + 1], parent[l + 1], ctx[l])
    BY <2>1, <2>2 DEF Inv
  <2>8. ASSUME NEW l \in 2 .. 4 PROVE split[l] \in U
    <3>1. l \in 1 .. 5 /\ l \in 1 .. 4 /\ Queue(Now, l) = split[l]
      BY <2>1, <2>2 DEF Queue
    <3>2. split[l] \in Seq(Alive(Now, l))
      BY <2>7, <3>1 DEF Linked
    <3>3. split[l] \in Seq(Ids(l))
      BY <2>6, <3>1, <3>2, QueuesOfIds
    <3> QED BY <2>1, <3>1, <3>3
  <2>9. ASSUME NEW l \in 2 .. 5 PROVE cnt[l] \in 0 .. K - 1
    <3>1. l - 1 \in 1 .. 4 /\ l - 1 + 1 = l
      BY <2>1
    <3> QED BY <2>7, <3>1 DEF Linked
  <2>10. ASSUME NEW l \in 2 .. 5
         PROVE  parent[l] \in [DOMAIN parent[l] -> Ids(l - 1)]
    <3>1. l - 1 \in 1 .. 4 /\ l - 1 + 1 = l /\ l - 1 \in 1 .. 5
      BY <2>1
    <3>2. \A x \in DOMAIN parent[l] : parent[l][x] \in Alive(Now, l - 1)
      BY <2>7, <3>1 DEF Linked
    <3>3. IsMap(parent[l])
      BY <2>2, <2>3 DEF SgsLeft, Typed, AreMaps
    <3>4. \A x \in DOMAIN parent[l] : parent[l][x] \in Ids(l - 1)
      BY <2>6, <3>1, <3>2
    <3> QED BY <3>3, <3>4 DEF IsMap
  <2>11. ASSUME NEW l \in 1 .. 4
         PROVE  ctx[l] \in [DOMAIN ctx[l] -> 1 .. K - 1]
    <3>1. \A p \in DOMAIN ctx[l] : ctx[l][p] \in Nat \ {0}
      BY <2>7 DEF Linked
    <3>2. \A p \in DOMAIN ctx[l] : ctx[l][p] < K
      BY <2>1 DEF NoneLeftOver
    <3>3. IsMap(ctx[l])
      BY <2>2, <2>3 DEF SgsLeft, Typed, AreMaps
    <3>4. \A p \in DOMAIN ctx[l] : ctx[l][p] \in 1 .. K - 1
      <4>1. K \in Nat
        BY AcclAssumption
      <4> QED BY <3>1, <3>2, <4>1
    <3> QED BY <3>3, <3>4 DEF IsMap
  <2> HIDE DEF U
  <2>12. pool \in [Levels -> U]
    BY <2>1, <2>3, <2>5
  <2>13. split \in [STRIPE .. RDTXN -> U]
    BY <2>1, <2>3, <2>8
  <2>14. cnt \in [STRIPE .. DAT -> 0 .. K - 1]
    BY <2>1, <2>3, <2>9
  <2> QED BY <2>1, <2>4, <2>10, <2>11, <2>12, <2>13, <2>14 DEF TypeOK, U
<1> QED BY <1>1, <1>2, <1>3, BooksSound, ReclaimedAtOnce, PTL DEF Spec
=============================================================================
