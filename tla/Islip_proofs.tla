---------------------------- MODULE Islip_proofs ----------------------------
(***************************************************************************)
(* Proofs about the iSLIP scheduler for every number of ports: a slot      *)
(* connects a matching of waiting pairs, and no queue waits for as much as *)
(* N^3 slots.                                                              *)
(***************************************************************************)
EXTENDS Islip, WellFoundedInduction, TLAPS

-----------------------------------------------------------------------------
(* Pointers                                                                *)

\* A non-empty set of natural numbers has a least member.
LEMMA LeastNat ==
  ASSUME NEW S \in SUBSET Nat, S # {}
  PROVE  \E m \in S : \A n \in S : m <= n
<1>1. PICK x \in S : \A y \in S : ~ (<<y, x>> \in OpToRel(<, Nat))
  BY NatLessThanWellFounded, WFMin
<1>2. \A y \in S : ~ (y < x)
  BY <1>1 DEF OpToRel
<1>3. x \in Nat /\ \A y \in S : y \in Nat
  BY <1>1
<1>4. \A y \in S : x <= y
  BY <1>2, <1>3
<1> QED BY <1>1, <1>4

\* How far a port is from a pointer, and where a pointer moves.
LEMMA AwayIs ==
  ASSUME NEW p \in Ports, NEW x \in Ports
  PROVE  /\ Away(p, x) = IF x >= p THEN x - p ELSE x + N - p
         /\ Away(p, x) \in 0 .. N - 1
<1>1. N \in Nat \ {0} /\ p \in 0 .. N - 1 /\ x \in 0 .. N - 1
  BY IslipAssumption DEF Ports
<1>2. CASE x >= p
  <2> DEFINE d == x - p
  <2>1. d \in 0 .. N - 1 /\ x + N - p = d + N
    BY <1>1, <1>2
  <2> HIDE DEF d
  <2>2. (d + N) % N = d
    BY <1>1, <2>1
  <2> QED BY <1>2, <2>1, <2>2 DEF Away, d
<1>3. CASE ~ (x >= p)
  <2> DEFINE d == x + N - p
  <2>1. d \in 0 .. N - 1
    BY <1>1, <1>3
  <2> HIDE DEF d
  <2>2. d % N = d
    BY <1>1, <2>1
  <2> QED BY <1>3, <2>1, <2>2 DEF Away, d
<1> QED BY <1>2, <1>3

\* The port after another, without the modulus.
LEMMA BeyondIs ==
  ASSUME NEW p \in Ports
  PROVE  Beyond(p) = (IF p + 1 < N THEN p + 1 ELSE 0) /\ Beyond(p) \in Ports
<1>1. N \in Nat \ {0} /\ p \in 0 .. N - 1
  BY IslipAssumption DEF Ports
<1>2. CASE p + 1 < N
  BY <1>1, <1>2 DEF Beyond, Ports
<1>3. CASE ~ (p + 1 < N)
  <2>1. p + 1 = N
    BY <1>1, <1>3
  <2>2. N % N = 0
    BY <1>1
  <2> QED BY <1>1, <1>3, <2>1, <2>2 DEF Beyond, Ports
<1> QED BY <1>2, <1>3

\* Ports are told apart by how far they are from a pointer.
LEMMA AwayDiffers ==
  ASSUME NEW p \in Ports, NEW x \in Ports, NEW y \in Ports, Away(p, x) = Away(p, y)
  PROVE  x = y
<1>1. N \in Nat \ {0} /\ p \in 0 .. N - 1 /\ x \in 0 .. N - 1 /\ y \in 0 .. N - 1
  BY IslipAssumption DEF Ports
<1> QED BY <1>1, AwayIs

\* When the pointer moves past a port that is nearer than x, it comes nearer
\* to x; the port it has just passed is the farthest.
LEMMA PassingComesNearer ==
  ASSUME NEW p \in Ports, NEW g \in Ports, NEW x \in Ports,
         Away(p, g) < Away(p, x)
  PROVE  Away(Beyond(g), x) < Away(p, x)
<1>1. /\ N \in Nat \ {0} /\ p \in 0 .. N - 1 /\ g \in 0 .. N - 1 /\ x \in 0 .. N - 1
      /\ Beyond(g) \in Ports /\ Beyond(g) = IF g + 1 < N THEN g + 1 ELSE 0
  BY IslipAssumption, BeyondIs DEF Ports
<1>2. /\ Away(p, g) = IF g >= p THEN g - p ELSE g + N - p
      /\ Away(p, x) = IF x >= p THEN x - p ELSE x + N - p
      /\ Away(Beyond(g), x) = IF x >= Beyond(g) THEN x - Beyond(g)
                              ELSE x + N - Beyond(g)
  BY <1>1, AwayIs
<1> QED BY <1>1, <1>2

\* From the port after g every other port is closer than g.
LEMMA PassedIsFarthest ==
  ASSUME NEW g \in Ports, NEW x \in Ports
  PROVE  x # g => Away(Beyond(g), x) < Away(Beyond(g), g)
<1>1. /\ N \in Nat \ {0} /\ g \in 0 .. N - 1 /\ x \in 0 .. N - 1
      /\ Beyond(g) \in Ports /\ Beyond(g) = IF g + 1 < N THEN g + 1 ELSE 0
  BY IslipAssumption, BeyondIs DEF Ports
<1>2. /\ Away(Beyond(g), g) = IF g >= Beyond(g) THEN g - Beyond(g)
                              ELSE g + N - Beyond(g)
      /\ Away(Beyond(g), x) = IF x >= Beyond(g) THEN x - Beyond(g)
                              ELSE x + N - Beyond(g)
  BY <1>1, AwayIs
<1> QED BY <1>1, <1>2

\* The search finds the nearest member, whatever set of ports it searches.
LEMMA SearchFinds ==
  ASSUME NEW p \in Ports, NEW S \in SUBSET Ports, S # {}
  PROVE  /\ FirstFrom(p, S) \in S
         /\ \A y \in S : Away(p, FirstFrom(p, S)) <= Away(p, y)
         /\ \A y \in S : y # FirstFrom(p, S) => Away(p, FirstFrom(p, S)) < Away(p, y)
<1> DEFINE T == {Away(p, x) : x \in S}
<1>1. T \in SUBSET Nat /\ T # {}
  <2>1. \A x \in S : Away(p, x) \in Nat
    BY AwayIs
  <2> QED BY <2>1
<1> HIDE DEF T
<1>2. PICK m \in T : \A n \in T : m <= n
  BY <1>1, LeastNat
<1>3. PICK x \in S : \A y \in S : Away(p, x) <= Away(p, y)
  BY <1>2 DEF T
<1>4. \E z \in S : \A y \in S : (z + N - p) % N <= (y + N - p) % N
  BY <1>3 DEF Away
<1> DEFINE f == FirstFrom(p, S)
<1>5. f \in S /\ \A y \in S : (f + N - p) % N <= (y + N - p) % N
  BY <1>4 DEF FirstFrom
<1>6. f \in S /\ \A y \in S : Away(p, f) <= Away(p, y)
  BY <1>5 DEF Away
<1> HIDE DEF f
<1>7. ASSUME NEW y \in S, y # f PROVE Away(p, f) < Away(p, y)
  <2>1. Away(p, f) # Away(p, y)
    BY <1>6, <1>7, AwayDiffers
  <2>2. Away(p, f) \in 0 .. N - 1 /\ Away(p, y) \in 0 .. N - 1
    BY <1>6, AwayIs
  <2> QED BY <1>6, <2>1, <2>2, IslipAssumption
<1> QED BY <1>6, <1>7 DEF f

\* Whoever is a nearest member is the one found.
LEMMA SearchUnique ==
  ASSUME NEW p \in Ports, NEW S \in SUBSET Ports, NEW x \in S,
         \A y \in S : Away(p, x) <= Away(p, y)
  PROVE  FirstFrom(p, S) = x
<1>1. FirstFrom(p, S) \in S
      /\ \A y \in S : y # FirstFrom(p, S) => Away(p, FirstFrom(p, S)) < Away(p, y)
  BY SearchFinds
<1> DEFINE f == FirstFrom(p, S)
<1>2. Away(p, x) <= Away(p, f) /\ (x # f => Away(p, f) < Away(p, x))
  BY <1>1
<1>3. Away(p, x) \in 0 .. N - 1 /\ Away(p, f) \in 0 .. N - 1
  BY <1>1, AwayIs
<1> HIDE DEF f
<1>4. x = f
  BY <1>2, <1>3, IslipAssumption
<1> QED BY <1>4 DEF f

\* Numbers with two digits to base N are ordered by the first.
LEMMA Digits ==
  ASSUME NEW x \in Nat, NEW y \in Nat, x < y, NEW a \in 0 .. N - 1, NEW b \in Nat
  PROVE  x * N + a < y * N + b
<1>1. N \in Nat \ {0}
  BY IslipAssumption
<1>2. (x + 1) * N <= y * N
  BY <1>1
<1>3. (x + 1) * N = x * N + N /\ x * N \in Nat /\ y * N \in Nat
  BY <1>1
<1> QED BY <1>1, <1>2, <1>3

-----------------------------------------------------------------------------
(* One slot                                                                *)

\* What is the case before each of the driver's calls.
SlotInv ==
  /\ step = "load" => /\ m_ql = {} /\ m_request = {} /\ m_grant = {}
                      /\ m_accept = {} /\ sch_result = {}
  /\ step = "sch" => /\ m_ql = voq /\ m_request = {} /\ m_grant = {}
                     /\ m_accept = {} /\ sch_result = {}
  \* An output's pointer is one beyond the input it is connected to.
  /\ \A x \in sch_result : m_gi[x[2]] = Beyond(x[1])

IInv == TypeOK /\ Matching /\ SlotInv

\* The scheduler starts between two slots, with nothing connected.
LEMMA InitIInv == Init => IInv
<1> SUFFICES ASSUME Init PROVE IInv
  OBVIOUS
<1>1. TypeOK
  BY DEF Init, TypeOK
<1> QED BY <1>1 DEF Init, IInv, Matching, SlotInv

\* What the four calls leave, in terms of the queues reported: an output grants
\* the first requesting input from its pointer, an input accepts the first of
\* its grants, and the pointers of both move.
LEMMA SlotResult ==
  ASSUME IInv, islip_sch
  PROVE  /\ \A x \in sch_result' :
              /\ x \in voq /\ x[1] \in Ports /\ x[2] \in Ports /\ x = <<x[1], x[2]>>
              /\ x[1] = Favoured(x[2])
              /\ x[2] = Choice(m_grant', x[1])
              /\ m_gi'[x[2]] = Beyond(x[1])
         /\ \A j \in Ports : Requesting(voq, j) # {} =>
              LET i == Favoured(j)
                  k == Choice(m_grant', i)
              IN  /\ i \in Requesting(voq, j) /\ j \in Granting(m_grant', i)
                  /\ k \in Granting(m_grant', i)
                  /\ <<i, k>> \in sch_result' /\ m_ai'[i] = Beyond(k)
                  /\ k # j => m_gi'[j] = m_gi[j]
         /\ m_accept' = sch_result' /\ m_request' = voq
         /\ m_grant' \subseteq voq
         /\ m_gi' \in [Ports -> Ports] /\ m_ai' \in [Ports -> Ports]
<1> DEFINE G == m_grant'
           A == sch_result'
<1>1. /\ m_gi \in [Ports -> Ports] /\ m_ai \in [Ports -> Ports]
      /\ voq \subseteq Ports \X Ports /\ m_ql = voq
      /\ m_request = {} /\ m_grant = {} /\ m_accept = {} /\ sch_result = {}
  BY IslipAssumption DEF IInv, TypeOK, SlotInv, islip_sch
<1>2. m_request' = voq /\ G = do_grant(voq)
  BY <1>1 DEF islip_sch, send_request
<1>3. /\ A = do_accept(G) /\ m_accept' = A
      /\ m_ai' = [i \in Ports |-> IF Granting(G, i) = {} THEN m_ai[i]
                                  ELSE Beyond(Choice(G, i))]
      /\ m_gi' = [j \in Ports |-> IF Requesting(A, j) = {} THEN m_gi[j]
                                  ELSE Beyond(LastAccepting(A, j))]
  BY <1>1, <1>2 DEF islip_sch, send_request
<1>4. G = {<<Favoured(j), j>> : j \in {o \in Ports : Requesting(voq, o) # {}}}
  BY <1>1, <1>2 DEF do_grant, Favoured
<1>5. A = {<<i, Choice(G, i)>> : i \in {p \in Ports : Granting(G, p) # {}}}
  BY <1>1, <1>3 DEF do_accept
<1> HIDE DEF G, A
<1>6. ASSUME NEW j \in Ports, Requesting(voq, j) # {}
      PROVE  /\ Favoured(j) \in Requesting(voq, j) /\ Favoured(j) \in Ports
             /\ <<Favoured(j), j>> \in voq /\ <<Favoured(j), j>> \in G
             /\ j \in Granting(G, Favoured(j))
  <2>1. Requesting(voq, j) \in SUBSET Ports /\ m_gi[j] \in Ports
    BY <1>1 DEF Requesting
  <2>2. Favoured(j) \in Requesting(voq, j)
    BY <1>6, <2>1, SearchFinds DEF Favoured
  <2> QED BY <1>4, <1>6, <2>2 DEF Requesting, Granting
<1>7. \A x \in G : /\ x[2] \in Ports /\ Requesting(voq, x[2]) # {}
                   /\ x = <<Favoured(x[2]), x[2]>> /\ x \in voq
  BY <1>4, <1>6
<1>8. ASSUME NEW i \in Ports, Granting(G, i) # {}
      PROVE  /\ Choice(G, i) \in Granting(G, i) /\ Choice(G, i) \in Ports
             /\ <<i, Choice(G, i)>> \in G /\ i = Favoured(Choice(G, i))
             /\ <<i, Choice(G, i)>> \in A
  <2>1. Granting(G, i) \in SUBSET Ports /\ m_ai[i] \in Ports
    BY <1>1 DEF Granting
  <2>2. Choice(G, i) \in Granting(G, i)
    BY <1>8, <2>1, SearchFinds DEF Choice
  <2>3. <<i, Choice(G, i)>> \in G
    BY <2>2 DEF Granting
  <2> QED BY <1>5, <1>7, <1>8, <2>1, <2>2, <2>3
<1>9. ASSUME NEW x \in A
      PROVE  /\ x \in voq /\ x[1] \in Ports /\ x[2] \in Ports /\ x = <<x[1], x[2]>>
             /\ x[1] = Favoured(x[2]) /\ x[2] = Choice(G, x[1])
             /\ Granting(G, x[1]) # {}
  <2>1. PICK i \in Ports : Granting(G, i) # {} /\ x = <<i, Choice(G, i)>>
    BY <1>5
  <2> QED BY <1>7, <1>8, <2>1
<1>10. ASSUME NEW x \in A
       PROVE  Requesting(A, x[2]) = {x[1]} /\ m_gi'[x[2]] = Beyond(x[1])
  <2>1. Requesting(A, x[2]) = {x[1]}
    <3>1. x[1] \in Requesting(A, x[2])
      BY <1>9 DEF Requesting
    <3>2. ASSUME NEW i \in Requesting(A, x[2]) PROVE i = x[1]
      <4>1. <<i, x[2]>> \in A
        BY DEF Requesting
      <4>2. i = Favoured(x[2])
        BY <1>9, <4>1
      <4> QED BY <1>9, <4>2
    <3> QED BY <3>1, <3>2
  <2>2. LastAccepting(A, x[2]) = x[1]
    <3>1. x[1] \in Nat
      BY <1>9 DEF Ports
    <3> QED BY <2>1, <3>1 DEF LastAccepting
  <2> QED BY <1>3, <1>9, <2>1, <2>2
<1>11. ASSUME NEW j \in Ports, Requesting(voq, j) # {}, Choice(G, Favoured(j)) # j
       PROVE  m_gi'[j] = m_gi[j]
  <2>1. Requesting(A, j) = {}
    <3> SUFFICES ASSUME NEW i \in Requesting(A, j) PROVE FALSE
      OBVIOUS
    <3>1. <<i, j>> \in A
      BY DEF Requesting
    <3>2. i = Favoured(j) /\ j = Choice(G, i)
      BY <1>9, <3>1
    <3> QED BY <1>11, <3>2
  <2> QED BY <1>3, <2>1
<1>12. \A i \in Ports : Granting(G, i) # {} => m_ai'[i] = Beyond(Choice(G, i))
  BY <1>3
<1>13. m_ai' \in [Ports -> Ports]
  <2>1. \A i \in Ports : Granting(G, i) # {} => Beyond(Choice(G, i)) \in Ports
    BY <1>8, BeyondIs
  <2> QED BY <1>1, <1>3, <2>1
<1>14. m_gi' \in [Ports -> Ports]
  <2>1. ASSUME NEW j \in Ports, Requesting(A, j) # {}
        PROVE  Beyond(LastAccepting(A, j)) \in Ports
    <3>1. PICK i \in Ports : <<i, j>> \in A
      BY <2>1 DEF Requesting
    <3>2. m_gi'[j] = Beyond(i) /\ Beyond(i) \in Ports
      BY <1>10, <3>1, BeyondIs
    <3> QED BY <1>3, <2>1, <3>2
  <2> QED BY <1>1, <1>3, <2>1
<1>15. ASSUME NEW j \in Ports, Requesting(voq, j) # {}
       PROVE  LET i == Favoured(j)
                  k == Choice(G, i)
              IN  /\ i \in Requesting(voq, j) /\ j \in Granting(G, i)
                  /\ k \in Granting(G, i)
                  /\ <<i, k>> \in A /\ m_ai'[i] = Beyond(k)
                  /\ k # j => m_gi'[j] = m_gi[j]
  <2>1. Favoured(j) \in Ports /\ Granting(G, Favoured(j)) # {}
    BY <1>6, <1>15
  <2> QED BY <1>6, <1>8, <1>11, <1>12, <1>15, <2>1
<1>16. G \subseteq voq
  BY <1>7
<1> QED BY <1>2, <1>3, <1>9, <1>10, <1>13, <1>14, <1>15, <1>16 DEF G, A

\* Each of the calls keeps the invariant.
LEMMA StepIInv == IInv /\ [Next]_vars => IInv'
<1> SUFFICES ASSUME IInv, [Next]_vars PROVE IInv'
  OBVIOUS
<1>0. /\ m_gi \in [Ports -> Ports] /\ m_ai \in [Ports -> Ports] /\ voq \subseteq Demand
  BY DEF IInv, TypeOK
<1>1. CASE init
  <2>1. /\ m_ql' = {} /\ m_request' = {} /\ m_grant' = {} /\ m_accept' = {}
        /\ sch_result' = {} /\ step' = "load" /\ m_gi' = m_gi /\ m_ai' = m_ai
        /\ voq' \subseteq voq
    BY <1>1 DEF init
  <2> QED BY <1>0, <2>1 DEF IInv, TypeOK, Matching, SlotInv
<1>2. CASE set_ql
  <2>1. /\ m_ql' = voq /\ step' = "sch" /\ sch_result = {}
        /\ m_request = {} /\ m_grant = {} /\ m_accept = {}
        /\ UNCHANGED <<m_gi, m_ai, m_request, m_grant, m_accept, sch_result, voq>>
    BY <1>2 DEF set_ql, IInv, SlotInv
  <2> QED BY <1>0, <2>1 DEF IInv, TypeOK, Matching, SlotInv
<1>3. CASE islip_sch
  <2>1. /\ \A x \in sch_result' :
              /\ x \in voq /\ x[1] \in Ports /\ x[2] \in Ports /\ x = <<x[1], x[2]>>
              /\ x[1] = Favoured(x[2]) /\ x[2] = Choice(m_grant', x[1])
              /\ m_gi'[x[2]] = Beyond(x[1])
        /\ m_accept' = sch_result' /\ m_request' = voq /\ m_grant' \subseteq voq
        /\ m_gi' \in [Ports -> Ports] /\ m_ai' \in [Ports -> Ports]
    BY <1>3, SlotResult
  <2>2. m_ql' = voq /\ voq' = voq /\ step' = "init"
    BY <1>3 DEF islip_sch, IInv, SlotInv
  <2>3. \A x, y \in sch_result' : x[1] = y[1] <=> x[2] = y[2]
    BY <2>1
  <2> QED BY <1>0, <2>1, <2>2, <2>3 DEF IInv, TypeOK, Matching, SlotInv
<1>4. ASSUME NEW d \in Demand, arrive(d) PROVE IInv'
  BY <1>0, <1>4 DEF arrive, matrices, IInv, TypeOK, Matching, SlotInv
<1>5. CASE UNCHANGED vars
  BY <1>5 DEF vars, matrices, IInv, TypeOK, Matching, SlotInv
<1> QED BY <1>1, <1>2, <1>3, <1>4, <1>5 DEF Next, Slot

\* The scheduler's state is sound before each call.
THEOREM SlotsSound == Spec => []IInv
  BY InitIInv, StepIInv, PTL DEF Spec

\* A slot connects no port twice, and only ports with traffic (islip.cpp:78-133).
THEOREM SlotsMatch == Spec => []Matching
<1>1. IInv => Matching
  BY DEF IInv
<1> QED BY SlotsSound, <1>1, PTL

-----------------------------------------------------------------------------
(* Waiting                                                                 *)

\* The input an output with pointers gi and queues q favours, and the three
\* digits of the wait of queue <<i, j>>.
Favours(gi, q, j) == FirstFrom(gi[j], Requesting(q, j))
WaitOf(gi, ai, f, i, j) ==
  (Away(gi[j], i) * N + Away(gi[j], f)) * N + Away(ai[f], j)

\* An output with a request favours the first input from its pointer.
LEMMA FavouredIs ==
  ASSUME NEW gi \in [Ports -> Ports], NEW q, NEW i \in Ports, NEW j \in Ports,
         <<i, j>> \in q
  PROVE  /\ Favours(gi, q, j) \in Ports /\ Favours(gi, q, j) \in Requesting(q, j)
         /\ \A y \in Requesting(q, j) :
              y # Favours(gi, q, j) => Away(gi[j], Favours(gi, q, j)) < Away(gi[j], y)
<1>1. /\ Requesting(q, j) \in SUBSET Ports /\ Requesting(q, j) # {}
      /\ gi[j] \in Ports
  BY DEF Requesting
<1> QED BY <1>1, SearchFinds DEF Favours

\* A first digit that is smaller, a second below the same first, a third below
\* the same first two make the wait shorter.
LEMMA FirstDigit ==
  ASSUME NEW gi \in [Ports -> Ports], NEW ai \in [Ports -> Ports], NEW f \in Ports,
         NEW hi \in [Ports -> Ports], NEW bi \in [Ports -> Ports], NEW g \in Ports,
         NEW i \in Ports, NEW j \in Ports,
         Away(hi[j], i) < Away(gi[j], i)
  PROVE  WaitOf(hi, bi, g, i, j) < WaitOf(gi, ai, f, i, j)
<1> DEFINE x == Away(hi[j], i)
           y == Away(gi[j], i)
           a == Away(hi[j], g)
           b == Away(gi[j], f)
           c == Away(bi[g], j)
           d == Away(ai[f], j)
<1>1. /\ x \in 0 .. N - 1 /\ y \in 0 .. N - 1 /\ a \in 0 .. N - 1
      /\ b \in 0 .. N - 1 /\ c \in 0 .. N - 1 /\ d \in 0 .. N - 1
      /\ N \in Nat \ {0} /\ x < y
  BY AwayIs, IslipAssumption
<1>2. WaitOf(hi, bi, g, i, j) = (x * N + a) * N + c
      /\ WaitOf(gi, ai, f, i, j) = (y * N + b) * N + d
  BY DEF WaitOf
<1> HIDE DEF x, y, a, b, c, d
<1>3. x * N + a < y * N + b
  BY <1>1, Digits
<1> DEFINE u == x * N + a
           v == y * N + b
<1>4. u \in Nat /\ v \in Nat /\ u < v
  BY <1>1, <1>3
<1> HIDE DEF u, v
<1>5. u * N + c < v * N + d
  BY <1>1, <1>4, Digits
<1> QED BY <1>2, <1>5 DEF u, v

\* A favoured input closer to the pointer makes the wait smaller.
LEMMA SecondDigit ==
  ASSUME NEW gi \in [Ports -> Ports], NEW ai \in [Ports -> Ports],
         NEW f \in Ports, NEW g \in Ports, NEW i \in Ports, NEW j \in Ports,
         Away(gi[j], g) < Away(gi[j], f)
  PROVE  WaitOf(gi, ai, g, i, j) < WaitOf(gi, ai, f, i, j)
<1> DEFINE x == Away(gi[j], i)
           a == Away(gi[j], g)
           b == Away(gi[j], f)
           c == Away(ai[g], j)
           d == Away(ai[f], j)
           u == x * N + a
           v == x * N + b
<1>1. /\ x \in 0 .. N - 1 /\ a \in 0 .. N - 1 /\ b \in 0 .. N - 1
      /\ c \in 0 .. N - 1 /\ d \in 0 .. N - 1 /\ N \in Nat \ {0} /\ a < b
  BY AwayIs, IslipAssumption
<1>2. WaitOf(gi, ai, g, i, j) = u * N + c /\ WaitOf(gi, ai, f, i, j) = v * N + d
  BY DEF WaitOf
<1>3. u \in Nat /\ v \in Nat /\ u < v
  <2> HIDE DEF x, a, b
  <2>1. x * N \in Nat
    BY <1>1
  <2> QED BY <1>1, <2>1
<1> HIDE DEF u, v, c, d
<1>4. u * N + c < v * N + d
  BY <1>1, <1>3, Digits
<1> QED BY <1>2, <1>4

\* The favoured input's own pointer closer to the output makes the wait smaller.
LEMMA ThirdDigit ==
  ASSUME NEW gi \in [Ports -> Ports], NEW ai \in [Ports -> Ports],
         NEW hi \in [Ports -> Ports], NEW bi \in [Ports -> Ports],
         NEW f \in Ports, NEW i \in Ports, NEW j \in Ports,
         hi[j] = gi[j], Away(bi[f], j) < Away(ai[f], j)
  PROVE  WaitOf(hi, bi, f, i, j) < WaitOf(gi, ai, f, i, j)
<1> DEFINE u == (Away(gi[j], i) * N + Away(gi[j], f)) * N
           c == Away(bi[f], j)
           d == Away(ai[f], j)
<1>1. WaitOf(hi, bi, f, i, j) = u + c /\ WaitOf(gi, ai, f, i, j) = u + d
  BY DEF WaitOf
<1>2. c \in 0 .. N - 1 /\ d \in 0 .. N - 1 /\ N \in Nat \ {0} /\ c < d
  BY AwayIs, IslipAssumption
<1>3. u \in Int
  <2>1. Away(gi[j], i) \in Int /\ Away(gi[j], f) \in Int
    BY AwayIs, IslipAssumption
  <2> QED BY <1>2, <2>1
<1> HIDE DEF u, c, d
<1> QED BY <1>1, <1>2, <1>3

\* A slot that does not serve a waiting queue shortens its wait.
LEMMA SlotShortens ==
  ASSUME IInv, islip_sch, NEW i \in Ports, NEW j \in Ports, <<i, j>> \in voq,
         <<i, j>> \notin sch_result'
  PROVE  Wait(<<i, j>>)' < Wait(<<i, j>>)
<1> DEFINE f == Favoured(j)
           k == Choice(m_grant', f)
           g == Favours(m_gi', voq, j)
<1>1. /\ m_gi \in [Ports -> Ports] /\ m_ai \in [Ports -> Ports] /\ voq' = voq
  BY DEF IInv, TypeOK, islip_sch
<1>2. /\ Requesting(voq, j) # {} /\ i \in Requesting(voq, j)
  BY DEF Requesting
<1>3. /\ f \in Requesting(voq, j) /\ j \in Granting(m_grant', f)
      /\ k \in Granting(m_grant', f)
      /\ <<f, k>> \in sch_result' /\ m_ai'[f] = Beyond(k)
      /\ k # j => m_gi'[j] = m_gi[j]
      /\ m_gi' \in [Ports -> Ports] /\ m_ai' \in [Ports -> Ports]
  BY <1>2, SlotResult
<1>4. /\ f = Favours(m_gi, voq, j) /\ f \in Ports
      /\ \A y \in Requesting(voq, j) : y # f => Away(m_gi[j], f) < Away(m_gi[j], y)
  BY <1>1, FavouredIs DEF Favoured, Favours
<1>5. g \in Ports
  BY <1>3, FavouredIs
<1>6. Wait(<<i, j>>) = WaitOf(m_gi, m_ai, f, i, j)
  BY DEF Wait, WaitOf
<1>7. Wait(<<i, j>>)' = WaitOf(m_gi', m_ai', g, i, j)
  BY <1>1 DEF Wait, WaitOf, Favoured, Favours
<1> HIDE DEF f, k, g
<1>8. CASE k = j
  <2>1. f # i
    BY <1>3, <1>8
  <2>2. m_gi'[j] = Beyond(f)
    <3>1. \A x \in sch_result' : m_gi'[x[2]] = Beyond(x[1])
      BY SlotResult
    <3> QED BY <1>3, <1>8, <3>1
  <2>3. Away(m_gi[j], f) < Away(m_gi[j], i)
    BY <1>2, <1>4, <2>1
  <2>4. Away(m_gi'[j], i) < Away(m_gi[j], i)
    BY <1>1, <1>4, <2>2, <2>3, PassingComesNearer
  <2>5. WaitOf(m_gi', m_ai', g, i, j) < WaitOf(m_gi, m_ai, f, i, j)
    BY <1>1, <1>3, <1>4, <1>5, <2>4, FirstDigit
  <2> QED BY <1>6, <1>7, <2>5
<1>9. CASE k # j
  <2>1. m_gi'[j] = m_gi[j]
    BY <1>3, <1>9
  <2>2. g = f
    BY <1>4, <2>1 DEF g, Favours
  <2>3. Away(m_ai[f], k) < Away(m_ai[f], j) /\ k \in Ports
    <3>1. /\ Granting(m_grant', f) \in SUBSET Ports /\ m_ai[f] \in Ports
          /\ Granting(m_grant', f) # {}
      BY <1>1, <1>3, <1>4 DEF Granting
    <3>2. k = FirstFrom(m_ai[f], Granting(m_grant', f))
      BY DEF k, Choice
    <3>3. \A y \in Granting(m_grant', f) :
            y # k => Away(m_ai[f], k) < Away(m_ai[f], y)
      BY <3>1, <3>2, SearchFinds
    <3> QED BY <1>3, <1>9, <3>1, <3>3
  <2>4. Away(m_ai'[f], j) < Away(m_ai[f], j)
    BY <1>1, <1>3, <1>4, <2>3, PassingComesNearer
  <2>5. WaitOf(m_gi', m_ai', f, i, j) < WaitOf(m_gi, m_ai, f, i, j)
    BY <1>1, <1>3, <1>4, <2>1, <2>4, ThirdDigit
  <2> QED BY <1>6, <1>7, <2>2, <2>5
<1> QED BY <1>8, <1>9

\* While the pointers stay, only a nearer favourite can take the favourite's
\* place as long as that one is not emptied.
LEMMA PointersStay ==
  ASSUME IInv, m_gi' = m_gi, m_ai' = m_ai,
         NEW i \in Ports, NEW j \in Ports, <<i, j>> \in voq, <<i, j>> \in voq',
         Favoured(j) \in Requesting(voq', j)
  PROVE  Wait(<<i, j>>)' <= Wait(<<i, j>>)
<1> DEFINE f == Favoured(j)
           g == Favours(m_gi, voq', j)
<1>1. m_gi \in [Ports -> Ports] /\ m_ai \in [Ports -> Ports]
  BY DEF IInv, TypeOK
<1>2. f \in Ports /\ g \in Ports
      /\ (f # g => Away(m_gi[j], g) < Away(m_gi[j], f))
  BY <1>1, FavouredIs DEF Favoured, Favours
<1>3. /\ Wait(<<i, j>>) = WaitOf(m_gi, m_ai, f, i, j)
      /\ Wait(<<i, j>>)' = WaitOf(m_gi, m_ai, g, i, j)
  BY DEF Wait, WaitOf, Favoured, Favours
<1> HIDE DEF f, g
<1>4. WaitOf(m_gi, m_ai, f, i, j) \in Int /\ WaitOf(m_gi, m_ai, g, i, j) \in Int
  <2>1. /\ Away(m_gi[j], i) \in Int /\ Away(m_gi[j], f) \in Int
        /\ Away(m_gi[j], g) \in Int /\ Away(m_ai[f], j) \in Int
        /\ Away(m_ai[g], j) \in Int /\ N \in Int
    BY <1>1, <1>2, AwayIs, IslipAssumption
  <2> QED BY <2>1 DEF WaitOf
<1>5. f # g => WaitOf(m_gi, m_ai, g, i, j) < WaitOf(m_gi, m_ai, f, i, j)
  BY <1>1, <1>2, SecondDigit
<1> QED BY <1>3, <1>4, <1>5

\* A queue that a slot served and emptied was favoured by nobody but itself:
\* the pointer has just passed it.
LEMMA EmptiedWasFarthest ==
  ASSUME IInv, init, NEW i \in Ports, NEW j \in Ports, <<i, j>> \in voq,
         <<i, j>> \in voq'
  PROVE  Favoured(j) \in Requesting(voq', j)
<1> DEFINE f == Favoured(j)
<1>1. m_gi \in [Ports -> Ports]
  BY DEF IInv, TypeOK
<1>2. /\ f \in Ports /\ f \in Requesting(voq, j)
      /\ \A y \in Requesting(voq, j) : y # f => Away(m_gi[j], f) < Away(m_gi[j], y)
  BY <1>1, FavouredIs DEF Favoured, Favours
<1> HIDE DEF f
<1>3. CASE <<f, j>> \in voq'
  BY <1>2, <1>3 DEF Requesting, f
<1>4. CASE <<f, j>> \notin voq'
  <2>1. <<f, j>> \in sch_result
    BY <1>2, <1>4 DEF init, Requesting
  <2>2. m_gi[j] = Beyond(f)
    BY <2>1 DEF IInv, SlotInv
  <2>3. i # f /\ i \in Requesting(voq, j)
    BY <1>4 DEF Requesting
  <2>4. Away(m_gi[j], f) < Away(m_gi[j], i) /\ Away(m_gi[j], i) < Away(m_gi[j], f)
    BY <1>2, <2>2, <2>3, PassedIsFarthest
  <2>5. Away(m_gi[j], f) \in 0 .. N - 1 /\ Away(m_gi[j], i) \in 0 .. N - 1
    BY <1>1, <1>2, AwayIs
  <2> QED BY <2>4, <2>5, IslipAssumption
<1> QED BY <1>3, <1>4

\* Each queue that goes on waiting comes closer to being served with every slot,
\* and is not set back between the slots (islip.cpp:78-133).
THEOREM WaitIsBounded == Spec => BoundedWait
<1>1. ASSUME IInv, [Next]_vars
      PROVE  [\A d \in voq \cap voq' : IF step = "sch"
                THEN d \in sch_result' \/ Wait(d)' < Wait(d)
                ELSE Wait(d)' <= Wait(d)]_vars
  <2> SUFFICES ASSUME Next, NEW d \in voq \cap voq'
               PROVE  IF step = "sch" THEN d \in sch_result' \/ Wait(d)' < Wait(d)
                      ELSE Wait(d)' <= Wait(d)
    BY <1>1
  <2>1. voq \subseteq Ports \X Ports
    BY <1>1, IslipAssumption DEF IInv, TypeOK
  <2>2. PICK i \in Ports, j \in Ports : d = <<i, j>>
    BY <2>1
  <2>3. m_gi \in [Ports -> Ports]
    BY <1>1 DEF IInv, TypeOK
  <2>4. Favoured(j) \in Requesting(voq, j)
    BY <2>2, <2>3, FavouredIs DEF Favoured, Favours
  <2>5. CASE islip_sch
    BY <1>1, <2>2, <2>5, SlotShortens DEF islip_sch
  <2>6. CASE init
    <3>1. step = "init" /\ m_gi' = m_gi /\ m_ai' = m_ai
      BY <2>6 DEF init
    <3>2. Favoured(j) \in Requesting(voq', j)
      BY <1>1, <2>2, <2>6, EmptiedWasFarthest
    <3>3. Wait(<<i, j>>)' <= Wait(<<i, j>>)
      BY <1>1, <2>2, <3>1, <3>2, PointersStay
    <3> QED BY <2>2, <3>1, <3>3
  <2>7. CASE set_ql \/ \E e \in Demand : arrive(e)
    <3>1. step = "load" /\ m_gi' = m_gi /\ m_ai' = m_ai /\ voq \subseteq voq'
      BY <2>7 DEF set_ql, arrive
    <3>2. Favoured(j) \in Requesting(voq', j)
      BY <2>4, <3>1 DEF Requesting
    <3>3. Wait(<<i, j>>)' <= Wait(<<i, j>>)
      BY <1>1, <2>2, <3>1, <3>2, PointersStay
    <3> QED BY <2>2, <3>1, <3>3
  <2> QED BY <2>5, <2>6, <2>7 DEF Next, Slot
<1> QED BY <1>1, SlotsSound, PTL DEF Spec, BoundedWait
=============================================================================
