-------------------------- MODULE Programs_proofs ---------------------------
(***************************************************************************)
(* Proofs about the small programs: tlm_extension, ab_communication,       *)
(* module_communication and the QoS arbiters of round_robin.               *)
(*                                                                         *)
(* tlm_extension, for every number of payloads and every longest delay:    *)
(* the chain of the pool, what is in flight, and how many payloads the     *)
(* program ever makes.  A node is made only when every node before it      *)
(* holds a free payload, so the chain is always all nodes in the order     *)
(* they were made, newest first, and free_list cuts it in two.  That is    *)
(* what makes ChainIntact inductive and lets the walk from free_list be    *)
(* computed.                                                               *)
(*                                                                         *)
(* The two communication programs, for every length of the run: which      *)
(* processes have yet to run on an edge tells how often each has run, and  *)
(* so every number in a queue, a signal or a hand.  The arbiters, for      *)
(* every number of inputs, of levels and of payloads TestPlatform allows:  *)
(* a turn is a distance on the walk round the inputs, and the key of the   *)
(* first arbiter orders by the QoS value before the turn because the turn  *)
(* is below 2^QosLowBit.                                                   *)
(***************************************************************************)
EXTENDS Programs, TlmExtension, PeqOps_proofs

-----------------------------------------------------------------------------
(* The chain                                                               *)

Node == [trans : Nat, next : Nat, prev : Nat]

\* The nodes nd, newest first, are one chain; f is free_list and e empties.
Chain(nd, f, e) ==
  /\ nd \in Seq(Node)
  /\ f \in 0 .. Len(nd)
  /\ e = IF f = Len(nd) THEN Null ELSE f + 1
  /\ \A n \in 1 .. Len(nd) : /\ nd[n].next = n - 1
                             /\ nd[n].prev = IF n = Len(nd) THEN Null ELSE n + 1

\* allocate moves free_list one node on.
LEMMA ChainPop ==
  ASSUME NEW nd, NEW f, NEW e, Chain(nd, f, e), f # Null
  PROVE  nd[f].next = f - 1 /\ Chain(nd, f - 1, f)
<1>1. f \in 1 .. Len(nd) /\ Len(nd) \in Nat
  BY DEF Chain, Null
<1>2. nd[f].next = f - 1
  BY <1>1 DEF Chain
<1>3. f - 1 \in 0 .. Len(nd) /\ f - 1 # Len(nd) /\ (f - 1) + 1 = f
  BY <1>1
<1> QED BY <1>2, <1>3 DEF Chain

\* A node of the pool.
LEMMA NodeFields ==
  ASSUME NEW nd \in Seq(Node), NEW n \in 1 .. Len(nd)
  PROVE  /\ nd[n] \in Node /\ nd[n].trans \in Nat
         /\ nd[n].next \in Nat /\ nd[n].prev \in Nat
<1>1. nd[n] \in Node
  OBVIOUS
<1> QED BY <1>1 DEF Node

\* One field of a node assigned.
LEMMA NodePrev ==
  ASSUME NEW nd \in Node, NEW v \in Nat
  PROVE  LET r == [nd EXCEPT !.prev = v]
         IN  r \in Node /\ r.trans = nd.trans /\ r.next = nd.next /\ r.prev = v
BY DEF Node

\* The other one that free assigns.
LEMMA NodeTrans ==
  ASSUME NEW nd \in Node, NEW v \in Nat
  PROVE  LET r == [nd EXCEPT !.trans = v]
         IN  r \in Node /\ r.trans = v /\ r.next = nd.next /\ r.prev = nd.prev
BY DEF Node

\* A new node goes in front of a chain without spare nodes.
LEMMA ChainGrows ==
  ASSUME Chain(node, free_list, empties), empties = Null
  PROVE  /\ free_list = Len(node) /\ Len(node) \in Nat
         /\ Chain(NewNode, Len(node), Len(node) + 1)
         /\ Len(NewNode) = Len(node) + 1
         /\ NewNode[Len(node) + 1].prev = Null
         /\ \A n \in 1 .. Len(node) : NewNode[n].trans = node[n].trans
<1> DEFINE L == Len(node)
           old == [m \in DOMAIN node |->
                     IF m = free_list THEN [node[m] EXCEPT !.prev = L + 1] ELSE node[m]]
           new == [trans |-> Null, next |-> free_list, prev |-> Null]
<1>1. free_list = L /\ L \in Nat /\ node \in Seq(Node) /\ DOMAIN node = 1 .. L
  BY DEF Chain, Null
<1>2. /\ old = [m \in 1 .. L |->
                 IF m = free_list THEN [node[m] EXCEPT !.prev = L + 1] ELSE node[m]]
      /\ NewNode = Append(old, new)
  BY <1>1 DEF NewNode
<1> HIDE DEF L
<1>3. ASSUME NEW m \in 1 .. L
      PROVE  /\ old[m] \in Node /\ old[m].trans = node[m].trans
             /\ old[m].next = m - 1 /\ old[m].prev = m + 1
  <2>1. node[m] \in Node /\ node[m].next = m - 1
        /\ node[m].prev = IF m = L THEN Null ELSE m + 1
    BY <1>1, NodeFields DEF Chain, L
  <2>2. CASE m = L
    <3>1. old[m] = [node[m] EXCEPT !.prev = L + 1]
      BY <1>1, <1>2, <2>2
    <3>2. L + 1 \in Nat /\ m + 1 = L + 1
      BY <1>1, <2>2
    <3> HIDE DEF old
    <3> QED BY <2>1, <3>1, <3>2, NodePrev
  <2>3. CASE m # L
    <3>1. old[m] = node[m]
      BY <1>1, <1>2, <2>3
    <3> QED BY <2>1, <2>3, <3>1
  <2> QED BY <2>2, <2>3
<1> HIDE DEF old
<1>4. old \in Seq(Node) /\ Len(old) = L
  <2>1. old = [m \in 1 .. L |-> old[m]]
    BY <1>2
  <2> QED BY <1>1, <1>3, <2>1
<1>5. new \in Node /\ new.next = L /\ new.prev = Null
  BY <1>1 DEF Node, Null
<1> HIDE DEF new
<1>6. /\ NewNode \in Seq(Node) /\ Len(NewNode) = L + 1
      /\ \A n \in 1 .. L : NewNode[n] = old[n]
      /\ NewNode[L + 1] = new
  <2>1. NewNode = Append(old, new) /\ L \in Nat
    BY <1>1, <1>2
  <2>2. old \in Seq(Node) /\ Len(old) = L /\ new \in Node
    BY <1>4, <1>5
  <2> QED BY <2>1, <2>2, AppendProperties
<1>7. ASSUME NEW n \in 1 .. L + 1
      PROVE  /\ NewNode[n].next = n - 1
             /\ NewNode[n].prev = IF n = L + 1 THEN Null ELSE n + 1
  <2>1. CASE n = L + 1
    <3>1. n - 1 = L
      BY <1>1, <2>1
    <3> QED BY <1>5, <1>6, <2>1, <3>1
  <2>2. CASE n # L + 1
    <3>1. n \in 1 .. L
      BY <1>1, <2>2
    <3> QED BY <1>3, <1>6, <2>2, <3>1
  <2> QED BY <2>1, <2>2
<1>8. Chain(NewNode, L, L + 1)
  <2>1. L \in 0 .. L + 1 /\ L # L + 1
    BY <1>1
  <2> QED BY <1>6, <1>7, <2>1 DEF Chain
<1>9. \A n \in 1 .. L : NewNode[n].trans = node[n].trans
  BY <1>3, <1>6
<1> QED BY <1>1, <1>5, <1>6, <1>8, <1>9 DEF L

\* free stores the payload in the node before free_list, a new one if there is
\* none, and moves free_list back to it.
LEMMA ChainFree ==
  ASSUME Chain(node, free_list, empties), NEW p \in Nat, free(p)
  PROVE  /\ Chain(node', free_list', empties')
         /\ free_list' = free_list + 1 /\ created' = created
         /\ node'[free_list + 1].trans = p
         /\ \A n \in 1 .. free_list : node'[n].trans = node[n].trans
         /\ Len(node') = IF free_list = Len(node) THEN Len(node) + 1 ELSE Len(node)
<1>0. Len(node) \in Nat /\ free_list \in 0 .. Len(node)
  BY DEF Chain
<1> DEFINE f == free_list + 1
<1>1. ASSUME NEW nd, Chain(nd, free_list, f), f \in 1 .. Len(nd),
             node' = [nd EXCEPT ![f].trans = p],
             free_list' = f, empties' = nd[f].prev
      PROVE  /\ Chain(node', free_list', empties')
             /\ node'[f].trans = p /\ Len(node') = Len(nd)
             /\ \A n \in 1 .. free_list : node'[n].trans = nd[n].trans
  <2>1. nd \in Seq(Node) /\ Len(nd) \in Nat /\ DOMAIN nd = 1 .. Len(nd)
    BY <1>1 DEF Chain
  <2>2. ASSUME NEW n \in 1 .. Len(nd)
        PROVE  /\ node'[n] \in Node /\ node'[n].next = nd[n].next
               /\ node'[n].prev = nd[n].prev
               /\ node'[n].trans = IF n = f THEN p ELSE nd[n].trans
    <3>1. nd[n] \in Node
      BY <2>1, NodeFields
    <3>2. CASE n = f
      <4>1. node'[n] = [nd[n] EXCEPT !.trans = p]
        BY <1>1, <2>1, <3>2
      <4> QED BY <3>1, <3>2, <4>1, NodeTrans
    <3>3. CASE n # f
      <4>1. node'[n] = nd[n]
        BY <1>1, <2>1, <3>3
      <4> QED BY <3>1, <3>3, <4>1
    <3> QED BY <3>2, <3>3
  <2>3. node' = [n \in 1 .. Len(nd) |-> node'[n]]
    BY <1>1, <2>1
  <2>4. node' \in Seq(Node) /\ Len(node') = Len(nd)
    BY <2>1, <2>2, <2>3
  <2>5. nd[f].prev = IF f = Len(nd) THEN Null ELSE f + 1
    BY <1>1 DEF Chain
  <2>6. \A n \in 1 .. Len(nd) :
          /\ node'[n].next = n - 1
          /\ node'[n].prev = IF n = Len(nd) THEN Null ELSE n + 1
    BY <1>1, <2>2 DEF Chain
  <2>7. Chain(node', free_list', empties')
    <3>1. f \in 0 .. Len(nd)
      BY <1>1
    <3> HIDE DEF f
    <3> QED BY <1>1, <2>4, <2>5, <2>6, <3>1 DEF Chain
  <2>8. \A n \in 1 .. free_list : node'[n].trans = nd[n].trans
    <3> SUFFICES ASSUME NEW n \in 1 .. free_list
                 PROVE  node'[n].trans = nd[n].trans
      OBVIOUS
    <3>1. n \in 1 .. Len(nd) /\ n # f
      BY <1>0, <1>1, <2>1
    <3> QED BY <2>2, <3>1
  <2> QED BY <1>1, <2>2, <2>4, <2>7, <2>8
<1>2. CASE empties = Null
  <2>1. /\ free_list = Len(node) /\ Chain(NewNode, free_list, f)
        /\ Len(NewNode) = Len(node) + 1
        /\ \A n \in 1 .. Len(node) : NewNode[n].trans = node[n].trans
    BY <1>2, ChainGrows
  <2>2. /\ node' = [NewNode EXCEPT ![Len(NewNode)].trans = p]
        /\ free_list' = Len(NewNode) /\ empties' = NewNode[Len(NewNode)].prev
        /\ created' = created
    BY <1>2 DEF free
  <2>3. Len(NewNode) = f /\ f \in 1 .. Len(NewNode)
    BY <1>0, <2>1
  <2> HIDE DEF f
  <2>4. /\ Chain(node', free_list', empties')
        /\ node'[f].trans = p /\ Len(node') = Len(NewNode)
        /\ \A n \in 1 .. free_list : node'[n].trans = NewNode[n].trans
    BY <1>1, <2>1, <2>2, <2>3
  <2> QED BY <2>1, <2>2, <2>3, <2>4 DEF f
<1>3. CASE empties # Null
  <2>1. free_list # Len(node) /\ empties = f /\ f \in 1 .. Len(node)
    BY <1>0, <1>3 DEF Chain
  <2>2. /\ node' = [node EXCEPT ![empties].trans = p]
        /\ free_list' = empties /\ empties' = node[empties].prev
        /\ created' = created
    BY <1>3 DEF free
  <2> HIDE DEF f
  <2>3. /\ Chain(node', free_list', empties')
        /\ node'[f].trans = p /\ Len(node') = Len(node)
        /\ \A n \in 1 .. free_list : node'[n].trans = node[n].trans
    BY <1>1, <2>1, <2>2
  <2> QED BY <2>1, <2>2, <2>3 DEF f
<1> QED BY <1>2, <1>3

-----------------------------------------------------------------------------
(* The free payloads                                                       *)

\* What the first f nodes of a chain hold, newest first.
Line(nd, f) == [k \in 1 .. f |-> nd[f + 1 - k].trans]

\* g(k) is the k-th node met on the way from node f.
Walk(g, nd, f) ==
  g = [k \in 0 .. Len(nd) |->
        IF k = 0 THEN f ELSE IF g[k - 1] = Null THEN Null ELSE nd[g[k - 1]].next]

\* What is met on it.
Met(g, nd) ==
  LET hits == {k \in 0 .. Len(nd) : g[k] # Null}
  IN  [k \in {h + 1 : h \in hits} |-> nd[g[k - 1]].trans]

\* From free_list the way goes down the numbers of the nodes.
LEMMA WalkDown ==
  ASSUME NEW nd, NEW f, NEW e, Chain(nd, f, e)
  PROVE  /\ \E g : Walk(g, nd, f)
         /\ \A g : Walk(g, nd, f) =>
              \A k \in 0 .. Len(nd) : g[k] = IF k <= f THEN f - k ELSE Null
<1> DEFINE L == Len(nd)
           d(k) == IF k <= f THEN f - k ELSE Null
           h == [k \in 0 .. L |-> d(k)]
<1>1. L \in Nat /\ f \in 0 .. L /\ f \in Nat
  BY DEF Chain
<1>2. \A n \in 1 .. L : nd[n].next = n - 1
  BY DEF Chain
<1> HIDE DEF L
<1>3. ASSUME NEW k \in 0 .. L, k # 0
      PROVE  d(k) = IF d(k - 1) = Null THEN Null ELSE nd[d(k - 1)].next
  <2>1. CASE k - 1 < f
    <3> DEFINE x == f - k + 1
    <3>1. d(k - 1) = x /\ x \in 1 .. L /\ d(k) = x - 1 /\ x # Null
      BY <1>1, <1>3, <2>1 DEF Null
    <3> HIDE DEF d, x
    <3>2. nd[x].next = x - 1
      BY <1>2, <3>1
    <3> QED BY <3>1, <3>2, Zenon
  <2>2. CASE ~(k - 1 < f)
    BY <1>1, <1>3, <2>2 DEF Null
  <2> QED BY <2>1, <2>2
<1> DEFINE w(g) == [k \in 0 .. L |->
                     IF k = 0 THEN f ELSE IF g[k - 1] = Null THEN Null
                                          ELSE nd[g[k - 1]].next]
<1>4. Walk(h, nd, f)
  <2>1. ASSUME NEW k \in 0 .. L PROVE h[k] = w(h)[k]
    <3>1. CASE k = 0
      BY <1>1, <3>1
    <3>2. CASE k # 0
      <4>1. k - 1 \in 0 .. L
        BY <1>1, <3>2
      <4>2. h[k - 1] = d(k - 1) /\ h[k] = d(k)
        BY <4>1
      <4> HIDE DEF d, h
      <4> QED BY <1>3, <3>2, <4>2
    <3> QED BY <3>1, <3>2
  <2>2. h = w(h)
    <3> HIDE DEF d
    <3> QED BY <2>1
  <2> HIDE DEF h
  <2> QED BY <2>2 DEF Walk, L
<1>5. ASSUME NEW g, Walk(g, nd, f) PROVE \A k \in 0 .. L : g[k] = d(k)
  <2>1. g = w(g)
    BY <1>5 DEF Walk, L
  <2>2. g[0] = f /\ \A k \in 1 .. L :
          g[k] = IF g[k - 1] = Null THEN Null ELSE nd[g[k - 1]].next
    <3> HIDE DEF w
    <3>1. g[0] = w(g)[0] /\ \A k \in 1 .. L : g[k] = w(g)[k]
      BY <2>1
    <3>2. w(g)[0] = f
      BY <1>1 DEF w
    <3>3. ASSUME NEW k \in 1 .. L
          PROVE  w(g)[k] = IF g[k - 1] = Null THEN Null ELSE nd[g[k - 1]].next
      <4>1. k \in 0 .. L /\ k # 0
        BY <1>1
      <4> QED BY <4>1 DEF w
    <3> QED BY <3>1, <3>2, <3>3
  <2> DEFINE S == {k \in 0 .. L : g[k] # d(k)}
  <2>3. SUFFICES ASSUME S # {} PROVE FALSE
    OBVIOUS
  <2>4. PICK k \in S : \A j \in S : k <= j
    <3>1. S \in SUBSET Nat
      BY <1>1
    <3> HIDE DEF S
    <3> QED BY <2>3, <3>1, LeastNat
  <2>5. k # 0
    <3>1. d(0) = f
      BY <1>1
    <3> QED BY <2>2, <2>4, <3>1
  <2>6. k - 1 \in 0 .. L /\ k \in 1 .. L /\ ~(k <= k - 1)
    BY <1>1, <2>4, <2>5
  <2>7. g[k - 1] = d(k - 1)
    BY <2>4, <2>6
  <2> HIDE DEF d
  <2> QED BY <1>3, <2>2, <2>4, <2>6, <2>7
<1> QED BY <1>4, <1>5 DEF L

\* So it meets exactly the line of free payloads.
LEMMA MetIsLine ==
  ASSUME NEW nd, NEW f, NEW e, Chain(nd, f, e), NEW g, Walk(g, nd, f)
  PROVE  Met(g, nd) = Line(nd, f)
<1>1. /\ Len(nd) \in Nat /\ f \in 0 .. Len(nd) /\ f \in Nat
      /\ \A k \in 0 .. Len(nd) : g[k] = IF k <= f THEN f - k ELSE Null
  <2>1. Len(nd) \in Nat /\ f \in 0 .. Len(nd) /\ f \in Nat
    BY DEF Chain
  <2>2. \A k \in 0 .. Len(nd) : g[k] = IF k <= f THEN f - k ELSE Null
    BY WalkDown
  <2> QED BY <2>1, <2>2
<1> DEFINE hits == {k \in 0 .. Len(nd) : g[k] # Null}
           D == {h + 1 : h \in hits}
<1>2. \A k \in 0 .. Len(nd) : k \in hits <=> k < f
  BY <1>1 DEF Null
<1>3. D = 1 .. f
  <2>1. ASSUME NEW x \in D PROVE x \in 1 .. f
    <3>1. PICK h \in hits : x = h + 1
      OBVIOUS
    <3>2. h \in 0 .. Len(nd) /\ h < f
      BY <1>2
    <3> HIDE DEF hits
    <3> QED BY <1>1, <3>1, <3>2
  <2>2. ASSUME NEW x \in 1 .. f PROVE x \in D
    <3>1. x - 1 \in 0 .. Len(nd) /\ x - 1 < f /\ (x - 1) + 1 = x
      BY <1>1
    <3>2. x - 1 \in hits
      BY <1>2, <3>1
    <3> HIDE DEF hits
    <3> QED BY <3>1, <3>2
  <2> HIDE DEF D
  <2> QED BY <2>1, <2>2
<1>4. ASSUME NEW k \in 1 .. f PROVE g[k - 1] = f + 1 - k
  <2>1. k - 1 \in 0 .. Len(nd) /\ k - 1 <= f /\ f - (k - 1) = f + 1 - k
    BY <1>1
  <2> QED BY <1>1, <2>1
<1>5. Met(g, nd) = [k \in D |-> nd[g[k - 1]].trans]
  BY DEF Met
<1> HIDE DEF D
<1> QED BY <1>3, <1>4, <1>5 DEF Line

\* FreePayloads is the line.
LEMMA FreeIsLine ==
  ASSUME Chain(node, free_list, empties)
  PROVE  FreePayloads = Line(node, free_list)
<1> DEFINE g == CHOOSE g : Walk(g, node, free_list)
<1>1. Walk(g, node, free_list)
  BY WalkDown
<1>2. FreePayloads = Met(g, node)
  BY DEF FreePayloads, Met, Walk
<1> HIDE DEF g
<1> QED BY <1>1, <1>2, MetIsLine

\* The same in the next state.
LEMMA FreeIsLineNext ==
  ASSUME Chain(node', free_list', empties')
  PROVE  FreePayloads' = Line(node', free_list')
<1> DEFINE g == CHOOSE g : Walk(g, node', free_list')
<1>1. Walk(g, node', free_list')
  BY WalkDown
<1>2. FreePayloads' = Met(g, node')
  BY DEF FreePayloads, Met, Walk
<1> HIDE DEF g
<1> QED BY <1>1, <1>2, MetIsLine

\* Handing out the node at free_list hands out the first of the line.
LEMMA LinePop ==
  ASSUME NEW nd \in Seq(Node), NEW f \in 1 .. Len(nd)
  PROVE  /\ Line(nd, f) # <<>> /\ Head(Line(nd, f)) = nd[f].trans
         /\ Tail(Line(nd, f)) = Line(nd, f - 1)
<1>1. /\ Len(nd) \in Nat /\ f \in Nat \ {0} /\ f - 1 \in Nat
  OBVIOUS
<1>2. ASSUME NEW m \in 0 .. Len(nd)
      PROVE  Line(nd, m) \in Seq(Nat) /\ Len(Line(nd, m)) = m
             /\ \A k \in 1 .. m : Line(nd, m)[k] = nd[m + 1 - k].trans
  <2>1. m \in Nat
    BY <1>1
  <2>2. ASSUME NEW k \in 1 .. m PROVE nd[m + 1 - k].trans \in Nat
    <3>1. m + 1 - k \in 1 .. Len(nd)
      BY <1>1, <2>1
    <3> QED BY <3>1, NodeFields
  <2> DEFINE v(k) == nd[m + 1 - k].trans
             c == [k \in 1 .. m |-> v(k)]
  <2>3. Line(nd, m) = c
    BY DEF Line
  <2>4. c \in Seq(Nat) /\ Len(c) = m /\ \A k \in 1 .. m : c[k] = v(k)
    <3>1. \A k \in 1 .. m : v(k) \in Nat
      BY <2>2
    <3> HIDE DEF v
    <3> QED BY <2>1, <3>1
  <2> HIDE DEF c
  <2> QED BY <2>3, <2>4
<1>3. f \in 0 .. Len(nd) /\ f - 1 \in 0 .. Len(nd)
  BY <1>1
<1> DEFINE a == Line(nd, f)
           b == Line(nd, f - 1)
<1>4. /\ a \in Seq(Nat) /\ Len(a) = f /\ b \in Seq(Nat) /\ Len(b) = f - 1
      /\ \A k \in 1 .. f : a[k] = nd[f + 1 - k].trans
      /\ \A k \in 1 .. f - 1 : b[k] = nd[f - 1 + 1 - k].trans
  BY <1>2, <1>3
<1> HIDE DEF a, b
<1>5. a # <<>> /\ Head(a) = a[1] /\ f + 1 - 1 = f /\ 1 \in 1 .. f
  BY <1>1, <1>4
<1>6. /\ Tail(a) \in Seq(Nat) /\ Len(Tail(a)) = f - 1
      /\ \A k \in 1 .. f - 1 : Tail(a)[k] = a[k + 1]
  BY <1>1, <1>4, <1>5, HeadTailProperties
<1>7. ASSUME NEW k \in 1 .. f - 1 PROVE Tail(a)[k] = b[k]
  <2>1. k + 1 \in 1 .. f /\ f + 1 - (k + 1) = f - 1 + 1 - k
    BY <1>1
  <2> QED BY <1>4, <1>6, <2>1
<1>8. Tail(a) = b
  BY <1>4, <1>6, <1>7, SeqEqual
<1> QED BY <1>4, <1>5, <1>8 DEF a, b

\* The line depends on its own nodes only.
LEMMA LineSame ==
  ASSUME NEW nd, NEW od, NEW f \in Nat,
         \A n \in 1 .. f : nd[n].trans = od[n].trans
  PROVE  Line(nd, f) = Line(od, f)
<1>1. \A k \in 1 .. f : f + 1 - k \in 1 .. f
  OBVIOUS
<1> QED BY <1>1 DEF Line

-----------------------------------------------------------------------------
(* What is in flight                                                       *)

Flights == Seq(PeqEntry(Payloads, Spread))

Vals(q) == {q[i].val : i \in DOMAIN q}
Once(q) == \A i, j \in DOMAIN q : q[i].val = q[j].val => i = j
NoneDue(q) == \A i \in DOMAIN q : q[i].due # 0

\* One payload a nanosecond comes in, so those from place i on, all due no
\* earlier than the i-th, came in over what is left of Spread nanoseconds
\* before that; one more when this nanosecond's has come in already.
OnTime(q, begun) ==
  \A i \in DOMAIN q : Len(q) - i + 1 + q[i].due <= Spread + begun

\* p goes in where its due time puts it, and what is due later moves up.
DelayIs(q, p, t) ==
  /\ PeqDelay(q, p, t) \in Seq(PeqEntry(Payloads, Spread))
  /\ Len(PeqDelay(q, p, t)) = Len(q) + 1
  /\ Ordered(PeqDelay(q, p, t))
  /\ PeqWithin(q, t) \in 0 .. Len(q)
  /\ \A i \in 1 .. Len(q) + 1 :
       PeqDelay(q, p, t)[i] =
         IF i <= PeqWithin(q, t) THEN q[i]
         ELSE IF i = PeqWithin(q, t) + 1 THEN [due |-> t, val |-> p]
         ELSE q[i - 1]

LEMMA FlightDelayed ==
  ASSUME NEW q \in Seq(PeqEntry(Payloads, Spread)), Ordered(q),
         NEW p \in Payloads, NEW t \in 0 .. Spread
  PROVE  DelayIs(q, p, t)
<1>1. Spread \in Nat
  BY SpreadAssumption
<1> QED BY <1>1, PeqDelayed DEF DelayIs

\* A payload that comes in.
LEMMA FlightJoins ==
  ASSUME NEW q \in Flights, Ordered(q), Once(q), OnTime(q, 0),
         NEW p \in Payloads, p \notin Vals(q), NEW t \in 1 .. Spread
  PROVE  LET r == PeqDelay(q, p, t)
         IN  /\ r \in Flights /\ Ordered(r) /\ Once(r) /\ OnTime(r, 1)
             /\ Len(r) = Len(q) + 1 /\ Vals(r) = Vals(q) \cup {p}
             /\ NoneDue(q) => NoneDue(r)
<1>0. /\ Spread \in Nat /\ t \in 0 .. Spread /\ t \in Nat /\ t # 0
      /\ q \in Seq(PeqEntry(Payloads, Spread))
      /\ Len(q) \in Nat /\ DOMAIN q = 1 .. Len(q)
  BY SpreadAssumption DEF Flights
<1>00. DelayIs(q, p, t)
  BY <1>0, FlightDelayed
<1> DEFINE r == PeqDelay(q, p, t)
           k == PeqWithin(q, t)
           e == [due |-> t, val |-> p]
<1>1. /\ r \in Flights /\ Ordered(r) /\ Len(r) = Len(q) + 1 /\ k \in 0 .. Len(q)
      /\ \A i \in 1 .. Len(q) + 1 :
           r[i] = IF i <= k THEN q[i] ELSE IF i = k + 1 THEN e ELSE q[i - 1]
  BY <1>00, Zenon DEF Flights, DelayIs
<1>2. \A i \in 1 .. Len(q) : q[i].due \in Nat /\ (q[i].due <= t <=> i <= k)
  <2> SUFFICES ASSUME NEW i \in DOMAIN q
               PROVE  q[i].due \in Nat /\ (q[i].due <= t <=> i <= k)
    BY <1>0
  <2> QED BY <1>0, PeqWithinFirst, PeqFields
<1>3. e.due = t /\ e.val = p
  OBVIOUS
<1> HIDE DEF r, k, e
<1>4. DOMAIN r = 1 .. Len(q) + 1
  BY <1>1 DEF Flights
\* Every place of r is the new one or that of an old entry.
<1> DEFINE from(i) == IF i <= k THEN i ELSE i - 1
<1>5. ASSUME NEW i \in 1 .. Len(q) + 1
      PROVE  \/ i = k + 1 /\ r[i] = e
             \/ i # k + 1 /\ from(i) \in 1 .. Len(q) /\ r[i] = q[from(i)]
  <2>1. CASE i <= k
    BY <1>0, <1>1, <2>1
  <2>2. CASE i = k + 1
    BY <1>0, <1>1, <2>2
  <2>3. CASE ~(i <= k) /\ i # k + 1
    BY <1>0, <1>1, <2>3
  <2> QED BY <2>1, <2>2, <2>3
<1>6. \A i, j \in 1 .. Len(q) + 1 :
        i # k + 1 /\ j # k + 1 /\ from(i) = from(j) => i = j
  BY <1>0, <1>1
<1>7. ASSUME NEW i \in 1 .. Len(q)
      PROVE  \E j \in 1 .. Len(q) + 1 : j # k + 1 /\ from(j) = i
  <2>1. CASE i <= k
    BY <1>0, <1>1, <2>1
  <2>2. CASE ~(i <= k)
    <3>1. i + 1 \in 1 .. Len(q) + 1 /\ i + 1 # k + 1 /\ from(i + 1) = i
      BY <1>0, <1>1, <2>2
    <3> QED BY <3>1
  <2> QED BY <2>1, <2>2
<1>8. \A i \in 1 .. Len(q) : q[i].val # p
  BY <1>0 DEF Vals
<1>9. OnTime(r, 1)
  <2> SUFFICES ASSUME NEW i \in 1 .. Len(q) + 1
               PROVE  Len(q) + 1 - i + 1 + r[i].due <= Spread + 1
    BY <1>1, <1>4 DEF OnTime
  <2>0. \A j \in 1 .. Len(q) : Len(q) - j + 1 + q[j].due <= Spread
    BY <1>0 DEF OnTime
  <2>1. CASE i <= k
    <3>1. i \in 1 .. Len(q) /\ r[i] = q[i]
      BY <1>0, <1>1, <2>1
    <3> QED BY <1>0, <1>2, <2>0, <3>1
  <2>2. CASE i = k + 1
    <3>1. r[i].due = t
      BY <1>3, <1>5, <2>2
    <3>2. CASE k = Len(q)
      BY <1>0, <2>2, <3>1, <3>2
    <3>3. CASE k # Len(q)
      <4>1. i \in 1 .. Len(q) /\ ~(i <= k)
        <5>1. k \in 0 .. Len(q) /\ Len(q) \in Nat
          BY <1>0, <1>1
        <5> QED BY <2>2, <3>3, <5>1
      <4>2. q[i].due \in Nat /\ ~(q[i].due <= t)
        BY <1>2, <4>1
      <4>3. Len(q) - i + 1 + q[i].due <= Spread
        BY <2>0, <4>1
      <4> QED BY <1>0, <3>1, <4>2, <4>3
    <3> QED BY <3>2, <3>3
  <2>3. CASE ~(i <= k) /\ i # k + 1
    <3>1. i - 1 \in 1 .. Len(q) /\ r[i] = q[i - 1]
      BY <1>0, <1>1, <2>3
    <3>2. Len(q) - (i - 1) + 1 + q[i - 1].due <= Spread /\ q[i - 1].due \in Nat
      BY <1>2, <2>0, <3>1
    <3> QED BY <1>0, <3>1, <3>2
  <2> QED BY <2>1, <2>2, <2>3
<1> HIDE DEF from
<1>10. Once(r)
  <2> SUFFICES ASSUME NEW i \in 1 .. Len(q) + 1, NEW j \in 1 .. Len(q) + 1,
                      r[i].val = r[j].val
               PROVE  i = j
    BY <1>4 DEF Once
  <2>1. CASE i = k + 1 \/ j = k + 1
    BY <1>3, <1>5, <1>8, <2>1
  <2>2. CASE i # k + 1 /\ j # k + 1
    <3>1. from(i) \in DOMAIN q /\ from(j) \in DOMAIN q
          /\ r[i] = q[from(i)] /\ r[j] = q[from(j)]
      BY <1>0, <1>5, <2>2
    <3>2. from(i) = from(j)
      BY <3>1 DEF Once
    <3> QED BY <1>6, <2>2, <3>2
  <2> QED BY <2>1, <2>2
<1>11. Vals(r) = Vals(q) \cup {p}
  <2>1. ASSUME NEW x \in Vals(r) PROVE x \in Vals(q) \cup {p}
    <3>1. PICK i \in 1 .. Len(q) + 1 : x = r[i].val
      BY <1>4 DEF Vals
    <3> QED BY <1>0, <1>3, <1>5, <3>1 DEF Vals
  <2>2. ASSUME NEW x \in Vals(q) PROVE x \in Vals(r)
    <3>1. PICK i \in 1 .. Len(q) : x = q[i].val
      BY <1>0 DEF Vals
    <3>2. PICK j \in 1 .. Len(q) + 1 : j # k + 1 /\ from(j) = i
      BY <1>7
    <3>3. r[j] = q[i]
      BY <1>5, <3>2
    <3> QED BY <1>4, <3>1, <3>3 DEF Vals
  <2>3. p \in Vals(r)
    <3>1. k + 1 \in 1 .. Len(q) + 1
      BY <1>0, <1>1
    <3>2. r[k + 1] = e
      BY <1>5, <3>1
    <3> QED BY <1>3, <1>4, <3>1, <3>2 DEF Vals
  <2> QED BY <2>1, <2>2, <2>3
<1>12. NoneDue(q) => NoneDue(r)
  <2> SUFFICES ASSUME NoneDue(q), NEW i \in 1 .. Len(q) + 1 PROVE r[i].due # 0
    BY <1>4 DEF NoneDue
  <2> QED BY <1>0, <1>3, <1>5 DEF NoneDue
<1> QED BY <1>1, <1>9, <1>10, <1>11, <1>12 DEF r

\* A payload that is returned.
LEMMA FlightLands ==
  ASSUME NEW q \in Flights, Ordered(q), Once(q), NEW begun \in 0 .. 1,
         OnTime(q, begun), q # <<>>
  PROVE  LET r == Tail(q)
         IN  /\ r \in Flights /\ Ordered(r) /\ Once(r) /\ OnTime(r, begun)
             /\ Len(r) = Len(q) - 1 /\ Len(q) \in Nat \ {0}
             /\ Vals(r) = Vals(q) \ {Head(q).val} /\ Head(q).val \in Vals(q)
             /\ NoneDue(q) => NoneDue(r)
<1> DEFINE r == Tail(q)
<1>0. /\ Spread \in Nat /\ q \in Seq(PeqEntry(Payloads, Spread))
      /\ Len(q) \in Nat \ {0} /\ DOMAIN q = 1 .. Len(q) /\ Head(q) = q[1]
  BY SpreadAssumption DEF Flights
<1>1. /\ r \in Flights /\ Ordered(r) /\ Len(r) = Len(q) - 1
      /\ \A i \in 1 .. Len(q) - 1 : r[i] = q[i + 1]
  BY <1>0, PeqTail DEF Flights
<1> HIDE DEF r
<1>2. DOMAIN r = 1 .. Len(q) - 1
  BY <1>1 DEF Flights
<1>3. \A i \in 1 .. Len(q) - 1 : i + 1 \in DOMAIN q
  BY <1>0
<1>4. \A i, j \in DOMAIN q : q[i].val = q[j].val => i = j
  BY DEF Once
<1>5. Once(r)
  <2> SUFFICES ASSUME NEW i \in 1 .. Len(q) - 1, NEW j \in 1 .. Len(q) - 1,
                      r[i].val = r[j].val
               PROVE  i = j
    BY <1>2 DEF Once
  <2>1. i + 1 \in DOMAIN q /\ j + 1 \in DOMAIN q /\ q[i + 1].val = q[j + 1].val
    BY <1>1, <1>3
  <2>2. i + 1 = j + 1
    BY <1>4, <2>1, Zenon
  <2> QED BY <2>2
<1>6. OnTime(r, begun)
  <2> SUFFICES ASSUME NEW i \in 1 .. Len(q) - 1
               PROVE  Len(q) - 1 - i + 1 + r[i].due <= Spread + begun
    BY <1>1, <1>2 DEF OnTime
  <2>1. Len(q) - (i + 1) + 1 + q[i + 1].due <= Spread + begun /\ r[i] = q[i + 1]
    BY <1>1, <1>3 DEF OnTime
  <2>2. q[i + 1].due \in Nat
    BY <1>0, <1>3, PeqFields
  <2> QED BY <1>0, <2>1, <2>2
<1>7. Vals(r) = Vals(q) \ {q[1].val} /\ q[1].val \in Vals(q)
  <2>0. 1 \in DOMAIN q
    BY <1>0
  <2>1. ASSUME NEW x \in Vals(r) PROVE x \in Vals(q) \ {q[1].val}
    <3>1. PICK i \in 1 .. Len(q) - 1 : x = r[i].val
      BY <1>2 DEF Vals
    <3>2. r[i] = q[i + 1] /\ i + 1 \in DOMAIN q /\ i + 1 # 1
      BY <1>1, <1>3
    <3>3. x # q[1].val
      BY <1>4, <2>0, <3>1, <3>2
    <3> QED BY <3>1, <3>2, <3>3 DEF Vals
  <2>2. ASSUME NEW x \in Vals(q), x # q[1].val PROVE x \in Vals(r)
    <3>1. PICK i \in 1 .. Len(q) : x = q[i].val
      BY <1>0 DEF Vals
    <3>2. i - 1 \in 1 .. Len(q) - 1 /\ (i - 1) + 1 = i
      BY <1>0, <2>2, <3>1
    <3>3. r[i - 1] = q[i]
      BY <1>1, <3>2
    <3> QED BY <1>2, <3>1, <3>2, <3>3 DEF Vals
  <2> QED BY <2>0, <2>1, <2>2 DEF Vals
<1>8. NoneDue(q) => NoneDue(r)
  BY <1>1, <1>2, <1>3 DEF NoneDue
<1> QED BY <1>0, <1>1, <1>5, <1>6, <1>7, <1>8 DEF r

\* A nanosecond in flight.
LEMMA FlightAges ==
  ASSUME NEW q \in Flights, Ordered(q), Once(q), OnTime(q, 1), NoneDue(q)
  PROVE  LET r == PeqAge(q)
         IN  /\ r \in Flights /\ Ordered(r) /\ Once(r) /\ OnTime(r, 0)
             /\ Len(r) = Len(q) /\ Vals(r) = Vals(q)
             /\ \A i \in DOMAIN r : i \in DOMAIN q /\ r[i].val = q[i].val
<1> DEFINE r == PeqAge(q)
<1>0. /\ Spread \in Nat /\ q \in Seq(PeqEntry(Payloads, Spread))
      /\ Len(q) \in Nat /\ DOMAIN q = 1 .. Len(q)
  BY SpreadAssumption DEF Flights
<1>1. /\ r \in Flights /\ Len(r) = Len(q) /\ DOMAIN r = DOMAIN q /\ Ordered(r)
      /\ \A i \in DOMAIN q : r[i].due = IF q[i].due = 0 THEN 0 ELSE q[i].due - 1
  BY <1>0, PeqAgeKeeps, PeqAgeOrdered DEF Flights
<1>2. \A i \in DOMAIN q : r[i].val = q[i].val
  BY <1>0 DEF PeqAge
<1> HIDE DEF r
<1>3. Once(r) /\ Vals(r) = Vals(q)
  BY <1>1, <1>2 DEF Once, Vals
<1>4. OnTime(r, 0)
  <2> SUFFICES ASSUME NEW i \in DOMAIN q
               PROVE  Len(q) - i + 1 + r[i].due <= Spread + 0
    BY <1>1 DEF OnTime
  <2>1. Len(q) - i + 1 + q[i].due <= Spread + 1 /\ q[i].due # 0
    BY DEF OnTime, NoneDue
  <2>2. q[i].due \in Nat /\ i \in Nat
    BY <1>0, PeqFields
  <2>3. r[i].due = q[i].due - 1
    BY <1>1, <2>1
  <2> QED BY <1>0, <2>1, <2>2, <2>3
<1> QED BY <1>1, <1>2, <1>3, <1>4 DEF r

\* Not more are in flight than come in while the first one is.
LEMMA FlightsFew ==
  ASSUME NEW q \in Flights, NEW begun \in 0 .. 1, OnTime(q, begun)
  PROVE  Len(q) \in Nat /\ Len(q) <= Spread + begun
<1>0. Spread \in Nat /\ q \in Seq(PeqEntry(Payloads, Spread)) /\ Len(q) \in Nat
  BY SpreadAssumption DEF Flights
<1>1. CASE Len(q) = 0
  BY <1>0, <1>1
<1>2. CASE Len(q) # 0
  <2>1. 1 \in DOMAIN q
    BY <1>0, <1>2
  <2>2. q[1].due \in Nat
    BY <1>0, <2>1, PeqFields
  <2>3. Len(q) - 1 + 1 + q[1].due <= Spread + begun
    BY <2>1 DEF OnTime
  <2> QED BY <1>0, <2>2, <2>3
<1> QED BY <1>1, <1>2

\* As many payloads are in flight as there are entries.
LEMMA FlightsCounted ==
  ASSUME NEW q \in Flights, Once(q)
  PROVE  Cardinality(Vals(q)) = Len(q)
<1> DEFINE f == [i \in 1 .. Len(q) |-> q[i].val]
<1>1. Len(q) \in Nat /\ DOMAIN q = 1 .. Len(q)
  BY DEF Flights
<1>2. f \in Bijection(1 .. Len(q), Vals(q))
  BY <1>1 DEF Once, Vals, Bijection, Injection, IsInjective, Surjection
<1> QED BY <1>1, <1>2, FS_CountingElements DEF ExistsBijection

-----------------------------------------------------------------------------
(* The program                                                             *)

\* Whether this nanosecond's transaction has been sent.
Begun == IF "request" \in pending THEN 0 ELSE 1

\* What is in flight, each payload once and with a live extension.
Flying ==
  /\ m_peq \in Flights /\ Ordered(m_peq) /\ Once(m_peq)
  /\ OnTime(m_peq, Begun)
  /\ "response" \notin pending => NoneDue(m_peq)
  /\ ext \in [Payloads -> {"none", "live", "deleted"}]
  /\ \A i \in DOMAIN m_peq : ext[m_peq[i].val] = "live"
  /\ held = Vals(m_peq)
  /\ pending \subseteq Methods

\* What is free: different payloads, none of them in flight.
Free(nd, f, out, made) ==
  /\ \A n \in 1 .. f : nd[n].trans \in 1 .. made /\ nd[n].trans \notin out
  /\ \A n, m \in 1 .. f : nd[n].trans = nd[m].trans => n = m

\* Every payload made is in flight or free, and they are few.
Stock ==
  /\ created \in Nat /\ created = free_list + Len(m_peq)
  /\ created <= Spread + 1 /\ Len(node) <= created
  /\ held \subseteq 1 .. created
  /\ Free(node, free_list, held, created)

IInv == Flying /\ Chain(node, free_list, empties) /\ Stock

\* Nothing is made, free or in flight at the beginning.
LEMMA InitIInv == TlmInit => IInv
<1> SUFFICES ASSUME TlmInit PROVE IInv
  OBVIOUS
<1>1. /\ free_list = 0 /\ empties = 0 /\ node = <<>> /\ created = 0 /\ held = {}
      /\ m_peq = <<>> /\ pending = Methods
      /\ ext = [p \in Payloads |-> "none"]
  BY DEF TlmInit, Init, Null
<1>2. Flying
  <2>1. m_peq \in Flights /\ Vals(m_peq) = {} /\ DOMAIN m_peq = {}
    BY <1>1 DEF Flights, Vals
  <2>2. "response" \in pending
    BY <1>1 DEF Methods
  <2> QED BY <1>1, <2>1, <2>2 DEF Flying, Ordered, Once, OnTime
<1>3. Chain(node, free_list, empties)
  BY <1>1 DEF Chain, Null
<1>4. Stock
  BY <1>1, SpreadAssumption DEF Stock, Free
<1> QED BY <1>2, <1>3, <1>4 DEF IInv

\* What request does: the payload is taken from the chain, or made.
LEMMA Sent ==
  ASSUME IInv, request
  PROVE  \E p \in Payloads, cnt \in 1 .. Spread :
           /\ m_peq' = PeqDelay(m_peq, p, cnt)
           /\ held' = held \cup {p} /\ p \notin held
           /\ ext' = [ext EXCEPT ![p] = "live"]
           /\ Begun = 0 /\ Begun' = 1
           /\ pending' \subseteq Methods
           /\ "response" \in pending <=> "response" \in pending'
           /\ node' = node
           /\ Chain(node, free_list', empties')
           /\ \/ /\ free_list # Null /\ p = node[free_list].trans
                 /\ free_list' = free_list - 1 /\ created' = created
              \/ /\ free_list = Null /\ free_list' = free_list
                 /\ p = created + 1 /\ created' = created + 1
<1>1. /\ "request" \in pending /\ pending' = pending \ {"request"}
      /\ \E p \in Payloads, cnt \in 1 .. Spread :
           /\ allocate(p)
           /\ held' = held \cup {p}
           /\ ext' = [ext EXCEPT ![p] = "live"]
           /\ m_peq' = PeqDelay(m_peq, p, cnt)
  BY DEF request
<1>2. PICK p \in Payloads, cnt \in 1 .. Spread :
        /\ allocate(p)
        /\ held' = held \cup {p}
        /\ ext' = [ext EXCEPT ![p] = "live"]
        /\ m_peq' = PeqDelay(m_peq, p, cnt)
  BY <1>1
<1>3. Begun = 0 /\ Begun' = 1
  BY <1>1 DEF Begun
<1>4. pending' \subseteq Methods /\ ("response" \in pending <=> "response" \in pending')
  BY <1>1 DEF IInv, Flying
<1>5. Chain(node, free_list, empties) /\ Len(node) \in Nat /\ free_list \in 0 .. Len(node)
  BY DEF IInv, Chain
<1>6. CASE free_list # Null
  <2>1. p = node[free_list].trans /\ empties' = free_list
        /\ free_list' = node[free_list].next /\ node' = node /\ created' = created
    BY <1>2, <1>6 DEF allocate, Pop
  <2>2. free_list' = free_list - 1 /\ Chain(node, free_list', empties')
    BY <1>5, <1>6, <2>1, ChainPop
  <2>3. p \notin held
    <3>1. free_list \in 1 .. free_list
      BY <1>5, <1>6 DEF Null
    <3> QED BY <2>1, <3>1 DEF IInv, Stock, Free
  <2> QED BY <1>2, <1>3, <1>4, <1>6, <2>1, <2>2, <2>3
<1>7. CASE free_list = Null
  <2>1. p = created + 1 /\ created' = created + 1
        /\ free_list' = free_list /\ empties' = empties /\ node' = node
    BY <1>2, <1>7 DEF allocate
  <2>2. p \notin held
    BY <2>1 DEF IInv, Stock
  <2> QED BY <1>2, <1>3, <1>4, <1>5, <1>7, <2>1, <2>2
<1> QED BY <1>6, <1>7

\* A transaction sent keeps the books right.
LEMMA RequestStep == IInv /\ request => IInv'
<1> SUFFICES ASSUME IInv, request PROVE IInv'
  OBVIOUS
<1>1. PICK p \in Payloads, cnt \in 1 .. Spread :
        /\ m_peq' = PeqDelay(m_peq, p, cnt)
        /\ held' = held \cup {p} /\ p \notin held
        /\ ext' = [ext EXCEPT ![p] = "live"]
        /\ Begun = 0 /\ Begun' = 1
        /\ pending' \subseteq Methods
        /\ "response" \in pending <=> "response" \in pending'
        /\ node' = node
        /\ Chain(node, free_list', empties')
        /\ \/ /\ free_list # Null /\ p = node[free_list].trans
              /\ free_list' = free_list - 1 /\ created' = created
           \/ /\ free_list = Null /\ free_list' = free_list
              /\ p = created + 1 /\ created' = created + 1
  BY Sent
<1>2. /\ m_peq \in Flights /\ Ordered(m_peq) /\ Once(m_peq) /\ OnTime(m_peq, 0)
      /\ held = Vals(m_peq) /\ ext \in [Payloads -> {"none", "live", "deleted"}]
      /\ \A i \in DOMAIN m_peq : ext[m_peq[i].val] = "live"
      /\ "response" \notin pending => NoneDue(m_peq)
  BY <1>1 DEF IInv, Flying
<1>3. /\ m_peq' \in Flights /\ Ordered(m_peq') /\ Once(m_peq') /\ OnTime(m_peq', 1)
      /\ Len(m_peq') = Len(m_peq) + 1 /\ Vals(m_peq') = Vals(m_peq) \cup {p}
      /\ NoneDue(m_peq) => NoneDue(m_peq')
  BY <1>1, <1>2, FlightJoins
<1>4. Flying'
  <2>1. ext' \in [Payloads -> {"none", "live", "deleted"}]
    BY <1>1, <1>2
  <2>2. ASSUME NEW i \in DOMAIN m_peq' PROVE ext'[m_peq'[i].val] = "live"
    <3>1. m_peq'[i].val \in Vals(m_peq) \cup {p}
      BY <1>3 DEF Vals
    <3>2. CASE m_peq'[i].val = p
      BY <1>1, <1>2, <3>2
    <3>3. CASE m_peq'[i].val # p
      <4>1. PICK j \in DOMAIN m_peq : m_peq'[i].val = m_peq[j].val
        BY <3>1, <3>3 DEF Vals
      <4> QED BY <1>1, <1>2, <3>3, <4>1
    <3> QED BY <3>2, <3>3
  <2>3. held' = Vals(m_peq')
    BY <1>1, <1>2, <1>3
  <2>4. "response" \notin pending' => NoneDue(m_peq')
    BY <1>1, <1>2, <1>3
  <2> QED BY <1>1, <1>3, <2>1, <2>2, <2>3, <2>4 DEF Flying
<1>5. Chain(node', free_list', empties')
  BY <1>1
<1>6. Stock'
  <2>0. /\ created \in Nat /\ created = free_list + Len(m_peq) /\ created <= Spread + 1
        /\ Len(node) <= created /\ held \subseteq 1 .. created
        /\ Free(node, free_list, held, created)
    BY DEF IInv, Stock
  <2>1. /\ Len(node) \in Nat /\ free_list \in 0 .. Len(node) /\ free_list \in Nat
        /\ Len(m_peq) \in Nat /\ Len(m_peq) <= Spread + 0 /\ Spread \in Nat
    BY <1>2, FlightsFew, SpreadAssumption DEF IInv, Chain
  <2>2. CASE /\ free_list # Null /\ p = node[free_list].trans
             /\ free_list' = free_list - 1 /\ created' = created
    <3>1. free_list - 1 + (Len(m_peq) + 1) = created /\ free_list \in 1 .. free_list
      BY <2>0, <2>1, <2>2 DEF Null
    <3>2. held' \subseteq 1 .. created
      BY <1>1, <2>0, <2>2, <3>1 DEF Free
    <3>3. ASSUME NEW n \in 1 .. free_list - 1
          PROVE  n \in 1 .. free_list /\ n # free_list
      BY <2>1
    <3>4. Free(node, free_list - 1, held', created)
      BY <1>1, <2>0, <2>2, <3>1, <3>3 DEF Free
    <3> QED BY <1>1, <1>3, <2>0, <2>2, <3>1, <3>2, <3>4 DEF Stock
  <2>3. CASE /\ free_list = Null /\ free_list' = free_list
             /\ p = created + 1 /\ created' = created + 1
    <3>1. /\ created + 1 \in Nat /\ created + 1 = free_list + (Len(m_peq) + 1)
          /\ created + 1 <= Spread + 1 /\ Len(node) <= created + 1
      BY <2>0, <2>1, <2>3 DEF Null
    <3>2. held' \subseteq 1 .. created + 1
      <4>1. ASSUME NEW x \in held PROVE x \in 1 .. created + 1
        BY <2>0
      <4>2. created + 1 \in 1 .. created + 1
        BY <2>0
      <4>3. held' = held \cup {created + 1}
        BY <1>1, <2>3
      <4> QED BY <4>1, <4>2, <4>3
    <3>3. Free(node, free_list, held', created + 1)
      BY <2>3 DEF Free, Null
    <3> QED BY <1>1, <1>3, <2>3, <3>1, <3>2, <3>3 DEF Stock
  <2> QED BY <1>1, <2>2, <2>3
<1> QED BY <1>4, <1>5, <1>6 DEF IInv

\* What a round of response does: the first payload goes back to the chain.
LEMMA Returned ==
  ASSUME IInv, Due, respond
  PROVE  LET p == Head(m_peq).val
         IN  /\ m_peq # <<>> /\ m_peq' = Tail(m_peq)
             /\ ext' = [ext EXCEPT ![p] = "deleted"]
             /\ held' = held \ {p} /\ p \in held /\ p \in Nat /\ p \in Payloads
             /\ Chain(node', free_list', empties')
             /\ free_list' = free_list + 1 /\ created' = created
             /\ node'[free_list + 1].trans = p
             /\ \A n \in 1 .. free_list : node'[n].trans = node[n].trans
             /\ Len(node') = IF free_list = Len(node) THEN Len(node) + 1
                             ELSE Len(node)
<1> DEFINE p == Head(m_peq).val
<1>1. /\ m_peq # <<>> /\ m_peq' = Tail(m_peq)
      /\ ext' = [ext EXCEPT ![p] = "deleted"] /\ free(p) /\ held' = held \ {p}
  BY DEF Due, respond
<1>2. p \in Payloads
  <2>1. 1 \in DOMAIN m_peq /\ Head(m_peq) = m_peq[1]
    BY <1>1 DEF IInv, Flying, Flights
  <2> QED BY <2>1, PeqFields, SpreadAssumption DEF IInv, Flying, Flights
<1>3. p \in held
  <2>1. 1 \in DOMAIN m_peq /\ Head(m_peq) = m_peq[1]
    BY <1>1 DEF IInv, Flying, Flights
  <2> QED BY <2>1 DEF IInv, Flying, Vals
<1>4. p \in Nat
  BY <1>2, PoolAssumption DEF Payloads
<1> HIDE DEF p
<1>5. /\ Chain(node', free_list', empties')
      /\ free_list' = free_list + 1 /\ created' = created
      /\ node'[free_list + 1].trans = p
      /\ \A n \in 1 .. free_list : node'[n].trans = node[n].trans
      /\ Len(node') = IF free_list = Len(node) THEN Len(node) + 1 ELSE Len(node)
  BY <1>1, <1>4, ChainFree DEF IInv
<1> QED BY <1>1, <1>2, <1>3, <1>4, <1>5 DEF p

\* A transaction returned keeps the books right.
LEMMA RespondStep ==
  ASSUME IInv, Due, respond, pending' = pending
  PROVE  IInv'
<1> DEFINE p == Head(m_peq).val
<1>1. /\ m_peq # <<>> /\ m_peq' = Tail(m_peq)
      /\ ext' = [ext EXCEPT ![p] = "deleted"]
      /\ held' = held \ {p} /\ p \in held /\ p \in Nat /\ p \in Payloads
      /\ Chain(node', free_list', empties')
      /\ free_list' = free_list + 1 /\ created' = created
      /\ node'[free_list + 1].trans = p
      /\ \A n \in 1 .. free_list : node'[n].trans = node[n].trans
      /\ Len(node') = IF free_list = Len(node) THEN Len(node) + 1 ELSE Len(node)
  BY Returned
<1>2. Begun \in 0 .. 1 /\ Begun' = Begun
  BY DEF Begun
<1>3. /\ m_peq \in Flights /\ Ordered(m_peq) /\ Once(m_peq) /\ OnTime(m_peq, Begun)
      /\ held = Vals(m_peq) /\ ext \in [Payloads -> {"none", "live", "deleted"}]
      /\ \A i \in DOMAIN m_peq : ext[m_peq[i].val] = "live"
      /\ "response" \notin pending => NoneDue(m_peq)
      /\ pending \subseteq Methods
  BY DEF IInv, Flying
<1>4. /\ m_peq' \in Flights /\ Ordered(m_peq') /\ Once(m_peq')
      /\ OnTime(m_peq', Begun)
      /\ Len(m_peq') = Len(m_peq) - 1 /\ Len(m_peq) \in Nat \ {0}
      /\ Vals(m_peq') = Vals(m_peq) \ {p}
      /\ NoneDue(m_peq) => NoneDue(m_peq')
  BY <1>1, <1>2, <1>3, FlightLands
<1> HIDE DEF p
<1>5. Flying'
  <2>1. ext' \in [Payloads -> {"none", "live", "deleted"}]
    BY <1>1, <1>3
  <2>2. ASSUME NEW i \in DOMAIN m_peq' PROVE ext'[m_peq'[i].val] = "live"
    <3>1. m_peq'[i].val \in Vals(m_peq) \ {p}
      BY <1>4 DEF Vals
    <3>2. PICK j \in DOMAIN m_peq : m_peq'[i].val = m_peq[j].val
      BY <3>1 DEF Vals
    <3>3. m_peq'[i].val # p /\ ext[m_peq'[i].val] = "live"
      BY <1>3, <3>1, <3>2
    <3> QED BY <1>1, <1>3, <3>3
  <2>3. held' = Vals(m_peq')
    BY <1>1, <1>3, <1>4
  <2> QED BY <1>2, <1>3, <1>4, <2>1, <2>2, <2>3 DEF Flying
<1>6. Stock'
  <2>0. /\ created \in Nat /\ created = free_list + Len(m_peq) /\ created <= Spread + 1
        /\ Len(node) <= created /\ held \subseteq 1 .. created
        /\ Free(node, free_list, held, created)
    BY DEF IInv, Stock
  <2>1. Len(node) \in Nat /\ free_list \in 0 .. Len(node) /\ free_list \in Nat
    BY DEF IInv, Chain
  <2>2. created = free_list + 1 + (Len(m_peq) - 1) /\ Len(node') <= created
    <3>1. created = free_list + 1 + (Len(m_peq) - 1)
      BY <1>4, <2>0, <2>1
    <3>2. CASE free_list = Len(node)
      BY <1>1, <1>4, <2>0, <2>1, <3>2
    <3>3. CASE free_list # Len(node)
      BY <1>1, <2>0, <3>1, <3>3
    <3> QED BY <3>1, <3>2, <3>3
  <2>3. Free(node', free_list + 1, held', created)
    <3>1. ASSUME NEW n \in 1 .. free_list + 1 PROVE n \in 1 .. free_list \/ n = free_list + 1
      BY <2>1
    <3>2. ASSUME NEW n \in 1 .. free_list
          PROVE  /\ node'[n].trans = node[n].trans
                 /\ node[n].trans \in 1 .. created /\ node[n].trans \notin held
                 /\ node[n].trans # p
      BY <1>1, <2>0 DEF Free
    <3>3. p \in 1 .. created /\ p \notin held'
      BY <1>1, <2>0
    <3>4. \A n \in 1 .. free_list + 1 :
            node'[n].trans \in 1 .. created /\ node'[n].trans \notin held'
      BY <1>1, <3>1, <3>2, <3>3
    <3>5. ASSUME NEW n \in 1 .. free_list + 1, NEW m \in 1 .. free_list + 1,
                 node'[n].trans = node'[m].trans
          PROVE  n = m
      <4>1. CASE n \in 1 .. free_list /\ m \in 1 .. free_list
        BY <2>0, <3>2, <3>5, <4>1 DEF Free
      <4>2. CASE n = free_list + 1 /\ m \in 1 .. free_list
        BY <1>1, <3>2, <3>5, <4>2
      <4>3. CASE m = free_list + 1 /\ n \in 1 .. free_list
        BY <1>1, <3>2, <3>5, <4>3
      <4> QED BY <3>1, <4>1, <4>2, <4>3
    <3> QED BY <3>4, <3>5 DEF Free
  <2>4. held' \subseteq 1 .. created
    BY <1>1, <2>0
  <2> QED BY <1>1, <1>4, <2>0, <2>2, <2>3, <2>4 DEF Stock
<1> QED BY <1>1, <1>5, <1>6 DEF IInv

\* The other steps leave the pool alone.
LEMMA StepIInv == IInv /\ [TlmNext]_tlmVars => IInv'
<1> SUFFICES ASSUME IInv, [TlmNext]_tlmVars PROVE IInv'
  OBVIOUS
<1>1. CASE request
  BY <1>1, RequestStep
<1>2. CASE response /\ Due
  <2>1. respond /\ pending' = pending
    BY <1>2 DEF response
  <2> QED BY <1>2, <2>1, RespondStep
<1>3. CASE response /\ ~Due
  <2>1. pending' = pending \ {"response"} /\ UNCHANGED <<vars, m_peq, ext>>
    BY <1>3 DEF response
  <2>2. NoneDue(m_peq)
    <3>1. /\ m_peq \in Seq(PeqEntry(Payloads, Spread)) /\ Ordered(m_peq)
          /\ Spread \in Nat
      BY SpreadAssumption DEF IInv, Flying, Flights
    <3>2. CASE m_peq = <<>>
      BY <3>2 DEF NoneDue
    <3>3. CASE m_peq # <<>>
      <4>1. Head(m_peq).due # 0 /\ 1 \in DOMAIN m_peq /\ Head(m_peq) = m_peq[1]
        BY <1>3, <3>1, <3>3 DEF Due
      <4>2. ASSUME NEW i \in DOMAIN m_peq PROVE m_peq[i].due # 0
        <5>1. m_peq[1].due <= m_peq[i].due
          <6>1. 1 <= i
            BY <3>1
          <6> QED BY <3>1, <4>1, <6>1 DEF Ordered
        <5>2. m_peq[1].due \in Nat /\ m_peq[i].due \in Nat
          BY <3>1, <4>1, PeqFields
        <5> QED BY <4>1, <5>1, <5>2
      <4> QED BY <4>2 DEF NoneDue
    <3> QED BY <3>2, <3>3
  <2>3. Begun' = Begun
    BY <2>1 DEF Begun
  <2>4. Flying'
    BY <2>1, <2>2, <2>3 DEF IInv, Flying, vars
  <2> QED BY <2>1, <2>4 DEF IInv, Stock, vars, poolVars
<1>4. CASE NextNanosecond
  <2>1. /\ pending = {} /\ pending' = Methods /\ m_peq' = PeqAge(m_peq)
        /\ UNCHANGED <<vars, ext>>
    BY <1>4 DEF NextNanosecond
  <2>2. Begun = 1 /\ Begun' = 0 /\ "response" \in pending'
    BY <2>1 DEF Begun, Methods
  <2>3. /\ m_peq' \in Flights /\ Ordered(m_peq') /\ Once(m_peq') /\ OnTime(m_peq', 0)
        /\ Len(m_peq') = Len(m_peq) /\ Vals(m_peq') = Vals(m_peq)
        /\ \A i \in DOMAIN m_peq' :
             i \in DOMAIN m_peq /\ m_peq'[i].val = m_peq[i].val
    BY <2>1, <2>2, FlightAges DEF IInv, Flying
  <2>4. Flying'
    BY <2>1, <2>2, <2>3 DEF IInv, Flying, vars
  <2> QED BY <2>1, <2>3, <2>4 DEF IInv, Stock, vars, poolVars
<1>5. CASE UNCHANGED tlmVars
  BY <1>5 DEF tlmVars, vars, poolVars, IInv, Flying, Stock, Begun
<1> QED BY <1>1, <1>2, <1>3, <1>4, <1>5 DEF TlmNext

\* The books are right whenever the kernel looks, however many nanoseconds the
\* program runs and whichever method goes first.
THEOREM PoolSound == TlmSpec => []IInv
BY InitIInv, StepIInv, PTL DEF TlmSpec

\* The payloads in use are those in flight, each once and with a live
\* extension: none is read after it went back to the pool, none leaks, and none
\* is kept beyond the nanosecond it falls due.
THEOREM HeldInFlight == TlmSpec => []InFlightIsHeld
<1>1. IInv => InFlightIsHeld
  <2> SUFFICES ASSUME IInv PROVE InFlightIsHeld
    OBVIOUS
  <2>1. Len(m_peq) = Cardinality(held)
    BY FlightsCounted DEF IInv, Flying
  <2>2. ASSUME pending = {} PROVE PeqReady(m_peq) = <<>>
    <3>1. /\ m_peq \in Seq(PeqEntry(Payloads, Spread)) /\ Ordered(m_peq)
          /\ NoneDue(m_peq) /\ Spread \in Nat
      BY <2>2, SpreadAssumption DEF IInv, Flying, Flights
    <3>2. ASSUME m_peq # <<>> PROVE Head(m_peq).due > 0
      <4>1. 1 \in DOMAIN m_peq /\ Head(m_peq) = m_peq[1]
        BY <3>1, <3>2
      <4>2. m_peq[1].due \in Nat /\ m_peq[1].due # 0
        BY <3>1, <4>1, PeqFields DEF NoneDue
      <4> QED BY <4>1, <4>2
    <3> QED BY <3>1, <3>2, PeqReadyHead
  <2> QED BY <2>1, <2>2 DEF IInv, Flying, Vals, InFlightIsHeld
<1> QED BY <1>1, PoolSound, PTL

\* One payload more than a delay is long serves a run of any length, and the
\* pool makes no more access nodes than payloads.
THEOREM PoolStaysSmall == TlmSpec => []PoolBounded
<1>1. IInv => PoolBounded
  BY DEF IInv, Stock, PoolBounded
<1> QED BY <1>1, PoolSound, PTL

\* Forward and backward pointers agree and the two entry points are
\* neighbours: no node has two others before it or behind it.
THEOREM ChainStaysIntact == TlmSpec => []ChainIntact
<1>1. IInv => ChainIntact
  <2> SUFFICES ASSUME IInv PROVE ChainIntact
    OBVIOUS
  <2> DEFINE L == Len(node)
             nx(n) == node[n].next
             pv(n) == node[n].prev
  <2>1. /\ DOMAIN node = 1 .. L /\ L \in Nat /\ free_list \in 0 .. L
        /\ empties = IF free_list = L THEN Null ELSE free_list + 1
    BY DEF IInv, Chain
  <2>2. \A n \in 1 .. L : nx(n) = n - 1
    BY DEF IInv, Chain
  <2>3. \A n \in 1 .. L : pv(n) = IF n = L THEN Null ELSE n + 1
    BY DEF IInv, Chain
  <2> HIDE DEF L, nx, pv
  <2>4. ASSUME NEW n \in 1 .. L, nx(n) # Null
        PROVE  pv(nx(n)) = n
    <3>1. nx(n) = n - 1 /\ n - 1 \in 1 .. L /\ n - 1 # L /\ n - 1 + 1 = n
      BY <2>1, <2>2, <2>4 DEF Null
    <3>2. pv(n - 1) = n - 1 + 1
      BY <2>3, <3>1
    <3> QED BY <3>1, <3>2
  <2>5. ASSUME NEW n \in 1 .. L, pv(n) # Null
        PROVE  nx(pv(n)) = n
    <3>1. pv(n) = n + 1 /\ n + 1 \in 1 .. L /\ n + 1 - 1 = n
      BY <2>1, <2>3, <2>5 DEF Null
    <3>2. nx(n + 1) = n + 1 - 1
      BY <2>2, <3>1
    <3> QED BY <3>1, <3>2
  <2>6. free_list # Null => pv(free_list) = empties
    <3>1. free_list # Null => free_list \in 1 .. L
      BY <2>1 DEF Null
    <3> QED BY <2>1, <2>3, <3>1
  <2>7. empties # Null => nx(empties) = free_list
    <3> SUFFICES ASSUME empties # Null PROVE nx(empties) = free_list
      OBVIOUS
    <3>1. /\ empties = free_list + 1 /\ free_list + 1 \in 1 .. L
          /\ free_list + 1 - 1 = free_list
      BY <2>1
    <3>2. nx(empties) = empties - 1
      BY <2>2, <3>1
    <3>3. free_list \in Nat /\ L \in Nat
      BY <2>1
    <3>4. empties - 1 = free_list
      BY <3>1, <3>3
    <3> QED BY <3>2, <3>4, Zenon
  <2> QED BY <2>1, <2>4, <2>5, <2>6, <2>7 DEF ChainIntact, L, nx, pv
<1> QED BY <1>1, PoolSound, PTL

-----------------------------------------------------------------------------
(* The pool is a stack                                                     *)

\* A sequence that is not empty is its head and its tail.
LEMMA HeadAndTail ==
  ASSUME NEW S, NEW s \in Seq(S), s # <<>>
  PROVE  s = <<Head(s)>> \o Tail(s)
<1>1. /\ Head(s) \in S /\ Tail(s) \in Seq(S) /\ Len(Tail(s)) = Len(s) - 1
      /\ \A i \in 1 .. Len(s) - 1 : Tail(s)[i] = s[i + 1]
      /\ Len(s) \in Nat \ {0} /\ Head(s) = s[1]
  BY HeadTailProperties
<1> DEFINE h == <<Head(s)>>
           t == Tail(s)
<1>2. h \in Seq(S) /\ Len(h) = 1 /\ h[1] = s[1]
  BY <1>1
<1> HIDE DEF h, t
<1>3. /\ h \o t \in Seq(S) /\ Len(h \o t) = Len(h) + Len(t)
      /\ \A i \in 1 .. Len(h) + Len(t) :
           (h \o t)[i] = IF i <= Len(h) THEN h[i] ELSE t[i - Len(h)]
  BY <1>1, <1>2, ConcatProperties DEF t
<1>4. Len(h) + Len(t) = Len(s)
  BY <1>1, <1>2 DEF t
<1>5. ASSUME NEW i \in 1 .. Len(s) PROVE (h \o t)[i] = s[i]
  <2>4. CASE i = 1
    BY <1>1, <1>2, <1>3, <1>4, <2>4
  <2>5. CASE i # 1
    <3>1. i - 1 \in 1 .. Len(s) - 1 /\ (i - 1) + 1 = i /\ ~(i <= 1)
      BY <1>1, <2>5
    <3>2. (h \o t)[i] = t[i - 1]
      BY <1>2, <1>3, <1>4, <3>1
    <3>3. t[i - 1] = s[i]
      BY <1>1, <3>1 DEF t
    <3> QED BY <3>2, <3>3
  <2> QED BY <2>4, <2>5
<1>6. h \o t = s
  BY <1>3, <1>4, <1>5, SeqEqual
<1> QED BY <1>6 DEF h, t

\* The line of a chain that is not empty, and what a payload returned makes of
\* it.
LEMMA LineReturn ==
  ASSUME NEW od \in Seq(Node), NEW nd \in Seq(Node), NEW f \in 0 .. Len(od),
         f + 1 \in 1 .. Len(nd), NEW p, nd[f + 1].trans = p,
         \A n \in 1 .. f : nd[n].trans = od[n].trans
  PROVE  Line(nd, f + 1) = <<p>> \o Line(od, f)
<1>1. f \in Nat /\ f + 1 - 1 = f
  OBVIOUS
<1>2. /\ Line(nd, f + 1) # <<>> /\ Head(Line(nd, f + 1)) = p
      /\ Tail(Line(nd, f + 1)) = Line(nd, f)
  BY <1>1, LinePop
<1>3. Line(nd, f) = Line(od, f)
  BY <1>1, LineSame
<1>4. Line(nd, f + 1) \in Seq(Nat)
  <2> DEFINE v(k) == nd[f + 1 + 1 - k].trans
             c == [k \in 1 .. f + 1 |-> v(k)]
  <2>4. \A k \in 1 .. f + 1 : v(k) \in Nat
    <3> SUFFICES ASSUME NEW k \in 1 .. f + 1 PROVE v(k) \in Nat
      OBVIOUS
    <3>1. f + 1 + 1 - k \in 1 .. Len(nd)
      BY <1>1
    <3> QED BY <3>1, NodeFields
  <2>5. Line(nd, f + 1) = c
    BY DEF Line
  <2>6. c \in Seq(Nat)
    <3> HIDE DEF v
    <3> QED BY <1>1, <2>4
  <2> QED BY <2>5, <2>6
<1> QED BY <1>2, <1>3, <1>4, HeadAndTail

\* The pool of mm is the stack of PayloadStack: a payload handed out is the one
\* that came back last or, if none is left, a new one.
THEOREM PoolIsStack == TlmSpec => ImplementsStack
<1>1. TlmInit => Pool!Init
  <2> SUFFICES ASSUME TlmInit PROVE Pool!Init
    OBVIOUS
  <2>1. Chain(node, free_list, empties) /\ free_list = 0
    BY InitIInv DEF IInv, TlmInit, Init, Null
  <2>2. FreePayloads = <<>>
    BY <2>1, FreeIsLine DEF Line
  <2> QED BY <2>2 DEF TlmInit, Init, Pool!Init
<1>2. IInv /\ [TlmNext]_tlmVars => [Pool!Next]_(Pool!vars)
  <2> SUFFICES ASSUME IInv, [TlmNext]_tlmVars PROVE [Pool!Next]_(Pool!vars)
    OBVIOUS
  <2>1. /\ Chain(node, free_list, empties) /\ Chain(node', free_list', empties')
        /\ FreePayloads = Line(node, free_list)
        /\ FreePayloads' = Line(node', free_list')
    <3>1. IInv'
      BY StepIInv
    <3> QED BY <3>1, FreeIsLine, FreeIsLineNext DEF IInv
  <2>2. /\ node \in Seq(Node) /\ node' \in Seq(Node) /\ Len(node) \in Nat
        /\ free_list \in 0 .. Len(node) /\ free_list' \in 0 .. Len(node')
    BY <2>1 DEF Chain
  <2>3. CASE request
    <3>1. PICK p \in Payloads :
            /\ held' = held \cup {p} /\ node' = node
            /\ \/ /\ free_list # Null /\ p = node[free_list].trans
                  /\ free_list' = free_list - 1 /\ created' = created
               \/ /\ free_list = Null /\ free_list' = free_list
                  /\ p = created + 1 /\ created' = created + 1
      BY <2>3, Sent
    <3>2. CASE /\ free_list # Null /\ p = node[free_list].trans
               /\ free_list' = free_list - 1 /\ created' = created
      <4>1. free_list \in 1 .. Len(node)
        BY <2>2, <3>2 DEF Null
      <4>2. /\ Line(node, free_list) # <<>> /\ Head(Line(node, free_list)) = p
            /\ Tail(Line(node, free_list)) = Line(node, free_list - 1)
        BY <2>2, <3>2, <4>1, LinePop
      <4>3. Pool!Reuse
        BY <2>1, <3>1, <3>2, <4>2 DEF Pool!Reuse
      <4> QED BY <4>3 DEF Pool!Next
    <3>3. CASE /\ free_list = Null /\ free_list' = free_list
               /\ p = created + 1 /\ created' = created + 1
      <4>1. FreePayloads = <<>> /\ FreePayloads' = FreePayloads
        BY <2>1, <3>1, <3>3 DEF Line, Null
      <4>2. Pool!Make
        BY <3>1, <3>3, <4>1 DEF Pool!Make
      <4> QED BY <4>2 DEF Pool!Next
    <3> QED BY <3>1, <3>2, <3>3
  <2>4. CASE response /\ Due
    <3> DEFINE p == Head(m_peq).val
    <3>1. respond
      BY <2>4 DEF response
    <3>2. /\ held' = held \ {p} /\ p \in held
          /\ free_list' = free_list + 1 /\ created' = created
          /\ node'[free_list + 1].trans = p
          /\ \A n \in 1 .. free_list : node'[n].trans = node[n].trans
      BY <2>4, <3>1, Returned
    <3> HIDE DEF p
    <3>3. free_list + 1 \in 1 .. Len(node')
      BY <2>2, <3>2
    <3>4. FreePayloads' = <<p>> \o FreePayloads
      BY <2>1, <2>2, <3>2, <3>3, LineReturn
    <3>5. Pool!Return
      BY <3>2, <3>4 DEF Pool!Return
    <3> QED BY <3>5 DEF Pool!Next
  <2>5. CASE \/ response /\ ~Due
             \/ NextNanosecond
             \/ UNCHANGED tlmVars
    <3>1. UNCHANGED vars
      BY <2>5 DEF response, NextNanosecond, tlmVars
    <3>2. FreePayloads' = FreePayloads
      BY <2>1, <3>1 DEF vars, poolVars
    <3> QED BY <3>1, <3>2 DEF vars, poolVars, Pool!vars
  <2> QED BY <2>3, <2>4, <2>5 DEF TlmNext
<1> QED BY <1>1, <1>2, PoolSound, PTL DEF TlmSpec, ImplementsStack, Pool!Spec

-----------------------------------------------------------------------------
(* ab_communication                                                        *)

\* Every other nanosecond is an edge of dst's clock.
LEMMA Parity ==
  ASSUME NEW n \in Nat
  PROVE  /\ n % 2 \in {0, 1}
         /\ (n + 1) % 2 = 1 - (n % 2)
         /\ 0 % 2 = 0
OBVIOUS

\* The payloads from first on, up to last, in the order they were sent.
InOrder(first, last) == [i \in 1 .. last + 1 - first |-> first + i - 1]

\* src is one payload per nanosecond ahead of the clock, dst has taken one for
\* every second: by which of the two has run on the edge, how many were sent and
\* popped is known, and what is in the queue are those sent and not popped.
AbInv ==
  /\ now \in Nat /\ val \in Nat /\ printed \in Nat
  /\ m_queue = InOrder(printed + 1, val)
  /\ \/ torun_ab = {"initialize"} /\ val = 0 /\ printed = 0 /\ now = 0
     \/ /\ torun_ab \subseteq {"src", "dst"}
        /\ val = now + IF "src" \in torun_ab THEN 1 ELSE 2
        /\ IF now % 2 = 0
           THEN 2 * printed = now + IF "dst" \in torun_ab THEN 0 ELSE 2
           ELSE "dst" \notin torun_ab /\ 2 * printed = now + 1

\* One more is sent.
LEMMA InOrderGrows ==
  ASSUME NEW first \in Nat, NEW last \in Nat, first <= last + 1
  PROVE  Append(InOrder(first, last), last + 1) = InOrder(first, last + 1)
<1> DEFINE n == last + 1 - first
           s == InOrder(first, last)
<1>1. n \in Nat /\ last + 1 + 1 - first = n + 1
  OBVIOUS
<1>2. /\ s \in Seq(Nat) /\ Len(s) = n
      /\ \A i \in 1 .. n : s[i] = first + i - 1
  <2>1. \A i \in 1 .. n : first + i - 1 \in Nat
    BY <1>1
  <2> QED BY <1>1, <2>1 DEF InOrder
<1>3. last + 1 = first + (n + 1) - 1
  BY <1>1
<1> HIDE DEF s
<1>4. /\ Append(s, last + 1) \in Seq(Nat) /\ Len(Append(s, last + 1)) = n + 1
      /\ \A i \in 1 .. n + 1 : Append(s, last + 1)[i] = first + i - 1
  <2>1. /\ Append(s, last + 1) \in Seq(Nat) /\ Len(Append(s, last + 1)) = n + 1
        /\ \A i \in 1 .. n : Append(s, last + 1)[i] = s[i]
        /\ Append(s, last + 1)[n + 1] = last + 1
    BY <1>1, <1>2
  <2> QED BY <1>1, <1>2, <1>3, <2>1
<1>5. Append(s, last + 1) = [i \in 1 .. n + 1 |-> first + i - 1]
  <2> DEFINE a == Append(s, last + 1)
  <2> HIDE DEF n
  <2>1. /\ a \in Seq(Nat) /\ Len(a) = n + 1
        /\ \A i \in 1 .. n + 1 : a[i] = first + i - 1
    BY <1>4
  <2> HIDE DEF a
  <2>2. a = [i \in 1 .. n + 1 |-> a[i]]
    BY <2>1
  <2> QED BY <2>1, <2>2 DEF a
<1> QED BY <1>1, <1>5 DEF InOrder, s

\* The first is taken.
LEMMA InOrderFirst ==
  ASSUME NEW first \in Nat, NEW last \in Nat, first <= last
  PROVE  /\ InOrder(first, last) # <<>> /\ Head(InOrder(first, last)) = first
         /\ Tail(InOrder(first, last)) = InOrder(first + 1, last)
<1> DEFINE n == last - first
           s == InOrder(first, last)
<1>1. n \in Nat /\ last + 1 - first = n + 1 /\ last + 1 - (first + 1) = n
  OBVIOUS
<1>2. /\ s \in Seq(Nat) /\ Len(s) = n + 1
      /\ \A i \in 1 .. n + 1 : s[i] = first + i - 1
  <2>1. \A i \in 1 .. n + 1 : first + i - 1 \in Nat
    BY <1>1
  <2> QED BY <1>1, <2>1 DEF InOrder
<1> HIDE DEF s
<1>3. s # <<>> /\ Head(s) = first
  BY <1>1, <1>2
<1>4. /\ Tail(s) \in Seq(Nat) /\ Len(Tail(s)) = n
      /\ \A i \in 1 .. n : Tail(s)[i] = s[i + 1]
  BY <1>1, <1>2, <1>3
<1>5. \A i \in 1 .. n : Tail(s)[i] = first + 1 + i - 1
  BY <1>1, <1>2, <1>4
<1>6. Tail(s) = [i \in 1 .. n |-> first + 1 + i - 1]
  <2> DEFINE t == Tail(s)
  <2> HIDE DEF n
  <2>1. /\ t \in Seq(Nat) /\ Len(t) = n
        /\ \A i \in 1 .. n : t[i] = first + 1 + i - 1
    BY <1>4, <1>5
  <2> HIDE DEF t
  <2>2. t = [i \in 1 .. n |-> t[i]]
    BY <2>1
  <2> QED BY <2>1, <2>2 DEF t
<1> QED BY <1>1, <1>3, <1>6 DEF InOrder, s

\* src sends the next payload.
LEMMA AbSend ==
  ASSUME AbInv, Ab!Send, printed' = printed
  PROVE  val' = val + 1 /\ m_queue' = InOrder(printed' + 1, val')
<1>1. val' = val + 1 /\ m_queue' = Append(m_queue, val')
  BY DEF Ab!Send
<1>2. val \in Nat /\ printed + 1 \in Nat /\ printed + 1 <= val + 1
  <2>1. now \in Nat /\ val \in Nat /\ printed \in Nat
    BY DEF AbInv
  <2>2. now % 2 \in {0, 1}
    BY <2>1, Parity
  <2>3. printed <= val
    BY <2>1, <2>2 DEF AbInv
  <2> QED BY <2>1, <2>3
<1>3. Append(InOrder(printed + 1, val), val + 1) = InOrder(printed + 1, val + 1)
  BY <1>2, InOrderGrows
<1> QED BY <1>1, <1>3 DEF AbInv

\* No step, in whatever order the two run, loses the count.
LEMMA AbStep == AbInv /\ [Ab!Next]_abVars => AbInv'
<1> SUFFICES ASSUME AbInv, [Ab!Next]_abVars PROVE AbInv'
  OBVIOUS
<1>0. /\ now \in Nat /\ val \in Nat /\ printed \in Nat
      /\ now % 2 \in {0, 1} /\ (now + 1) % 2 = 1 - (now % 2) /\ 0 % 2 = 0
  BY Parity DEF AbInv
<1>1. CASE Ab!initialize
  <2>1. torun_ab = {"initialize"} /\ val = 0 /\ printed = 0 /\ now = 0
    BY <1>1 DEF Ab!initialize, AbInv
  <2>2. printed' = printed /\ now' = now /\ torun_ab' = {"src", "dst"} /\ Ab!Send
    BY <1>0, <1>1, <2>1 DEF Ab!initialize, Ab!Edge
  <2>3. val' = val + 1 /\ m_queue' = InOrder(printed' + 1, val')
    BY <2>2, AbSend
  <2> QED BY <1>0, <2>1, <2>2, <2>3 DEF AbInv
<1>2. CASE Ab!src_entry
  <2>1. /\ "src" \in torun_ab /\ torun_ab' = torun_ab \ {"src"}
        /\ printed' = printed /\ now' = now /\ Ab!Send
    BY <1>2 DEF Ab!src_entry
  <2>2. val' = val + 1 /\ m_queue' = InOrder(printed' + 1, val')
    BY <2>1, AbSend
  <2>3. /\ torun_ab \subseteq {"src", "dst"} /\ val = now + 1
        /\ IF now % 2 = 0
           THEN 2 * printed = now + IF "dst" \in torun_ab THEN 0 ELSE 2
           ELSE "dst" \notin torun_ab /\ 2 * printed = now + 1
    BY <2>1 DEF AbInv
  <2> QED BY <1>0, <2>1, <2>2, <2>3 DEF AbInv
<1>3. CASE Ab!dst_entry
  <2>1. /\ "dst" \in torun_ab /\ torun_ab' = torun_ab \ {"dst"}
        /\ val' = val /\ now' = now
    BY <1>3 DEF Ab!dst_entry
  <2>2. /\ torun_ab \subseteq {"src", "dst"} /\ now % 2 = 0 /\ 2 * printed = now
        /\ val = now + IF "src" \in torun_ab THEN 1 ELSE 2
    BY <2>1 DEF AbInv
  <2>3. printed + 1 \in Nat /\ printed + 1 <= val
    BY <1>0, <2>2
  <2>4. m_queue # <<>> /\ Head(m_queue) = printed + 1 /\ Tail(m_queue) = InOrder(printed + 1 + 1, val)
    BY <1>0, <2>3, InOrderFirst DEF AbInv
  <2>5. printed' = printed + 1 /\ m_queue' = InOrder(printed' + 1, val')
    BY <1>3, <2>1, <2>4 DEF Ab!dst_entry
  <2> QED BY <1>0, <2>1, <2>2, <2>5 DEF AbInv
<1>4. CASE Ab!ClockEdge
  <2>1. /\ torun_ab = {} /\ now' = now + 1 /\ val' = val /\ printed' = printed
        /\ m_queue' = m_queue
        /\ torun_ab' = IF now' % 2 = 0 THEN {"src", "dst"} ELSE {"src"}
    BY <1>4 DEF Ab!ClockEdge, Ab!Edge
  <2>2. /\ val = now + 2
        /\ 2 * printed = now + IF now % 2 = 0 THEN 2 ELSE 1
    BY <2>1 DEF AbInv
  <2>3. now' % 2 = 1 - (now % 2)
    BY <1>0, <2>1
  <2>4. CASE now % 2 = 0
    BY <1>0, <2>1, <2>2, <2>3, <2>4 DEF AbInv
  <2>5. CASE now % 2 = 1
    BY <1>0, <2>1, <2>2, <2>3, <2>5 DEF AbInv
  <2> QED BY <1>0, <2>4, <2>5
<1>5. CASE UNCHANGED abVars
  BY <1>5 DEF abVars, AbInv
<1> QED BY <1>1, <1>2, <1>3, <1>4, <1>5 DEF Ab!Next

\* What dst pops is there, and the next.
LEMMA AbPop ==
  ASSUME AbInv, Ab!dst_entry
  PROVE  printed' = printed + 1
<1>1. "dst" \in torun_ab
  BY DEF Ab!dst_entry
<1>2. /\ now \in Nat /\ val \in Nat /\ printed \in Nat /\ 2 * printed = now
      /\ val = now + IF "src" \in torun_ab THEN 1 ELSE 2
  BY <1>1 DEF AbInv
<1>3. printed + 1 \in Nat /\ printed + 1 <= val
  BY <1>2
<1>4. m_queue # <<>> /\ Head(m_queue) = printed + 1
  BY <1>2, <1>3, InOrderFirst DEF AbInv
<1> QED BY <1>4 DEF Ab!dst_entry

-----------------------------------------------------------------------------
(* module_communication                                                    *)

Edge0 == {"C", "D"}
LaterEdge == {"writer", "reader", "C", "D"}

\* Every number, by the edge and by which processes have run on it: of writer,
\* reader, and C and D.
RunsInv == /\ edge \in Nat
           /\ torun \subseteq IF edge = 0 THEN Edge0 ELSE LaterEdge
WriterInv ==
  /\ in_val = edge + IF "writer" \in torun THEN 99 ELSE 100
  /\ fresh = IF edge = 0 \/ "writer" \in torun THEN <<>> ELSE <<in_val>>
  /\ edge > 0 /\ "writer" \notin torun => wrote = <<TRUE>>
ReaderInv ==
  /\ visible = IF edge > 1 /\ "reader" \in torun THEN <<edge + 99>> ELSE <<>>
  /\ taken = IF edge > 1 /\ "reader" \notin torun THEN 1 ELSE 0
  /\ edge > 0 /\ "reader" \notin torun =>
       got = IF edge = 1 THEN <<FALSE>> ELSE <<TRUE, edge + 99>>
SignalInv ==
  /\ out_val = edge + IF "D" \in torun THEN 100 ELSE 101
  /\ m_new_val = IF edge = 0 /\ "D" \in torun THEN 0 ELSE out_val - 1
  /\ m_cur_val = IF edge = 0 THEN 0 ELSE edge + 99
  /\ "C" \notin torun => seen = m_cur_val
ModInv == RunsInv /\ WriterInv /\ ReaderInv /\ SignalInv

\* A process that runs is off the list, and the others are not.
LEMMA OneRuns ==
  ASSUME NEW p \in LaterEdge, Modules!Runs(p), RunsInv
  PROVE  /\ RunsInv' /\ edge' = edge /\ p \in torun /\ p \notin torun'
         /\ \A r \in LaterEdge \ {p} : r \in torun' <=> r \in torun
BY DEF Modules!Runs, RunsInv

\* What a queue of one or no number answers, and what a cycle leaves of it.
LEMMA OneNumber ==
  ASSUME NEW v \in Nat
  PROVE  /\ <<v>> # <<>> /\ Head(<<v>>) = v /\ Tail(<<v>>) = <<>>
         /\ Len(<<v>>) = 1 /\ Len(<<>>) = 0
         /\ Append(<<>>, v) = <<v>>
         /\ <<>> \o <<v>> = <<v>> /\ <<>> \o <<>> = <<>>
<1>1. <<v>> \in Seq(Nat) /\ <<>> \in Seq(Nat)
  OBVIOUS
<1>2. <<>> \o <<v>> = <<v>> /\ <<>> \o <<>> = <<>>
  BY <1>1, ConcatEmptySeq
<1> QED BY <1>2

\* The fifo has room for the numbers of two edges: the reader's slot is not free
\* before the edge is over.
LEMMA ModStep ==
  ASSUME FifoLen > 1, ModInv, [Modules!Next]_moduleVars
  PROVE  ModInv'
<1>0. /\ FifoLen \in Nat /\ edge \in Nat /\ RunsInv
      /\ LaterEdge = {"writer", "reader", "C", "D"}
  BY ProgramsAssumption DEF ModInv, RunsInv, LaterEdge
<1>1. CASE Modules!mth_entry
  <2>1. /\ Modules!Runs("writer") /\ in_val' = in_val + 1 /\ Modules!Fifo!Put(in_val')
        /\ UNCHANGED <<out_val, m_cur_val, m_new_val, seen>>
    BY <1>1 DEF Modules!mth_entry, Modules!signalVars
  <2>2. /\ RunsInv' /\ edge' = edge /\ "writer" \in torun /\ "writer" \notin torun'
        /\ \A r \in {"reader", "C", "D"} : r \in torun' <=> r \in torun
    BY <1>0, <2>1, OneRuns
  <2>3. edge # 0 /\ in_val = edge + 99 /\ fresh = <<>> /\ in_val' = edge + 100
    BY <1>0, <2>1, <2>2 DEF ModInv, RunsInv, WriterInv, Edge0
  <2>4. Len(visible) + taken + Len(fresh) < FifoLen
    <3>1. edge + 99 \in Nat
      BY <1>0
    <3>2. Len(fresh) = 0
      BY <2>3
    <3>3. Len(visible) = IF edge > 1 /\ "reader" \in torun THEN 1 ELSE 0
      BY <3>1, OneNumber DEF ModInv, ReaderInv
    <3> QED BY <1>0, <3>2, <3>3 DEF ModInv, ReaderInv
  <2>5. /\ fresh' = <<in_val'>> /\ wrote' = <<TRUE>>
        /\ visible' = visible /\ taken' = taken /\ got' = got
    <3>1. in_val' \in Nat
      BY <1>0, <2>3
    <3>2. Append(fresh, in_val') = <<in_val'>>
      BY <2>3, <3>1, OneNumber
    <3> QED BY <2>1, <2>4, <3>2 DEF Modules!Fifo!Put
  <2>6. WriterInv'
    BY <1>0, <2>2, <2>3, <2>5 DEF WriterInv
  <2>7. ReaderInv'
    BY <2>2, <2>5 DEF ModInv, ReaderInv
  <2>8. SignalInv'
    BY <2>1, <2>2 DEF ModInv, SignalInv
  <2> QED BY <2>2, <2>6, <2>7, <2>8 DEF ModInv
<1>2. CASE Modules!read_mth_entry
  <2>1. /\ Modules!Runs("reader") /\ Modules!Fifo!Get
        /\ UNCHANGED <<in_val, out_val, m_cur_val, m_new_val, seen>>
    BY <1>2 DEF Modules!read_mth_entry, Modules!signalVars
  <2>2. /\ RunsInv' /\ edge' = edge /\ "reader" \in torun /\ "reader" \notin torun'
        /\ \A r \in {"writer", "C", "D"} : r \in torun' <=> r \in torun
    BY <1>0, <2>1, OneRuns
  <2>3. edge # 0 /\ taken = 0 /\ fresh' = fresh /\ wrote' = wrote
    BY <1>0, <2>1, <2>2 DEF ModInv, RunsInv, ReaderInv, Edge0, Modules!Fifo!Get
  <2>4. ReaderInv'
    <3>1. CASE edge > 1
      <4>1. edge + 99 \in Nat /\ visible = <<edge + 99>>
        BY <1>0, <2>2, <3>1 DEF ModInv, ReaderInv
      <4>2. visible # <<>> /\ Head(visible) = edge + 99 /\ Tail(visible) = <<>>
        BY <4>1, OneNumber
      <4>3. got' = <<TRUE, Head(visible)>> /\ visible' = Tail(visible) /\ taken' = taken + 1
        BY <2>1, <4>2 DEF Modules!Fifo!Get
      <4>4. got' = <<TRUE, edge + 99>> /\ visible' = <<>> /\ taken' = 1
        BY <2>3, <4>2, <4>3
      <4>5. edge' > 1 /\ edge' # 1 /\ got' = <<TRUE, edge' + 99>>
        BY <1>0, <2>2, <3>1, <4>4
      <4> QED BY <2>2, <4>4, <4>5 DEF ReaderInv
    <3>2. CASE edge = 1
      <4>1. visible = <<>>
        BY <3>2 DEF ModInv, ReaderInv
      <4>2. got' = <<FALSE>> /\ visible' = <<>> /\ taken' = 0
        BY <2>1, <2>3, <4>1 DEF Modules!Fifo!Get
      <4> QED BY <2>2, <3>2, <4>2 DEF ReaderInv
    <3> QED BY <1>0, <2>3, <3>1, <3>2
  <2>5. WriterInv'
    BY <2>1, <2>2, <2>3 DEF ModInv, WriterInv
  <2>6. SignalInv'
    BY <2>1, <2>2 DEF ModInv, SignalInv
  <2> QED BY <2>2, <2>4, <2>5, <2>6 DEF ModInv
<1>3. CASE Modules!C
  <2>1. /\ Modules!Runs("C") /\ seen' = m_cur_val
        /\ UNCHANGED <<in_val, out_val, m_cur_val, m_new_val>>
        /\ UNCHANGED <<visible, taken, fresh, wrote, got>>
    BY <1>3 DEF Modules!C, Modules!fifoVars, Modules!signalVars
  <2>2. /\ RunsInv' /\ edge' = edge
        /\ \A r \in {"writer", "reader", "D"} : r \in torun' <=> r \in torun
    BY <1>0, <2>1, OneRuns
  <2>3. WriterInv'
    BY <2>1, <2>2 DEF ModInv, WriterInv
  <2>4. ReaderInv'
    BY <2>1, <2>2 DEF ModInv, ReaderInv
  <2>5. SignalInv'
    BY <2>1, <2>2 DEF ModInv, SignalInv
  <2> QED BY <2>2, <2>3, <2>4, <2>5 DEF ModInv
<1>4. CASE Modules!D
  <2>1. /\ Modules!Runs("D") /\ m_new_val' = out_val /\ out_val' = out_val + 1
        /\ UNCHANGED <<in_val, m_cur_val, seen>>
        /\ UNCHANGED <<visible, taken, fresh, wrote, got>>
    BY <1>4 DEF Modules!D, Modules!fifoVars
  <2>2. /\ RunsInv' /\ edge' = edge /\ "D" \in torun /\ "D" \notin torun'
        /\ \A r \in {"writer", "reader", "C"} : r \in torun' <=> r \in torun
    BY <1>0, <2>1, OneRuns
  <2>3. WriterInv'
    BY <2>1, <2>2 DEF ModInv, WriterInv
  <2>4. ReaderInv'
    BY <2>1, <2>2 DEF ModInv, ReaderInv
  <2>5. out_val = edge + 100 /\ m_new_val' = edge + 100 /\ out_val' = edge + 101
    BY <1>0, <2>1, <2>2 DEF ModInv, SignalInv
  <2>6. SignalInv'
    BY <1>0, <2>1, <2>2, <2>5 DEF ModInv, SignalInv
  <2> QED BY <2>2, <2>3, <2>4, <2>6 DEF ModInv
<1>5. CASE Modules!ClockEdge
  <2>1. /\ torun = {} /\ edge' = edge + 1 /\ torun' = LaterEdge
        /\ visible' = visible \o fresh /\ taken' = 0 /\ fresh' = <<>>
        /\ m_cur_val' = m_new_val
        /\ UNCHANGED <<in_val, out_val, m_new_val>>
    BY <1>5 DEF Modules!ClockEdge, Modules!Fifo!CycleEnds, LaterEdge
  <2>2. /\ in_val = edge + 100 /\ visible = <<>>
        /\ fresh = IF edge = 0 THEN <<>> ELSE <<in_val>>
        /\ out_val = edge + 101 /\ m_new_val = edge + 100
    BY <1>0, <2>1 DEF ModInv, WriterInv, ReaderInv, SignalInv
  <2>3. visible' = IF edge = 0 THEN <<>> ELSE <<edge + 100>>
    <3>1. edge + 100 \in Nat
      BY <1>0
    <3> QED BY <2>1, <2>2, <3>1, OneNumber
  <2>4. edge' \in Nat /\ edge' # 0 /\ (edge' > 1 <=> edge # 0) /\ edge + 100 = edge' + 99
    BY <1>0, <2>1
  <2>5. visible' = IF edge' > 1 THEN <<edge' + 99>> ELSE <<>>
    BY <2>3, <2>4
  <2>6. "writer" \in torun' /\ "reader" \in torun' /\ "C" \in torun' /\ "D" \in torun'
    BY <1>0, <2>1
  <2>7. RunsInv'
    BY <2>1, <2>4 DEF RunsInv
  <2>8. WriterInv' /\ ReaderInv'
    BY <1>0, <2>1, <2>2, <2>4, <2>5, <2>6 DEF WriterInv, ReaderInv
  <2>9. SignalInv'
    BY <1>0, <2>1, <2>2, <2>4, <2>6 DEF SignalInv
  <2> QED BY <2>7, <2>8, <2>9 DEF ModInv
<1>6. CASE UNCHANGED moduleVars
  BY <1>6 DEF moduleVars, ModInv, RunsInv, WriterInv, ReaderInv, SignalInv
<1> QED BY <1>1, <1>2, <1>3, <1>4, <1>5, <1>6 DEF Modules!Next

-----------------------------------------------------------------------------
(* round_robin                                                             *)

\* The arbiters' queues hold QoS values, and every turn is of some input.
ArbInv == /\ qos_input \in [Inputs -> Seq(Levels)] /\ qos_last \in Inputs
          /\ level_input \in [Inputs -> Seq(Levels)]
          /\ level_last \in [Levels -> Inputs]

\* Of finitely many keys one is the greatest.
LEMMA Greatest ==
  ASSUME NEW S, S # {}, NEW b \in Nat, NEW key \in [S -> 0 .. b]
  PROVE  \E i \in S : \A j \in S : key[j] <= key[i]
<1> DEFINE R == {b - key[i] : i \in S}
<1>1. \A i \in S : b - key[i] \in Nat /\ key[i] \in Nat
  OBVIOUS
<1>2. R \in SUBSET Nat /\ R # {}
  BY <1>1
<1>3. \E m \in R : \A n \in R : m <= n
  <2> HIDE DEF R
  <2> QED BY <1>2, LeastNat
<1>4. PICK i \in S : \A n \in R : b - key[i] <= n
  BY <1>3
<1>5. ASSUME NEW j \in S PROVE key[j] <= key[i]
  <2>1. b - key[i] <= b - key[j]
    BY <1>4
  <2> QED BY <1>1, <2>1
<1> QED BY <1>5

\* And one the least.
LEMMA Nearest ==
  ASSUME NEW S, S # {}, NEW key \in [S -> Nat]
  PROVE  \E i \in S : \A j \in S : key[i] <= key[j]
<1> DEFINE R == {key[i] : i \in S}
<1>1. R \in SUBSET Nat /\ R # {}
  OBVIOUS
<1>2. \E m \in R : \A n \in R : m <= n
  <2> HIDE DEF R
  <2> QED BY <1>1, LeastNat
<1> QED BY <1>2

\* A key made of a value and a number below 2^QosLowBit orders by the value first.
LEMMA KeyOrder ==
  ASSUME NEW P \in Nat, NEW a \in Nat, NEW b \in Nat, NEW x \in 0 .. P - 1,
         NEW y \in 0 .. P - 1, b * P + y <= a * P + x
  PROVE  b < a \/ (a = b /\ y <= x)
<1>1. CASE a = b
  BY <1>1
<1>2. CASE a < b
  <2>1. PICK c \in Nat : b = a + 1 + c
    <3>1. b - a - 1 \in Nat /\ b = a + 1 + (b - a - 1)
      BY <1>2
    <3> QED BY <3>1
  <2>2. b * P = a * P + P + c * P /\ c * P \in Nat
    BY <2>1
  <2> QED BY <2>2
<1> QED BY <1>1, <1>2

\* The walk from `last' reaches every input once, `last' itself at the end; and
\* the part of the key that is below 2^QosLowBit is greater the sooner.
LEMMA WalkRound ==
  ASSUME NEW last \in Inputs, NEW i \in Inputs
  PROVE  /\ Distance(last, i) \in 1 .. N
         /\ (N - (i - last)) % N = N - Distance(last, i)
         /\ \A j \in Inputs : Distance(last, i) = Distance(last, j) => i = j
         /\ \A j \in Inputs : Distance(last, i) < Distance(last, j) =>
              Distance(i, j) = Distance(last, j) - Distance(last, i)
<1>1. N \in Nat \ {0} /\ last \in 0 .. N - 1 /\ i \in 0 .. N - 1
  BY TestPlatformAssumption DEF Inputs
<1>2. Distance(last, i) \in 1 .. N
  BY <1>1 DEF Distance
<1>3. (N - (i - last)) % N = N - Distance(last, i)
  <2>1. CASE i > last
    BY <1>1, <2>1 DEF Distance
  <2>2. CASE ~ (i > last)
    <3>1. N - (i - last) = N + (last - i) /\ last - i \in 0 .. N - 1
      BY <1>1, <2>2
    <3>2. (N + (last - i)) % N = last - i
      BY <1>1, <3>1
    <3> QED BY <1>1, <2>2, <3>1, <3>2 DEF Distance
  <2> QED BY <2>1, <2>2
<1>4. ASSUME NEW j \in Inputs, Distance(last, i) = Distance(last, j) PROVE i = j
  BY <1>1, <1>4 DEF Distance, Inputs
<1>5. ASSUME NEW j \in Inputs, Distance(last, i) < Distance(last, j)
      PROVE  Distance(i, j) = Distance(last, j) - Distance(last, i)
  BY <1>1, <1>5 DEF Distance, Inputs
<1> QED BY <1>2, <1>3, <1>4, <1>5

\* The waiting input with the greatest key is granted.
LEMMA QosGranted ==
  ASSUME ArbInv, Waiting(qos_input) # {}
  PROVE  /\ QosGrant \in Waiting(qos_input)
         /\ \A j \in Waiting(qos_input) : total_priority(j) <= total_priority(QosGrant)
<1> DEFINE P == 2 ^ QosLowBit
           W == Waiting(qos_input)
           b == QosLevels * P + N
           key == [i \in W |-> total_priority(i)]
<1>0. /\ N \in Nat \ {0} /\ QosLevels \in Nat \ {0} /\ P \in Nat /\ N <= P
      /\ qos_last \in Inputs /\ Inputs = 0 .. N - 1 /\ Levels = 0 .. QosLevels - 1
  <2>1. N \in Nat \ {0} /\ QosLowBit \in Nat /\ N <= 2 ^ QosLowBit
    BY TestPlatformAssumption
  <2>2. 2 ^ QosLowBit \in Int
    BY <2>1, SMT
  <2> QED BY <2>1, <2>2, TestPlatformAssumption DEF ArbInv, Inputs, Levels
<1>1. b \in Nat
  BY <1>0
<1>2. \A i \in W : /\ i \in Inputs /\ Head(qos_input[i]) \in Levels
                   /\ total_priority(i) = Head(qos_input[i]) * P + (N - Distance(qos_last, i))
  <2> SUFFICES ASSUME NEW i \in W
               PROVE  /\ i \in Inputs /\ Head(qos_input[i]) \in Levels
                      /\ total_priority(i)
                           = Head(qos_input[i]) * P + (N - Distance(qos_last, i))
    OBVIOUS
  <2>1. i \in Inputs /\ qos_input[i] \in Seq(Levels) /\ qos_input[i] # <<>>
    BY DEF Waiting, ArbInv
  <2>2. port_priority(i) = N - Distance(qos_last, i)
    BY <1>0, <2>1, WalkRound DEF port_priority
  <2> QED BY <2>1, <2>2 DEF total_priority
<1>3. \A i \in W : total_priority(i) \in 0 .. b
  <2> SUFFICES ASSUME NEW i \in W PROVE total_priority(i) \in 0 .. b
    OBVIOUS
  <2>1. PICK h, d : h = Head(qos_input[i]) /\ d = N - Distance(qos_last, i)
    OBVIOUS
  <2>2. h \in 0 .. QosLevels - 1 /\ d \in 0 .. N - 1
    <3>1. h \in 0 .. QosLevels - 1
      BY <1>0, <1>2, <2>1
    <3>2. Distance(qos_last, i) \in 1 .. N
      BY <1>0, <1>2, WalkRound
    <3> QED BY <1>0, <2>1, <3>1, <3>2
  <2>3. h * P \in Nat /\ h * P <= QosLevels * P /\ QosLevels * P \in Nat
    <3>1. PICK c \in Nat : QosLevels = h + c
      <4>1. QosLevels - h \in Nat /\ QosLevels = h + (QosLevels - h)
        BY <1>0, <2>2
      <4> QED BY <4>1
    <3>2. QosLevels * P = h * P + c * P /\ c * P \in Nat /\ h * P \in Nat
      BY <1>0, <2>2, <3>1
    <3> QED BY <3>2
  <2>4. total_priority(i) = h * P + d
    BY <1>2, <2>1
  <2> HIDE DEF P
  <2>5. PICK hp, lp : hp = h * P /\ lp = QosLevels * P
    OBVIOUS
  <2> QED BY <1>0, <2>2, <2>3, <2>4, <2>5
<1>4. \E i \in W : \A j \in W : total_priority(j) <= total_priority(i)
  <2>1. key \in [W -> 0 .. b]
    BY <1>3
  <2>2. \E i \in W : \A j \in W : key[j] <= key[i]
    <3> HIDE DEF key, W, b
    <3>1. W # {}
      BY DEF W
    <3> QED BY <1>1, <2>1, <3>1, Greatest
  <2> QED BY <2>2
<1> DEFINE best == {i \in W : \A j \in W : total_priority(j) <= total_priority(i)}
<1>5. \E m \in best : \A n \in best : m <= n
  <2>1. best \in SUBSET Nat /\ best # {}
    BY <1>0, <1>2, <1>4
  <2> HIDE DEF best
  <2> QED BY <2>1, LeastNat
<1>6. QosGrant = CHOOSE m \in best : \A n \in best : m <= n
  BY DEF QosGrant, Min
<1>7. QosGrant \in best
  <2> HIDE DEF best
  <2> QED BY <1>5, <1>6
<1> QED BY <1>7

\* The payload taken is of the highest QoS in front and, within it, of the input
\* whose turn it is.
LEMMA QosTurn ==
  ASSUME ArbInv, QoSRRArbitration,
         NEW i \in Waiting(qos_input), qos_input'[i] # qos_input[i],
         NEW j \in Waiting(qos_input) \ {i}
  PROVE  \/ Head(qos_input[i]) > Head(qos_input[j])
         \/ /\ Head(qos_input[i]) = Head(qos_input[j])
            /\ Distance(qos_last, i) < Distance(qos_last, j)
<1> DEFINE P == 2 ^ QosLowBit
<1>0. /\ N \in Nat \ {0} /\ P \in Nat /\ N <= P
      /\ qos_last \in Inputs /\ Inputs = 0 .. N - 1 /\ Levels \subseteq Nat
  <2>1. N \in Nat \ {0} /\ QosLowBit \in Nat /\ N <= 2 ^ QosLowBit
    BY TestPlatformAssumption
  <2>2. 2 ^ QosLowBit \in Int
    BY <2>1, SMT
  <2> QED BY <2>1, <2>2, TestPlatformAssumption DEF ArbInv, Inputs, Levels
<1>1. i \in Inputs /\ j \in Inputs /\ i # j
  BY DEF Waiting
<1>2. i = QosGrant
  <2>1. qos_input' = [qos_input EXCEPT ![QosGrant] = Tail(@)]
    BY DEF QoSRRArbitration, Popped
  <2> QED BY <1>1, <2>1 DEF ArbInv
<1>3. total_priority(j) <= total_priority(i)
  BY <1>2, QosGranted
<1>4. \A k \in {i, j} : /\ Head(qos_input[k]) \in Nat
                        /\ total_priority(k) = Head(qos_input[k]) * P + port_priority(k)
                        /\ port_priority(k) = N - Distance(qos_last, k)
                        /\ Distance(qos_last, k) \in 1 .. N
  <2> SUFFICES ASSUME NEW k \in {i, j}
               PROVE  /\ Head(qos_input[k]) \in Nat
                      /\ port_priority(k) = N - Distance(qos_last, k)
                      /\ Distance(qos_last, k) \in 1 .. N
    BY DEF total_priority
  <2>1. k \in Inputs /\ qos_input[k] \in Seq(Levels) /\ qos_input[k] # <<>>
    BY <1>1 DEF Waiting, ArbInv
  <2>2. Head(qos_input[k]) \in Nat
    <3>1. Head(qos_input[k]) \in Levels
      BY <2>1
    <3> QED BY <1>0, <3>1
  <2>3. Distance(qos_last, k) \in 1 .. N /\ port_priority(k) = N - Distance(qos_last, k)
    BY <1>0, <2>1, WalkRound DEF port_priority
  <2> QED BY <2>2, <2>3
<1>5. Distance(qos_last, i) # Distance(qos_last, j)
  BY <1>0, <1>1, WalkRound
<1>6. PICK a, c, x, y : /\ a = Head(qos_input[i]) /\ c = Head(qos_input[j])
                        /\ x = port_priority(i) /\ y = port_priority(j)
  OBVIOUS
<1>7. /\ a \in Nat /\ c \in Nat /\ x \in 0 .. P - 1 /\ y \in 0 .. P - 1
      /\ c * P + y <= a * P + x
  <2>1. x \in 0 .. N - 1 /\ y \in 0 .. N - 1
    <3>1. Distance(qos_last, i) \in 1 .. N /\ Distance(qos_last, j) \in 1 .. N
      BY <1>4
    <3>2. x = N - Distance(qos_last, i) /\ y = N - Distance(qos_last, j)
      BY <1>4, <1>6
    <3> HIDE DEF P
    <3> QED BY <1>0, <3>1, <3>2
  <2>2. x \in 0 .. P - 1 /\ y \in 0 .. P - 1
    <3> HIDE DEF P
    <3> QED BY <1>0, <2>1
  <2> QED BY <1>3, <1>4, <1>6, <2>2
<1>8. c < a \/ (a = c /\ y <= x)
  <2> HIDE DEF P
  <2> QED BY <1>0, <1>7, KeyOrder
<1> QED BY <1>0, <1>4, <1>5, <1>6, <1>7, <1>8

\* The first input on the walk with a payload of the level granted is granted.
LEMMA TurnGranted ==
  ASSUME ArbInv, NEW level \in Levels, AtLevel(level) # {}
  PROVE  /\ Turn(level) \in AtLevel(level)
         /\ \A j \in AtLevel(level) :
              Distance(level_last[level], Turn(level)) <= Distance(level_last[level], j)
<1> DEFINE A == AtLevel(level)
           key == [i \in A |-> Distance(level_last[level], i)]
<1>1. level_last[level] \in Inputs /\ A \subseteq Inputs /\ N \in Nat
  BY TestPlatformAssumption DEF ArbInv, AtLevel, Waiting
<1>2. key \in [A -> Nat]
  BY <1>1, WalkRound
<1>3. \E i \in A : \A j \in A : key[i] <= key[j]
  <2> HIDE DEF A, key
  <2>1. A # {}
    BY DEF A
  <2> QED BY <1>2, <2>1, Nearest
<1>4. \E i \in A : \A j \in A :
        Distance(level_last[level], i) <= Distance(level_last[level], j)
  BY <1>3
<1> QED BY <1>4 DEF Turn

\* No payload is taken before one of a higher level, and the inputs that wait at
\* the level of the one taken come closer to their turn.
LEMMA LevelTurn ==
  ASSUME ArbInv, QoSRRPrioLevelArbitration,
         NEW i \in Waiting(level_input), NEW j \in Waiting(level_input),
         level_input'[i] # level_input[i], i # j,
         NEW level, level = Head(level_input[j])
  PROVE  \/ /\ Head(level_input[i]) = level
            /\ Distance(level_last'[level], j) < Distance(level_last[level], j)
         \/ /\ Head(level_input[i]) > level
            /\ Distance(level_last'[level], j) = Distance(level_last[level], j)
<1>0. /\ N \in Nat \ {0} /\ Inputs = 0 .. N - 1
      /\ QosLevels \in Nat /\ Levels = 0 .. QosLevels - 1
  BY TestPlatformAssumption DEF Inputs, Levels
<1>1. PICK l \in Levels :
        /\ LevelGranted(l)
        /\ level_input' = Popped(level_input, Turn(l))
        /\ level_last' = [level_last EXCEPT ![l] = Turn(l)]
  BY DEF QoSRRPrioLevelArbitration
<1>2. /\ Turn(l) \in AtLevel(l)
      /\ \A k \in AtLevel(l) :
           Distance(level_last[l], Turn(l)) <= Distance(level_last[l], k)
  BY <1>1, TurnGranted DEF LevelGranted
<1>3. /\ i \in Inputs /\ j \in Inputs /\ level \in Levels /\ j \in AtLevel(level)
      /\ level_last[l] \in Inputs
  <2>1. level_input[j] \in Seq(Levels) /\ level_input[j] # <<>> /\ j \in Inputs
    BY DEF ArbInv, Waiting
  <2> QED BY <1>1, <2>1 DEF ArbInv, Waiting, AtLevel
<1>4. i = Turn(l) /\ Head(level_input[i]) = l
  <2>1. level_input' = [level_input EXCEPT ![Turn(l)] = Tail(@)]
    BY <1>1 DEF Popped
  <2>2. i = Turn(l)
    BY <1>3, <2>1 DEF ArbInv
  <2> QED BY <1>2, <2>2 DEF AtLevel
<1>5. CASE level = l
  <2>1. level_last'[level] = i
    BY <1>1, <1>4, <1>5 DEF ArbInv
  <2>2. /\ Distance(level_last[l], i) <= Distance(level_last[l], j)
        /\ Distance(level_last[l], i) # Distance(level_last[l], j)
        /\ Distance(level_last[l], i) \in 1 .. N
        /\ Distance(level_last[l], j) \in 1 .. N
    BY <1>2, <1>3, <1>4, <1>5, WalkRound
  <2>3. Distance(i, j) = Distance(level_last[l], j) - Distance(level_last[l], i)
    <3>1. Distance(level_last[l], i) < Distance(level_last[l], j)
      BY <1>0, <2>2
    <3>2. level_last[l] \in Inputs /\ i \in Inputs /\ j \in Inputs
      BY <1>3
    <3> QED BY <3>1, <3>2, WalkRound
  <2> QED BY <1>0, <1>4, <1>5, <2>1, <2>2, <2>3
<1>6. CASE level # l
  <2>1. ~ (level > l)
    BY <1>1, <1>3 DEF LevelGranted
  <2>2. l > level
    BY <1>0, <1>1, <1>3, <1>6, <2>1
  <2>3. level_last'[level] = level_last[level]
    BY <1>1, <1>3, <1>6 DEF ArbInv
  <2> QED BY <1>4, <2>2, <2>3
<1> QED BY <1>5, <1>6

\* The queues of the arbiters only ever get shorter.
LEMMA ArbStep == ArbInv /\ [ArbiterNext]_arbiterVars => ArbInv'
<1> SUFFICES ASSUME ArbInv, [ArbiterNext]_arbiterVars PROVE ArbInv'
  OBVIOUS
<1>0. ASSUME NEW input \in [Inputs -> Seq(Levels)], NEW i \in Waiting(input)
      PROVE  Popped(input, i) \in [Inputs -> Seq(Levels)] /\ i \in Inputs
  <2>1. i \in Inputs /\ input[i] \in Seq(Levels) /\ input[i] # <<>>
    BY DEF Waiting
  <2>2. Tail(input[i]) \in Seq(Levels)
    BY <2>1
  <2> QED BY <2>1, <2>2 DEF Popped
<1>1. CASE QoSRRArbitration
  <2>1. QosGrant \in Waiting(qos_input)
    BY <1>1, QosGranted DEF QoSRRArbitration
  <2> QED BY <1>0, <1>1, <2>1 DEF QoSRRArbitration, levelVars, ArbInv
<1>2. CASE QoSRRPrioLevelArbitration
  <2>1. PICK l \in Levels :
          /\ AtLevel(l) # {}
          /\ level_input' = Popped(level_input, Turn(l))
          /\ level_last' = [level_last EXCEPT ![l] = Turn(l)]
    BY <1>2 DEF QoSRRPrioLevelArbitration, LevelGranted
  <2>2. Turn(l) \in Waiting(level_input)
    BY <2>1, TurnGranted DEF AtLevel
  <2>3. level_input' \in [Inputs -> Seq(Levels)] /\ Turn(l) \in Inputs
    BY <1>0, <2>1, <2>2 DEF ArbInv
  <2>4. qos_input' = qos_input /\ qos_last' = qos_last
    BY <1>2 DEF QoSRRPrioLevelArbitration, qosVars
  <2> QED BY <2>1, <2>3, <2>4 DEF ArbInv
<1>3. CASE UNCHANGED arbiterVars
  BY <1>3 DEF arbiterVars, qosVars, levelVars, ArbInv
<1> QED BY <1>1, <1>2, <1>3 DEF ArbiterNext

-----------------------------------------------------------------------------
(* The programs, each with the others beside it                            *)

\* Each program starts with its queues as the other two leave them.
LEMMA ProgramsStart == ProgramsInit => AbInv /\ ModInv /\ ArbInv
<1> SUFFICES ASSUME ProgramsInit PROVE AbInv /\ ModInv /\ ArbInv
  OBVIOUS
<1>1. ArbiterInit /\ Ab!Init /\ Modules!Init
  BY DEF ProgramsInit
<1>2. AbInv
  <2>1. /\ val = 0 /\ m_queue = <<>> /\ printed = 0 /\ now = 0
        /\ torun_ab = {"initialize"}
    BY <1>1 DEF Ab!Init
  <2>2. InOrder(1, 0) = <<>>
    BY DEF InOrder
  <2> QED BY <2>1, <2>2 DEF AbInv
<1>3. ModInv
  BY <1>1 DEF Modules!Init, Modules!Fifo!Init, ModInv, RunsInv, WriterInv, ReaderInv,
              SignalInv, Edge0
<1>4. ArbInv
  <2>1. N - 1 \in Inputs
    BY TestPlatformAssumption DEF Inputs
  <2>2. UNION {[1 .. n -> Levels] : n \in 0 .. MaxLen} \subseteq Seq(Levels)
    <3> SUFFICES ASSUME NEW n \in 0 .. MaxLen, NEW q \in [1 .. n -> Levels]
                 PROVE  q \in Seq(Levels)
      OBVIOUS
    <3>1. n \in Nat
      BY TestPlatformAssumption
    <3> QED BY <3>1
  <2>3. qos_input \in [Inputs -> Seq(Levels)] /\ level_input = qos_input
    BY <1>1, <2>2 DEF ArbiterInit, PushPeq
  <2> QED BY <1>1, <2>1, <2>3 DEF ArbiterInit, ArbInv
<1> QED BY <1>2, <1>3, <1>4

\* A step is of one program, and the other two stand still.
LEMMA ProgramsStep ==
  ASSUME [ProgramsNext]_programVars
  PROVE  [Ab!Next]_abVars /\ [Modules!Next]_moduleVars /\ [ArbiterNext]_arbiterVars
BY DEF ProgramsNext, programVars

\* What is counted of ab_communication holds after every step.
LEMMA AbInvariant == ProgramsSpec => []AbInv
<1>1. ProgramsInit => AbInv
  BY ProgramsStart
<1>2. AbInv /\ [ProgramsNext]_programVars => AbInv'
  BY AbStep, ProgramsStep
<1> QED BY <1>1, <1>2, PTL DEF ProgramsSpec

\* The queues and the turns of the arbiters stay what they should be.
LEMMA ArbInvariant == ProgramsSpec => []ArbInv
<1>1. ProgramsInit => ArbInv
  BY ProgramsStart
<1>2. ArbInv /\ [ProgramsNext]_programVars => ArbInv'
  BY ArbStep, ProgramsStep
<1> QED BY <1>1, <1>2, PTL DEF ProgramsSpec

\* Every pop of ab_communication finds a payload and hands back the next one
\* sent, in whatever order src and dst run on a shared edge (dst.h:19-26).
THEOREM PopsAreNext == ProgramsSpec => EveryPopIsNext
<1>1. AbInv /\ [ProgramsNext]_programVars
        => [Ab!dst_entry => printed' = printed + 1]_(Ab!abVars)
  BY AbPop
<1> QED BY <1>1, AbInvariant, PTL DEF ProgramsSpec, EveryPopIsNext, Ab!EveryPopIsNext

\* With room for the numbers of two edges the readers of module_communication get
\* on every edge what was written on the one before, in whatever order the four
\* processes run (inside/main.cpp:16-36, outside/main.cpp:90-93, 108-111).
THEOREM ReadersLagOneEdge == FifoLen > 1 => (ProgramsSpec => []ReadsPreviousEdge)
<1> SUFFICES ASSUME FifoLen > 1 PROVE ProgramsSpec => []ReadsPreviousEdge
  OBVIOUS
<1>1. ProgramsInit => ModInv
  BY ProgramsStart
<1>2. ModInv /\ [ProgramsNext]_programVars => ModInv'
  BY ModStep, ProgramsStep
<1>3. ModInv => ReadsPreviousEdge
  <2> SUFFICES ASSUME ModInv, torun = {}
               PROVE  /\ edge > 0 => wrote = <<TRUE>>
                      /\ edge > 0 => got = IF edge = 1 THEN <<FALSE>>
                                                       ELSE <<TRUE, in_val - 1>>
                      /\ seen = IF edge = 0 THEN 0 ELSE out_val - 2
    BY DEF ReadsPreviousEdge, Modules!ReadsPreviousEdge
  <2>1. edge \in Nat
    BY DEF ModInv, RunsInv
  <2>2. in_val = edge + 100 /\ (edge > 0 => wrote = <<TRUE>>)
    BY DEF ModInv, WriterInv
  <2>3. in_val - 1 = edge + 99
    BY <2>1, <2>2
  <2>4. edge > 0 => got = IF edge = 1 THEN <<FALSE>> ELSE <<TRUE, edge + 99>>
    BY DEF ModInv, ReaderInv
  <2>5. seen = IF edge = 0 THEN 0 ELSE out_val - 2
    BY <2>1 DEF ModInv, SignalInv
  <2> QED BY <2>2, <2>3, <2>4, <2>5
<1> QED BY <1>1, <1>2, <1>3, PTL DEF ProgramsSpec

\* Every grant of the first arbiter is of the highest QoS in front and, within
\* it, of the input whose turn it is: the one key never lets the turn outweigh
\* the QoS (main.cpp:143-160).
THEOREM QosGoesFirst == ProgramsSpec => QosThenTurn
<1>1. ASSUME ArbInv, ArbiterNext, NEW i \in Waiting(qos_input), qos_input'[i] # qos_input[i],
             NEW j \in Waiting(qos_input) \ {i}
      PROVE  \/ Head(qos_input[i]) > Head(qos_input[j])
             \/ /\ Head(qos_input[i]) = Head(qos_input[j])
                /\ Distance(qos_last, i) < Distance(qos_last, j)
  <2>1. QoSRRArbitration
    BY <1>1 DEF ArbiterNext, QoSRRPrioLevelArbitration, qosVars
  <2> QED BY <1>1, <2>1, QosTurn
<1>2. ArbInv /\ [ProgramsNext]_programVars
        => [\A i \in Waiting(qos_input) : qos_input'[i] # qos_input[i] =>
              \A j \in Waiting(qos_input) \ {i} :
                LET before(k) == Distance(qos_last, k)
                IN  \/ Head(qos_input[i]) > Head(qos_input[j])
                    \/ Head(qos_input[i]) = Head(qos_input[j]) /\ before(i) < before(j)]_arbiterVars
  BY <1>1, ProgramsStep
<1> QED BY <1>2, ArbInvariant, PTL DEF ProgramsSpec, QosThenTurn

\* No grant of the second arbiter passes a higher level, and every grant of a
\* level brings the inputs that wait at it closer to their turn
\* (main.cpp:203-222).
THEOREM LevelGoesFirst == ProgramsSpec => LevelThenTurn
<1>1. ASSUME ArbInv, ArbiterNext, NEW i \in Waiting(level_input),
             NEW j \in Waiting(level_input), level_input'[i] # level_input[i], i # j,
             NEW level, level = Head(level_input[j])
      PROVE  \/ /\ Head(level_input[i]) = level
                /\ Distance(level_last'[level], j) < Distance(level_last[level], j)
             \/ /\ Head(level_input[i]) > level
                /\ Distance(level_last'[level], j) = Distance(level_last[level], j)
  <2>1. QoSRRPrioLevelArbitration
    BY <1>1 DEF ArbiterNext, QoSRRArbitration, levelVars
  <2> QED BY <1>1, <2>1, LevelTurn
<1>2. ArbInv /\ [ProgramsNext]_programVars
        => [\A i, j \in Waiting(level_input) :
              level_input'[i] # level_input[i] /\ i # j =>
                LET level == Head(level_input[j])
                    before == Distance(level_last[level], j)
                    after == Distance(level_last'[level], j)
                IN  \/ Head(level_input[i]) = level /\ after < before
                    \/ Head(level_input[i]) > level /\ after = before]_arbiterVars
  BY <1>1, ProgramsStep
<1> QED BY <1>2, ArbInvariant, PTL DEF ProgramsSpec, LevelThenTurn
=============================================================================
