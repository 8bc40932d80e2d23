------------------------------- MODULE MmPool -------------------------------
(***************************************************************************)
(* The memory manager mm of tlm_extension/include/utilities.h: a pool of   *)
(* payloads on one doubly linked chain of access nodes.  free_list points  *)
(* into the chain: the nodes from it on hold free payloads; the nodes      *)
(* before it are spare, the nearest one being empties.  Nodes are numbered *)
(* in the order they were made, and Null is the null pointer.              *)
(***************************************************************************)
EXTENDS Naturals, Sequences

CONSTANT MaxPayloads  \* bound: payloads made by new gp_t(this)

ASSUME PoolAssumption == MaxPayloads \in Nat

Null == 0
Payloads == 1 .. MaxPayloads

VARIABLES free_list, empties,  \* access*
          node,                \* the access nodes, [trans, next, prev]
          created,             \* payloads made
          held                 \* payloads with the users of the pool

poolVars == <<free_list, empties, node, created>>
vars == <<poolVars, held>>

Init == /\ free_list = Null /\ empties = Null
        /\ node = <<>>
        /\ created = 0
        /\ held = {}

\* allocate, when free_list is not null.
Pop == /\ empties' = free_list
       /\ free_list' = node[free_list].next
       /\ UNCHANGED node

\* allocate() returning p.
allocate(p) ==
  IF free_list # Null
  THEN p = node[free_list].trans /\ Pop /\ UNCHANGED created
  ELSE /\ p = created + 1
       /\ created' = p
       /\ UNCHANGED <<free_list, empties, node>>

\* Mutant of NewNode: the old first node does not point back.
NewNodeUnlinked == Append(node, [trans |-> Null, next |-> free_list, prev |-> Null])

\* free(), when empties is null: a new node goes in front of the chain.
NewNode ==
  LET n == Len(node) + 1
  IN  Append([m \in DOMAIN node |->
                IF m = free_list THEN [node[m] EXCEPT !.prev = n] ELSE node[m]],
             [trans |-> Null, next |-> free_list, prev |-> Null])

\* Mutant of free: the payload is stored in new nodes only.
FreeUnstored(p) ==
  LET nodes == IF empties = Null THEN NewNode ELSE node
      front == IF empties = Null THEN Len(nodes) ELSE empties
  IN  /\ free_list' = front
      /\ node' = IF empties = Null THEN [nodes EXCEPT ![front].trans = p] ELSE node
      /\ empties' = nodes[front].prev
      /\ UNCHANGED created

free(p) ==
  LET nodes == IF empties = Null THEN NewNode ELSE node
      front == IF empties = Null THEN Len(nodes) ELSE empties
  IN  /\ free_list' = front
      /\ node' = [nodes EXCEPT ![front].trans = p]
      /\ empties' = nodes[front].prev
      /\ UNCHANGED created

-----------------------------------------------------------------------------
\* Forward and backward pointers agree, and the two entry points are neighbours
\* on the chain, so no node has two others before it or behind it however
\* allocate and free are interleaved (utilities.h:43-72).
ChainIntact ==
  /\ \A n \in DOMAIN node :
       /\ node[n].next # Null => node[node[n].next].prev = n
       /\ node[n].prev # Null => node[node[n].prev].next = n
  /\ free_list # Null => node[free_list].prev = empties
  /\ empties # Null => node[empties].next = free_list

\* The payloads met on the way from free_list, last freed first.
FreePayloads ==
  LET from[k \in 0 .. Len(node)] ==    \* the k-th node from free_list
        IF k = 0 THEN free_list
        ELSE IF from[k - 1] = Null THEN Null ELSE node[from[k - 1]].next
      hits == {k \in 0 .. Len(node) : from[k] # Null}
  IN  [k \in {h + 1 : h \in hits} |-> node[from[k - 1]].trans]

Pool == INSTANCE PayloadStack WITH stack <- FreePayloads

\* The pool is a stack of free payloads: nothing is handed out twice, nothing
\* freed is lost, and a new payload is made only when none is free.
ImplementsStack == Pool!Spec
=============================================================================
