-------------------------------- MODULE Accl --------------------------------
(***************************************************************************)
(* srv_cpu/accl: the accelerator that splits a scatter-gather command (sg) *)
(* into stripes, stripes into storage units (su), sus into read            *)
(* transactions (rdtxn) and those into data beats (dat), K of each, with   *)
(* ids drawn from one pool per level; beats come back after random delays  *)
(* and their return frees the ids above them.                              *)
(*                                                                         *)
(* The five levels of the source (m_sg_pool, m_stripe_pool, ...) are the   *)
(* indices 1 .. 5 of functions here.  SC_METHOD mth_entry runs once per    *)
(* clock edge, so one action is one edge: its calls are applied in order   *)
(* to a record of the state, and the clock then advances.                  *)
(***************************************************************************)
EXTENDS Naturals, Sequences, FiniteSets, PeqOps

CONSTANTS K,         \* m_k_size (4)
          SgNum,     \* m_sg_num (3)
          PoolSize,  \* m_sg_size, m_stripe_size, ... (10, 60, 240, 1000, 5000)
          Delays     \* the values rand() % 100 takes

SG == 1
STRIPE == 2
SU == 3
RDTXN == 4
DAT == 5
Levels == SG .. DAT

ASSUME AcclAssumption ==
  /\ K \in Nat \ {0} /\ SgNum \in Nat
  /\ PoolSize \in [Levels -> Nat \ {0}] /\ SgNum <= PoolSize[SG]
  /\ Delays \subseteq Nat /\ Delays # {}

VARIABLES
  m_sg_num,   \* sgs still to split
  pool,       \* pool[l]: free ids of level l, first to be used first
  split,      \* split[l]: ids of level l waiting to be split (2 .. 4)
  cnt,        \* cnt[l]: ids of level l already drawn for the parent in front
  parent,     \* parent[l]: the parent of every id of level l in use (2 .. 5)
  ctx,        \* ctx[l]: children returned so far, per id of level l (1 .. 4)
  m_peq,      \* delayed beats
  m_peq_que   \* beats that came back

vars == <<m_sg_num, pool, split, cnt, parent, ctx, m_peq, m_peq_que>>

Ids(l) == 0 .. PoolSize[l] - 1
Empty == <<>>
Elems(q) == {q[i] : i \in DOMAIN q}
Put(f, S, v) == [y \in DOMAIN f \cup S |-> IF y \in S THEN v ELSE f[y]]
Erase(f, x) == [y \in DOMAIN f \ {x} |-> f[y]]

Init == /\ m_sg_num = SgNum
        /\ pool = [l \in Levels |-> [i \in 1 .. PoolSize[l] |-> i - 1]]
        /\ split = [l \in STRIPE .. RDTXN |-> <<>>]
        /\ cnt = [l \in STRIPE .. DAT |-> 0]
        /\ parent = [l \in STRIPE .. DAT |-> Empty]
        /\ ctx = [l \in SG .. RDTXN |-> Empty]
        /\ m_peq = <<>>
        /\ m_peq_que = <<>>

-----------------------------------------------------------------------------
\* The loop the four split functions share: children of level l are drawn for
\* parent p until it has K of them or the pool runs dry, in which case cnt
\* remembers how far it got.
Drawn(s, l) ==
  LET room == K - s.cnt[l]
      have == Len(s.pool[l])
  IN  SubSeq(s.pool[l], 1, IF room <= have THEN room ELSE have)
Completes(s, l) == s.cnt[l] + Len(Drawn(s, l)) = K
\* Mutants of the draw: the count is reset also when the pool ran dry; the ids
\* stay in the pool.
DrawForgets(s, l, p) ==
  LET new == Drawn(s, l)
  IN  [s EXCEPT
        !.pool[l] = SubSeq(@, Len(new) + 1, Len(@)),
        !.cnt[l] = 0,
        !.parent[l] = Put(@, Elems(new), p)]
DrawNoPop(s, l, p) ==
  LET new == Drawn(s, l)
  IN  [s EXCEPT
        !.cnt[l] = IF Completes(s, l) THEN 0 ELSE @ + Len(new),
        !.parent[l] = Put(@, Elems(new), p)]
Draw(s, l, p) ==
  LET new == Drawn(s, l)
  IN  [s EXCEPT
        !.pool[l] = SubSeq(@, Len(new) + 1, Len(@)),
        !.cnt[l] = IF Completes(s, l) THEN 0 ELSE @ + Len(new),
        !.parent[l] = Put(@, Elems(new), p)]

split_sg(s) ==
  IF s.sg_num = 0 THEN s
  ELSE LET new  == Drawn(s, STRIPE)
           done == Completes(s, STRIPE)
       IN  [Draw(s, STRIPE, Head(s.pool[SG])) EXCEPT
             !.split[STRIPE] = @ \o new,
             !.pool[SG] = IF done THEN Tail(@) ELSE @,
             !.sg_num = IF done THEN @ - 1 ELSE @]

\* Mutant of split_stripe and split_su: the parent is never popped.
SplitTwice(s, l) ==
  IF s.split[l] = <<>> THEN s
  ELSE [Draw(s, l + 1, Head(s.split[l])) EXCEPT
         !.split[l + 1] = @ \o Drawn(s, l + 1)]

\* split_stripe (l = STRIPE) and split_su (l = SU).
SplitInto(s, l) ==
  IF s.split[l] = <<>> THEN s
  ELSE [Draw(s, l + 1, Head(s.split[l])) EXCEPT
         !.split[l + 1] = @ \o Drawn(s, l + 1),
         !.split[l] = IF Completes(s, l + 1) THEN Tail(@) ELSE @]

\* Each beat drawn goes straight to the peq, delayed by d of it.
BeatsDelayed(q, new, d) ==
  LET after[i \in 0 .. Len(new)] ==
        IF i = 0 THEN q ELSE PeqDelay(after[i - 1], new[i], d[new[i]])
  IN  after[Len(new)]

split_rdtxn(s, d) ==
  IF s.split[RDTXN] = <<>> THEN s
  ELSE [Draw(s, DAT, Head(s.split[RDTXN])) EXCEPT
         !.split[RDTXN] = IF Completes(s, DAT) THEN Tail(@) ELSE @,
         !.peq = BeatsDelayed(@, Drawn(s, DAT), d)]

mth_get_peq(s) == [s EXCEPT !.peq = PeqLater(@),
                            !.peq_que = @ \o PeqReady(s.peq)]

\* An id of level l goes back to its pool and its parent counts it.  The source
\* tests some maps with `m_stripe_ctx.find(id) == m_su_ctx.end()', an end of
\* another map (accl.cpp:262, 285): an existing entry is never such an end, and
\* a new one gets 1 by either branch, as operator[] creates it at 0.
Return(s, l, id) ==
  LET p == s.parent[l][id]
  IN  [s EXCEPT
        !.pool[l] = Append(@, id),
        !.parent[l] = Erase(@, id),
        !.ctx[l - 1] = Put(@, {p}, IF p \in DOMAIN @ THEN @[p] + 1 ELSE 1)]

\* An id that has all its children back stops counting and returns in turn.
Complete(s, l, id) == s.ctx[l][id] = K
Close(s, l, id) == Return([s EXCEPT !.ctx[l] = Erase(@, id)], l, id)

\* Mutant of reclaim_sg: the id is not given back.
SgLost(s, id) ==
  IF ~Complete(s, SG, id) THEN s
  ELSE [s EXCEPT !.ctx[SG] = Erase(@, id)]

reclaim_sg(s, id) ==
  IF ~Complete(s, SG, id) THEN s
  ELSE [s EXCEPT !.pool[SG] = Append(@, id), !.ctx[SG] = Erase(@, id)]
reclaim_stripe(s, id) ==
  IF ~Complete(s, STRIPE, id) THEN s
  ELSE reclaim_sg(Close(s, STRIPE, id), s.parent[STRIPE][id])
reclaim_su(s, id) ==
  IF ~Complete(s, SU, id) THEN s
  ELSE reclaim_stripe(Close(s, SU, id), s.parent[SU][id])

\* One returned beat per cycle, and its transaction when that was the last.
reclaim_rdtxn(s) ==
  IF s.peq_que = <<>> THEN s
  ELSE LET dat == Head(s.peq_que)
           txn == s.parent[DAT][dat]
           s1  == Return([s EXCEPT !.peq_que = Tail(@)], DAT, dat)
       IN  IF ~Complete(s1, RDTXN, txn) THEN s1
           ELSE reclaim_su(Close(s1, RDTXN, txn), s.parent[RDTXN][txn])

-----------------------------------------------------------------------------
BeatsDrawn(s) == IF s.split[RDTXN] = <<>> THEN <<>> ELSE Drawn(s, DAT)
Now == [sg_num |-> m_sg_num, pool |-> pool, split |-> split, cnt |-> cnt,
        parent |-> parent, ctx |-> ctx, peq |-> m_peq, peq_que |-> m_peq_que]

Becomes(s) == /\ m_sg_num' = s.sg_num /\ pool' = s.pool
              /\ split' = s.split /\ cnt' = s.cnt
              /\ parent' = s.parent /\ ctx' = s.ctx
              /\ m_peq' = PeqAge(s.peq) /\ m_peq_que' = s.peq_que

\* The calls in their order; each singleton names the state one call leaves.
mth_entry ==
  \E s1 \in {split_sg(Now)} :
  \E s2 \in {SplitInto(s1, STRIPE)} :
  \E s3 \in {SplitInto(s2, SU)} :
  \E d \in [Elems(BeatsDrawn(s3)) -> Delays] :
  \E s4 \in {split_rdtxn(s3, d)} :
  \E s5 \in {mth_get_peq(s4)} :
    Becomes(reclaim_rdtxn(s5))

Spec == Init /\ [][mth_entry]_vars /\ WF_vars(mth_entry)

-----------------------------------------------------------------------------
Distinct(q) == \A i, j \in DOMAIN q : q[i] = q[j] => i = j
Children(l, p) == {x \in DOMAIN parent[l + 1] : parent[l + 1][x] = p}
Beats == PeqVals(m_peq) \o m_peq_que

TypeOK ==
  /\ m_sg_num \in 0 .. SgNum
  /\ pool \in [Levels -> UNION {Seq(Ids(l)) : l \in Levels}]
  /\ split \in [STRIPE .. RDTXN -> UNION {Seq(Ids(l)) : l \in Levels}]
  /\ cnt \in [STRIPE .. DAT -> 0 .. K - 1]
  /\ \A l \in STRIPE .. DAT : parent[l] \in [DOMAIN parent[l] -> Ids(l - 1)]
  /\ \A l \in SG .. RDTXN : ctx[l] \in [DOMAIN ctx[l] -> 1 .. K - 1]

\* Every id is either free or in use, never both and never twice: no id is
\* handed out while it names a live stripe, su, transaction or beat, and none
\* leaks when its parent is reclaimed in the same call (accl.cpp:209-310).  For
\* every sg still to be split there is a free sg id, so that split_sg may take
\* m_sg_pool.front() without looking (accl.cpp:74).
PoolsPartition ==
  /\ \A l \in STRIPE .. DAT :
       /\ Distinct(pool[l])
       /\ Elems(pool[l]) \cap DOMAIN parent[l] = {}
       /\ Elems(pool[l]) \cup DOMAIN parent[l] = Ids(l)
  /\ m_sg_num <= Len(pool[SG])

\* Nothing refers to a free id: what a split queue or the delay queue holds is
\* in use and held once, a child never outlives its parent, and counts are
\* kept for live ids only, so every lookup of a parent finds the right one.
NoDanglingIds ==
  /\ \A l \in STRIPE .. RDTXN :
       /\ Distinct(split[l]) /\ Elems(split[l]) \subseteq DOMAIN parent[l]
       /\ \A x \in DOMAIN parent[l + 1] : parent[l + 1][x] \in DOMAIN parent[l]
       /\ DOMAIN ctx[l] \subseteq DOMAIN parent[l]
  /\ Distinct(Beats) /\ Elems(Beats) = DOMAIN parent[DAT]

\* The children an id of level l has still to be given: those missing from
\* the one in front of the queue, all K for those behind it.
Owed(l, p) ==
  LET q == IF l = SG THEN SubSeq(pool[SG], 1, m_sg_num) ELSE split[l]
  IN  IF q # <<>> /\ Head(q) = p THEN K - cnt[l + 1]
      ELSE IF p \in Elems(q) THEN K ELSE 0

\* The books balance at every node of every live tree, whatever the order the
\* beats come back in and however the pools ran dry on the way: children in
\* use, children returned and children not yet drawn are K.  An id is hence
\* reclaimed exactly when its whole subtree has been, and a parent is never
\* reclaimed while a child still points to it.
TreeBalanced ==
  \A l \in SG .. RDTXN :
    \A p \in (IF l = SG
              THEN {parent[STRIPE][x] : x \in DOMAIN parent[STRIPE]}
                     \cup DOMAIN ctx[SG]
              ELSE DOMAIN parent[l]) :
      Cardinality(Children(l, p)) + Owed(l, p)
        + (IF p \in DOMAIN ctx[l] THEN ctx[l][p] ELSE 0) = K

Idle == /\ m_sg_num = 0
        /\ \A l \in Levels : Elems(pool[l]) = Ids(l) /\ Distinct(pool[l])
        /\ \A l \in STRIPE .. DAT : cnt[l] = 0
        /\ \A l \in SG .. RDTXN : ctx[l] = Empty

\* Every command runs to its end: one beat per cycle, from pools of fewer ids
\* than a parent has children at some levels and just as many at others, gets
\* all the sgs split, returned and reclaimed, with every id back in its pool.
AllReclaimed == <>[]Idle
=============================================================================
