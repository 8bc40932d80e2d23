---------------------------- MODULE Fifos_proofs ----------------------------
(***************************************************************************)
(* Proofs about both FIFO classes for every capacity and every set of      *)
(* values.  They share the ring, so the facts about it are stated for any  *)
(* slots, read index and free count; on top of them stand one inductive    *)
(* invariant for each class and the two refinements.                       *)
(***************************************************************************)
EXTENDS MCFifos, SequenceTheorems, TLAPS

\* The values from slot ri on, when free slots are free.
Contents(vec, ri, free) ==
  [i \in 1 .. Len0 - free |-> vec[(ri + i - 1) % Len0]]

\* What holds of the slots of either FIFO between two calls.
SlotsAgree(vec, wi, ri, free) ==
  /\ vec \in [Slots -> Values] /\ ri \in Slots /\ wi \in Slots
  /\ free \in 0 .. Len0
  /\ wi = (ri + (Len0 - free)) % Len0

\* The slots with v in slot i, and the slot behind slot i.
Slotted(vec, i, v) == [vec EXCEPT ![i] = v]
Behind(i) == (i + 1) % Len0

\* An index moves on by less than one round.
LEMMA WrapOnce ==
  ASSUME NEW a \in 0 .. 2 * Len0 - 1
  PROVE  a % Len0 = IF a < Len0 THEN a ELSE a - Len0
<1>1. Len0 \in Nat \ {0} /\ a \in Nat
  BY RingAssumption
<1>2. CASE a < Len0
  BY <1>1, <1>2
<1>3. CASE ~(a < Len0)
  <2>1. a - Len0 \in Nat /\ a - Len0 < Len0 /\ a = (a - Len0) + Len0
    BY <1>1, <1>3
  <2> DEFINE b == a - Len0
  <2>2. (b + Len0) % Len0 = b
    BY <1>1, <2>1
  <2> QED BY <1>3, <2>1, <2>2
<1> QED BY <1>2, <1>3

\* Where the i-th of the contents lies.
LEMMA Index ==
  ASSUME NEW ri \in Slots, NEW i \in 1 .. Len0
  PROVE  /\ (ri + i - 1) % Len0 = IF ri + i - 1 < Len0 THEN ri + i - 1
                                  ELSE ri + i - 1 - Len0
         /\ (ri + i - 1) % Len0 \in Slots
<1>1. Len0 \in Nat \ {0} /\ ri \in Nat /\ ri < Len0
  BY RingAssumption DEF Slots
<1>2. ri + i - 1 \in 0 .. 2 * Len0 - 1
  BY <1>1
<1>3. (ri + i - 1) % Len0 = IF ri + i - 1 < Len0 THEN ri + i - 1
                            ELSE ri + i - 1 - Len0
  BY <1>1, <1>2, WrapOnce
<1> QED BY <1>1, <1>3 DEF Slots

\* The contents are a sequence of values.
LEMMA ContentsType ==
  ASSUME NEW vec \in [Slots -> Values], NEW ri \in Slots,
         NEW free \in 0 .. Len0
  PROVE  /\ Contents(vec, ri, free) \in Seq(Values)
         /\ Len(Contents(vec, ri, free)) = Len0 - free
         /\ \A i \in 1 .. Len0 - free :
              Contents(vec, ri, free)[i] = vec[(ri + i - 1) % Len0]
<1>1. Len0 - free \in Nat
  BY RingAssumption
<1>2. \A i \in 1 .. Len0 - free : vec[(ri + i - 1) % Len0] \in Values
  <2> SUFFICES ASSUME NEW i \in 1 .. Len0 - free
               PROVE  (ri + i - 1) % Len0 \in Slots
    OBVIOUS
  <2>1. ri + i - 1 \in Int
    BY DEF Slots
  <2> QED BY <2>1, RingAssumption DEF Slots
<1> QED BY <1>1, <1>2 DEF Contents

\* A store puts a value behind the contents.
LEMMA StoreAppends ==
  ASSUME NEW vec, NEW wi, NEW ri, NEW free \in 1 .. Len0,
         SlotsAgree(vec, wi, ri, free), NEW v \in Values
  PROVE  /\ SlotsAgree(Slotted(vec, wi, v), Behind(wi), ri, free - 1)
         /\ Contents(Slotted(vec, wi, v), ri, free - 1)
              = Append(Contents(vec, ri, free), v)
<1> DEFINE new == [vec EXCEPT ![wi] = v]
           n == Len0 - free
<1>0. /\ vec \in [Slots -> Values] /\ ri \in Slots /\ wi \in Slots
      /\ free \in 0 .. Len0 /\ wi = (ri + (Len0 - free)) % Len0
  BY DEF SlotsAgree
<1>1. /\ free \in Nat /\ wi \in Nat
      /\ Len0 \in Nat \ {0} /\ n \in Nat /\ n + 1 <= Len0 /\ free - 1 \in 0 .. Len0
      /\ ri \in Nat /\ ri < Len0
  BY <1>0, RingAssumption DEF Slots
<1>2. \A i \in 1 .. n + 1 :
        (ri + i - 1) % Len0 = IF ri + i - 1 < Len0 THEN ri + i - 1
                              ELSE ri + i - 1 - Len0
  BY <1>0, <1>1, Index
<1>3. wi = (ri + (n + 1) - 1) % Len0 /\ wi \in Slots
  BY <1>0, <1>1
<1>4. new \in [Slots -> Values]
  BY <1>0
<1>5. \A i \in 1 .. n : (ri + i - 1) % Len0 # wi
  BY <1>1, <1>2, <1>3
<1>6. /\ Contents(new, ri, free - 1) \in Seq(Values)
      /\ Len(Contents(new, ri, free - 1)) = n + 1
      /\ \A i \in 1 .. n + 1 :
           Contents(new, ri, free - 1)[i] = new[(ri + i - 1) % Len0]
  <2> DEFINE f == free - 1
  <2>1. Len0 - f = n + 1 /\ f \in 0 .. Len0
    BY <1>1
  <2> HIDE DEF new, f
  <2>2. /\ Contents(new, ri, f) \in Seq(Values)
        /\ Len(Contents(new, ri, f)) = Len0 - f
        /\ \A i \in 1 .. Len0 - f :
             Contents(new, ri, f)[i] = new[(ri + i - 1) % Len0]
    BY <1>0, <1>4, <2>1, ContentsType
  <2> QED BY <2>1, <2>2 DEF f
<1>7. /\ Contents(vec, ri, free) \in Seq(Values)
      /\ Len(Contents(vec, ri, free)) = n
      /\ \A i \in 1 .. n : Contents(vec, ri, free)[i] = vec[(ri + i - 1) % Len0]
  BY <1>0, ContentsType
<1>8. /\ Append(Contents(vec, ri, free), v) \in Seq(Values)
      /\ Len(Append(Contents(vec, ri, free), v)) = n + 1
      /\ \A i \in 1 .. n + 1 : Append(Contents(vec, ri, free), v)[i]
           = IF i = n + 1 THEN v ELSE Contents(vec, ri, free)[i]
  <2> DEFINE c == Contents(vec, ri, free)
  <2>1. c \in Seq(Values) /\ Len(c) = n /\ n \in Nat
    BY <1>1, <1>7
  <2> HIDE DEF c, n
  <2> QED BY <2>1, AppendProperties DEF c
<1>9. \A i \in 1 .. n + 1 :
        new[(ri + i - 1) % Len0] = IF i = n + 1 THEN v ELSE vec[(ri + i - 1) % Len0]
  <2> SUFFICES ASSUME NEW i \in 1 .. n + 1
               PROVE  new[(ri + i - 1) % Len0]
                        = IF i = n + 1 THEN v ELSE vec[(ri + i - 1) % Len0]
    OBVIOUS
  <2>1. (ri + i - 1) % Len0 \in Slots
    BY <1>1, <1>2 DEF Slots
  <2>2. CASE i = n + 1
    <3>1. (ri + i - 1) % Len0 = wi
      BY <1>3, <2>2
    <3> QED BY <1>0, <1>3, <2>2, <3>1
  <2>3. CASE i # n + 1
    <3>0. i \in 1 .. n
      BY <1>1, <2>3
    <3>1. (ri + i - 1) % Len0 # wi
      BY <1>5, <3>0
    <3>2. new[(ri + i - 1) % Len0] = vec[(ri + i - 1) % Len0]
      BY <1>0, <2>1, <3>1
    <3> QED BY <2>3, <3>2
  <2> QED BY <2>2, <2>3
<1>10. Contents(new, ri, free - 1) = Append(Contents(vec, ri, free), v)
  <2>1. \A i \in 1 .. n + 1 : Contents(new, ri, free - 1)[i]
                               = Append(Contents(vec, ri, free), v)[i]
    <3> SUFFICES ASSUME NEW i \in 1 .. n + 1
                 PROVE  Contents(new, ri, free - 1)[i]
                          = Append(Contents(vec, ri, free), v)[i]
      OBVIOUS
    <3>1. Contents(new, ri, free - 1)[i]
            = IF i = n + 1 THEN v ELSE vec[(ri + i - 1) % Len0]
      BY <1>6, <1>9
    <3>2. i # n + 1 => i \in 1 .. n
      BY <1>1
    <3> HIDE DEF new
    <3> QED BY <1>7, <1>8, <3>1, <3>2
  <2> DEFINE a == Contents(new, ri, free - 1)
             b == Append(Contents(vec, ri, free), v)
  <2>2. a \in Seq(Values) /\ b \in Seq(Values) /\ Len(a) = n + 1 /\ Len(b) = n + 1
        /\ \A i \in 1 .. n + 1 : a[i] = b[i]
    BY <1>6, <1>8, <2>1
  <2> HIDE DEF a, b, n
  <2>3. a = b
    BY <2>2, SeqEqual
  <2> QED BY <2>3 DEF a, b
<1>11. (wi + 1) % Len0 = (ri + (Len0 - (free - 1))) % Len0
  <2>1. wi = IF ri + n < Len0 THEN ri + n ELSE ri + n - Len0
    BY <1>1, <1>2, <1>3
  <2>2. /\ ri + (Len0 - (free - 1)) = ri + n + 1 /\ ri + n + 1 \in 0 .. 2 * Len0 - 1
        /\ wi + 1 \in 0 .. 2 * Len0 - 1
    BY <1>1, <2>1
  <2>3. /\ (ri + n + 1) % Len0 = IF ri + n + 1 < Len0 THEN ri + n + 1
                                 ELSE ri + n + 1 - Len0
        /\ (wi + 1) % Len0 = IF wi + 1 < Len0 THEN wi + 1 ELSE wi + 1 - Len0
    BY <1>1, <2>1, <2>2, WrapOnce
  <2> QED BY <1>1, <2>1, <2>2, <2>3
<1>12. (wi + 1) % Len0 \in Slots
  BY <1>1, <1>3 DEF Slots
<1> QED BY <1>0, <1>1, <1>4, <1>10, <1>11, <1>12
       DEF SlotsAgree, Slotted, Behind

\* A take removes the first of the contents.
LEMMA TakeRemoves ==
  ASSUME NEW vec, NEW wi, NEW ri, NEW free \in 0 .. Len0 - 1,
         SlotsAgree(vec, wi, ri, free)
  PROVE  /\ SlotsAgree(Slotted(vec, ri, 0), wi, Behind(ri), free + 1)
         /\ Contents(vec, ri, free) # <<>>
         /\ Head(Contents(vec, ri, free)) = vec[ri]
         /\ Contents(Slotted(vec, ri, 0), Behind(ri), free + 1)
              = Tail(Contents(vec, ri, free))
<1> DEFINE new == [vec EXCEPT ![ri] = 0]
           n == Len0 - free
           rj == (ri + 1) % Len0
<1>0. /\ vec \in [Slots -> Values] /\ ri \in Slots /\ wi \in Slots
      /\ free \in 0 .. Len0 /\ wi = (ri + (Len0 - free)) % Len0
  BY DEF SlotsAgree
<1>1. /\ free \in Nat /\ wi \in Nat
      /\ Len0 \in Nat \ {0} /\ n \in Nat \ {0} /\ n <= Len0
      /\ free + 1 \in 0 .. Len0 /\ Len0 - (free + 1) = n - 1
      /\ ri \in Nat /\ ri < Len0 /\ 0 \in Values
  BY <1>0, RingAssumption DEF Slots
<1>2. \A i \in 1 .. n :
        (ri + i - 1) % Len0 = IF ri + i - 1 < Len0 THEN ri + i - 1
                              ELSE ri + i - 1 - Len0
  BY <1>0, <1>1, Index
<1>3. rj = (IF ri + 1 < Len0 THEN ri + 1 ELSE 0) /\ rj \in Slots
  <2>1. ri + 1 \in 0 .. 2 * Len0 - 1
    BY <1>1
  <2>2. rj = IF ri + 1 < Len0 THEN ri + 1 ELSE ri + 1 - Len0
    BY <1>1, <2>1, WrapOnce
  <2> QED BY <1>1, <2>2 DEF Slots
<1>4. new \in [Slots -> Values]
  BY <1>0, <1>1
<1>5. \A i \in 1 .. n - 1 :
        /\ (rj + i - 1) % Len0 = (ri + (i + 1) - 1) % Len0
        /\ (rj + i - 1) % Len0 # ri /\ (rj + i - 1) % Len0 \in Slots
  <2> SUFFICES ASSUME NEW i \in 1 .. n - 1
               PROVE  /\ (rj + i - 1) % Len0 = (ri + (i + 1) - 1) % Len0
                      /\ (rj + i - 1) % Len0 # ri /\ (rj + i - 1) % Len0 \in Slots
    OBVIOUS
  <2> HIDE DEF rj
  <2>1. rj + i - 1 \in 0 .. 2 * Len0 - 1
    BY <1>1, <1>3
  <2>2. (rj + i - 1) % Len0 = IF rj + i - 1 < Len0 THEN rj + i - 1
                              ELSE rj + i - 1 - Len0
    BY <1>1, <1>3, <2>1, WrapOnce
  <2>3. (ri + (i + 1) - 1) % Len0 = IF ri + (i + 1) - 1 < Len0 THEN ri + (i + 1) - 1
                                    ELSE ri + (i + 1) - 1 - Len0
    BY <1>1, <1>2
  <2> QED BY <1>1, <1>3, <2>2, <2>3 DEF Slots
<1>6. /\ Contents(new, rj, free + 1) \in Seq(Values)
      /\ Len(Contents(new, rj, free + 1)) = n - 1
      /\ \A i \in 1 .. n - 1 :
           Contents(new, rj, free + 1)[i] = new[(rj + i - 1) % Len0]
  <2> DEFINE f == free + 1
  <2>1. Len0 - f = n - 1 /\ f \in 0 .. Len0
    BY <1>1
  <2> HIDE DEF new, rj, f
  <2>2. /\ Contents(new, rj, f) \in Seq(Values)
        /\ Len(Contents(new, rj, f)) = Len0 - f
        /\ \A i \in 1 .. Len0 - f :
             Contents(new, rj, f)[i] = new[(rj + i - 1) % Len0]
    BY <1>3, <1>4, <2>1, ContentsType
  <2> QED BY <2>1, <2>2 DEF f
<1>7. /\ Contents(vec, ri, free) \in Seq(Values)
      /\ Len(Contents(vec, ri, free)) = n
      /\ \A i \in 1 .. n : Contents(vec, ri, free)[i] = vec[(ri + i - 1) % Len0]
  BY <1>0, ContentsType
<1>8. Contents(vec, ri, free) # <<>> /\ Head(Contents(vec, ri, free)) = vec[ri]
  <2>1. (ri + 1 - 1) % Len0 = ri
    BY <1>1, <1>2
  <2> QED BY <1>1, <1>7, <2>1
<1>9. /\ Tail(Contents(vec, ri, free)) \in Seq(Values)
      /\ Len(Tail(Contents(vec, ri, free))) = n - 1
      /\ \A i \in 1 .. n - 1 : Tail(Contents(vec, ri, free))[i]
                                = Contents(vec, ri, free)[i + 1]
  BY <1>7, <1>8, HeadTailProperties
<1>10. \A i \in 1 .. n - 1 : Contents(new, rj, free + 1)[i]
                               = Tail(Contents(vec, ri, free))[i]
  <2> SUFFICES ASSUME NEW i \in 1 .. n - 1
               PROVE  Contents(new, rj, free + 1)[i]
                        = Tail(Contents(vec, ri, free))[i]
    OBVIOUS
  <2>1. new[(rj + i - 1) % Len0] = vec[(rj + i - 1) % Len0]
    BY <1>0, <1>5
  <2>2. vec[(rj + i - 1) % Len0] = vec[(ri + (i + 1) - 1) % Len0]
    BY <1>0, <1>5
  <2>3. i + 1 \in 1 .. n
    BY <1>1
  <2> QED BY <1>6, <1>7, <1>9, <2>1, <2>2, <2>3
<1>11. Contents(new, rj, free + 1) = Tail(Contents(vec, ri, free))
  <2> DEFINE a == Contents(new, rj, free + 1)
             b == Tail(Contents(vec, ri, free))
  <2>1. /\ a \in Seq(Values) /\ b \in Seq(Values)
        /\ Len(a) = n - 1 /\ Len(b) = n - 1
        /\ \A i \in 1 .. n - 1 : a[i] = b[i]
    BY <1>6, <1>9, <1>10
  <2> HIDE DEF a, b, n
  <2>2. a = b
    BY <2>1, SeqEqual
  <2> QED BY <2>2 DEF a, b
<1>12. wi = (rj + (Len0 - (free + 1))) % Len0
  <2> HIDE DEF rj
  <2>1. ri + n \in 0 .. 2 * Len0 - 1 /\ rj + (n - 1) \in 0 .. 2 * Len0 - 1
    BY <1>1, <1>3
  <2>2. /\ (ri + n) % Len0 = IF ri + n < Len0 THEN ri + n ELSE ri + n - Len0
        /\ (rj + (n - 1)) % Len0 = IF rj + (n - 1) < Len0 THEN rj + (n - 1)
                                   ELSE rj + (n - 1) - Len0
    BY <1>1, <1>3, <2>1, WrapOnce
  <2> QED BY <1>0, <1>1, <1>3, <2>2
<1> QED BY <1>0, <1>1, <1>3, <1>4, <1>8, <1>11, <1>12
       DEF SlotsAgree, Slotted, Behind

-----------------------------------------------------------------------------
\* A value put behind a line that is split after its first k.
LEMMA SplitAppend ==
  ASSUME NEW s \in Seq(Values), NEW k \in 0 .. Len(s), NEW v \in Values
  PROVE  /\ SubSeq(Append(s, v), 1, k) = SubSeq(s, 1, k)
         /\ SubSeq(Append(s, v), k + 1, Len(Append(s, v)))
              = Append(SubSeq(s, k + 1, Len(s)), v)
<1> DEFINE t == Append(s, v)
<1>1. /\ Len(s) \in Nat /\ t \in Seq(Values) /\ Len(t) = Len(s) + 1
      /\ \A i \in 1 .. Len(s) : t[i] = s[i]
      /\ t[Len(s) + 1] = v
  BY AppendProperties
<1>2. \A i \in 1 .. Len(s) : s[i] \in Values
  OBVIOUS
<1> HIDE DEF t
<1>3. SubSeq(t, 1, k) = SubSeq(s, 1, k)
  <2>1. /\ SubSeq(t, 1, k) \in Seq(Values) /\ SubSeq(s, 1, k) \in Seq(Values)
        /\ Len(SubSeq(t, 1, k)) = k /\ Len(SubSeq(s, 1, k)) = k
        /\ \A i \in 1 .. k : SubSeq(t, 1, k)[i] = SubSeq(s, 1, k)[i]
    BY <1>1, <1>2
  <2> QED BY <2>1, SeqEqual
<1>4. SubSeq(t, k + 1, Len(t)) = Append(SubSeq(s, k + 1, Len(s)), v)
  <2> DEFINE a == SubSeq(t, k + 1, Len(t))
             r == SubSeq(s, k + 1, Len(s))
  <2>1. /\ a \in Seq(Values) /\ Len(a) = Len(s) - k + 1
        /\ \A i \in 1 .. Len(s) - k + 1 : a[i] = t[k + i]
    BY <1>1, <1>2
  <2>2. /\ r \in Seq(Values) /\ Len(r) = Len(s) - k
        /\ \A i \in 1 .. Len(s) - k : r[i] = s[k + i]
    BY <1>1, <1>2
  <2> HIDE DEF a, r
  <2>3. /\ Append(r, v) \in Seq(Values) /\ Len(Append(r, v)) = Len(s) - k + 1
        /\ \A i \in 1 .. Len(s) - k : Append(r, v)[i] = r[i]
        /\ Append(r, v)[Len(s) - k + 1] = v
    BY <2>2, AppendProperties
  <2>4. \A i \in 1 .. Len(s) - k + 1 : a[i] = Append(r, v)[i]
    <3> SUFFICES ASSUME NEW i \in 1 .. Len(s) - k + 1
                 PROVE  a[i] = Append(r, v)[i]
      OBVIOUS
    <3>1. a[i] = t[k + i]
      BY <2>1
    <3>2. CASE i = Len(s) - k + 1
      BY <1>1, <2>3, <3>1, <3>2
    <3>3. CASE i # Len(s) - k + 1
      <4>1. i \in 1 .. Len(s) - k /\ k + i \in 1 .. Len(s)
        BY <1>1, <3>3
      <4>2. t[k + i] = s[k + i] /\ Append(r, v)[i] = r[i] /\ r[i] = s[k + i]
        BY <1>1, <2>2, <2>3, <4>1
      <4> QED BY <3>1, <4>2
    <3> QED BY <3>2, <3>3
  <2>5. a = Append(r, v)
    BY <2>1, <2>3, <2>4, SeqEqual
  <2> QED BY <2>5 DEF a, r
<1> QED BY <1>3, <1>4 DEF t

\* The first value leaves a line that is split after its first k.
LEMMA SplitTail ==
  ASSUME NEW s \in Seq(Values), NEW k \in 1 .. Len(s)
  PROVE  /\ SubSeq(s, 1, k) # <<>> /\ Head(SubSeq(s, 1, k)) = Head(s)
         /\ SubSeq(Tail(s), 1, k - 1) = Tail(SubSeq(s, 1, k))
         /\ SubSeq(Tail(s), k, Len(Tail(s))) = SubSeq(s, k + 1, Len(s))
<1> DEFINE t == Tail(s)
           a == SubSeq(s, 1, k)
<1>1. /\ Len(s) \in Nat \ {0} /\ s # <<>> /\ t \in Seq(Values) /\ Len(t) = Len(s) - 1
      /\ \A i \in 1 .. Len(s) - 1 : t[i] = s[i + 1]
  BY HeadTailProperties
<1>2. \A i \in 1 .. Len(s) : s[i] \in Values
  OBVIOUS
<1>3. /\ a \in Seq(Values) /\ Len(a) = k
      /\ \A i \in 1 .. k : a[i] = s[i]
  BY <1>1, <1>2
<1> HIDE DEF t, a
<1>4. a # <<>> /\ Head(a) = Head(s)
  BY <1>1, <1>3
<1>5. /\ Tail(a) \in Seq(Values) /\ Len(Tail(a)) = k - 1
      /\ \A i \in 1 .. k - 1 : Tail(a)[i] = a[i + 1]
  BY <1>3, <1>4, HeadTailProperties
<1>6. /\ SubSeq(t, 1, k - 1) \in Seq(Values) /\ Len(SubSeq(t, 1, k - 1)) = k - 1
      /\ \A i \in 1 .. k - 1 : SubSeq(t, 1, k - 1)[i] = t[i]
  BY <1>1
<1>7. SubSeq(t, 1, k - 1) = Tail(a)
  <2>1. \A i \in 1 .. k - 1 : SubSeq(t, 1, k - 1)[i] = Tail(a)[i]
    BY <1>1, <1>3, <1>5, <1>6
  <2> QED BY <1>5, <1>6, <2>1, SeqEqual
<1>8. SubSeq(t, k, Len(t)) = SubSeq(s, k + 1, Len(s))
  <2> DEFINE x == SubSeq(t, k, Len(t))
             y == SubSeq(s, k + 1, Len(s))
  <2>1. /\ x \in Seq(Values) /\ Len(x) = Len(s) - k
        /\ \A i \in 1 .. Len(s) - k : x[i] = t[k + i - 1]
    BY <1>1
  <2>2. /\ y \in Seq(Values) /\ Len(y) = Len(s) - k
        /\ \A i \in 1 .. Len(s) - k : y[i] = s[k + i]
    BY <1>1, <1>2
  <2> HIDE DEF x, y
  <2>3. \A i \in 1 .. Len(s) - k : x[i] = y[i]
    <3> SUFFICES ASSUME NEW i \in 1 .. Len(s) - k PROVE x[i] = y[i]
      OBVIOUS
    <3>1. k + i - 1 \in 1 .. Len(s) - 1 /\ (k + i - 1) + 1 = k + i
      BY <1>1
    <3>2. t[k + i - 1] = s[(k + i - 1) + 1]
      BY <1>1, <3>1
    <3> QED BY <2>1, <2>2, <3>1, <3>2
  <2>4. x = y
    BY <2>1, <2>2, <2>3, SeqEqual
  <2> QED BY <2>4 DEF x, y
<1> QED BY <1>4, <1>7, <1>8 DEF t, a

\* The two parts of a split line make the line.
LEMMA SplitJoin ==
  ASSUME NEW s \in Seq(Values), NEW k \in 0 .. Len(s)
  PROVE  SubSeq(s, 1, k) \o SubSeq(s, k + 1, Len(s)) = s
<1>1. Len(s) \in Nat /\ 1 \in 1 .. Len(s) + 1 /\ k \in 1 - 1 .. Len(s)
      /\ Len(s) \in k .. Len(s)
  OBVIOUS
<1>2. SubSeq(s, 1, k) \o SubSeq(s, k + 1, Len(s)) = SubSeq(s, 1, Len(s))
  BY <1>1, ConcatAdjacentSubSeq
<1> QED BY <1>2, SubSeqFull

-----------------------------------------------------------------------------
RingInv == RingTypeOK /\ IndicesAgree
KernelInv == /\ Kernel!ScTypeOK /\ Kernel!IndicesAgree
             /\ Kernel!CountsAgree /\ Kernel!OnlyWhileNeeded
IInv == RingInv /\ KernelInv

\* Both channels start sound.
LEMMA InitIInv == FifosInit => IInv
<1> SUFFICES ASSUME FifosInit PROVE IInv
  OBVIOUS
<1>1. /\ m_wi = 0 /\ m_ri = 0 /\ m_free = Len0 /\ m_vec \in [Slots -> Values]
      /\ k_wi = 0 /\ k_ri = 0 /\ k_free = Len0 /\ k_vec \in [Slots -> Values]
      /\ m_num_readable = 0 /\ m_num_read = 0 /\ m_num_written = 0
      /\ blocked = <<>> /\ rd_blocked = FALSE /\ runnable = Kernel!Procs
  BY DEF FifosInit, Init, RingInit, Kernel!ScInit, Kernel!RingInit,
         Slots, Kernel!Slots
<1>2. 0 \in Slots /\ (0 + (Len0 - Len0)) % Len0 = 0
  BY RingAssumption DEF Slots
<1>3. RingInv
  BY <1>1, <1>2, RingAssumption DEF RingInv, RingTypeOK, IndicesAgree
<1>4. Kernel!ScTypeOK
  BY <1>1, <1>2, RingAssumption
  DEF Kernel!ScTypeOK, Kernel!RingTypeOK, Kernel!Slots, Slots
<1>5. Kernel!IndicesAgree /\ Kernel!CountsAgree /\ Kernel!OnlyWhileNeeded
  BY <1>1, <1>2, RingAssumption
  DEF Kernel!IndicesAgree, Kernel!CountsAgree, Kernel!OnlyWhileNeeded,
      Kernel!num_available, Kernel!num_free
<1> QED BY <1>3, <1>4, <1>5 DEF IInv, KernelInv

-----------------------------------------------------------------------------
\* The ring of sc_component::sc_fifo under Store and Take.
LEMMA RingStore ==
  ASSUME RingInv, NEW v \in Values, Store(v)
  PROVE  RingInv' /\ Held' = Append(Held, v)
<1>1. SlotsAgree(m_vec, m_wi, m_ri, m_free) /\ m_free \in 1 .. Len0
  BY RingAssumption DEF RingInv, RingTypeOK, IndicesAgree, Store, SlotsAgree, Slots
<1>2. /\ m_vec' = Slotted(m_vec, m_wi, v) /\ m_wi' = Behind(m_wi)
      /\ m_free' = m_free - 1 /\ m_ri' = m_ri
  BY DEF Store, Slotted, Behind
<1>3. /\ SlotsAgree(m_vec', m_wi', m_ri', m_free')
      /\ Contents(m_vec', m_ri', m_free') = Append(Contents(m_vec, m_ri, m_free), v)
  <2>1. /\ SlotsAgree(Slotted(m_vec, m_wi, v), Behind(m_wi), m_ri, m_free - 1)
        /\ Contents(Slotted(m_vec, m_wi, v), m_ri, m_free - 1)
             = Append(Contents(m_vec, m_ri, m_free), v)
    BY <1>1, StoreAppends
  <2> QED BY <1>2, <2>1
<1> QED BY <1>3 DEF SlotsAgree, RingInv, RingTypeOK, IndicesAgree, Held, Contents

\* Taking removes the first value of the ring: the front of the queue.
LEMMA RingTake ==
  ASSUME RingInv, Take
  PROVE  /\ RingInv'
         /\ Held # <<>> /\ Front = Head(Held) /\ Held' = Tail(Held)
<1>1. SlotsAgree(m_vec, m_wi, m_ri, m_free) /\ m_free \in 0 .. Len0 - 1
  BY RingAssumption DEF RingInv, RingTypeOK, IndicesAgree, Take, SlotsAgree, Slots
<1>2. /\ m_vec' = Slotted(m_vec, m_ri, 0) /\ m_ri' = Behind(m_ri)
      /\ m_free' = m_free + 1 /\ m_wi' = m_wi
  BY DEF Take, Slotted, Behind
<1>3. /\ SlotsAgree(m_vec', m_wi', m_ri', m_free')
      /\ Contents(m_vec, m_ri, m_free) # <<>>
      /\ Head(Contents(m_vec, m_ri, m_free)) = m_vec[m_ri]
      /\ Contents(m_vec', m_ri', m_free') = Tail(Contents(m_vec, m_ri, m_free))
  <2>1. /\ SlotsAgree(Slotted(m_vec, m_ri, 0), m_wi, Behind(m_ri), m_free + 1)
        /\ Contents(m_vec, m_ri, m_free) # <<>>
        /\ Head(Contents(m_vec, m_ri, m_free)) = m_vec[m_ri]
        /\ Contents(Slotted(m_vec, m_ri, 0), Behind(m_ri), m_free + 1)
             = Tail(Contents(m_vec, m_ri, m_free))
    BY <1>1, TakeRemoves
  <2> QED BY <1>2, <2>1
<1> QED BY <1>3 DEF SlotsAgree, RingInv, RingTypeOK, IndicesAgree, Held, Contents, Front

\* Each operation of sc_component::sc_fifo keeps the ring sound and is one of
\* the bounded queue, or invisible to it.
LEMMA RingStep ==
  ASSUME RingInv, Next
  PROVE  RingInv' /\ [Fifo!Next]_(Fifo!vars)
<1>1. /\ Len(Held) = Len0 - m_free /\ m_free \in 0 .. Len0 /\ Len0 \in Nat
      /\ Held \in Seq(Values)
  BY ContentsType, RingAssumption DEF RingInv, RingTypeOK, Held, Contents
<1>2. ASSUME NEW v \in Values, write(v) PROVE RingInv' /\ [Fifo!Next]_(Fifo!vars)
  <2>1. CASE m_free = 0
    <3>1. UNCHANGED slotVars /\ answer' = <<FALSE>>
      BY <1>2, <2>1 DEF write
    <3>2. RingInv' /\ Held' = Held
      BY <3>1 DEF RingInv, RingTypeOK, IndicesAgree, slotVars, Held
    <3>3. ~(Len(Held) < Len0)
      BY <1>1, <2>1
    <3> QED BY <3>1, <3>2, <3>3 DEF Fifo!Next, Fifo!Put
  <2>2. CASE m_free # 0
    <3>1. Store(v) /\ answer' = <<TRUE>>
      BY <1>2, <2>2 DEF write
    <3>2. Len(Held) < Len0
      BY <1>1, <2>2
    <3> QED BY <3>1, <3>2, RingStore DEF Fifo!Next, Fifo!Put
  <2> QED BY <2>1, <2>2
<1>3. ASSUME read PROVE RingInv' /\ [Fifo!Next]_(Fifo!vars)
  <2>1. CASE m_free = Len0
    <3>1. UNCHANGED slotVars /\ answer' = <<FALSE>>
      BY <1>3, <2>1 DEF read
    <3>2. RingInv' /\ Held' = Held
      BY <3>1 DEF RingInv, RingTypeOK, IndicesAgree, slotVars, Held
    <3>3. Held = <<>>
      BY <1>1, <2>1
    <3> QED BY <3>1, <3>2, <3>3 DEF Fifo!Next, Fifo!Get
  <2>2. CASE m_free # Len0
    <3>1. Take /\ answer' = <<TRUE, Front>>
      BY <1>3, <2>2 DEF read
    <3> QED BY <3>1, RingTake DEF Fifo!Next, Fifo!Get
  <2> QED BY <2>1, <2>2
<1>4. ASSUME UNCHANGED ringVars PROVE RingInv' /\ [Fifo!Next]_(Fifo!vars)
  BY <1>4 DEF RingInv, RingTypeOK, IndicesAgree, ringVars, slotVars, Held, Fifo!vars
<1> QED BY <1>2, <1>3, <1>4 DEF Next, nb_write, nb_read

-----------------------------------------------------------------------------
\* What the invariant of the kernel channel says of its numbers and of what
\* the ring holds.
LEMMA KernelFacts ==
  ASSUME KernelInv
  PROVE  /\ SlotsAgree(k_vec, k_wi, k_ri, k_free)
         /\ Kernel!Held = Contents(k_vec, k_ri, k_free)
         /\ Kernel!Held \in Seq(Values) /\ Len(Kernel!Held) = Len0 - k_free
         /\ Len0 \in Nat \ {0} /\ k_free \in 0 .. Len0
         /\ m_num_readable \in 0 .. Len0 /\ m_num_read \in 0 .. Len0
      /\ m_num_written \in 0 .. Len0
         /\ Kernel!num_available = m_num_readable - m_num_read
         /\ Kernel!num_free = Len0 - m_num_readable - m_num_written
         /\ Kernel!num_available \in 0 .. Len(Kernel!Held)
         /\ Kernel!num_free \in Nat
         /\ Len0 - k_free = Kernel!num_available + m_num_written
<1>1. /\ SlotsAgree(k_vec, k_wi, k_ri, k_free) /\ k_free \in 0 .. Len0
      /\ k_vec \in [Slots -> Values] /\ k_ri \in Slots
  BY DEF KernelInv, Kernel!ScTypeOK, Kernel!RingTypeOK, Kernel!IndicesAgree,
         Kernel!Slots, Slots, SlotsAgree
<1>2. /\ m_num_readable \in 0 .. Len0 /\ m_num_read \in 0 .. Len0
      /\ m_num_written \in 0 .. Len0
      /\ Len0 - k_free = Kernel!num_available + m_num_written
      /\ Kernel!num_available >= 0 /\ Kernel!num_free >= 0
  BY DEF KernelInv, Kernel!ScTypeOK, Kernel!CountsAgree
<1>3. Kernel!Held = Contents(k_vec, k_ri, k_free)
  BY DEF Kernel!Held, Contents
<1>4. Kernel!Held \in Seq(Values) /\ Len(Kernel!Held) = Len0 - k_free
  BY <1>1, <1>3, ContentsType
<1>5. /\ Kernel!num_available = m_num_readable - m_num_read
      /\ Kernel!num_free = Len0 - m_num_readable - m_num_written
      /\ Len0 \in Nat \ {0}
  BY RingAssumption DEF Kernel!num_available, Kernel!num_free
<1> QED BY <1>1, <1>2, <1>3, <1>4, <1>5

\* What the ring and its counts promise between two calls of the kernel
\* channel, whoever waits.
KernelRing == /\ Kernel!RingTypeOK /\ Kernel!IndicesAgree /\ Kernel!CountsAgree
              /\ m_num_readable \in 0 .. Len0 /\ m_num_read \in 0 .. Len0
      /\ m_num_written \in 0 .. Len0

\* A write for which there is a call leaves the ring sound and is a Put of the
\* abstract queue, refused exactly when that one refuses it.
LEMMA KernelWritten ==
  ASSUME KernelInv, NEW v \in Values, Kernel!Written(v), got' = got
  PROVE  /\ KernelRing' /\ Kernel!Cycle!Put(v)
         /\ Kernel!num_available' = Kernel!num_available
<1> DEFINE held == Kernel!Held
           avail == Kernel!num_available
           free == Kernel!num_free
<1>1. /\ SlotsAgree(k_vec, k_wi, k_ri, k_free)
      /\ held = Contents(k_vec, k_ri, k_free)
      /\ held \in Seq(Values) /\ Len(held) = Len0 - k_free
      /\ Len0 \in Nat \ {0} /\ k_free \in 0 .. Len0
      /\ m_num_readable \in 0 .. Len0 /\ m_num_read \in 0 .. Len0
      /\ m_num_written \in 0 .. Len0
      /\ avail = m_num_readable - m_num_read
      /\ free = Len0 - m_num_readable - m_num_written
      /\ avail \in 0 .. Len(held) /\ free \in Nat
      /\ Len0 - k_free = avail + m_num_written
  BY KernelFacts
<1>2. Len(SubSeq(held, 1, avail)) = avail
  BY <1>1
<1>3. Len(SubSeq(held, avail + 1, Len(held))) = m_num_written
  BY <1>1
<1>4. Kernel!num_available' = avail
  BY DEF Kernel!Written, Kernel!num_available, Kernel!countVars
<1>5. CASE free = 0 \/ k_free = 0
  <2>1. /\ UNCHANGED <<k_vec, k_wi, k_ri, k_free>> /\ wrote' = <<FALSE>>
        /\ UNCHANGED <<m_num_readable, m_num_read, m_num_written>>
    BY <1>5 DEF Kernel!Written, Kernel!slotVars, Kernel!countVars
  <2>2. ~(Len(SubSeq(held, 1, avail)) + m_num_read
            + Len(SubSeq(held, avail + 1, Len(held))) < Len0)
    <3> HIDE DEF held, avail, free
    <3> QED BY <1>1, <1>2, <1>3, <1>5
  <2>3. held' = held
    BY <2>1 DEF Kernel!Held
  <2>4. KernelRing'
    BY <2>1 DEF KernelInv, KernelRing, Kernel!ScTypeOK, Kernel!RingTypeOK,
       Kernel!IndicesAgree, Kernel!CountsAgree, Kernel!num_available, Kernel!num_free
  <2> QED BY <1>4, <2>1, <2>2, <2>3, <2>4 DEF Kernel!Cycle!Put
<1>6. CASE ~(free = 0 \/ k_free = 0)
  <2>1. /\ k_vec' = Slotted(k_vec, k_wi, v) /\ k_wi' = Behind(k_wi)
        /\ k_free' = k_free - 1 /\ k_ri' = k_ri
        /\ m_num_written' = m_num_written + 1 /\ wrote' = <<TRUE>>
        /\ UNCHANGED <<m_num_readable, m_num_read>>
    BY <1>6 DEF Kernel!Written, Kernel!Store, Slotted, Behind
  <2>2. k_free \in 1 .. Len0
    BY <1>1, <1>6
  <2>3. /\ SlotsAgree(Slotted(k_vec, k_wi, v), Behind(k_wi), k_ri, k_free - 1)
        /\ Contents(Slotted(k_vec, k_wi, v), k_ri, k_free - 1)
             = Append(Contents(k_vec, k_ri, k_free), v)
    <3>1. SlotsAgree(k_vec, k_wi, k_ri, k_free)
      BY <1>1
    <3> QED BY <2>2, <3>1, StoreAppends
  <2>4. held' = Append(held, v)
    BY <1>1, <2>1, <2>3 DEF Contents, Kernel!Held
  <2>5. Kernel!RingTypeOK' /\ Kernel!IndicesAgree'
    BY <2>1, <2>3 DEF SlotsAgree, Kernel!RingTypeOK, Kernel!IndicesAgree,
                      Kernel!Slots, Slots
  <2>6. /\ m_num_readable' \in 0 .. Len0 /\ m_num_read' \in 0 .. Len0
      /\ m_num_written' \in 0 .. Len0
        /\ Kernel!CountsAgree'
    BY <1>1, <1>6, <2>1 DEF Kernel!CountsAgree, Kernel!num_available, Kernel!num_free
  <2>7. Len(SubSeq(held, 1, avail)) + m_num_read
            + Len(SubSeq(held, avail + 1, Len(held))) < Len0
    <3> HIDE DEF held, avail, free
    <3> QED BY <1>1, <1>2, <1>3, <1>6
  <2>8. /\ SubSeq(held, 1, avail)' = SubSeq(held, 1, avail)
        /\ SubSeq(held, avail + 1, Len(held))'
             = Append(SubSeq(held, avail + 1, Len(held)), v)
    <3> HIDE DEF held, avail
    <3>1. held' = Append(held, v) /\ avail' = avail
      BY <1>4, <2>4 DEF held, avail
    <3>2. /\ SubSeq(Append(held, v), 1, avail) = SubSeq(held, 1, avail)
          /\ SubSeq(Append(held, v), avail + 1, Len(Append(held, v)))
               = Append(SubSeq(held, avail + 1, Len(held)), v)
      BY <1>1, SplitAppend
    <3> QED BY <3>1, <3>2
  <2>9. Kernel!Cycle!Put(v)
    BY <2>1, <2>7, <2>8 DEF Kernel!Cycle!Put
  <2> QED BY <1>4, <2>5, <2>6, <2>9 DEF KernelRing
<1> QED BY <1>5, <1>6

\* A read for which there is a call leaves the ring sound and is a Get.
LEMMA KernelReadOut ==
  ASSUME KernelInv, Kernel!ReadOut, wrote' = wrote
  PROVE  /\ KernelRing' /\ Kernel!Cycle!Get
         /\ Kernel!num_free' = Kernel!num_free
<1> DEFINE held == Kernel!Held
           avail == Kernel!num_available
           free == Kernel!num_free
<1>1. /\ SlotsAgree(k_vec, k_wi, k_ri, k_free)
      /\ held = Contents(k_vec, k_ri, k_free)
      /\ held \in Seq(Values) /\ Len(held) = Len0 - k_free
      /\ Len0 \in Nat \ {0} /\ k_free \in 0 .. Len0
      /\ m_num_readable \in 0 .. Len0 /\ m_num_read \in 0 .. Len0
      /\ m_num_written \in 0 .. Len0
      /\ avail = m_num_readable - m_num_read
      /\ free = Len0 - m_num_readable - m_num_written
      /\ avail \in 0 .. Len(held) /\ free \in Nat
      /\ Len0 - k_free = avail + m_num_written
  BY KernelFacts
<1>2. Len(SubSeq(held, 1, avail)) = avail
  BY <1>1
<1>4. Kernel!num_free' = free
  BY DEF Kernel!ReadOut, Kernel!num_free, Kernel!countVars
<1>5. CASE avail = 0 \/ k_free = Len0
  <2>1. /\ UNCHANGED <<k_vec, k_wi, k_ri, k_free>> /\ got' = <<FALSE>>
        /\ UNCHANGED <<m_num_readable, m_num_read, m_num_written>>
    BY <1>5 DEF Kernel!ReadOut, Kernel!slotVars, Kernel!countVars
  <2>2. SubSeq(held, 1, avail) = <<>>
    <3>1. avail = 0
      BY <1>1, <1>5
    <3> HIDE DEF held, avail
    <3> QED BY <1>1, <3>1
  <2>3. held' = held /\ avail' = avail
    BY <2>1 DEF Kernel!Held, Kernel!num_available
  <2>4. KernelRing'
    BY <2>1 DEF KernelInv, KernelRing, Kernel!ScTypeOK, Kernel!RingTypeOK,
       Kernel!IndicesAgree, Kernel!CountsAgree, Kernel!num_available, Kernel!num_free
  <2> QED BY <1>4, <2>1, <2>2, <2>3, <2>4 DEF Kernel!Cycle!Get
<1>6. CASE ~(avail = 0 \/ k_free = Len0)
  <2>1. /\ k_vec' = Slotted(k_vec, k_ri, 0) /\ k_ri' = Behind(k_ri)
        /\ k_free' = k_free + 1 /\ k_wi' = k_wi
        /\ m_num_read' = m_num_read + 1 /\ got' = <<TRUE, k_vec[k_ri]>>
        /\ UNCHANGED <<m_num_readable, m_num_written>>
    BY <1>6 DEF Kernel!ReadOut, Kernel!Take, Kernel!Front, Slotted, Behind
  <2>2. k_free \in 0 .. Len0 - 1
    BY <1>1, <1>6
  <2>3. /\ SlotsAgree(Slotted(k_vec, k_ri, 0), k_wi, Behind(k_ri), k_free + 1)
        /\ Contents(k_vec, k_ri, k_free) # <<>>
        /\ Head(Contents(k_vec, k_ri, k_free)) = k_vec[k_ri]
        /\ Contents(Slotted(k_vec, k_ri, 0), Behind(k_ri), k_free + 1)
             = Tail(Contents(k_vec, k_ri, k_free))
    <3>1. SlotsAgree(k_vec, k_wi, k_ri, k_free)
      BY <1>1
    <3> QED BY <2>2, <3>1, TakeRemoves
  <2>4. held' = Tail(held)
    BY <1>1, <2>1, <2>3 DEF Contents, Kernel!Held
  <2>5. Kernel!RingTypeOK' /\ Kernel!IndicesAgree'
    BY <2>1, <2>3 DEF SlotsAgree, Kernel!RingTypeOK, Kernel!IndicesAgree,
                      Kernel!Slots, Slots
  <2>6. /\ m_num_readable' \in 0 .. Len0 /\ m_num_read' \in 0 .. Len0
      /\ m_num_written' \in 0 .. Len0
        /\ Kernel!CountsAgree' /\ avail' = avail - 1
    BY <1>1, <1>6, <2>1 DEF Kernel!CountsAgree, Kernel!num_available, Kernel!num_free
  <2>7. SubSeq(held, 1, avail) # <<>> /\ Head(SubSeq(held, 1, avail)) = k_vec[k_ri]
    <3>1. avail \in 1 .. Len(held) /\ Head(held) = k_vec[k_ri]
      BY <1>1, <1>6, <2>3
    <3> HIDE DEF held, avail
    <3> QED BY <1>1, <3>1, SplitTail
  <2>8. /\ SubSeq(held, 1, avail)' = Tail(SubSeq(held, 1, avail))
        /\ SubSeq(held, avail + 1, Len(held))' = SubSeq(held, avail + 1, Len(held))
    <3>1. avail \in 1 .. Len(held) /\ avail' + 1 = avail
      BY <1>1, <1>6, <2>6
    <3> HIDE DEF held, avail
    <3>2. /\ SubSeq(Tail(held), 1, avail - 1) = Tail(SubSeq(held, 1, avail))
          /\ SubSeq(Tail(held), avail, Len(Tail(held)))
               = SubSeq(held, avail + 1, Len(held))
      BY <1>1, <3>1, SplitTail
    <3>3. held' = Tail(held) /\ avail' = avail - 1
      BY <2>4, <2>6
    <3> QED BY <3>1, <3>2, <3>3
  <2>9. Kernel!Cycle!Get
    BY <2>1, <2>7, <2>8 DEF Kernel!Cycle!Get
  <2> QED BY <1>4, <2>5, <2>6, <2>9 DEF KernelRing
<1> QED BY <1>5, <1>6

\* A call that changes neither the slots nor the counts nor an answer is
\* invisible to the abstract queue.
LEMMA KernelStutter ==
  ASSUME KernelInv, UNCHANGED <<Kernel!slotVars, Kernel!countVars, wrote, got>>
  PROVE  KernelRing' /\ UNCHANGED Kernel!Cycle!vars
         /\ Kernel!num_available' = Kernel!num_available
         /\ Kernel!num_free' = Kernel!num_free
<1>1. /\ UNCHANGED <<k_vec, k_wi, k_ri, k_free>>
      /\ UNCHANGED <<m_num_readable, m_num_read, m_num_written, wrote, got>>
  BY DEF Kernel!slotVars, Kernel!countVars
<1>2. Kernel!Held' = Kernel!Held /\ Kernel!num_available' = Kernel!num_available
      /\ Kernel!num_free' = Kernel!num_free
  BY <1>1 DEF Kernel!Held, Kernel!num_available, Kernel!num_free
<1>3. KernelRing'
  BY <1>1 DEF KernelInv, KernelRing, Kernel!ScTypeOK, Kernel!RingTypeOK,
     Kernel!IndicesAgree, Kernel!CountsAgree, Kernel!num_available, Kernel!num_free
<1>4. UNCHANGED Kernel!Cycle!vars
  BY <1>1, <1>2 DEF Kernel!Cycle!vars
<1> QED BY <1>2, <1>3, <1>4

\* The end of a delta cycle: the counts start again from what the ring holds,
\* and of those that wait only the ones with a reason to are left waiting.
LEMMA KernelUpdate ==
  ASSUME KernelInv, Kernel!update
  PROVE  KernelInv' /\ Kernel!Cycle!CycleEnds
<1> DEFINE held == Kernel!Held
           avail == Kernel!num_available
<1>1. /\ held \in Seq(Values) /\ Len(held) = Len0 - k_free
      /\ Len0 \in Nat \ {0} /\ k_free \in 0 .. Len0
      /\ m_num_readable \in 0 .. Len0 /\ m_num_read \in 0 .. Len0
      /\ m_num_written \in 0 .. Len0
      /\ avail = m_num_readable - m_num_read
      /\ Kernel!num_free = Len0 - m_num_readable - m_num_written
      /\ avail \in 0 .. Len(held)
      /\ Len0 - k_free = avail + m_num_written
  BY KernelFacts
<1>2. /\ UNCHANGED <<k_vec, k_wi, k_ri, k_free, wrote, got, blocked, rd_blocked>>
      /\ m_num_readable' = Len0 - k_free /\ m_num_read' = 0 /\ m_num_written' = 0
      /\ runnable = {}
  BY DEF Kernel!update, Kernel!slotVars
<1>3. Kernel!Woken \subseteq runnable' /\ runnable' \subseteq Kernel!Procs
  BY DEF Kernel!update, Kernel!Woken
<1>4. /\ held' = held /\ Kernel!num_available' = Len(held)
      /\ Kernel!num_free' = k_free
  BY <1>1, <1>2 DEF Kernel!Held, Kernel!num_available, Kernel!num_free
<1>5. Kernel!OnlyWhileNeeded'
  <2>1. ASSUME blocked' # <<>>, "writer" \notin runnable'
        PROVE  Kernel!num_free' = 0
    <3>1. "writer" \notin Kernel!Woken /\ blocked # <<>>
      BY <1>2, <1>3, <2>1
    <3>2. ~(m_num_read > 0)
      BY <3>1 DEF Kernel!Woken, Kernel!Procs
    <3>3. Kernel!num_free = 0
      BY <1>2, <2>1 DEF KernelInv, Kernel!OnlyWhileNeeded
    <3> HIDE DEF held, avail
    <3> QED BY <1>1, <1>4, <3>2, <3>3
  <2>2. ASSUME rd_blocked', "reader" \notin runnable'
        PROVE  Kernel!num_available' = 0
    <3>1. "reader" \notin Kernel!Woken /\ rd_blocked
      BY <1>2, <1>3, <2>2
    <3>2. ~(m_num_written > 0)
      BY <3>1 DEF Kernel!Woken, Kernel!Procs
    <3>3. avail = 0
      BY <1>2, <2>2 DEF KernelInv, Kernel!OnlyWhileNeeded
    <3> HIDE DEF held, avail
    <3> QED BY <1>1, <1>4, <3>2, <3>3
  <2> QED BY <2>1, <2>2 DEF Kernel!OnlyWhileNeeded
<1>6. Kernel!CountsAgree'
  <2> HIDE DEF held, avail
  <2>1. /\ Len0' - k_free' = Kernel!num_available' + m_num_written'
        /\ Kernel!num_available' >= 0 /\ Kernel!num_free' >= 0
    BY <1>1, <1>2, <1>4
  <2> QED BY <2>1 DEF Kernel!CountsAgree
<1>7. Kernel!ScTypeOK' /\ Kernel!IndicesAgree'
  <2>1. /\ m_num_readable' \in 0 .. Len0 /\ m_num_read' \in 0 .. Len0
        /\ m_num_written' \in 0 .. Len0
    BY <1>1, <1>2
  <2> QED BY <1>2, <1>3, <2>1
      DEF KernelInv, Kernel!ScTypeOK, Kernel!RingTypeOK, Kernel!IndicesAgree
<1>8. Kernel!Cycle!CycleEnds
  <2>1. /\ SubSeq(held, 1, avail) \o SubSeq(held, avail + 1, Len(held)) = held
        /\ SubSeq(held, 1, Len(held)) = held
        /\ SubSeq(held, Len(held) + 1, Len(held)) = <<>>
    <3> HIDE DEF held, avail
    <3> QED BY <1>1, SplitJoin, SubSeqFull, SubSeqEmpty
  <2> QED BY <1>2, <1>4, <2>1 DEF Kernel!Cycle!CycleEnds
<1> QED BY <1>5, <1>6, <1>7, <1>8 DEF KernelInv

\* Each step of the channel and its two processes keeps the invariant and is
\* one of the abstract queue, or invisible to it.
LEMMA KernelStep ==
  ASSUME KernelInv, Kernel!ScNext
  PROVE  KernelInv' /\ [Kernel!Cycle!Next]_(Kernel!Cycle!vars)
<1>1. /\ runnable \subseteq Kernel!Procs /\ rd_blocked \in BOOLEAN
      /\ blocked \in {<<>>} \cup {<<v>> : v \in Values}
      /\ blocked # <<>> /\ "writer" \notin runnable => Kernel!num_free = 0
      /\ rd_blocked /\ "reader" \notin runnable => Kernel!num_available = 0
  BY DEF KernelInv, Kernel!ScTypeOK, Kernel!OnlyWhileNeeded
<1>2. ASSUME NEW v \in Values, Kernel!nb_write(v)
      PROVE  KernelInv' /\ Kernel!Cycle!Put(v)
  <2>1. /\ Kernel!Written(v) /\ got' = got /\ "writer" \in runnable
        /\ UNCHANGED <<blocked, rd_blocked, runnable>>
    BY <1>2 DEF Kernel!nb_write, Kernel!procVars
  <2>2. /\ KernelRing' /\ Kernel!Cycle!Put(v)
        /\ Kernel!num_available' = Kernel!num_available
    BY <2>1, KernelWritten
  <2>3. Kernel!OnlyWhileNeeded'
    BY <1>1, <2>1, <2>2 DEF Kernel!OnlyWhileNeeded
  <2> QED BY <1>1, <2>1, <2>2, <2>3 DEF KernelInv, KernelRing, Kernel!ScTypeOK
<1>3. ASSUME Kernel!nb_read
      PROVE  KernelInv' /\ Kernel!Cycle!Get
  <2>1. /\ Kernel!ReadOut /\ wrote' = wrote /\ "reader" \in runnable
        /\ UNCHANGED <<blocked, rd_blocked, runnable>>
    BY <1>3 DEF Kernel!nb_read, Kernel!procVars
  <2>2. /\ KernelRing' /\ Kernel!Cycle!Get /\ Kernel!num_free' = Kernel!num_free
    BY <2>1, KernelReadOut
  <2>3. Kernel!OnlyWhileNeeded'
    BY <1>1, <2>1, <2>2 DEF Kernel!OnlyWhileNeeded
  <2> QED BY <1>1, <2>1, <2>2, <2>3 DEF KernelInv, KernelRing, Kernel!ScTypeOK
<1>4. ASSUME NEW v \in Values, Kernel!write(v)
      PROVE  KernelInv' /\ [Kernel!Cycle!Next]_(Kernel!Cycle!vars)
  <2>1. CASE Kernel!num_free = 0
    <3>1. /\ UNCHANGED <<Kernel!slotVars, Kernel!countVars, wrote, got, rd_blocked>>
          /\ blocked' = <<v>> /\ runnable' = runnable \ {"writer"}
      BY <1>4, <2>1 DEF Kernel!write
    <3>2. KernelRing' /\ UNCHANGED Kernel!Cycle!vars
          /\ Kernel!num_available' = Kernel!num_available
          /\ Kernel!num_free' = Kernel!num_free
      BY <3>1, KernelStutter
    <3>3. Kernel!OnlyWhileNeeded'
      BY <1>1, <2>1, <3>1, <3>2 DEF Kernel!OnlyWhileNeeded
    <3> QED BY <1>1, <3>1, <3>2, <3>3 DEF KernelInv, KernelRing, Kernel!ScTypeOK
  <2>2. CASE Kernel!num_free # 0
    <3>1. /\ Kernel!Written(v) /\ got' = got /\ blocked' = <<>>
          /\ UNCHANGED <<rd_blocked, runnable>>
      BY <1>4, <2>2 DEF Kernel!write
    <3>2. /\ KernelRing' /\ Kernel!Cycle!Put(v)
          /\ Kernel!num_available' = Kernel!num_available
      BY <3>1, KernelWritten
    <3>3. Kernel!OnlyWhileNeeded'
      BY <1>1, <3>1, <3>2 DEF Kernel!OnlyWhileNeeded
    <3>4. Kernel!Cycle!Next
      BY <3>2 DEF Kernel!Cycle!Next
    <3> QED BY <1>1, <3>1, <3>2, <3>3, <3>4 DEF KernelInv, KernelRing, Kernel!ScTypeOK
  <2> QED BY <2>1, <2>2
<1>5. ASSUME Kernel!read
      PROVE  KernelInv' /\ [Kernel!Cycle!Next]_(Kernel!Cycle!vars)
  <2>1. CASE Kernel!num_available = 0
    <3>1. /\ UNCHANGED <<Kernel!slotVars, Kernel!countVars, wrote, got, blocked>>
          /\ rd_blocked' = TRUE /\ runnable' = runnable \ {"reader"}
      BY <1>5, <2>1 DEF Kernel!read
    <3>2. KernelRing' /\ UNCHANGED Kernel!Cycle!vars
          /\ Kernel!num_available' = Kernel!num_available
          /\ Kernel!num_free' = Kernel!num_free
      BY <3>1, KernelStutter
    <3>3. Kernel!OnlyWhileNeeded'
      BY <1>1, <2>1, <3>1, <3>2 DEF Kernel!OnlyWhileNeeded
    <3> QED BY <1>1, <3>1, <3>2, <3>3 DEF KernelInv, KernelRing, Kernel!ScTypeOK
  <2>2. CASE Kernel!num_available # 0
    <3>1. /\ Kernel!ReadOut /\ wrote' = wrote /\ rd_blocked' = FALSE
          /\ UNCHANGED <<blocked, runnable>>
      BY <1>5, <2>2 DEF Kernel!read
    <3>2. /\ KernelRing' /\ Kernel!Cycle!Get /\ Kernel!num_free' = Kernel!num_free
      BY <3>1, KernelReadOut
    <3>3. Kernel!OnlyWhileNeeded'
      BY <1>1, <3>1, <3>2 DEF Kernel!OnlyWhileNeeded
    <3>4. Kernel!Cycle!Next
      BY <3>2 DEF Kernel!Cycle!Next
    <3> QED BY <1>1, <3>1, <3>2, <3>3, <3>4 DEF KernelInv, KernelRing, Kernel!ScTypeOK
  <2> QED BY <2>1, <2>2
<1>6. ASSUME NEW p \in Kernel!Procs, Kernel!Yield(p)
      PROVE  KernelInv' /\ [Kernel!Cycle!Next]_(Kernel!Cycle!vars)
  <2>1. /\ UNCHANGED <<Kernel!slotVars, Kernel!countVars, wrote, got>>
        /\ UNCHANGED <<blocked, rd_blocked>> /\ runnable' = runnable \ {p}
        /\ IF p = "writer" THEN blocked = <<>> ELSE ~rd_blocked
    BY <1>6 DEF Kernel!Yield
  <2>2. KernelRing' /\ UNCHANGED Kernel!Cycle!vars
        /\ Kernel!num_available' = Kernel!num_available
        /\ Kernel!num_free' = Kernel!num_free
    BY <2>1, KernelStutter
  <2>3. p = "writer" \/ p = "reader"
    BY DEF Kernel!Procs
  <2>4. Kernel!OnlyWhileNeeded'
    BY <1>1, <2>1, <2>2, <2>3 DEF Kernel!OnlyWhileNeeded
  <2> QED BY <1>1, <2>1, <2>2, <2>4 DEF KernelInv, KernelRing, Kernel!ScTypeOK
<1>7. ASSUME Kernel!update
      PROVE  KernelInv' /\ Kernel!Cycle!CycleEnds
  BY <1>7, KernelUpdate
<1> QED BY <1>2, <1>3, <1>4, <1>5, <1>6, <1>7 DEF Kernel!ScNext, Kernel!Cycle!Next

-----------------------------------------------------------------------------
\* IInv is inductive, and each step is one of both abstract queues.
LEMMA Step ==
  ASSUME IInv, [FifosNext]_<<used, vars, kernelVars>>
  PROVE  /\ IInv' /\ [Fifo!Next]_(Fifo!vars)
         /\ [Kernel!Cycle!Next]_(Kernel!Cycle!vars)
<1>1. ASSUME UNCHANGED vars PROVE RingInv' /\ UNCHANGED Fifo!vars
  BY <1>1 DEF vars, ringVars, slotVars, IInv, RingInv, RingTypeOK, IndicesAgree,
              Held, Fifo!vars
<1>2. ASSUME UNCHANGED kernelVars PROVE KernelInv' /\ UNCHANGED Kernel!Cycle!vars
  <2>1. /\ UNCHANGED <<Kernel!slotVars, Kernel!countVars, wrote, got>>
        /\ UNCHANGED <<blocked, rd_blocked, runnable>>
    BY <1>2 DEF kernelVars, Kernel!slotVars, Kernel!countVars
  <2>2. KernelInv
    BY DEF IInv
  <2>3. KernelRing' /\ UNCHANGED Kernel!Cycle!vars
        /\ Kernel!num_available' = Kernel!num_available
        /\ Kernel!num_free' = Kernel!num_free
    BY <2>1, <2>2, KernelStutter
  <2> QED BY <2>1, <2>2, <2>3
      DEF KernelInv, KernelRing, Kernel!ScTypeOK, Kernel!OnlyWhileNeeded
<1>3. CASE used = "sc_component" /\ Next /\ UNCHANGED kernelVars
  BY <1>2, <1>3, RingStep DEF IInv
<1>4. CASE used = "sc_core" /\ Kernel!ScNext /\ UNCHANGED vars
  BY <1>1, <1>4, KernelStep DEF IInv
<1>5. CASE UNCHANGED <<used, vars, kernelVars>>
  BY <1>1, <1>2, <1>5 DEF IInv
<1> QED BY <1>3, <1>4, <1>5 DEF FifosNext

\* Both rings, and the three counts of the kernel channel, stay in agreement.
THEOREM RingsSound == FifosSpec => []IInv
<1>1. IInv /\ [FifosNext]_<<used, vars, kernelVars>> => IInv'
  BY Step
<1> QED BY InitIInv, <1>1, PTL DEF FifosSpec

\* A process waits in write only while there is no room, in read only while
\* there is nothing to take (sc_fifo.h:223-225, 266-268, 342-358).
THEOREM Waits == FifosSpec => []NobodyWaitsInVain
<1>1. IInv => NobodyWaitsInVain
  BY DEF IInv, KernelInv, NobodyWaitsInVain
<1> QED BY RingsSound, <1>1, PTL

\* sc_component::sc_fifo implements the bounded queue (scc_sc_fifo.h:43-70).
THEOREM RingIsFifo == FifosSpec => ImplementsFifo
<1>1. FifosInit => Fifo!Init
  BY RingAssumption DEF FifosInit, Init, RingInit, Fifo!Init, Held
<1>2. IInv /\ [FifosNext]_<<used, vars, kernelVars>> => [Fifo!Next]_(Fifo!vars)
  BY Step
<1> QED BY RingsSound, <1>1, <1>2, PTL DEF FifosSpec, ImplementsFifo, Fifo!Spec

\* sc_core::sc_fifo implements the queue whose answers do not depend on the
\* order in which the kernel runs the two processes (sc_fifo.h:219-290, 342-358).
THEOREM KernelIsDelta == FifosSpec => ImplementsDelta
<1>1. FifosInit => Kernel!Cycle!Init
  <2> SUFFICES ASSUME FifosInit PROVE Kernel!Cycle!Init
    OBVIOUS
  <2>1. /\ k_free = Len0 /\ m_num_readable = 0 /\ m_num_read = 0
        /\ m_num_written = 0 /\ wrote = <<>> /\ got = <<>>
    BY DEF FifosInit, Kernel!ScInit, Kernel!RingInit
  <2>2. Kernel!num_available = 0 /\ Kernel!Held = <<>>
    BY <2>1, RingAssumption DEF Kernel!num_available, Kernel!Held
  <2> QED BY <2>1, <2>2 DEF Kernel!Cycle!Init
<1>2. IInv /\ [FifosNext]_<<used, vars, kernelVars>>
        => [Kernel!Cycle!Next]_(Kernel!Cycle!vars)
  BY Step
<1> QED BY RingsSound, <1>1, <1>2, PTL DEF FifosSpec, ImplementsDelta, Kernel!Cycle!Spec
=============================================================================
