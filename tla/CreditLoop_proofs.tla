-------------------------- MODULE CreditLoop_proofs -------------------------
(***************************************************************************)
(* Proofs about CreditLoop for every window, delay, scheduling cycle and   *)
(* payload bound.  The inductive invariant is the conjunction of what the  *)
(* runs check one by one: conservation needs the mark counter to be seen   *)
(* non-negative, and the lockstep of the two paths needs both typed.       *)
(*                                                                         *)
(* Then about SrvMain, the simulation the loop runs in: what holds of the  *)
(* loop alone holds there, its two pairs keep up, and a value is back      *)
(* within a bound on the constants: its age, its place in line and the     *)
(* next slot that sends are kept in one invariant, TimedInv.               *)
(***************************************************************************)
EXTENDS SrvMain, PeqOps_proofs

IInv == TypeOK /\ CreditConservation /\ StatMatchesDebt /\ PathsInStep

\* The next payload counter is a payload counter.
LEMMA NextValType == ASSUME NEW v \in Vals PROVE NextVal(v) \in Vals
BY ConstantsAssumption DEF NextVal, Vals

\* The loop starts with all credits at src and every queue empty.
LEMMA InitIInv == Init => IInv
<1> SUFFICES ASSUME Init PROVE IInv
  OBVIOUS
<1>1. 0 \in Vals /\ 0 \in 0 .. SchCycle - 1
  BY ConstantsAssumption DEF Vals
<1> QED BY <1>1, ConstantsAssumption
        DEF Init, IInv, TypeOK, CreditConservation, StatMatchesDebt,
            PathsInStep, Procs

\* src's edge: a credit becomes a request, or nothing happens.
LEMMA SrcIInv == IInv /\ SrcEntry => IInv'
<1> SUFFICES ASSUME IInv, SrcEntry PROVE IInv'
  OBVIOUS
<1> USE DEF IInv
<1>1. TypeOK /\ m_val \in Vals /\ m_rcv_dat \in Seq(Vals)
  BY DEF TypeOK
<1>2. NextVal(m_val) \in Vals
  BY <1>1, NextValType
<1>3. Append(m_rcv_dat, m_val) \in Seq(Vals)
      /\ Len(Append(m_rcv_dat, m_val)) = Len(m_rcv_dat) + 1
      /\ Len(m_rcv_dat) \in Nat
  BY <1>1
<1>4. /\ pending' = pending \ {"src"}
      /\ UNCHANGED <<m_cycle, m_peq, m_peq_ctl, m_peq_que, m_snd_ctl,
                     m_snd_msg_que, rcvd>>
  BY DEF SrcEntry, TgtReceives, queVars
<1>5. (TypeOK /\ CreditConservation /\ StatMatchesDebt)'
  <2>1. CASE m_credit > 0
    <3>1. /\ m_rcv_dat' = Append(m_rcv_dat, m_val)
          /\ m_peq_ctl_stat' = m_peq_ctl_stat + 1
          /\ m_credit' = m_credit - 1
          /\ m_val' = NextVal(m_val)
      BY <2>1 DEF SrcEntry, TgtReceives
    <3>2. m_credit' \in Int /\ m_peq_ctl_stat' \in Int
      BY <3>1 DEF TypeOK
    <3>3. TypeOK'
      BY <1>1, <1>2, <1>3, <1>4, <3>1, <3>2 DEF TypeOK
    <3>4. Len(m_rcv_dat') = Len(m_rcv_dat) + 1
      BY <1>3, <3>1
    <3>5. CreditConservation'
      BY <1>3, <1>4, <3>1, <3>4, ConstantsAssumption
      DEF CreditConservation, TypeOK
    <3>6. StatMatchesDebt'
      BY <2>1, <3>1, ConstantsAssumption DEF StatMatchesDebt
    <3> QED BY <3>3, <3>5, <3>6
  <2>2. CASE ~(m_credit > 0)
    <3>1. UNCHANGED <<m_rcv_dat, m_peq_ctl_stat, m_credit, m_val>>
      BY <2>2 DEF SrcEntry, TgtReceives, srcVars
    <3>2. TypeOK'
      BY <1>4, <3>1 DEF TypeOK
    <3> QED BY <1>4, <3>1, <3>2 DEF CreditConservation, StatMatchesDebt
  <2> QED BY <2>1, <2>2
<1>6. PathsInStep'
  BY <1>4 DEF PathsInStep
<1> QED BY <1>5, <1>6

\* Time passing alters due times only.
LEMMA EdgeIInv == IInv /\ ClockEdge => IInv'
<1> SUFFICES ASSUME IInv, ClockEdge PROVE IInv'
  OBVIOUS
<1> USE DEF IInv
<1>1. /\ m_peq \in Seq(PeqEntry(Vals, Delay))
      /\ m_peq_ctl \in Seq(PeqEntry({1}, Delay))
      /\ Delay \in Nat
  BY ConstantsAssumption DEF TypeOK
<1>2. /\ m_peq' \in Seq(PeqEntry(Vals, Delay))
      /\ Len(m_peq') = Len(m_peq) /\ DOMAIN m_peq' = DOMAIN m_peq
      /\ \A i \in DOMAIN m_peq : m_peq'[i].due
           = IF m_peq[i].due = 0 THEN 0 ELSE m_peq[i].due - 1
  BY <1>1, PeqAgeKeeps DEF ClockEdge
<1>3. /\ m_peq_ctl' \in Seq(PeqEntry({1}, Delay))
      /\ Len(m_peq_ctl') = Len(m_peq_ctl)
      /\ DOMAIN m_peq_ctl' = DOMAIN m_peq_ctl
      /\ \A i \in DOMAIN m_peq_ctl : m_peq_ctl'[i].due
           = IF m_peq_ctl[i].due = 0 THEN 0 ELSE m_peq_ctl[i].due - 1
  BY <1>1, PeqAgeKeeps DEF ClockEdge
<1>4. TypeOK'
  BY <1>2, <1>3 DEF TypeOK, ClockEdge, srcVars, queVars
<1>5. CreditConservation' /\ StatMatchesDebt'
  BY <1>3 DEF CreditConservation, StatMatchesDebt, ClockEdge, srcVars, queVars
<1>6. PathsInStep'
  <2>1. DOMAIN m_peq = DOMAIN m_peq_ctl
    BY <1>1 DEF PathsInStep
  <2> QED BY <1>2, <1>3, <2>1 DEF PathsInStep, ClockEdge, queVars
<1> QED BY <1>4, <1>5, <1>6

-----------------------------------------------------------------------------
\* What the first two calls of tgt::mth_entry leave: typed queues, the two
\* paths still in step, no credit lost, and every value in its place in line.
LEMMA TgtQueues ==
  ASSUME IInv, mth_dat_proc, mth_get_peq
  PROVE  /\ m_rcv_dat' \in Seq(Vals)
         /\ m_peq' \in Seq(PeqEntry(Vals, Delay))
         /\ m_peq_ctl' \in Seq(PeqEntry({1}, Delay))
         /\ DatReady \in Seq(Vals) /\ CtlReady \in Seq({1})
         /\ Len(DatReady) = Len(CtlReady)
         /\ Len(m_peq') = Len(m_peq_ctl')
         /\ \A i \in DOMAIN m_peq' : m_peq'[i].due = m_peq_ctl'[i].due
         /\ Len(m_rcv_dat') + Len(m_peq_ctl') + Len(CtlReady)
              = Len(m_rcv_dat) + Len(m_peq_ctl) + Len(m_snd_ctl)
         /\ DatReady \o PeqVals(m_peq') \o m_rcv_dat'
              = m_peq_que \o PeqVals(m_peq) \o m_rcv_dat
<1> DEFINE D == DatDelayed
           C == CtlDelayed
<1> USE DEF IInv
<1>1. /\ m_rcv_dat \in Seq(Vals) /\ m_peq_que \in Seq(Vals)
      /\ m_snd_ctl \in Seq({1})
      /\ m_peq \in Seq(PeqEntry(Vals, Delay))
      /\ m_peq_ctl \in Seq(PeqEntry({1}, Delay))
      /\ Delay \in Nat
  BY ConstantsAssumption DEF TypeOK
<1>2. PeqVals(m_peq) \in Seq(Vals)
  BY <1>1, PeqValsType
<1>3. /\ D \in Seq(PeqEntry(Vals, Delay)) /\ C \in Seq(PeqEntry({1}, Delay))
      /\ Len(D) = Len(C) /\ \A i \in DOMAIN D : D[i].due = C[i].due
      /\ m_rcv_dat' \in Seq(Vals)
      /\ Len(m_rcv_dat') + Len(C) = Len(m_rcv_dat) + Len(m_peq_ctl)
      /\ PeqVals(D) \in Seq(Vals)
      /\ PeqVals(D) \o m_rcv_dat' = PeqVals(m_peq) \o m_rcv_dat
  <2>1. CASE m_rcv_dat = <<>>
    BY <1>1, <1>2, <2>1
    DEF DatDelayed, CtlDelayed, mth_dat_proc, PathsInStep
  <2>2. CASE m_rcv_dat # <<>>
    <3> DEFINE h == Head(m_rcv_dat)
    <3>1. h \in Vals /\ Tail(m_rcv_dat) \in Seq(Vals)
          /\ Len(Tail(m_rcv_dat)) = Len(m_rcv_dat) - 1
          /\ m_rcv_dat' = Tail(m_rcv_dat) /\ m_rcv_dat = <<h>> \o m_rcv_dat'
      BY <1>1, <2>2 DEF mth_dat_proc
    <3>2. /\ D = Append(m_peq, [due |-> Delay, val |-> h])
          /\ D \in Seq(PeqEntry(Vals, Delay))
      BY <1>1, <2>2, <3>1, PeqDelayLast DEF DatDelayed
    <3>3. /\ C = Append(m_peq_ctl, [due |-> Delay, val |-> 1])
          /\ C \in Seq(PeqEntry({1}, Delay))
      BY <1>1, <2>2, PeqDelayLast DEF CtlDelayed
    <3>4. Len(D) = Len(C) /\ \A i \in DOMAIN D : D[i].due = C[i].due
      <4>1. /\ Len(D) = Len(m_peq) + 1 /\ DOMAIN D = 1 .. Len(m_peq) + 1
            /\ \A i \in 1 .. Len(m_peq) : D[i] = m_peq[i]
            /\ D[Len(m_peq) + 1] = [due |-> Delay, val |-> h]
        BY <1>1, <3>2
      <4>2. /\ Len(C) = Len(m_peq_ctl) + 1
            /\ \A i \in 1 .. Len(m_peq_ctl) : C[i] = m_peq_ctl[i]
            /\ C[Len(m_peq_ctl) + 1] = [due |-> Delay, val |-> 1]
        BY <1>1, <3>3
      <4>3. /\ Len(m_peq) = Len(m_peq_ctl) /\ Len(m_peq) \in Nat
            /\ \A i \in 1 .. Len(m_peq) : m_peq[i].due = m_peq_ctl[i].due
        BY <1>1 DEF PathsInStep
      <4>4. ASSUME NEW i \in DOMAIN D PROVE D[i].due = C[i].due
        <5>1. CASE i \in 1 .. Len(m_peq)
          BY <4>1, <4>2, <4>3, <5>1
        <5>2. CASE i = Len(m_peq) + 1
          BY <4>1, <4>2, <4>3, <5>2
        <5> QED BY <4>1, <4>3, <5>1, <5>2
      <4> QED BY <4>1, <4>2, <4>3, <4>4
    <3>5. Len(m_rcv_dat') + Len(C) = Len(m_rcv_dat) + Len(m_peq_ctl)
      <4>1. Len(C) = Len(m_peq_ctl) + 1 /\ Len(m_peq_ctl) \in Nat
            /\ Len(m_rcv_dat) \in Nat
        BY <1>1, <3>3
      <4> QED BY <3>1, <4>1
    <3>6. PeqVals(D) = PeqVals(m_peq) \o <<h>>
      <4>1. Delay \in 0 .. Delay
        BY <1>1
      <4> QED BY <1>1, <3>1, <3>2, <4>1, PeqValsAppend
    <3>7. /\ PeqVals(D) \in Seq(Vals)
          /\ PeqVals(D) \o m_rcv_dat' = PeqVals(m_peq) \o m_rcv_dat
      <4>1. <<h>> \in Seq(Vals)
        BY <3>1
      <4>2. PeqVals(D) \o m_rcv_dat' = PeqVals(m_peq) \o (<<h>> \o m_rcv_dat')
        BY <1>2, <3>1, <3>6, <4>1, ConcatAssociative
      <4> QED BY <1>2, <3>1, <3>6, <4>1, <4>2
    <3> QED BY <3>1, <3>2, <3>3, <3>4, <3>5, <3>7
  <2> QED BY <2>1, <2>2
<1> DEFINE k == PeqWithin(D, 0)
<1>4. /\ PeqReady(D) \in Seq(Vals) /\ Len(PeqReady(D)) = k
      /\ PeqLater(D) \in Seq(PeqEntry(Vals, Delay))
      /\ Len(PeqLater(D)) = Len(D) - k
      /\ \A i \in DOMAIN PeqLater(D) : PeqLater(D)[i] = D[i + k]
      /\ PeqReady(D) \o PeqVals(PeqLater(D)) = PeqVals(D)
  BY <1>1, <1>3, PeqDrain
<1>5. PeqWithin(C, 0) = k /\ k \in 0 .. Len(D)
  BY <1>3, PeqWithinSame, PeqWithinType
<1>6. /\ PeqReady(C) \in Seq({1}) /\ Len(PeqReady(C)) = k
      /\ PeqLater(C) \in Seq(PeqEntry({1}, Delay))
      /\ Len(PeqLater(C)) = Len(C) - k
      /\ \A i \in DOMAIN PeqLater(C) : PeqLater(C)[i] = C[i + k]
  BY <1>1, <1>3, <1>5, PeqDrain
<1>7. m_peq' = PeqLater(D) /\ m_peq_ctl' = PeqLater(C)
  BY DEF mth_get_peq
<1>8. /\ DatReady = m_peq_que \o PeqReady(D)
      /\ CtlReady = m_snd_ctl \o PeqReady(C)
  BY DEF DatReady, CtlReady

<1>9. /\ DatReady \in Seq(Vals) /\ Len(DatReady) = Len(m_peq_que) + k
      /\ CtlReady \in Seq({1}) /\ Len(CtlReady) = Len(m_snd_ctl) + k
  <2>1. /\ DatReady \in Seq(Vals)
        /\ Len(DatReady) = Len(m_peq_que) + Len(PeqReady(D))
    BY <1>1, <1>4, <1>8, ConcatType, Zenon
  <2>2. /\ CtlReady \in Seq({1})
        /\ Len(CtlReady) = Len(m_snd_ctl) + Len(PeqReady(C))
    BY <1>1, <1>6, <1>8, ConcatType, Zenon
  <2> QED BY <1>4, <1>6, <2>1, <2>2, Zenon
<1>10. Len(DatReady) = Len(CtlReady)
  BY <1>9 DEF PathsInStep
<1>11. /\ Len(m_peq') = Len(m_peq_ctl')
       /\ \A i \in DOMAIN m_peq' : m_peq'[i].due = m_peq_ctl'[i].due
  <2>1. Len(m_peq') = Len(m_peq_ctl')
    BY <1>3, <1>4, <1>6, <1>7
  <2>2. ASSUME NEW i \in DOMAIN m_peq'
        PROVE  m_peq'[i].due = m_peq_ctl'[i].due
    <3>1. i \in DOMAIN PeqLater(D) /\ i \in DOMAIN PeqLater(C)
      BY <1>4, <1>6, <1>7, <2>1
    <3>2. i + k \in DOMAIN D
      <4>1. i \in 1 .. (Len(D) - k) /\ Len(D) \in Nat
        BY <1>3, <1>4, <3>1
      <4> QED BY <1>3, <1>5, <4>1
    <3> QED BY <1>3, <1>4, <1>6, <1>7, <3>1, <3>2
  <2> QED BY <2>1, <2>2
<1>12. Len(m_rcv_dat') + Len(m_peq_ctl') + Len(CtlReady)
         = Len(m_rcv_dat) + Len(m_peq_ctl) + Len(m_snd_ctl)
  <2>1. /\ Len(m_rcv_dat') \in Nat /\ Len(m_rcv_dat) \in Nat
        /\ Len(m_peq_ctl) \in Nat /\ Len(m_snd_ctl) \in Nat
        /\ Len(C) \in Nat /\ k \in Nat
    BY <1>1, <1>3, <1>5
  <2>2. Len(m_peq_ctl') = Len(C) - k
    BY <1>6, <1>7, Zenon
  <2>3. Len(m_rcv_dat') + Len(C) = Len(m_rcv_dat) + Len(m_peq_ctl)
    BY <1>3, Zenon
  <2>4. Len(CtlReady) = Len(m_snd_ctl) + k
    BY <1>9, Zenon
  <2> HIDE DEF k, C
  <2> QED BY <2>1, <2>2, <2>3, <2>4
<1>13. DatReady \o PeqVals(m_peq') \o m_rcv_dat'
         = m_peq_que \o PeqVals(m_peq) \o m_rcv_dat
  <2>1. PeqVals(PeqLater(D)) \in Seq(Vals)
    BY <1>1, <1>4, PeqValsType
  <2>2. /\ m_peq_que \in Seq(Vals) /\ PeqReady(D) \in Seq(Vals)
        /\ m_rcv_dat' \in Seq(Vals) /\ PeqVals(D) \in Seq(Vals)
        /\ PeqVals(m_peq) \in Seq(Vals) /\ m_rcv_dat \in Seq(Vals)
    BY <1>1, <1>2, <1>3, <1>4
  <2>3. /\ PeqReady(D) \o PeqVals(PeqLater(D)) = PeqVals(D)
        /\ PeqVals(D) \o m_rcv_dat' = PeqVals(m_peq) \o m_rcv_dat
    BY <1>3, <1>4
  <2>4. /\ Cat(PeqReady(D), PeqVals(PeqLater(D))) = PeqVals(D)
        /\ Cat(PeqVals(D), m_rcv_dat') = Cat(PeqVals(m_peq), m_rcv_dat)
    BY <2>3 DEF Cat
  <2>5. Cat(Cat(Cat(m_peq_que, PeqReady(D)), PeqVals(PeqLater(D))), m_rcv_dat')
          = Cat(Cat(m_peq_que, PeqVals(m_peq)), m_rcv_dat)
    <3> DEFINE S == Seq(Vals)
    <3>1. \A x, y, z \in S : Cat(Cat(x, y), z) = Cat(x, Cat(y, z))
      BY ConcatAssociative DEF Cat
    <3>2. /\ m_peq_que \in S /\ PeqReady(D) \in S /\ m_rcv_dat' \in S
          /\ PeqVals(PeqLater(D)) \in S /\ PeqVals(D) \in S
          /\ PeqVals(m_peq) \in S /\ m_rcv_dat \in S
      BY <2>1, <2>2
    <3> HIDE DEF S
    <3> QED BY <2>4, <3>1, <3>2
  <2> QED BY <1>7, <1>8, <2>5 DEF Cat
<1> QED BY <1>3, <1>4, <1>6, <1>7, <1>9, <1>10, <1>11, <1>12, <1>13

\* tgt's edge: requests, delayed credits and ready credits change places, and
\* in a send slot one credit and one value go back together.
LEMMA TgtIInv == IInv /\ TgtEntry => IInv'
<1> SUFFICES ASSUME IInv, TgtEntry PROVE IInv'
  OBVIOUS
<1>1. mth_dat_proc /\ mth_get_peq /\ mth_snd_msg
  BY DEF TgtEntry
<1>2. /\ m_rcv_dat' \in Seq(Vals)
      /\ m_peq' \in Seq(PeqEntry(Vals, Delay))
      /\ m_peq_ctl' \in Seq(PeqEntry({1}, Delay))
      /\ DatReady \in Seq(Vals) /\ CtlReady \in Seq({1})
      /\ Len(DatReady) = Len(CtlReady)
      /\ Len(m_peq') = Len(m_peq_ctl')
      /\ \A i \in DOMAIN m_peq' : m_peq'[i].due = m_peq_ctl'[i].due
      /\ Len(m_rcv_dat') + Len(m_peq_ctl') + Len(CtlReady)
           = Len(m_rcv_dat) + Len(m_peq_ctl) + Len(m_snd_ctl)
  BY <1>1, TgtQueues
<1>3. /\ TypeOK /\ CreditConservation /\ StatMatchesDebt /\ PathsInStep
  BY DEF IInv
<1>4. m_val' = m_val /\ pending' = pending \ {"tgt"}
      /\ m_cycle' \in 0 .. SchCycle - 1
  BY <1>3, ConstantsAssumption DEF TgtEntry, TypeOK
<1>5. /\ Len(m_rcv_dat) \in Nat /\ Len(m_peq_ctl) \in Nat
      /\ Len(m_snd_ctl) \in Nat /\ Len(m_rcv_dat') \in Nat
      /\ Len(m_peq_ctl') \in Nat /\ Len(CtlReady) \in Nat
      /\ InitCredit \in Nat /\ m_credit \in Int /\ m_peq_ctl_stat \in Int
  BY <1>2, <1>3, ConstantsAssumption DEF TypeOK
<1>6. /\ m_val \in Vals /\ pending \subseteq Procs /\ rcvd \in Seq(Vals)
      /\ m_snd_msg_que = <<>>
  BY <1>3 DEF TypeOK, PathsInStep
<1>7. CASE m_cycle' # 0
  <2>1. /\ m_peq_que' = DatReady /\ m_snd_ctl' = CtlReady
        /\ UNCHANGED <<m_snd_msg_que, m_peq_ctl_stat, m_credit, rcvd>>
    BY <1>1, <1>7 DEF mth_snd_msg
  <2>2. TypeOK'
    BY <1>2, <1>4, <1>5, <1>6, <2>1 DEF TypeOK
  <2>3. CreditConservation' /\ StatMatchesDebt'
    <3>1. Len(m_rcv_dat') + Len(m_peq_ctl') + Len(CtlReady)
            = Len(m_rcv_dat) + Len(m_peq_ctl) + Len(m_snd_ctl)
      BY <1>2, Zenon
    <3>2. /\ m_snd_ctl' = CtlReady
          /\ m_credit' = m_credit /\ m_peq_ctl_stat' = m_peq_ctl_stat
      BY <2>1
    <3>3. m_credit + Len(m_rcv_dat) + Len(m_peq_ctl) + Len(m_snd_ctl)
            = InitCredit
      BY <1>3 DEF CreditConservation
    <3>4. StatMatchesDebt'
      BY <1>3, <3>2 DEF StatMatchesDebt
    <3> QED BY <1>5, <3>1, <3>2, <3>3, <3>4 DEF CreditConservation
  <2>4. PathsInStep'
    BY <1>2, <1>6, <2>1 DEF PathsInStep
  <2> QED BY <2>2, <2>3, <2>4 DEF IInv
<1>8. CASE m_cycle' = 0 /\ CtlReady = <<>>
  <2>1. DatReady = <<>>
    BY <1>2, <1>8
  <2>2. /\ m_peq_que' = <<>> /\ m_snd_ctl' = <<>> /\ m_snd_msg_que' = <<>>
        /\ UNCHANGED <<m_peq_ctl_stat, m_credit, rcvd>>
    BY <1>1, <1>6, <1>8, <2>1 DEF mth_snd_msg, SndCredit, SrcCredited, SndData, SrcReceives
  <2>3. TypeOK'
    BY <1>2, <1>4, <1>5, <1>6, <2>2 DEF TypeOK
  <2>4. CreditConservation' /\ StatMatchesDebt'
    <3>1. Len(CtlReady) = 0 /\ Len(m_snd_ctl') = 0
      BY <1>8, <2>2
    <3>2. Len(m_rcv_dat') + Len(m_peq_ctl') + Len(CtlReady)
            = Len(m_rcv_dat) + Len(m_peq_ctl) + Len(m_snd_ctl)
      BY <1>2, Zenon
    <3>3. m_credit' = m_credit /\ m_peq_ctl_stat' = m_peq_ctl_stat
      BY <2>2
    <3>4. m_credit + Len(m_rcv_dat) + Len(m_peq_ctl) + Len(m_snd_ctl)
            = InitCredit
      BY <1>3 DEF CreditConservation
    <3>5. StatMatchesDebt'
      BY <1>3, <3>3 DEF StatMatchesDebt
    <3> QED BY <1>5, <3>1, <3>2, <3>3, <3>4, <3>5 DEF CreditConservation
  <2>5. PathsInStep'
    BY <1>2, <2>2 DEF PathsInStep
  <2> QED BY <2>3, <2>4, <2>5 DEF IInv
<1>9. CASE m_cycle' = 0 /\ CtlReady # <<>>
  <2>1. DatReady # <<>>
    BY <1>2, <1>9
  <2>2. /\ Head(DatReady) \in Vals /\ Tail(DatReady) \in Seq(Vals)
        /\ Len(Tail(DatReady)) = Len(DatReady) - 1
    BY <1>2, <2>1
  <2>3. /\ Head(CtlReady) = 1 /\ Tail(CtlReady) \in Seq({1})
        /\ Len(Tail(CtlReady)) = Len(CtlReady) - 1
    BY <1>2, <1>9
  <2>4. /\ m_peq_que' = Tail(DatReady) /\ m_snd_ctl' = Tail(CtlReady)
        /\ m_credit' = m_credit + 1 /\ m_peq_ctl_stat' = m_peq_ctl_stat - 1
    BY <1>1, <1>9, <2>1, <2>3 DEF mth_snd_msg, SndCredit, SrcCredited, SndData, SrcReceives
  <2>5. Append(m_snd_msg_que, Head(DatReady)) = <<Head(DatReady)>>
    BY <1>6, <2>2
  <2>6. m_snd_msg_que' = <<>> /\ rcvd' = <<Head(DatReady)>>
    BY <1>1, <1>9, <2>1, <2>2, <2>5 DEF mth_snd_msg, SndData, SrcReceives
  <2>7. TypeOK'
    BY <1>2, <1>4, <1>5, <1>6, <2>2, <2>3, <2>4, <2>6 DEF TypeOK
  <2>8. CreditConservation' /\ StatMatchesDebt'
    <3>1. Len(m_snd_ctl') = Len(CtlReady) - 1 /\ Len(CtlReady) > 0
      BY <1>2, <1>9, <2>3, <2>4
    <3>2. Len(m_rcv_dat') + Len(m_peq_ctl') + Len(CtlReady)
            = Len(m_rcv_dat) + Len(m_peq_ctl) + Len(m_snd_ctl)
      BY <1>2, Zenon
    <3>3. CreditConservation'
      <4>1. m_credit' = m_credit + 1
        BY <2>4
      <4>2. m_credit + Len(m_rcv_dat) + Len(m_peq_ctl) + Len(m_snd_ctl)
              = InitCredit
        BY <1>3 DEF CreditConservation
      <4> QED BY <1>5, <3>1, <3>2, <4>1, <4>2 DEF CreditConservation
    <3>4. m_credit' \in 0 .. InitCredit
      BY <1>3, <1>5, <2>4, <3>1, <3>2 DEF CreditConservation, StatMatchesDebt
    <3>5. StatMatchesDebt'
      BY <1>3, <1>5, <2>4, <3>4 DEF StatMatchesDebt
    <3> QED BY <3>3, <3>5
  <2>9. PathsInStep'
    BY <1>2, <2>2, <2>3, <2>4, <2>6 DEF PathsInStep
  <2> QED BY <2>7, <2>8, <2>9 DEF IInv
<1> QED BY <1>7, <1>8, <1>9

-----------------------------------------------------------------------------
\* Every step keeps the inductive invariant.
LEMMA StepIInv == IInv /\ [Next]_vars => IInv'
<1> SUFFICES ASSUME IInv, [Next]_vars PROVE IInv'
  OBVIOUS
<1>1. CASE SrcEntry
  BY <1>1, SrcIInv
<1>2. CASE TgtEntry
  BY <1>2, TgtIInv
<1>3. CASE ClockEdge
  BY <1>3, EdgeIInv
<1>4. CASE UNCHANGED vars
  BY <1>4 DEF vars, srcVars, queVars, IInv, TypeOK, CreditConservation,
              StatMatchesDebt, PathsInStep
<1> QED BY <1>1, <1>2, <1>3, <1>4 DEF Next

\* Every reachable state satisfies it.
LEMMA SpecIInv == Spec => []IInv
BY InitIInv, StepIInv, PTL DEF Spec

\* The variables keep their types, for every window, delay and payload bound.
THEOREM TypeCorrect == Spec => []TypeOK
BY SpecIInv, PTL DEF IInv

\* No credit is lost or minted, however the kernel orders the two processes.
THEOREM CreditsConserved == Spec => []CreditConservation
BY SpecIInv, PTL DEF IInv

\* tgt never pops an empty m_peq_ctl_stat, and src's credit stays in range.
THEOREM DebtMatches == Spec => []StatMatchesDebt
BY SpecIInv, PTL DEF IInv

\* The data and the credit path stay in step.
THEOREM PathsStayInStep == Spec => []PathsInStep
BY SpecIInv, PTL DEF IInv

-----------------------------------------------------------------------------
\* How many requests may wait undelayed: one between two edges, two when src has
\* sent and tgt has still to run, none when tgt ran first and src has not sent.
Backlog == Len(m_rcv_dat) <= IF pending = {"tgt"} THEN 2
                             ELSE IF pending = {"src"} THEN 0 ELSE 1

\* Each process changes the backlog by at most one and runs once per edge.
LEMMA StepBacklog == TypeOK /\ Backlog /\ [Next]_vars => Backlog'
<1> SUFFICES ASSUME TypeOK, Backlog, [Next]_vars PROVE Backlog'
  OBVIOUS
<1>1. pending \subseteq {"src", "tgt"} /\ m_rcv_dat \in Seq(Vals) /\ Len(m_rcv_dat) \in Nat
  BY DEF TypeOK, Procs
<1>2. CASE SrcEntry
  <2>1. "src" \in pending /\ pending' = pending \ {"src"}
    BY <1>2 DEF SrcEntry
  <2>2. \/ pending = {"src", "tgt"} /\ pending' = {"tgt"}
        \/ pending = {"src"} /\ pending' = {}
    BY <1>1, <2>1
  <2>3. m_rcv_dat' = Append(m_rcv_dat, m_val) \/ m_rcv_dat' = m_rcv_dat
    BY <1>2 DEF SrcEntry, TgtReceives
  <2>4. m_val \in Vals
    BY DEF TypeOK
  <2>5. Len(m_rcv_dat') <= Len(m_rcv_dat) + 1
    BY <1>1, <2>3, <2>4
  <2>6. CASE pending = {"src", "tgt"} /\ pending' = {"tgt"}
    <3>1. Len(m_rcv_dat) <= 1
      BY <2>6 DEF Backlog
    <3>2. Len(m_rcv_dat') \in Nat
      BY <1>1, <2>3, <2>4
    <3>3. Len(m_rcv_dat') <= 2
      BY <1>1, <2>5, <3>1, <3>2
    <3> QED BY <2>6, <3>3 DEF Backlog
  <2>7. CASE pending = {"src"} /\ pending' = {}
    <3>1. Len(m_rcv_dat) <= 0
      BY <2>7 DEF Backlog
    <3>2. Len(m_rcv_dat') \in Nat
      BY <1>1, <2>3, <2>4
    <3>3. Len(m_rcv_dat') <= 1
      BY <1>1, <2>5, <3>1, <3>2
    <3> QED BY <2>7, <3>3 DEF Backlog
  <2> QED BY <2>2, <2>6, <2>7
<1>3. CASE TgtEntry
  <2>1. "tgt" \in pending /\ pending' = pending \ {"tgt"}
    BY <1>3 DEF TgtEntry
  <2>2. \/ pending = {"src", "tgt"} /\ pending' = {"src"}
        \/ pending = {"tgt"} /\ pending' = {}
    BY <1>1, <2>1
  <2>3. m_rcv_dat' = IF m_rcv_dat = <<>> THEN <<>> ELSE Tail(m_rcv_dat)
    BY <1>3 DEF TgtEntry, mth_dat_proc
  <2>4. Len(m_rcv_dat') = IF Len(m_rcv_dat) = 0 THEN 0 ELSE Len(m_rcv_dat) - 1
    BY <1>1, <2>3
  <2>5. CASE pending = {"src", "tgt"} /\ pending' = {"src"}
    <3>1. Len(m_rcv_dat) <= 1
      BY <2>5 DEF Backlog
    <3>2. Len(m_rcv_dat') <= 0
      BY <1>1, <2>4, <3>1
    <3> QED BY <2>5, <3>2 DEF Backlog
  <2>6. CASE pending = {"tgt"} /\ pending' = {}
    <3>1. Len(m_rcv_dat) <= 2
      BY <2>6 DEF Backlog
    <3>2. Len(m_rcv_dat') <= 1
      BY <1>1, <2>4, <3>1
    <3> QED BY <2>6, <3>2 DEF Backlog
  <2> QED BY <2>2, <2>5, <2>6
<1>4. CASE ClockEdge
  <2>1. pending = {} /\ pending' = {"src", "tgt"} /\ m_rcv_dat' = m_rcv_dat
    BY <1>4 DEF ClockEdge, Procs
  <2>2. Len(m_rcv_dat) <= 1
    BY <2>1 DEF Backlog
  <2> QED BY <2>1, <2>2 DEF Backlog
<1>5. CASE UNCHANGED vars
  BY <1>5 DEF vars, Backlog
<1> QED BY <1>2, <1>3, <1>4, <1>5 DEF Next

\* That is what the backlog is claimed to be.
LEMMA BacklogSuffices == TypeOK /\ Backlog => ReceiveBacklog
<1> SUFFICES ASSUME TypeOK, Backlog PROVE ReceiveBacklog
  OBVIOUS
<1>1. pending \subseteq {"src", "tgt"} /\ Len(m_rcv_dat) \in Nat
  BY DEF TypeOK, Procs
<1>2. CASE pending = {"tgt"}
  BY <1>1, <1>2 DEF Backlog, ReceiveBacklog
<1>3. CASE pending = {"src"}
  BY <1>1, <1>3 DEF Backlog, ReceiveBacklog
<1>4. CASE pending # {"tgt"} /\ pending # {"src"}
  <2>1. Len(m_rcv_dat) <= 1
    BY <1>4 DEF Backlog
  <2> QED BY <1>1, <2>1 DEF ReceiveBacklog
<1> QED BY <1>2, <1>3, <1>4

\* No more than two requests ever wait undelayed, and no more than one once tgt
\* has run, in whatever order the kernel runs the two from edge to edge.
THEOREM BacklogIsBounded == Spec => []ReceiveBacklog
<1>1. Init => Backlog
  BY DEF Init, Backlog, Procs
<1> QED BY <1>1, StepBacklog, BacklogSuffices, TypeCorrect, PTL DEF Spec

-----------------------------------------------------------------------------
\* Under the invariant m_snd_msg_que is empty between steps, so the line of
\* values in flight is made of three typed parts.
LEMMA InFlightParts ==
  ASSUME IInv
  PROVE  /\ InFlight = (m_peq_que \o PeqVals(m_peq)) \o m_rcv_dat
         /\ m_peq_que \in Seq(Vals) /\ PeqVals(m_peq) \in Seq(Vals)
         /\ m_rcv_dat \in Seq(Vals)
         /\ m_peq_que \o PeqVals(m_peq) \in Seq(Vals)
         /\ InFlight \in Seq(Vals)
<1>1. /\ m_peq_que \in Seq(Vals) /\ m_rcv_dat \in Seq(Vals)
      /\ m_snd_msg_que = <<>> /\ m_peq \in Seq(PeqEntry(Vals, Delay))
  BY DEF IInv, TypeOK, PathsInStep
<1>2. PeqVals(m_peq) \in Seq(Vals)
  BY <1>1, ConstantsAssumption, PeqValsType
<1>3. m_snd_msg_que \o m_peq_que = m_peq_que
  BY <1>1
<1>4. m_peq_que \o PeqVals(m_peq) \in Seq(Vals)
  BY <1>1, <1>2, ConcatType
<1>5. (m_peq_que \o PeqVals(m_peq)) \o m_rcv_dat \in Seq(Vals)
  BY <1>1, <1>4, ConcatType
<1>6. InFlight = (m_peq_que \o PeqVals(m_peq)) \o m_rcv_dat
  BY <1>3 DEF InFlight
<1> QED BY <1>1, <1>2, <1>4, <1>5, <1>6

\* src's edge is a send of the window channel, or invisible to it.
LEMMA SrcRefines == IInv /\ SrcEntry => [Channel!Next]_(Channel!vars)
<1> SUFFICES ASSUME IInv, SrcEntry PROVE [Channel!Next]_(Channel!vars)
  OBVIOUS
<1>1. UNCHANGED <<m_peq, m_peq_que, m_snd_msg_que, rcvd>>
  BY DEF SrcEntry, TgtReceives, queVars
<1>2. PeqVals(m_peq') = PeqVals(m_peq)
  BY <1>1
<1>3. InFlight' = (m_peq_que \o PeqVals(m_peq)) \o m_rcv_dat'
  <2>1. m_snd_msg_que = <<>> /\ m_peq_que \in Seq(Vals)
    BY DEF IInv, PathsInStep, TypeOK
  <2>2. InFlight' = ((m_snd_msg_que \o m_peq_que) \o PeqVals(m_peq)) \o m_rcv_dat'
    BY <1>1, <1>2 DEF InFlight
  <2>3. m_snd_msg_que \o m_peq_que = m_peq_que
    BY <2>1
  <2> QED BY <2>2, <2>3
<1>4. CASE m_credit > 0
  <2>1. /\ m_rcv_dat' = Append(m_rcv_dat, m_val)
        /\ m_credit' = m_credit - 1
        /\ m_val' = (m_val + 1) % ValMod
    BY <1>4 DEF SrcEntry, TgtReceives, NextVal
  <2>2. m_val \in Vals
    BY DEF IInv, TypeOK
  <2>3. InFlight' = Append(InFlight, m_val)
    BY <1>3, <2>1, <2>2, InFlightParts, ConcatLast, SMTT(30)
  <2> QED BY <1>1, <1>4, <2>1, <2>3 DEF Channel!Next, Channel!Send
<1>5. CASE ~(m_credit > 0)
  <2>1. UNCHANGED <<m_rcv_dat, m_val, m_credit>>
    BY <1>5 DEF SrcEntry, TgtReceives, srcVars
  <2>2. InFlight' = InFlight
    BY <1>3, <2>1, InFlightParts
  <2> QED BY <1>1, <2>1, <2>2 DEF Channel!vars
<1> QED BY <1>4, <1>5

\* Time passing is invisible to the window channel.
LEMMA EdgeRefines == IInv /\ ClockEdge => [Channel!Next]_(Channel!vars)
<1> SUFFICES ASSUME IInv, ClockEdge PROVE [Channel!Next]_(Channel!vars)
  OBVIOUS
<1>1. /\ m_peq' = PeqAge(m_peq)
      /\ UNCHANGED <<m_credit, m_val, m_rcv_dat, m_peq_que, m_snd_msg_que, rcvd>>
  BY DEF ClockEdge, srcVars, queVars
<1>2. m_peq \in Seq(PeqEntry(Vals, Delay))
  BY DEF IInv, TypeOK
<1>3. PeqVals(m_peq') = PeqVals(m_peq)
  BY <1>1, <1>2, ConstantsAssumption, PeqAgeKeeps
<1>4. InFlight' = InFlight
  BY <1>1, <1>3 DEF InFlight
<1> QED BY <1>1, <1>4 DEF Channel!vars

\* tgt's edge echoes the oldest value in flight with one credit, or only moves
\* values along inside tgt.
LEMMA TgtRefines == IInv /\ TgtEntry => [Channel!Next]_(Channel!vars)
<1> SUFFICES ASSUME IInv, TgtEntry PROVE [Channel!Next]_(Channel!vars)
  OBVIOUS
<1>1. mth_dat_proc /\ mth_get_peq /\ mth_snd_msg /\ m_val' = m_val
  BY DEF TgtEntry
<1>2. /\ m_rcv_dat' \in Seq(Vals)
      /\ m_peq' \in Seq(PeqEntry(Vals, Delay))
      /\ DatReady \in Seq(Vals) /\ CtlReady \in Seq({1})
      /\ Len(DatReady) = Len(CtlReady)
      /\ (DatReady \o PeqVals(m_peq')) \o m_rcv_dat'
           = (m_peq_que \o PeqVals(m_peq)) \o m_rcv_dat
  BY <1>1, TgtQueues
<1>3. InFlight = (DatReady \o PeqVals(m_peq')) \o m_rcv_dat'
  BY <1>2, InFlightParts
<1>4. PeqVals(m_peq') \in Seq(Vals)
  BY <1>2, ConstantsAssumption, PeqValsType
<1>5. DatReady \o PeqVals(m_peq') \in Seq(Vals)
  BY <1>2, <1>4, ConcatType
<1>6. IInv'
  BY TgtIInv
<1>7. InFlight' = (m_peq_que' \o PeqVals(m_peq')) \o m_rcv_dat'
  <2>1. m_snd_msg_que' = <<>> /\ m_peq_que' \in Seq(Vals)
    BY <1>6 DEF IInv, PathsInStep, TypeOK
  <2>2. m_snd_msg_que' \o m_peq_que' = m_peq_que'
    BY <2>1
  <2>3. InFlight' = ((m_snd_msg_que' \o m_peq_que') \o PeqVals(m_peq'))
                      \o m_rcv_dat'
    BY DEF InFlight
  <2> QED BY <2>2, <2>3
<1>8. m_snd_msg_que = <<>>
  BY DEF IInv, PathsInStep
<1>9. CASE m_cycle' = 0 /\ CtlReady # <<>>
  <2>1. DatReady # <<>>
    BY <1>2, <1>9
  <2>2. Head(CtlReady) = 1 /\ Head(DatReady) \in Vals
    BY <1>2, <1>9, <2>1
  <2>3. /\ m_peq_que' = Tail(DatReady) /\ m_credit' = m_credit + 1
    BY <1>1, <1>9, <2>1, <2>2 DEF mth_snd_msg, SndCredit, SrcCredited, SndData, SrcReceives
  <2>4. rcvd' = <<Head(DatReady)>>
    <3>1. Append(m_snd_msg_que, Head(DatReady)) = <<Head(DatReady)>>
      BY <1>8, <2>2
    <3> QED BY <1>1, <1>9, <2>1, <2>2, <3>1 DEF mth_snd_msg, SndData, SrcReceives
  <2>5. /\ DatReady \o PeqVals(m_peq') # <<>>
        /\ Head(DatReady \o PeqVals(m_peq')) = Head(DatReady)
        /\ Tail(DatReady \o PeqVals(m_peq')) = Tail(DatReady) \o PeqVals(m_peq')
    BY <1>2, <1>4, <2>1, ConcatHead
  <2>6. /\ InFlight # <<>> /\ Head(InFlight) = Head(DatReady)
        /\ Tail(InFlight) = InFlight'
    <3> DEFINE X == DatReady \o PeqVals(m_peq')
    <3>1. X \in Seq(Vals) /\ X # <<>> /\ m_rcv_dat' \in Seq(Vals)
      BY <1>2, <1>5, <2>5
    <3>2. /\ InFlight = X \o m_rcv_dat' /\ Head(X) = Head(DatReady)
          /\ Tail(X) \o m_rcv_dat' = InFlight'
      BY <1>3, <1>7, <2>3, <2>5
    <3> HIDE DEF X
    <3>3. /\ X \o m_rcv_dat' # <<>> /\ Head(X \o m_rcv_dat') = Head(X)
          /\ Tail(X \o m_rcv_dat') = Tail(X) \o m_rcv_dat'
      BY <3>1, ConcatHead
    <3> QED BY <3>2, <3>3
  <2> QED BY <1>1, <2>3, <2>4, <2>6 DEF Channel!Next, Channel!Echo
<1>10. CASE ~(m_cycle' = 0 /\ CtlReady # <<>>)
  <2>1. m_peq_que' = DatReady /\ UNCHANGED <<m_credit, rcvd>>
    <3>1. CASE m_cycle' # 0
      BY <1>1, <3>1 DEF mth_snd_msg
    <3>2. CASE m_cycle' = 0 /\ CtlReady = <<>> /\ DatReady = <<>>
      BY <1>1, <1>8, <3>2 DEF mth_snd_msg, SndCredit, SrcCredited, SndData, SrcReceives
    <3>3. CtlReady = <<>> => DatReady = <<>>
      BY <1>2
    <3> QED BY <1>10, <3>1, <3>2, <3>3
  <2>2. InFlight' = InFlight
    BY <1>3, <1>7, <2>1
  <2> QED BY <1>1, <2>1, <2>2 DEF Channel!vars
<1> QED BY <1>9, <1>10

\* The initial states and the steps of the loop are those of the channel.
LEMMA LoopRefines ==
  /\ Init => Channel!Init
  /\ IInv /\ [Next]_vars => [Channel!Next]_(Channel!vars)
<1>1. Init => Channel!Init
  <2> SUFFICES ASSUME Init PROVE Channel!Init
    OBVIOUS
  <2>1. InFlight = <<>>
    BY DEF Init, InFlight, PeqVals
  <2> QED BY <2>1 DEF Init, Channel!Init
<1>2. IInv /\ [Next]_vars => [Channel!Next]_(Channel!vars)
  <2>1. CASE UNCHANGED vars
    BY <2>1 DEF vars, srcVars, queVars, Channel!vars, InFlight
  <2> QED BY <2>1, SrcRefines, TgtRefines, EdgeRefines DEF Next
<1> QED BY <1>1, <1>2

\* The src/tgt pair implements the window-controlled loop-back channel: values
\* come back in the order sent, each with one credit in the same step, for
\* every window, delay and scheduling cycle, in any order of the processes.
THEOREM Refinement == Spec => ImplementsChannel
BY LoopRefines, SpecIInv, PTL DEF Spec, ImplementsChannel, Channel!SafeSpec

-----------------------------------------------------------------------------
(* The simulation as a whole, and the pairs CC/DD and A/BB                 *)

\* What is proved of the loop holds in the simulation sc_main runs, where its
\* processes take turns with those of the pairs.
THEOREM LoopInMain == MainSpec => [](IInv /\ ReceiveBacklog) /\ ImplementsChannel
<1>1. MainInit => IInv /\ Backlog
  <2>1. Init => Backlog
    BY DEF Init, Backlog
  <2> QED BY <2>1, InitIInv DEF MainInit, TimedInit
<1>2. [MainNext]_mainVars => [Next]_vars
  BY DEF MainNext, mainVars, timedVars, TimedProcess, TimedEdge, Next
<1>3. IInv /\ [Next]_vars => IInv'
  BY StepIInv
<1>4. TypeOK /\ Backlog /\ [Next]_vars => Backlog'
  BY StepBacklog
<1>5. TypeOK /\ Backlog => ReceiveBacklog
  BY BacklogSuffices
<1>6. MainInit => Init
  BY DEF MainInit, TimedInit
<1> QED BY <1>1, <1>2, <1>3, <1>4, <1>5, <1>6, LoopRefines, PTL
        DEF MainSpec, IInv, ImplementsChannel, Channel!SafeSpec

PairVals == 0 .. PairMod - 1
PairNext(x) == (x + 1) % PairMod

\* The number after a number is one.
LEMMA PairNextType == ASSUME NEW x \in PairVals PROVE PairNext(x) \in PairVals
BY SrvMainAssumption DEF PairVals, PairNext

\* The pairs' instance reads a queue by the same operators.
LEMMA PairsPeq ==
  /\ \A q, v, t : Pairs!PeqDelay(q, v, t) = PeqDelay(q, v, t)
  /\ \A q : Pairs!PeqReady(q) = PeqReady(q)
  /\ \A q : Pairs!PeqAge(q) = PeqAge(q)
<1>1. \A q, t : Pairs!PeqWithin(q, t) = PeqWithin(q, t)
  BY DEF Pairs!PeqWithin, PeqWithin, Pairs!Cardinality, Cardinality
<1>2. \A q, v, t : Pairs!PeqDelay(q, v, t) = PeqDelay(q, v, t)
  BY <1>1, Zenon DEF Pairs!PeqDelay, PeqDelay
<1>3. \A q : Pairs!PeqReady(q) = PeqReady(q)
  BY <1>1, Zenon DEF Pairs!PeqReady, PeqReady
<1>4. \A q : Pairs!PeqAge(q) = PeqAge(q)
  BY DEF Pairs!PeqAge, PeqAge
<1> QED BY <1>2, <1>3, <1>4

\* n is the number CC sends on this edge.  What it sent on the edge before is
\* due until DD has run; on the first edge there is no such number.
DDHolds(n) ==
  /\ snd = IF "CC" \in ready THEN n ELSE PairNext(n)
  /\ dd_peq \in Seq(PeqEntry(PairVals, 1))
  /\ \/ /\ n = PairNext(popped)
        /\ Len(dd_peq) = IF "CC" \in ready THEN 0 ELSE 1
        /\ "CC" \notin ready => dd_peq[1] = [due |-> 1, val |-> n]
     \/ /\ "DD" \in ready
        /\ n = PairNext(PairNext(popped))
        /\ Len(dd_peq) = IF "CC" \in ready THEN 1 ELSE 2
        /\ dd_peq[1] = [due |-> 0, val |-> PairNext(popped)]
        /\ "CC" \notin ready => dd_peq[2] = [due |-> 1, val |-> n]

\* A writes one number and BB reads the one of the edge before.
BBHolds ==
  /\ a_val \in PairVals /\ ~ lost
  /\ old \in Seq(PairVals) /\ Len(old) <= 1
  /\ written \in Seq(PairVals) /\ Len(written) = IF "A" \in ready THEN 0 ELSE 1
  /\ read = IF "BB" \in ready THEN 0 ELSE Len(old)

PairsInv ==
  /\ ready \subseteq Pairs!Procs /\ popped \in PairVals
  /\ \E n \in PairVals : DDHolds(n)
  /\ BBHolds

\* The pairs start with nothing sent.
LEMMA PairsStart == Pairs!Init => PairsInv
<1> SUFFICES ASSUME Pairs!Init PROVE PairsInv
  OBVIOUS
<1>1. /\ snd = 0 /\ dd_peq = <<>> /\ popped = PairMod - 1
      /\ a_val = 0 /\ written = <<>> /\ old = <<>> /\ read = 0 /\ lost = FALSE
      /\ ready = {"CC", "DD", "A", "BB"}
  BY DEF Pairs!Init, Pairs!Procs
<1>2. 0 \in PairVals /\ popped \in PairVals /\ 0 = PairNext(popped)
  BY <1>1, SrvMainAssumption DEF PairVals, PairNext
<1>3. DDHolds(0)
  BY <1>1, <1>2 DEF DDHolds
<1>4. BBHolds
  BY <1>1, <1>2 DEF BBHolds
<1> QED BY <1>1, <1>2, <1>3, <1>4 DEF PairsInv, Pairs!Procs

\* What is due in DD's queue is the number in front, if DD has still to run.
LEMMA DDReady ==
  ASSUME NEW n \in PairVals, DDHolds(n)
  PROVE  (PeqReady(dd_peq) = <<>>) <=> (dd_peq = <<>> \/ dd_peq[1].due = 1)
<1>1. dd_peq \in Seq(PeqEntry(PairVals, 1)) /\ Len(dd_peq) \in Nat
  BY DEF DDHolds
<1>2. Ordered(dd_peq)
  <2>1. DOMAIN dd_peq = 1 .. Len(dd_peq) /\ Len(dd_peq) \in 0 .. 2
    BY <1>1 DEF DDHolds
  <2>2. Len(dd_peq) = 2 => dd_peq[1].due = 0 /\ dd_peq[2].due = 1
    BY DEF DDHolds
  <2>3. Len(dd_peq) >= 1 => dd_peq[1].due \in {0, 1}
    BY DEF DDHolds
  <2>4. ASSUME NEW i \in 1 .. Len(dd_peq), NEW j \in 1 .. Len(dd_peq), i <= j
        PROVE  dd_peq[i].due <= dd_peq[j].due
    <3>1. i = 1 \/ i = 2
      BY <2>1
    <3>2. j = 1 \/ j = 2
      BY <2>1
    <3> QED BY <2>1, <2>2, <2>3, <2>4, <3>1, <3>2
  <2> QED BY <2>1, <2>4 DEF Ordered
<1>3. PeqReady(dd_peq) = <<>> <=> (dd_peq # <<>> => Head(dd_peq).due > 0)
  BY <1>1, <1>2, PeqReadyHead
<1>4. dd_peq # <<>> => Head(dd_peq) = dd_peq[1] /\ dd_peq[1].due \in {0, 1}
  BY <1>1 DEF DDHolds
<1> QED BY <1>3, <1>4

\* Each of the four methods, and the edge, keeps that.
LEMMA PairsStep ==
  ASSUME FifoSize > 1, PairsInv, Pairs!Next \/ Pairs!ClockEdge
  PROVE  PairsInv'
<1>1. PICK n \in PairVals : DDHolds(n)
  BY DEF PairsInv
<1>2. /\ ready \subseteq Pairs!Procs /\ popped \in PairVals /\ BBHolds
      /\ PairNext(n) \in PairVals /\ PairNext(popped) \in PairVals
  BY PairNextType DEF PairsInv
<1>3. ASSUME NEW p \in Pairs!Procs, Pairs!Runs(p)
      PROVE  /\ p \in ready /\ p \notin ready' /\ ready' \subseteq Pairs!Procs
             /\ \A r \in Pairs!Procs : r # p => (r \in ready' <=> r \in ready)
  BY <1>2, <1>3 DEF Pairs!Runs
<1>4. CASE Pairs!CC
  <2>1. /\ "CC" \in ready /\ "CC" \notin ready' /\ ready' \subseteq Pairs!Procs
        /\ "DD" \in ready' <=> "DD" \in ready
        /\ "A" \in ready' <=> "A" \in ready
        /\ "BB" \in ready' <=> "BB" \in ready
    BY <1>3, <1>4 DEF Pairs!CC, Pairs!Procs
  <2>2. /\ dd_peq' = PeqDelay(dd_peq, snd, 1) /\ snd' = PairNext(snd)
        /\ UNCHANGED <<popped, a_val, written, old, read, lost>>
    BY <1>4, PairsPeq DEF Pairs!CC, PairNext, Pairs!fifoVars
  <2>3. snd = n /\ dd_peq \in Seq(PeqEntry(PairVals, 1))
    BY <1>1, <2>1 DEF DDHolds
  <2> DEFINE e == [due |-> 1, val |-> n]
  <2>4. dd_peq' = Append(dd_peq, e) /\ dd_peq' \in Seq(PeqEntry(PairVals, 1))
    BY <2>2, <2>3, PeqDelayLast
  <2>5. /\ Len(dd_peq') = Len(dd_peq) + 1 /\ Len(dd_peq) \in Nat
        /\ dd_peq'[Len(dd_peq) + 1] = e
        /\ \A i \in 1 .. Len(dd_peq) : dd_peq'[i] = dd_peq[i]
    <3> HIDE DEF e
    <3> QED BY <2>3, <2>4
  <2> HIDE DEF e
  <2>6. DDHolds(n)'
    <3>1. CASE n = PairNext(popped) /\ Len(dd_peq) = 0
      BY <2>1, <2>2, <2>3, <2>4, <2>5, <3>1 DEF DDHolds, e
    <3>2. CASE /\ "DD" \in ready /\ n = PairNext(PairNext(popped))
               /\ Len(dd_peq) = 1 /\ dd_peq[1] = [due |-> 0, val |-> PairNext(popped)]
      <4>1. Len(dd_peq') = 2 /\ dd_peq'[2] = e /\ dd_peq'[1] = dd_peq[1]
        BY <2>5, <3>2
      <4> QED BY <2>1, <2>2, <2>3, <2>4, <3>2, <4>1 DEF DDHolds, e
    <3> QED BY <1>1, <2>1, <3>1, <3>2 DEF DDHolds
  <2>7. BBHolds'
    BY <1>2, <2>1, <2>2 DEF BBHolds
  <2> QED BY <1>2, <2>1, <2>2, <2>6, <2>7 DEF PairsInv
<1>5. CASE Pairs!DD
  <2>1. /\ "DD" \in ready /\ "DD" \notin ready' /\ ready' \subseteq Pairs!Procs
        /\ "CC" \in ready' <=> "CC" \in ready
        /\ "A" \in ready' <=> "A" \in ready
        /\ "BB" \in ready' <=> "BB" \in ready
    BY <1>3, <1>5 DEF Pairs!DD, Pairs!Procs
  <2>2. /\ IF PeqReady(dd_peq) # <<>>
           THEN dd_peq' = Tail(dd_peq) /\ popped' = Head(dd_peq).val
           ELSE UNCHANGED <<dd_peq, popped>>
        /\ UNCHANGED <<snd, a_val, written, old, read, lost>>
    BY <1>5, PairsPeq DEF Pairs!DD, Pairs!fifoVars
  <2>3. BBHolds'
    BY <1>2, <2>1, <2>2 DEF BBHolds
  <2>4. CASE n = PairNext(popped) /\ Len(dd_peq) = (IF "CC" \in ready THEN 0 ELSE 1)
             /\ ("CC" \notin ready => dd_peq[1] = [due |-> 1, val |-> n])
    <3>1. dd_peq \in Seq(PeqEntry(PairVals, 1))
      BY <1>1 DEF DDHolds
    <3>2. PeqReady(dd_peq) = <<>>
      <4>1. dd_peq = <<>> \/ dd_peq[1].due = 1
        BY <2>4, <3>1
      <4> QED BY <1>1, <4>1, DDReady
    <3>3. DDHolds(n)'
      BY <1>1, <2>1, <2>2, <2>4, <3>1, <3>2 DEF DDHolds
    <3> QED BY <1>2, <2>1, <2>2, <2>3, <3>2, <3>3 DEF PairsInv
  <2>5. CASE /\ n = PairNext(PairNext(popped))
             /\ Len(dd_peq) = (IF "CC" \in ready THEN 1 ELSE 2)
             /\ dd_peq[1] = [due |-> 0, val |-> PairNext(popped)]
             /\ ("CC" \notin ready => dd_peq[2] = [due |-> 1, val |-> n])
    <3>1. dd_peq \in Seq(PeqEntry(PairVals, 1)) /\ dd_peq # <<>>
      BY <1>1, <2>5 DEF DDHolds
    <3>2. PeqReady(dd_peq) # <<>>
      BY <1>1, <2>5, <3>1, DDReady
    <3>3. Head(dd_peq) = dd_peq[1]
      BY <3>1
    <3>4. popped' = PairNext(popped) /\ dd_peq' = Tail(dd_peq)
      BY <2>2, <2>5, <3>2, <3>3
    <3>5. /\ dd_peq' \in Seq(PeqEntry(PairVals, 1))
          /\ Len(dd_peq') = Len(dd_peq) - 1
          /\ \A i \in 1 .. Len(dd_peq) - 1 : dd_peq'[i] = dd_peq[i + 1]
      BY <3>1, <3>4, HeadTailProperties
    <3>6. "CC" \notin ready => dd_peq'[1] = [due |-> 1, val |-> n]
      BY <2>5, <3>5
    <3>7. DDHolds(n)'
      BY <1>1, <2>1, <2>2, <2>5, <3>4, <3>5, <3>6 DEF DDHolds
    <3> QED BY <1>2, <2>1, <2>2, <2>3, <3>4, <3>7 DEF PairsInv
  <2> QED BY <1>1, <2>4, <2>5 DEF DDHolds
<1>6. CASE Pairs!A
  <2>1. /\ "A" \in ready /\ "A" \notin ready' /\ ready' \subseteq Pairs!Procs
        /\ "CC" \in ready' <=> "CC" \in ready
        /\ "DD" \in ready' <=> "DD" \in ready
        /\ "BB" \in ready' <=> "BB" \in ready
    BY <1>3, <1>6 DEF Pairs!A, Pairs!Procs
  <2>2. Len(old) + Len(written) < FifoSize
    BY <1>2, <2>1, SrvMainAssumption DEF BBHolds
  <2>3. /\ written' = Append(written, a_val) /\ a_val' = PairNext(a_val)
        /\ UNCHANGED <<snd, dd_peq, popped, old, read, lost>>
    BY <1>6, <2>2 DEF Pairs!A, PairNext, Pairs!pairVars
  <2>4. written' \in Seq(PairVals) /\ Len(written') = 1 /\ a_val' \in PairVals
    BY <1>2, <2>1, <2>3, PairNextType DEF BBHolds
  <2>5. BBHolds'
    BY <1>2, <2>1, <2>3, <2>4 DEF BBHolds
  <2>6. DDHolds(n)'
    BY <1>1, <2>1, <2>3 DEF DDHolds
  <2> QED BY <1>2, <2>1, <2>3, <2>5, <2>6 DEF PairsInv
<1>7. CASE Pairs!BB
  <2>1. /\ "BB" \in ready /\ "BB" \notin ready' /\ ready' \subseteq Pairs!Procs
        /\ "CC" \in ready' <=> "CC" \in ready
        /\ "DD" \in ready' <=> "DD" \in ready
        /\ "A" \in ready' <=> "A" \in ready
    BY <1>3, <1>7 DEF Pairs!BB, Pairs!Procs
  <2>2. read' = Len(old) /\ UNCHANGED <<snd, dd_peq, popped, a_val, written, old, lost>>
    BY <1>7 DEF Pairs!BB, Pairs!pairVars
  <2>3. BBHolds' /\ DDHolds(n)'
    BY <1>1, <1>2, <2>1, <2>2 DEF BBHolds, DDHolds
  <2> QED BY <1>2, <2>1, <2>2, <2>3 DEF PairsInv
<1>8. CASE Pairs!ClockEdge
  <2>1. /\ ready = {} /\ ready' = {"CC", "DD", "A", "BB"}
        /\ dd_peq' = PeqAge(dd_peq)
        /\ old' = SubSeq(old, read + 1, Len(old)) \o written
        /\ written' = <<>> /\ read' = 0
        /\ UNCHANGED <<snd, popped, a_val, lost>>
    BY <1>8, PairsPeq DEF Pairs!ClockEdge, Pairs!Procs
  <2>2. /\ n = PairNext(popped) /\ Len(dd_peq) = 1 /\ snd = PairNext(n)
        /\ dd_peq[1] = [due |-> 1, val |-> n] /\ dd_peq \in Seq(PeqEntry(PairVals, 1))
    BY <1>1, <2>1 DEF DDHolds
  <2>3. /\ dd_peq' \in Seq(PeqEntry(PairVals, 1)) /\ Len(dd_peq') = 1
        /\ dd_peq'[1] = [due |-> 0, val |-> n]
    <3>1. 1 \in DOMAIN dd_peq
      BY <2>2
    <3>2. PeqAge(dd_peq)[1] = [due |-> 0, val |-> n]
      BY <2>2, <3>1 DEF PeqAge
    <3> QED BY <2>1, <2>2, <3>2, PeqAgeKeeps
  <2>4. DDHolds(PairNext(n))'
    BY <2>1, <2>2, <2>3 DEF DDHolds
  <2>5. old' = written
    <3>1. old \in Seq(PairVals) /\ written \in Seq(PairVals) /\ read = Len(old)
      BY <1>2, <2>1 DEF BBHolds
    <3>2. SubSeq(old, read + 1, Len(old)) = <<>>
      BY <3>1
    <3> QED BY <2>1, <3>1, <3>2
  <2>6. BBHolds'
    BY <1>2, <2>1, <2>5 DEF BBHolds
  <2> QED BY <1>2, <2>1, <2>4, <2>6 DEF PairsInv, Pairs!Procs
<1> QED BY <1>4, <1>5, <1>6, <1>7, <1>8 DEF Pairs!Next

\* Both pairs keep up in every simulation whose fifo has at least two slots.
\* With one, A finds the number of the edge before still in it when BB has not
\* run yet, and loses its own.
THEOREM BothKeepUp == FifoSize > 1 => (MainSpec => []PairsKeepUp)
<1> SUFFICES ASSUME FifoSize > 1 PROVE MainSpec => []PairsKeepUp
  OBVIOUS
<1>1. MainInit => PairsInv
  BY PairsStart DEF MainInit
<1>2. PairsInv /\ [MainNext]_mainVars => PairsInv'
  <2> SUFFICES ASSUME PairsInv, [MainNext]_mainVars PROVE PairsInv'
    OBVIOUS
  <2>1. CASE Pairs!Next \/ Pairs!ClockEdge
    BY <2>1, PairsStep
  <2>2. CASE UNCHANGED pairVars
    BY <2>2 DEF pairVars, PairsInv, DDHolds, BBHolds
  <2> QED BY <2>1, <2>2 DEF MainNext, mainVars
<1>3. PairsInv => PairsKeepUp
  <2> SUFFICES ASSUME PairsInv, ready = {} PROVE Pairs!PeqKeepsUp /\ Pairs!FifoKeepsUp
    BY DEF PairsKeepUp, Pairs!PeqKeepsUp, Pairs!FifoKeepsUp, PairsInv, BBHolds
  <2>1. PICK n \in PairVals : DDHolds(n)
    BY DEF PairsInv
  <2>2. /\ n = PairNext(popped) /\ Len(dd_peq) = 1 /\ snd = PairNext(n)
        /\ dd_peq[1] = [due |-> 1, val |-> n] /\ popped \in PairVals
    BY <2>1 DEF DDHolds, PairsInv
  <2>3. PeqReady(dd_peq) = <<>>
    BY <2>1, <2>2, DDReady
  <2>4. snd = (popped + 2) % PairMod
    BY <2>2, SrvMainAssumption DEF PairNext, PairVals
  <2>5. Pairs!PeqKeepsUp
    BY <2>2, <2>3, <2>4, PairsPeq DEF Pairs!PeqKeepsUp
  <2>6. Pairs!FifoKeepsUp
    BY DEF Pairs!FifoKeepsUp, PairsInv, BBHolds
  <2> QED BY <2>5, <2>6
<1> QED BY <1>1, <1>2, <1>3, PTL DEF MainSpec
-----------------------------------------------------------------------------
(* How long a round trip takes                                             *)

\* Enough for a window of send slots, and for the delay and a window of values
\* that come at one per period and leave at one per SchCycle.
Allowance == /\ MaxLatency >= InitCredit * SchCycle
             /\ MaxLatency >= Delay + 1 + InitCredit * (SchCycle - 1)

\* Periods to the next run of tgt that sends.
Slot == SchCycle - m_cycle - IF "tgt" \in pending THEN 1 ELSE 0

\* A value that is i-th in line leaves with the i-th slot from here on, if the
\* slots are all used until then: that is soon enough for every value in flight,
\* whether ready or not.  When a slot goes unused the first in line is not ready,
\* hence young, and the others, sent one per period, younger still.
OnTime == \A i \in DOMAIN ages : ages[i] + Slot + (i - 1) * SchCycle <= MaxLatency

\* At most one value is sent per edge.
Spaced == \A i \in DOMAIN ages :
            /\ "src" \in pending => ages[i] >= 1
            /\ \A j \in DOMAIN ages : i < j => ages[j] + j <= ages[i] + i

\* What the age of a value has to do with the queue it is in: delayed for Delay
\* periods from the edge it was sent on or from the next one.
AgesFit ==
  /\ ages \in Seq(Nat)
  /\ Len(ages) = Len(m_peq_que) + Len(m_peq) + Len(m_rcv_dat)
  /\ \A i \in 1 .. Len(m_peq_que) : ages[i] >= Delay
  /\ \A i \in 1 .. Len(m_peq) :
       ages[Len(m_peq_que) + i] + m_peq[i].due \in {Delay, Delay + 1}
  /\ \A i \in 1 .. Len(m_rcv_dat) :
       ages[Len(m_peq_que) + Len(m_peq) + i] + i
         <= IF "tgt" \in pending THEN 2 ELSE 1
  /\ "tgt" \notin pending => \A i \in DOMAIN m_peq : m_peq[i].due > 0
  /\ Ordered(m_peq)

TimedInv == OnTime /\ Spaced /\ AgesFit

\* What is known of the lengths and the constants wherever a step is looked at.
LEMMA TimedTypes ==
  ASSUME IInv
  PROVE  /\ InitCredit \in Nat /\ Delay \in Nat \ {0} /\ SchCycle \in Nat \ {0}
         /\ MaxLatency \in Nat /\ m_cycle \in 0 .. SchCycle - 1
         /\ Len(m_peq_que) \in Nat /\ Len(m_peq) \in Nat /\ Len(m_rcv_dat) \in Nat
         /\ DOMAIN m_peq = 1 .. Len(m_peq)
         /\ m_peq \in Seq(PeqEntry(Vals, Delay))
         /\ m_peq_que \in Seq(Vals) /\ m_rcv_dat \in Seq(Vals)
         /\ \A i \in 1 .. Len(m_peq) : m_peq[i].due \in 0 .. Delay
         /\ Len(InFlight) = Len(m_peq_que) + Len(m_peq) + Len(m_rcv_dat)
         /\ Len(InFlight) = InitCredit - m_credit /\ m_credit \in 0 .. InitCredit
<1>1. TypeOK /\ CreditConservation /\ StatMatchesDebt /\ PathsInStep
  BY DEF IInv
<1>2. /\ m_peq \in Seq(PeqEntry(Vals, Delay))
      /\ m_peq_que \in Seq(Vals) /\ m_rcv_dat \in Seq(Vals)
      /\ m_cycle \in 0 .. SchCycle - 1
  BY <1>1 DEF TypeOK
<1>3. \A i \in 1 .. Len(m_peq) : m_peq[i].due \in 0 .. Delay
  <2>1. \A i \in 1 .. Len(m_peq) : m_peq[i] \in PeqEntry(Vals, Delay)
    BY <1>2
  <2> QED BY <2>1 DEF PeqEntry
<1>4. PeqVals(m_peq) \in Seq(Vals) /\ Len(PeqVals(m_peq)) = Len(m_peq)
  BY <1>2, ConstantsAssumption, PeqValsType
<1>5. Len(InFlight) = Len(m_peq_que) + Len(m_peq) + Len(m_rcv_dat)
  <2>1. InFlight = (m_peq_que \o PeqVals(m_peq)) \o m_rcv_dat
    BY InFlightParts
  <2>2. /\ m_peq_que \o PeqVals(m_peq) \in Seq(Vals)
        /\ Len(m_peq_que \o PeqVals(m_peq)) = Len(m_peq_que) + Len(m_peq)
    BY <1>2, <1>4, ConcatType
  <2>3. Len(InFlight) = Len(m_peq_que \o PeqVals(m_peq)) + Len(m_rcv_dat)
    BY <1>2, <2>1, <2>2, ConcatType
  <2> QED BY <2>2, <2>3
<1>6. Len(InFlight) = InitCredit - m_credit /\ m_credit \in 0 .. InitCredit
  <2>1. m_credit + Len(m_rcv_dat) + Len(m_peq) + Len(m_peq_que) = InitCredit
    BY <1>1 DEF CreditConservation, PathsInStep
  <2>2. m_credit \in 0 .. InitCredit
    BY <1>1 DEF StatMatchesDebt
  <2>3. /\ Len(m_peq_que) \in Nat /\ Len(m_peq) \in Nat /\ Len(m_rcv_dat) \in Nat
    BY <1>2
  <2> QED BY <1>5, <2>1, <2>2, <2>3, ConstantsAssumption
<1>7. /\ Len(m_peq_que) \in Nat /\ Len(m_peq) \in Nat /\ Len(m_rcv_dat) \in Nat
      /\ DOMAIN m_peq = 1 .. Len(m_peq)
  BY <1>2
<1>8. /\ InitCredit \in Nat /\ Delay \in Nat \ {0} /\ SchCycle \in Nat \ {0}
      /\ MaxLatency \in Nat
  BY ConstantsAssumption, LatencyAssumption
<1> QED BY <1>2, <1>3, <1>5, <1>6, <1>7, <1>8, Zenon

\* The line of values in flight is as long as its queues together, which is as
\* many credits as src is short of.
LineFits == /\ Len(InFlight) = Len(m_peq_que) + Len(m_peq) + Len(m_rcv_dat)
            /\ Len(InFlight) = InitCredit - m_credit
            /\ m_credit \in 0 .. InitCredit

\* The same before and after a step.
LEMMA LineKnown == (IInv => LineFits) /\ (IInv' => LineFits')
<1>1. IInv => LineFits
  BY TimedTypes DEF LineFits
<1> QED BY <1>1, PTL

\* n values ahead are n slots; and what the allowance gives with a window of values.
LEMMA SlotsAhead ==
  ASSUME NEW n \in Nat
  PROVE  /\ n * SchCycle \in Nat /\ (n + 1) * SchCycle = n * SchCycle + SchCycle
         /\ Allowance /\ n < InitCredit =>
              /\ SchCycle + n * SchCycle <= MaxLatency
              /\ Delay + SchCycle + n * SchCycle - n <= MaxLatency
<1>1. InitCredit \in Nat /\ Delay \in Nat /\ SchCycle \in Nat \ {0} /\ MaxLatency \in Nat
  BY ConstantsAssumption, LatencyAssumption
<1>2. n * SchCycle \in Nat /\ (n + 1) * SchCycle = n * SchCycle + SchCycle
  BY <1>1
<1>3. ASSUME Allowance, n < InitCredit
      PROVE  /\ SchCycle + n * SchCycle <= MaxLatency
             /\ Delay + SchCycle + n * SchCycle - n <= MaxLatency
  <2>1. PICK c \in Nat : InitCredit = n + 1 + c
    <3>1. InitCredit - n - 1 \in Nat /\ InitCredit = n + 1 + (InitCredit - n - 1)
      BY <1>1, <1>3
    <3> QED BY <3>1
  <2>2. PICK s \in Nat : SchCycle = s + 1
    <3>1. SchCycle - 1 \in Nat /\ SchCycle = (SchCycle - 1) + 1
      BY <1>1
    <3> QED BY <3>1
  <2>3. /\ InitCredit * SchCycle = n * SchCycle + SchCycle + c * SchCycle
        /\ c * SchCycle \in Nat
    BY <1>1, <2>1
  <2>4. /\ InitCredit * (SchCycle - 1) = n * s + s + c * s
        /\ n * SchCycle = n * s + n /\ c * s \in Nat /\ n * s \in Nat
    BY <1>1, <2>1, <2>2
  <2>5. MaxLatency >= InitCredit * SchCycle
    BY <1>3 DEF Allowance
  <2>6. MaxLatency >= Delay + 1 + InitCredit * (SchCycle - 1)
    BY <1>3 DEF Allowance
  <2>7. SchCycle + n * SchCycle <= MaxLatency
    BY <1>1, <1>2, <2>3, <2>5
  <2>8. Delay + SchCycle + n * SchCycle - n <= MaxLatency
    BY <1>1, <1>2, <2>2, <2>4, <2>6
  <2> QED BY <2>7, <2>8
<1> QED BY <1>2, <1>3

\* A new value joins the line at its end, no sooner than one period after the one
\* before it.
LEMMA SrcTimed ==
  ASSUME Allowance, IInv, TimedInv, SrcEntry,
         ages' = IF m_credit > 0 THEN Append(ages, 0) ELSE ages
  PROVE  TimedInv'
<1> DEFINE n == Len(ages)
           nd == Len(m_rcv_dat)
           np == Len(m_peq_que) + Len(m_peq)
<1>1. /\ InitCredit \in Nat /\ Delay \in Nat \ {0} /\ SchCycle \in Nat \ {0}
      /\ MaxLatency \in Nat /\ m_cycle \in 0 .. SchCycle - 1
      /\ Len(m_peq_que) \in Nat /\ Len(m_peq) \in Nat /\ nd \in Nat /\ np \in Nat
      /\ m_rcv_dat \in Seq(Vals)
      /\ n = InitCredit - m_credit /\ m_credit \in 0 .. InitCredit
      /\ ages \in Seq(Nat) /\ n = np + nd /\ n \in Nat /\ DOMAIN ages = 1 .. n
  BY TimedTypes DEF TimedInv, AgesFit
<1>2. /\ "src" \in pending /\ "src" \notin pending'
      /\ ("tgt" \in pending' <=> "tgt" \in pending)
      /\ m_cycle' = m_cycle /\ m_peq' = m_peq /\ m_peq_que' = m_peq_que
      /\ Slot' = Slot
  BY DEF SrcEntry, Slot, queVars
<1>3. CASE ~ (m_credit > 0)
  <2>1. ages' = ages /\ m_rcv_dat' = m_rcv_dat
    BY <1>3 DEF SrcEntry
  <2> QED BY <1>2, <2>1 DEF TimedInv, OnTime, Spaced, AgesFit
<1>4. CASE m_credit > 0
  <2>1. /\ ages' = Append(ages, 0) /\ m_rcv_dat' = Append(m_rcv_dat, m_val)
        /\ m_val \in Vals
    BY <1>4 DEF SrcEntry, TgtReceives, IInv, TypeOK
  <2>2. /\ ages' \in Seq(Nat) /\ Len(ages') = n + 1 /\ DOMAIN ages' = 1 .. n + 1
        /\ \A i \in 1 .. n : ages'[i] = ages[i]
        /\ ages'[n + 1] = 0
    <3>1. ages \in Seq(Nat) /\ 0 \in Nat
      BY <1>1
    <3>2. Append(ages, 0) \in Seq(Nat) /\ Len(Append(ages, 0)) = n + 1
      BY <3>1
    <3>3. \A i \in 1 .. n : Append(ages, 0)[i] = ages[i]
      BY <3>1
    <3>4. Append(ages, 0)[n + 1] = 0
      BY <3>1
    <3> QED BY <2>1, <3>2, <3>3, <3>4
  <2>3. Len(m_rcv_dat') = nd + 1
    BY <1>1, <2>1
  <2>4. Slot \in 0 .. SchCycle
    BY <1>1 DEF Slot
  <2>5. \A i \in 1 .. n : /\ ages[i] \in Nat /\ ages[i] >= 1
                          /\ ages[i] + Slot + (i - 1) * SchCycle <= MaxLatency
                          /\ \A j \in 1 .. n : i < j => ages[j] + j <= ages[i] + i
    <3>1. \A i \in 1 .. n : ages[i] \in Nat
      BY <1>1
    <3>2. \A i \in 1 .. n : ages[i] + Slot + (i - 1) * SchCycle <= MaxLatency
      BY <1>1 DEF TimedInv, OnTime
    <3>3. \A i \in 1 .. n : /\ ages[i] >= 1
                            /\ \A j \in 1 .. n : i < j => ages[j] + j <= ages[i] + i
      BY <1>1, <1>2 DEF TimedInv, Spaced
    <3> QED BY <3>1, <3>2, <3>3
  <2>6. OnTime'
    <3>1. SchCycle + n * SchCycle <= MaxLatency /\ n * SchCycle \in Nat
      <4>1. n < InitCredit
        BY <1>1, <1>4
      <4> HIDE DEF n
      <4> QED BY <1>1, <4>1, SlotsAhead
    <3>2. \A i \in 1 .. n : ages'[i] + Slot + (i - 1) * SchCycle <= MaxLatency
      BY <2>2, <2>5
    <3>3. \A i \in 1 .. n + 1 : i \in 1 .. n \/ i = n + 1
      BY <1>1
    <3>4. ASSUME NEW i \in 1 .. n + 1
          PROVE  ages'[i] + Slot + (i - 1) * SchCycle <= MaxLatency
      <4>1. CASE i \in 1 .. n
        BY <3>2, <4>1
      <4>2. CASE i = n + 1
        <5>1. i - 1 = n /\ ages'[i] = 0
          <6>1. n \in Nat /\ ages'[n + 1] = 0
            BY <1>1, <2>2
          <6>2. ages'[i] = 0
            BY <4>2, <6>1, Zenon
          <6> HIDE DEF n
          <6>3. i - 1 = n
            BY <4>2, <6>1
          <6> QED BY <6>2, <6>3
        <5>2. (i - 1) * SchCycle = n * SchCycle
          BY <5>1, Zenon
        <5>3. PICK m \in Nat : m = n * SchCycle
          BY <3>1
        <5>4. ages'[i] = 0 /\ (i - 1) * SchCycle = m /\ SchCycle + m <= MaxLatency
          BY <3>1, <5>1, <5>2, <5>3
        <5>5. SchCycle \in Nat /\ MaxLatency \in Nat /\ i \in Nat
          BY <1>1
        <5>6. 0 + Slot + m <= MaxLatency
          BY <2>4, <5>4, <5>5
        <5> QED BY <5>4, <5>6, Zenon
      <4> QED BY <3>3, <4>1, <4>2
    <3> QED BY <1>2, <2>2, <3>4 DEF OnTime
  <2>7. Spaced'
    <3> SUFFICES ASSUME NEW i \in 1 .. n + 1, NEW j \in 1 .. n + 1, i < j
                 PROVE  ages'[j] + j <= ages'[i] + i
      BY <1>2, <2>2 DEF Spaced
    <3>1. i \in 1 .. n
      BY <1>1
    <3>2. CASE j \in 1 .. n
      BY <2>2, <2>5, <3>1, <3>2
    <3>3. CASE j = n + 1
      <4>1. ages[n] >= 1 /\ (i < n => ages[n] + n <= ages[i] + i) /\ ages[n] \in Nat
        <5>1. n \in 1 .. n
          BY <1>1, <3>1
        <5> HIDE DEF n
        <5> QED BY <2>5, <3>1, <5>1
      <4>2. n + 1 <= ages[i] + i
        <5>1. ages[i] \in Nat /\ ages[i] >= 1
          BY <2>5, <3>1
        <5>2. n \in Nat
          BY <1>1
        <5> HIDE DEF n
        <5>3. CASE i < n
          <6>1. PICK x, y : x = ages[i] /\ y = ages[n]
            OBVIOUS
          <6>2. x \in Nat /\ y \in Nat /\ y >= 1 /\ y + n <= x + i
            BY <4>1, <5>1, <5>3, <6>1
          <6> QED BY <3>1, <5>2, <6>1, <6>2
        <5>4. CASE i = n
          BY <5>1, <5>2, <5>4
        <5>5. i < n \/ i = n
          BY <3>1, <5>2
        <5> QED BY <5>3, <5>4, <5>5
      <4>3. ages'[n + 1] = 0 /\ ages'[i] = ages[i] /\ n \in Nat
        <5>1. n \in Nat /\ ages'[n + 1] = 0
          BY <1>1, <2>2
        <5>2. ages'[i] = ages[i]
          BY <2>2, <3>1
        <5> QED BY <5>1, <5>2
      <4>4. ages'[j] = 0
        BY <3>3, <4>3, Zenon
      <4>5. 0 + j <= ages[i] + i
        <5> HIDE DEF n
        <5> QED BY <3>3, <4>2, <4>3
      <4> QED BY <4>3, <4>4, <4>5, Zenon
    <3>4. j \in 1 .. n \/ j = n + 1
      BY <1>1
    <3> QED BY <3>2, <3>3, <3>4
  <2>8. AgesFit'
    <3>1. \A i \in 1 .. nd : ages[np + i] + i <= IF "tgt" \in pending THEN 2 ELSE 1
      BY DEF TimedInv, AgesFit
    <3>2. nd + 1 <= IF "tgt" \in pending THEN 2 ELSE 1
      <4>1. CASE nd = 0
        BY <4>1
      <4>2. CASE nd > 0
        <5>1. ages[np + nd] \in Nat /\ ages[np + nd] >= 1
          BY <1>1, <2>5, <4>2
        <5>2. ages[np + nd] + nd <= IF "tgt" \in pending THEN 2 ELSE 1
          BY <1>1, <3>1, <4>2
        <5> QED BY <1>1, <5>1, <5>2
      <4> QED BY <1>1, <4>1, <4>2
    <3>3. \A i \in 1 .. nd + 1 :
            ages'[np + i] + i <= IF "tgt" \in pending THEN 2 ELSE 1
      <4>1. \A i \in 1 .. nd : ages'[np + i] = ages[np + i]
        BY <1>1, <2>2
      <4>2. ages'[np + (nd + 1)] = 0
        BY <1>1, <2>2
      <4>3. \A i \in 1 .. nd + 1 : i \in 1 .. nd \/ i = nd + 1
        BY <1>1
      <4>4. \A i \in 1 .. nd :
              ages'[np + i] + i <= IF "tgt" \in pending THEN 2 ELSE 1
        BY <3>1, <4>1
      <4>5. ages'[np + (nd + 1)] + (nd + 1) <= IF "tgt" \in pending THEN 2 ELSE 1
        <5>1. nd \in Nat
          BY <1>1
        <5> HIDE DEF nd
        <5>2. 0 + (nd + 1) = nd + 1
          BY <5>1
        <5> QED BY <3>2, <4>2, <5>2, Zenon
      <4> HIDE DEF nd, np
      <4> QED BY <4>3, <4>4, <4>5
    <3>4. \A i \in 1 .. np : ages'[i] = ages[i]
      BY <1>1, <2>2
    <3>5. \A i \in 1 .. Len(m_peq_que) : ages'[i] >= Delay
      BY <1>1, <3>4 DEF TimedInv, AgesFit
    <3>6. \A i \in 1 .. Len(m_peq) :
            ages'[Len(m_peq_que) + i] + m_peq[i].due \in {Delay, Delay + 1}
      <4>1. \A i \in 1 .. Len(m_peq) : Len(m_peq_que) + i \in 1 .. np
        BY <1>1
      <4> QED BY <3>4, <4>1 DEF TimedInv, AgesFit
    <3>7. Len(ages') = np + Len(m_rcv_dat')
      <4>1. n = np + nd /\ np \in Nat /\ nd \in Nat
        BY <1>1
      <4>2. Len(ages') = n + 1 /\ Len(m_rcv_dat') = nd + 1
        BY <2>2, <2>3
      <4> HIDE DEF n, np, nd
      <4> QED BY <4>1, <4>2
    <3>8. /\ Ordered(m_peq')
          /\ "tgt" \notin pending' => \A i \in DOMAIN m_peq' : m_peq'[i].due > 0
      BY <1>2 DEF TimedInv, AgesFit
    <3>9. /\ \A i \in 1 .. Len(m_peq_que') : ages'[i] >= Delay
          /\ \A i \in 1 .. Len(m_peq') :
               ages'[Len(m_peq_que') + i] + m_peq'[i].due \in {Delay, Delay + 1}
          /\ \A i \in 1 .. Len(m_rcv_dat') :
               ages'[Len(m_peq_que') + Len(m_peq') + i] + i
                 <= IF "tgt" \in pending' THEN 2 ELSE 1
      BY <1>2, <2>3, <3>3, <3>5, <3>6, Zenon
    <3>10. Len(ages') = Len(m_peq_que') + Len(m_peq') + Len(m_rcv_dat')
      BY <1>2, <3>7
    <3> QED BY <2>2, <3>8, <3>9, <3>10 DEF AgesFit
  <2> QED BY <2>6, <2>7, <2>8 DEF TimedInv
<1> QED BY <1>3, <1>4

\* A period passes: every value is one older and the next slot one nearer.
LEMMA EdgeTimed ==
  ASSUME IInv, TimedInv, ClockEdge, ages' = [i \in DOMAIN ages |-> ages[i] + 1]
  PROVE  TimedInv'
<1> DEFINE n == Len(ages)
           nr == Len(m_peq_que)
           np == Len(m_peq)
<1>1. /\ Delay \in Nat \ {0} /\ SchCycle \in Nat \ {0} /\ MaxLatency \in Nat
      /\ m_cycle \in 0 .. SchCycle - 1
      /\ nr \in Nat /\ np \in Nat /\ Len(m_rcv_dat) \in Nat
      /\ ages \in Seq(Nat) /\ n = nr + np + Len(m_rcv_dat) /\ n \in Nat
      /\ DOMAIN ages = 1 .. n /\ DOMAIN m_peq = 1 .. np
      /\ m_peq \in Seq(PeqEntry(Vals, Delay))
      /\ \A i \in 1 .. np : m_peq[i].due \in 0 .. Delay
  BY TimedTypes DEF TimedInv, AgesFit
<1>2. /\ pending = {} /\ "tgt" \in pending' /\ m_cycle' = m_cycle
      /\ m_peq_que' = m_peq_que /\ m_rcv_dat' = m_rcv_dat /\ m_peq' = PeqAge(m_peq)
  BY DEF ClockEdge, Procs, queVars
<1>3. Slot = SchCycle - m_cycle /\ Slot' = Slot - 1 /\ Slot \in Nat
  BY <1>1, <1>2 DEF Slot
<1>4. /\ ages' \in Seq(Nat) /\ Len(ages') = n /\ DOMAIN ages' = 1 .. n
      /\ \A i \in 1 .. n : ages'[i] = ages[i] + 1 /\ ages[i] \in Nat
  BY <1>1
<1>5. OnTime'
  <2> SUFFICES ASSUME NEW i \in 1 .. n
               PROVE  ages'[i] + Slot' + (i - 1) * SchCycle <= MaxLatency
    BY <1>4 DEF OnTime
  <2>1. ages[i] + Slot + (i - 1) * SchCycle <= MaxLatency
    BY <1>1 DEF TimedInv, OnTime
  <2>2. (i - 1) * SchCycle \in Nat
    <3>1. i - 1 \in Nat
      BY <1>1
    <3> QED BY <3>1, SlotsAhead
  <2>3. ages'[i] + Slot' = ages[i] + Slot
    BY <1>3, <1>4
  <2> QED BY <2>1, <2>3
<1>6. Spaced'
  <2>1. \A i, j \in 1 .. n : i < j => ages[j] + j <= ages[i] + i
    BY <1>1 DEF TimedInv, Spaced
  <2>2. \A i, j \in 1 .. n : i < j => ages'[j] + j <= ages'[i] + i
    BY <1>4, <2>1
  <2>3. \A i \in 1 .. n : ages'[i] >= 1
    BY <1>4
  <2> QED BY <1>4, <2>2, <2>3 DEF Spaced
<1>7. AgesFit'
  <2>1. /\ Len(m_peq') = np /\ DOMAIN m_peq' = 1 .. np
        /\ \A i \in 1 .. np : m_peq'[i].due
             = IF m_peq[i].due = 0 THEN 0 ELSE m_peq[i].due - 1
    BY <1>1, <1>2, PeqAgeKeeps
  <2>2. Ordered(m_peq')
    BY <1>1, <1>2, PeqAgeOrdered DEF TimedInv, AgesFit
  <2>3. \A i \in 1 .. nr : ages'[i] >= Delay
    <3>1. \A i \in 1 .. nr : i \in 1 .. n /\ ages[i] >= Delay
      BY <1>1 DEF TimedInv, AgesFit
    <3> QED BY <1>1, <1>4, <3>1
  <2>4. \A i \in 1 .. np : ages'[nr + i] + m_peq'[i].due \in {Delay, Delay + 1}
    <3>1. \A i \in 1 .. np : /\ nr + i \in 1 .. n
                             /\ ages[nr + i] + m_peq[i].due \in {Delay, Delay + 1}
                             /\ m_peq[i].due > 0
      <4>1. \A i \in 1 .. np : nr + i \in 1 .. n
        <5> HIDE DEF n, nr, np
        <5> QED BY <1>1
      <4>2. \A i \in 1 .. np : ages[nr + i] + m_peq[i].due \in {Delay, Delay + 1}
        BY DEF TimedInv, AgesFit
      <4>3. \A i \in 1 .. np : m_peq[i].due > 0
        BY <1>1, <1>2 DEF TimedInv, AgesFit
      <4> QED BY <4>1, <4>2, <4>3
    <3>2. ASSUME NEW i \in 1 .. np
          PROVE  ages'[nr + i] + m_peq'[i].due = ages[nr + i] + m_peq[i].due
      <4>1. ages'[nr + i] = ages[nr + i] + 1 /\ ages[nr + i] \in Nat
        BY <1>4, <3>1
      <4>2. m_peq'[i].due = m_peq[i].due - 1 /\ m_peq[i].due \in Nat
        <5>1. m_peq[i].due \in 0 .. Delay /\ Delay \in Nat
          BY <1>1
        <5>2. m_peq'[i].due = IF m_peq[i].due = 0 THEN 0 ELSE m_peq[i].due - 1
          BY <2>1
        <5>3. m_peq[i].due > 0
          BY <3>1
        <5> QED BY <5>1, <5>2, <5>3
      <4>3. PICK x, y : x = ages[nr + i] /\ y = m_peq[i].due
        OBVIOUS
      <4>4. x \in Nat /\ y \in Nat /\ ages'[nr + i] = x + 1 /\ m_peq'[i].due = y - 1
        BY <4>1, <4>2, <4>3
      <4>5. (x + 1) + (y - 1) = x + y
        BY <4>4
      <4> HIDE DEF nr
      <4> QED BY <4>3, <4>4, <4>5, Zenon
    <3> QED BY <3>1, <3>2
  <2>5. \A i \in 1 .. Len(m_rcv_dat) : ages'[nr + np + i] + i <= 2
    <3>1. \A i \in 1 .. Len(m_rcv_dat) : nr + np + i \in 1 .. n /\ ages[nr + np + i] + i <= 1
      BY <1>1, <1>2 DEF TimedInv, AgesFit
    <3> QED BY <1>4, <3>1
  <2> QED BY <1>1, <1>2, <1>4, <2>1, <2>2, <2>3, <2>4, <2>5 DEF AgesFit
<1> QED BY <1>5, <1>6, <1>7 DEF TimedInv

\* The request tgt takes is as old as its place in the queue lets it be, and so
\* all that is delayed fits its age.
LEMMA DatDelayedFits ==
  ASSUME IInv, TimedInv, TgtEntry
  PROVE  /\ DatDelayed \in Seq(PeqEntry(Vals, Delay)) /\ Ordered(DatDelayed)
         /\ Len(m_rcv_dat') \in Nat
         /\ Len(DatDelayed) + Len(m_rcv_dat') = Len(m_peq) + Len(m_rcv_dat)
         /\ \A i \in 1 .. Len(DatDelayed) :
              ages[Len(m_peq_que) + i] + DatDelayed[i].due \in {Delay, Delay + 1}
         /\ \A i \in 1 .. Len(m_rcv_dat') :
              ages[Len(m_peq_que) + Len(DatDelayed) + i] + i <= 1
<1> DEFINE nr == Len(m_peq_que)
           np == Len(m_peq)
           nd == Len(m_rcv_dat)
           D == DatDelayed
<1>1. /\ Delay \in Nat \ {0} /\ nr \in Nat /\ np \in Nat /\ nd \in Nat
      /\ m_peq \in Seq(PeqEntry(Vals, Delay)) /\ m_rcv_dat \in Seq(Vals)
      /\ \A i \in 1 .. np : m_peq[i].due \in 0 .. Delay
      /\ ages \in Seq(Nat) /\ Len(ages) = nr + np + nd /\ DOMAIN m_peq = 1 .. np
      /\ Ordered(m_peq)
  BY TimedTypes DEF TimedInv, AgesFit
<1>2. /\ \A i \in 1 .. np : ages[nr + i] + m_peq[i].due \in {Delay, Delay + 1}
      /\ \A i \in 1 .. nd : ages[nr + np + i] + i <= 2
  BY DEF TimedInv, AgesFit, TgtEntry
<1>3. m_rcv_dat' = IF m_rcv_dat = <<>> THEN <<>> ELSE Tail(m_rcv_dat)
  BY DEF TgtEntry, mth_dat_proc
<1>4. CASE m_rcv_dat = <<>>
  <2>1. D = m_peq /\ m_rcv_dat' = <<>> /\ nd = 0 /\ Len(m_rcv_dat') = 0
    BY <1>3, <1>4 DEF DatDelayed
  <2>2. Len(D) + Len(m_rcv_dat') = np + nd
    BY <1>1, <2>1
  <2> QED BY <1>1, <1>2, <2>1, <2>2
<1>5. CASE m_rcv_dat # <<>>
  <2> DEFINE h == Head(m_rcv_dat)
             e == [due |-> Delay, val |-> h]
  <2>1. /\ h \in Vals /\ nd > 0 /\ m_rcv_dat' = Tail(m_rcv_dat)
        /\ Len(m_rcv_dat') = nd - 1
    BY <1>1, <1>3, <1>5
  <2>2. D = Append(m_peq, e) /\ D \in Seq(PeqEntry(Vals, Delay))
    <3>1. D = PeqDelay(m_peq, h, Delay)
      BY <1>5 DEF DatDelayed
    <3>2. Delay \in Nat /\ m_peq \in Seq(PeqEntry(Vals, Delay)) /\ h \in Vals
      BY <1>1, <2>1
    <3> HIDE DEF h, D
    <3> QED BY <3>1, <3>2, PeqDelayLast
  <2>3. /\ Len(D) = np + 1 /\ DOMAIN D = 1 .. np + 1
        /\ \A i \in 1 .. np : D[i] = m_peq[i]
        /\ D[np + 1] = e
    BY <1>1, <2>2
  <2>4. e.due = Delay
    OBVIOUS
  <2>0. /\ nr \in Nat /\ np \in Nat /\ nd \in Nat /\ nd > 0 /\ Len(ages) = nr + np + nd
        /\ Len(D) = np + 1 /\ Len(m_rcv_dat') = nd - 1
    BY <1>1, <2>1, <2>3
  <2>5. \A i \in 1 .. np + 1 : i \in 1 .. np \/ i = np + 1
    BY <1>1
  <2> HIDE DEF D, e, np, nd, nr
  <2>6. Ordered(D)
    <3> SUFFICES ASSUME NEW i \in 1 .. np + 1, NEW j \in 1 .. np + 1, i <= j
                 PROVE  D[i].due <= D[j].due
      BY <2>3 DEF Ordered
    <3>1. CASE j \in 1 .. np
      <4>1. i \in 1 .. np
        BY <1>1, <3>1
      <4> QED BY <1>1, <2>3, <3>1, <4>1 DEF Ordered
    <3>2. CASE j = np + 1
      <4>1. D[j].due = Delay
        BY <2>3, <2>4, <3>2
      <4>2. CASE i \in 1 .. np
        <5>1. D[i].due = m_peq[i].due /\ m_peq[i].due \in 0 .. Delay
          BY <1>1, <2>3, <4>2
        <5> QED BY <1>1, <4>1, <5>1
      <4>3. CASE i = np + 1
        BY <1>1, <2>3, <2>4, <3>2, <4>3
      <4> QED BY <2>5, <4>2, <4>3
    <3> QED BY <2>5, <3>1, <3>2
  <2>7. \A i \in 1 .. np + 1 : ages[nr + i] + D[i].due \in {Delay, Delay + 1}
    <3>1. ages[nr + (np + 1)] \in {0, 1}
      <4>1. ages[nr + np + 1] + 1 <= 2
        BY <1>1, <1>2, <2>1
      <4>2. nr + np + 1 = nr + (np + 1) /\ nr + np + 1 \in 1 .. Len(ages)
        BY <1>1, <2>1
      <4>3. ages[nr + np + 1] \in Nat
        BY <1>1, <4>2
      <4> QED BY <4>1, <4>2, <4>3
    <3>2. ages[nr + (np + 1)] + D[np + 1].due \in {Delay, Delay + 1}
      BY <1>1, <2>3, <2>4, <3>1
    <3>3. \A i \in 1 .. np : ages[nr + i] + D[i].due \in {Delay, Delay + 1}
      BY <1>2, <2>3
    <3> QED BY <2>5, <3>2, <3>3
  <2>8. ASSUME NEW i \in 1 .. Len(m_rcv_dat')
        PROVE  ages[nr + Len(D) + i] + i <= 1
    <3>0. i \in 1 .. nd - 1
      BY <2>0
    <3>1. i + 1 \in 1 .. nd /\ nr + np + (i + 1) = nr + Len(D) + i
      BY <2>0, <3>0
    <3>2. ages[nr + Len(D) + i] + (i + 1) <= 2
      BY <1>2, <3>1
    <3>3. nr + Len(D) + i \in 1 .. Len(ages)
      BY <2>0, <3>0
    <3>4. ages[nr + Len(D) + i] \in Nat
      BY <1>1, <3>3
    <3>5. nd \in Nat
      BY <2>0
    <3> QED BY <3>0, <3>2, <3>4, <3>5
  <2>9. Len(m_rcv_dat') \in Nat /\ Len(D) + Len(m_rcv_dat') = np + nd
    BY <2>0
  <2>10. \A i \in 1 .. Len(D) : ages[nr + i] + D[i].due \in {Delay, Delay + 1}
    BY <2>3, <2>7
  <2> QED BY <2>2, <2>6, <2>8, <2>9, <2>10 DEF D, np, nd, nr
<1> QED BY <1>4, <1>5

\* What is ready is old enough, and what is not is young.
LEMMA TgtAges ==
  ASSUME IInv, TimedInv, TgtEntry
  PROVE  /\ DatReady \in Seq(Vals) /\ Len(DatReady) \in Nat
         /\ Len(m_peq') \in Nat /\ Len(m_rcv_dat') \in Nat
         /\ Len(ages) = Len(DatReady) + Len(m_peq') + Len(m_rcv_dat')
         /\ Ordered(m_peq') /\ DOMAIN m_peq' = 1 .. Len(m_peq')
         /\ \A i \in 1 .. Len(DatReady) : ages[i] >= Delay
         /\ \A i \in 1 .. Len(m_peq') :
              /\ ages[Len(DatReady) + i] + m_peq'[i].due \in {Delay, Delay + 1}
              /\ m_peq'[i].due \in Nat /\ m_peq'[i].due > 0
         /\ \A i \in 1 .. Len(m_rcv_dat') :
              ages[Len(DatReady) + Len(m_peq') + i] + i <= 1
<1> DEFINE nr == Len(m_peq_que)
           D == DatDelayed
           k == PeqWithin(D, 0)
           n1 == Len(DatReady)
           n2 == Len(m_peq')
           n3 == Len(m_rcv_dat')
<1>1. /\ Delay \in Nat \ {0} /\ nr \in Nat /\ m_peq_que \in Seq(Vals)
      /\ Len(m_peq) \in Nat /\ Len(m_rcv_dat) \in Nat
      /\ ages \in Seq(Nat) /\ Len(ages) = nr + Len(m_peq) + Len(m_rcv_dat)
      /\ \A i \in 1 .. nr : ages[i] >= Delay
  BY TimedTypes DEF TimedInv, AgesFit
<1>2. /\ D \in Seq(PeqEntry(Vals, Delay)) /\ Ordered(D) /\ n3 \in Nat
      /\ Len(D) + n3 = Len(m_peq) + Len(m_rcv_dat)
      /\ \A i \in 1 .. Len(D) : ages[nr + i] + D[i].due \in {Delay, Delay + 1}
      /\ \A i \in 1 .. n3 : ages[nr + Len(D) + i] + i <= 1
  BY DatDelayedFits
<1>3. Len(D) \in Nat /\ DOMAIN D = 1 .. Len(D) /\ k \in 0 .. Len(D)
  BY <1>2, PeqWithinType
<1>4. /\ PeqReady(D) \in Seq(Vals) /\ Len(PeqReady(D)) = k
      /\ PeqLater(D) \in Seq(PeqEntry(Vals, Delay))
      /\ Len(PeqLater(D)) = Len(D) - k
      /\ \A i \in DOMAIN PeqLater(D) : PeqLater(D)[i] = D[i + k]
  BY <1>1, <1>2, PeqDrain
<1>5. m_peq' = PeqLater(D) /\ DatReady = m_peq_que \o PeqReady(D)
  BY DEF TgtEntry, mth_get_peq, DatReady
<1>6. DatReady \in Seq(Vals) /\ n1 = nr + k
  <2>1. DatReady \in Seq(Vals) /\ n1 = nr + Len(PeqReady(D))
    BY <1>1, <1>4, <1>5, ConcatType, Zenon
  <2> QED BY <1>4, <2>1
<1>7. /\ n2 = Len(D) - k /\ DOMAIN m_peq' = 1 .. n2
      /\ \A i \in 1 .. n2 : m_peq'[i] = D[i + k]
  BY <1>4, <1>5
<1>8. \A i \in 1 .. Len(D) : /\ D[i].due \in 0 .. Delay
                             /\ D[i].due <= 0 <=> i <= k
  <2>1. \A i \in 1 .. Len(D) : D[i] \in PeqEntry(Vals, Delay)
    BY <1>2
  <2>2. \A i \in DOMAIN D : D[i].due <= 0 <=> i <= PeqWithin(D, 0)
    BY <1>1, <1>2, PeqWithinFirst
  <2> QED BY <1>3, <2>1, <2>2 DEF PeqEntry
<1> HIDE DEF D, k, n1, n2, n3, nr
<1>9. ASSUME NEW i \in 1 .. n1 PROVE ages[i] >= Delay
  <2>1. CASE i \in 1 .. nr
    BY <1>1, <2>1
  <2>2. CASE i \notin 1 .. nr
    <3>1. i - nr \in 1 .. Len(D) /\ i - nr <= k /\ nr + (i - nr) = i
      BY <1>1, <1>3, <1>6, <2>2
    <3>2. D[i - nr].due = 0
      BY <1>8, <3>1
    <3>3. ages[i] + 0 \in {Delay, Delay + 1}
      BY <1>2, <3>1, <3>2
    <3>4. i \in 1 .. Len(ages)
      BY <1>1, <1>2, <1>3, <1>6
    <3>5. ages[i] \in Nat
      BY <1>1, <3>4
    <3> QED BY <1>1, <3>3, <3>5
  <2> QED BY <2>1, <2>2
<1>10. ASSUME NEW i \in 1 .. n2
       PROVE  /\ ages[n1 + i] + m_peq'[i].due \in {Delay, Delay + 1}
              /\ m_peq'[i].due \in Nat /\ m_peq'[i].due > 0
  <2>1. i + k \in 1 .. Len(D) /\ ~ (i + k <= k) /\ nr + (i + k) = n1 + i
    BY <1>1, <1>3, <1>6, <1>7
  <2>2. m_peq'[i] = D[i + k]
    BY <1>7
  <2>3. D[i + k].due \in 0 .. Delay /\ ~ (D[i + k].due <= 0)
    BY <1>8, <2>1
  <2>4. ages[n1 + i] + D[i + k].due \in {Delay, Delay + 1}
    BY <1>2, <2>1
  <2> QED BY <1>1, <2>2, <2>3, <2>4
<1>11. ASSUME NEW i \in 1 .. n3 PROVE ages[n1 + n2 + i] + i <= 1
  <2>1. n1 + n2 + i = nr + Len(D) + i
    BY <1>1, <1>2, <1>3, <1>6, <1>7
  <2> QED BY <1>2, <2>1
<1>12. Ordered(m_peq')
  <2> SUFFICES ASSUME NEW i \in 1 .. n2, NEW j \in 1 .. n2, i <= j
               PROVE  m_peq'[i].due <= m_peq'[j].due
    BY <1>7 DEF Ordered
  <2>1. i + k \in DOMAIN D /\ j + k \in DOMAIN D /\ i + k <= j + k
    BY <1>3, <1>7
  <2>2. D[i + k].due <= D[j + k].due
    BY <1>2, <2>1 DEF Ordered
  <2>3. m_peq'[i] = D[i + k] /\ m_peq'[j] = D[j + k]
    BY <1>7
  <2> QED BY <2>2, <2>3
<1>13. n1 \in Nat /\ n2 \in Nat /\ Len(ages) = n1 + n2 + n3
  <2>1. /\ nr \in Nat /\ Len(m_peq) \in Nat /\ Len(m_rcv_dat) \in Nat /\ n3 \in Nat
        /\ Len(D) \in Nat /\ k \in 0 .. Len(D)
    BY <1>1, <1>2, <1>3
  <2>2. /\ Len(ages) = nr + Len(m_peq) + Len(m_rcv_dat)
        /\ Len(D) + n3 = Len(m_peq) + Len(m_rcv_dat)
        /\ n1 = nr + k /\ n2 = Len(D) - k
    BY <1>1, <1>2, <1>6, <1>7
  <2> QED BY <2>1, <2>2
<1> QED BY <1>2, <1>6, <1>7, <1>9, <1>10, <1>11, <1>12, <1>13 DEF n1, n2, n3

\* A send slot used moves the line up by one, one unused finds it young.
LEMMA TgtTimed ==
  ASSUME Allowance, IInv, IInv', TimedInv, TgtEntry,
         ages' = IF Len(InFlight') < Len(InFlight) THEN Tail(ages) ELSE ages
  PROVE  /\ TimedInv'
         /\ Len(InFlight') < Len(InFlight) => Head(ages) \in Delay .. MaxLatency
<1> DEFINE n == Len(ages)
           n1 == Len(DatReady)
           n2 == Len(m_peq')
           n3 == Len(m_rcv_dat')
<1>1. /\ Delay \in Nat \ {0} /\ SchCycle \in Nat \ {0} /\ MaxLatency \in Nat
      /\ m_cycle \in 0 .. SchCycle - 1 /\ InitCredit \in Nat
      /\ n \in Nat /\ DOMAIN ages = 1 .. n /\ ages \in Seq(Nat)
      /\ Len(InFlight) = n /\ n <= InitCredit
      /\ Len(InFlight') = Len(m_peq_que') + n2 + n3
      /\ \A i \in 1 .. n : ages[i] \in Nat
  <2>1. Len(InFlight) = n /\ ages \in Seq(Nat)
    BY TimedTypes DEF TimedInv, AgesFit
  <2>2. Len(InFlight') = Len(m_peq_que') + n2 + n3
    BY LineKnown DEF LineFits
  <2>3. \A i \in 1 .. n : ages[i] \in Nat
    BY <2>1
  <2> QED BY <2>1, <2>2, <2>3, TimedTypes
<1>2. /\ DatReady \in Seq(Vals) /\ n1 \in Nat /\ n2 \in Nat /\ n3 \in Nat
      /\ n = n1 + n2 + n3 /\ Ordered(m_peq') /\ DOMAIN m_peq' = 1 .. n2
      /\ \A i \in 1 .. n1 : ages[i] >= Delay
      /\ \A i \in 1 .. n2 : /\ ages[n1 + i] + m_peq'[i].due \in {Delay, Delay + 1}
                            /\ m_peq'[i].due \in Nat /\ m_peq'[i].due > 0
      /\ \A i \in 1 .. n3 : ages[n1 + n2 + i] + i <= 1
  BY TgtAges
<1> HIDE DEF n, n1, n2, n3
<1>3. /\ "tgt" \in pending /\ "tgt" \notin pending'
      /\ ("src" \in pending' => "src" \in pending)
      /\ m_cycle' = (m_cycle + 1) % SchCycle /\ mth_snd_msg
  BY DEF TgtEntry
<1>4. /\ Slot = SchCycle - m_cycle - 1 /\ Slot' = SchCycle - m_cycle'
      /\ m_cycle' = IF m_cycle = SchCycle - 1 THEN 0 ELSE m_cycle + 1
  <2>1. m_cycle' = IF m_cycle = SchCycle - 1 THEN 0 ELSE m_cycle + 1
    <3>1. CASE m_cycle = SchCycle - 1
      <4>1. m_cycle + 1 = SchCycle /\ SchCycle % SchCycle = 0
        BY <1>1, <3>1
      <4> QED BY <1>3, <3>1, <4>1
    <3>2. CASE m_cycle # SchCycle - 1
      <4>1. m_cycle + 1 \in 0 .. SchCycle - 1
        BY <1>1, <3>2
      <4>2. (m_cycle + 1) % SchCycle = m_cycle + 1
        <5>1. PICK x : x = m_cycle + 1
          OBVIOUS
        <5>2. x \in 0 .. SchCycle - 1 /\ SchCycle \in Nat \ {0}
          BY <1>1, <4>1, <5>1
        <5>3. x % SchCycle = x
          BY <5>2
        <5> QED BY <5>1, <5>3
      <4> QED BY <1>3, <3>2, <4>2
    <3> QED BY <3>1, <3>2
  <2>2. m_cycle' \in Int /\ m_cycle \in Int /\ SchCycle \in Int
    BY <1>1, <2>1
  <2> QED BY <1>3, <2>1, <2>2 DEF Slot
<1>5. /\ \A i \in 1 .. n : ages[i] + Slot + (i - 1) * SchCycle <= MaxLatency
      /\ \A i \in 1 .. n : "src" \in pending => ages[i] >= 1
      /\ \A i, j \in 1 .. n : i < j => ages[j] + j <= ages[i] + i
  BY <1>1 DEF TimedInv, OnTime, Spaced
<1>6. ASSUME m_peq_que' = DatReady, ages' = ages PROVE Spaced' /\ AgesFit'
  <2>1. Spaced'
    BY <1>1, <1>3, <1>5, <1>6 DEF Spaced
  <2>2. AgesFit'
    BY <1>1, <1>2, <1>3, <1>6 DEF AgesFit, n, n1, n2, n3
  <2> QED BY <2>1, <2>2
<1>7. CASE m_cycle' # 0
  <2>1. m_peq_que' = DatReady /\ Len(InFlight') = n
    <3>1. m_peq_que' = DatReady
      BY <1>3, <1>7 DEF mth_snd_msg
    <3>2. Len(InFlight') = n1 + n2 + n3
      BY <1>1, <3>1 DEF n1
    <3> QED BY <1>2, <3>1, <3>2
  <2>2. ages' = ages /\ ~ (Len(InFlight') < Len(InFlight))
    BY <1>1, <2>1
  <2>3. m_cycle' = m_cycle + 1
    BY <1>4, <1>7
  <2>4. Slot' = Slot
    BY <1>1, <1>4, <2>3
  <2>5. OnTime'
    BY <1>1, <1>5, <2>2, <2>4 DEF OnTime
  <2>6. Spaced' /\ AgesFit'
    BY <1>6, <2>1, <2>2
  <2> QED BY <2>2, <2>5, <2>6 DEF TimedInv
<1>8. CASE m_cycle' = 0
  <2>1. Slot = 0 /\ Slot' = SchCycle
    <3>1. m_cycle = SchCycle - 1
      BY <1>1, <1>4, <1>8
    <3> QED BY <1>1, <1>4, <1>8, <3>1
  <2>2. CASE DatReady = <<>>
    <3>1. m_peq_que' = DatReady /\ n1 = 0 /\ Len(InFlight') = n
      <4>1. m_peq_que' = DatReady /\ n1 = 0
        BY <1>3, <1>8, <2>2 DEF mth_snd_msg, SndData, n1
      <4>2. Len(InFlight') = n1 + n2 + n3
        BY <1>1, <4>1 DEF n1
      <4> QED BY <1>2, <4>1, <4>2
    <3>2. ages' = ages /\ ~ (Len(InFlight') < Len(InFlight))
      BY <1>1, <3>1
    <3>3. n > 0 => ages[1] <= Delay
      <4>1. CASE n2 > 0
        <5>1. ages[0 + 1] + m_peq'[1].due \in {Delay, Delay + 1} /\ m_peq'[1].due > 0
              /\ m_peq'[1].due \in Nat
          BY <1>2, <3>1, <4>1
        <5>2. n > 0 => ages[1] \in Nat
          BY <1>1
        <5> QED BY <1>1, <5>1, <5>2
      <4>2. CASE n2 = 0
        <5>1. n > 0 => n3 > 0
          BY <1>2, <3>1, <4>2
        <5>2. n > 0 => ages[0 + 0 + 1] + 1 <= 1
          BY <1>2, <3>1, <4>2, <5>1
        <5>3. n > 0 => ages[1] \in Nat
          BY <1>1
        <5> QED BY <1>1, <5>2, <5>3
      <4> QED BY <1>2, <4>1, <4>2
    <3>4. ASSUME NEW i \in 1 .. n
          PROVE  ages[i] + SchCycle + (i - 1) * SchCycle <= MaxLatency
      <4>1. i - 1 \in Nat /\ i - 1 < InitCredit /\ 1 \in 1 .. n /\ n > 0
        BY <1>1
      <4>2. PICK m \in Nat : /\ m = (i - 1) * SchCycle
                             /\ Delay + SchCycle + m - (i - 1) <= MaxLatency
        BY <4>1, SlotsAhead
      <4>3. ages[i] + i <= ages[1] + 1
        <5>1. CASE i = 1
          BY <1>1, <5>1
        <5>2. CASE i # 1
          BY <1>1, <1>5, <4>1, <5>2
        <5> QED BY <5>1, <5>2
      <4>4. ages[i] \in Nat /\ ages[1] \in Nat /\ ages[1] <= Delay
        BY <1>1, <3>3, <4>1
      <4>5. ages[i] + SchCycle + m <= MaxLatency
        BY <1>1, <4>1, <4>2, <4>3, <4>4
      <4> QED BY <4>2, <4>5, Zenon
    <3>5. OnTime'
      BY <1>1, <2>1, <3>2, <3>4 DEF OnTime
    <3>6. Spaced' /\ AgesFit'
      BY <1>6, <3>1, <3>2
    <3> QED BY <3>2, <3>5, <3>6 DEF TimedInv
  <2>3. CASE DatReady # <<>>
    <3>1. /\ m_peq_que' = Tail(DatReady) /\ n1 > 0 /\ Len(m_peq_que') = n1 - 1
          /\ Len(InFlight') = n - 1 /\ n > 0
      <4>1. m_peq_que' = Tail(DatReady)
        BY <1>3, <1>8, <2>3 DEF mth_snd_msg, SndData
      <4>2. n1 > 0 /\ Len(m_peq_que') = n1 - 1
        BY <1>2, <2>3, <4>1 DEF n1
      <4>3. Len(InFlight') = n1 - 1 + n2 + n3
        BY <1>1, <4>2
      <4>4. Len(InFlight') = n - 1 /\ n > 0
        BY <1>2, <4>2, <4>3
      <4> QED BY <4>1, <4>2, <4>4
    <3>2. /\ ages' = Tail(ages) /\ ages' \in Seq(Nat) /\ Len(ages') = n - 1
          /\ DOMAIN ages' = 1 .. n - 1
          /\ \A i \in 1 .. n - 1 : ages'[i] = ages[i + 1] /\ i + 1 \in 1 .. n
          /\ Head(ages) = ages[1]
      <4>1. ages' = Tail(ages)
        BY <1>1, <3>1
      <4>2. ages \in Seq(Nat) /\ Len(ages) = n /\ ages # <<>>
        BY <1>1, <3>1 DEF n
      <4>3. Tail(ages) \in Seq(Nat) /\ Len(Tail(ages)) = n - 1 /\ Head(ages) = ages[1]
        BY <4>2
      <4>4. \A i \in 1 .. n - 1 : Tail(ages)[i] = ages[i + 1]
        BY <4>2
      <4>5. DOMAIN ages' = 1 .. n - 1
        BY <4>1, <4>3
      <4>6. \A i \in 1 .. n - 1 : i + 1 \in 1 .. n
        BY <1>1
      <4> QED BY <4>1, <4>3, <4>4, <4>5, <4>6
    <3>3. Head(ages) \in Delay .. MaxLatency
      <4>1. 1 \in 1 .. n /\ 1 \in 1 .. n1 /\ (1 - 1) * SchCycle = 0
        BY <1>1, <1>2, <3>1
      <4>2. ages[1] >= Delay /\ ages[1] \in Nat /\ ages[1] + Slot + 0 <= MaxLatency
        BY <1>1, <1>2, <1>5, <4>1
      <4> QED BY <1>1, <2>1, <3>2, <4>2
    <3>4. OnTime'
      <4> SUFFICES ASSUME NEW i \in 1 .. n - 1
                   PROVE  ages'[i] + SchCycle + (i - 1) * SchCycle <= MaxLatency
        BY <2>1, <3>2 DEF OnTime
      <4>1. /\ i - 1 \in Nat /\ (i - 1) + 1 = i /\ (i + 1) - 1 = i /\ i + 1 \in 1 .. n
        BY <1>1
      <4>2. PICK m \in Nat : m = (i - 1) * SchCycle /\ i * SchCycle = m + SchCycle
        BY <4>1, SlotsAhead
      <4>3. ages[i + 1] + 0 + i * SchCycle <= MaxLatency
        BY <1>5, <2>1, <4>1
      <4>4. ages[i + 1] \in Nat
        BY <1>1, <4>1
      <4>5. ages[i + 1] + SchCycle + m <= MaxLatency
        BY <1>1, <4>2, <4>3, <4>4
      <4> QED BY <3>2, <4>2, <4>5, Zenon
    <3>5. Spaced'
      <4>1. ASSUME NEW i \in 1 .. n - 1
            PROVE "src" \in pending' => ages'[i] >= 1
        BY <1>3, <1>5, <3>2
      <4>2. ASSUME NEW i \in 1 .. n - 1, NEW j \in 1 .. n - 1, i < j
            PROVE  ages'[j] + j <= ages'[i] + i
        <5>1. ages[j + 1] + (j + 1) <= ages[i + 1] + (i + 1)
          BY <1>1, <1>5, <3>2, <4>2
        <5>2. ages[j + 1] \in Nat /\ ages[i + 1] \in Nat
          BY <1>1, <3>2
        <5>3. ages'[j] = ages[j + 1] /\ ages'[i] = ages[i + 1]
          BY <3>2
        <5>4. PICK x, y \in Nat : x = ages[j + 1] /\ y = ages[i + 1]
          BY <5>2
        <5>5. x + j <= y + i
          BY <1>1, <5>1, <5>4
        <5> QED BY <5>3, <5>4, <5>5
      <4> QED BY <3>2, <4>1, <4>2 DEF Spaced
    <3>6. AgesFit'
      <4>1. \A i \in 1 .. n1 - 1 : ages'[i] >= Delay
        <5>1. \A i \in 1 .. n1 - 1 : i \in 1 .. n - 1 /\ i + 1 \in 1 .. n1
          BY <1>2
        <5> QED BY <1>2, <3>2, <5>1
      <4>2. \A i \in 1 .. n2 :
              ages'[n1 - 1 + i] + m_peq'[i].due \in {Delay, Delay + 1}
        <5>1. \A i \in 1 .. n2 : n1 - 1 + i \in 1 .. n - 1 /\ n1 - 1 + i + 1 = n1 + i
          BY <1>2, <3>1
        <5> QED BY <1>2, <3>2, <5>1
      <4>3. \A i \in 1 .. n3 : ages'[n1 - 1 + n2 + i] + i <= 1
        <5>1. \A i \in 1 .. n3 : /\ n1 - 1 + n2 + i \in 1 .. n - 1
                                 /\ n1 - 1 + n2 + i + 1 = n1 + n2 + i
          BY <1>2, <3>1
        <5> QED BY <1>2, <3>2, <5>1
      <4>4. Len(ages') = Len(m_peq_que') + n2 + n3
        BY <1>2, <3>1, <3>2
      <4>5. \A i \in DOMAIN m_peq' : m_peq'[i].due > 0
        BY <1>2
      <4> QED BY <1>2, <1>3, <3>1, <3>2, <4>1, <4>2, <4>3, <4>4, <4>5
              DEF AgesFit, n2, n3
    <3> QED BY <3>3, <3>4, <3>5, <3>6 DEF TimedInv
  <2> QED BY <2>2, <2>3
<1> QED BY <1>7, <1>8

\* A value comes back no sooner than the delay tgt imposes and within the
\* allowance, in whatever order the kernel runs the methods: a slot for every
\* credit of the window, or the delay, one edge and, for every credit, what a slot
\* takes longer than an edge (tgt.cpp:19, 43-46).
THEOREM RoundTripIsBounded ==
  /\ MaxLatency >= InitCredit * SchCycle
  /\ MaxLatency >= Delay + 1 + InitCredit * (SchCycle - 1)
  => (MainSpec => RoundTrip)
<1> SUFFICES ASSUME Allowance PROVE MainSpec => RoundTrip
  BY DEF Allowance
<1>1. MainInit => IInv /\ TimedInv
  <2> SUFFICES ASSUME MainInit PROVE IInv /\ TimedInv
    OBVIOUS
  <2>1. Init /\ ages = <<>>
    BY DEF MainInit, TimedInit
  <2>2. OnTime /\ Spaced /\ AgesFit
    BY <2>1 DEF Init, OnTime, Spaced, AgesFit, Ordered, Procs
  <2> QED BY <2>1, <2>2, InitIInv DEF TimedInv
<1>2. [MainNext]_mainVars => [Next]_vars
  BY DEF MainNext, mainVars, timedVars, TimedProcess, TimedEdge, Next
<1>3. IInv /\ [MainNext]_mainVars => IInv'
  BY <1>2, StepIInv
<1>4. ASSUME IInv, IInv', TimedInv, [MainNext]_mainVars
      PROVE  /\ TimedInv'
             /\ [Len(InFlight') < Len(InFlight)
                   => Head(ages) \in Delay .. MaxLatency]_timedVars
  <2>1. CASE SrcEntry /\ ages' = IF m_credit > 0 THEN Append(ages, 0) ELSE ages
    <3>1. TimedInv'
      BY <1>4, <2>1, SrcTimed
    <3>2. ~ (Len(InFlight') < Len(InFlight))
      <4>1. /\ Len(InFlight) = InitCredit - m_credit
            /\ Len(InFlight') = InitCredit - m_credit'
            /\ m_credit \in 0 .. InitCredit /\ InitCredit \in Nat
        BY <1>4, LineKnown, TimedTypes DEF LineFits
      <4>2. m_credit' = m_credit \/ m_credit' = m_credit - 1
        BY <2>1 DEF SrcEntry, srcVars
      <4> QED BY <4>1, <4>2
    <3> QED BY <3>1, <3>2
  <2>2. CASE /\ TgtEntry
             /\ ages' = IF Len(InFlight') < Len(InFlight) THEN Tail(ages) ELSE ages
    BY <1>4, <2>2, TgtTimed
  <2>3. CASE TimedEdge
    <3>1. TimedInv'
      BY <1>4, <2>3, EdgeTimed DEF TimedEdge
    <3>2. ~ (Len(InFlight') < Len(InFlight))
      <4>1. m_credit' = m_credit
        BY <2>3 DEF TimedEdge, ClockEdge, srcVars
      <4>2. /\ Len(InFlight) = InitCredit - m_credit /\ InitCredit \in Nat
            /\ Len(InFlight') = InitCredit - m_credit' /\ m_credit \in 0 .. InitCredit
        BY <1>4, LineKnown, TimedTypes DEF LineFits
      <4> QED BY <4>1, <4>2
    <3> QED BY <3>1, <3>2
  <2>4. CASE UNCHANGED timedVars
    <3>1. TimedInv'
      BY <1>4, <2>4 DEF timedVars, vars, srcVars, queVars, TimedInv, OnTime, Spaced,
                        AgesFit, Slot
    <3> QED BY <2>4, <3>1
  <2> QED BY <1>4, <2>1, <2>2, <2>3, <2>4 DEF MainNext, mainVars, TimedProcess
<1> QED BY <1>1, <1>3, <1>4, PTL DEF MainSpec, RoundTrip
=============================================================================
