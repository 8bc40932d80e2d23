------------------------- MODULE EventQueues_proofs -------------------------
(***************************************************************************)
(* Proofs about the payload event queues of src/peq.  For the event-driven *)
(* ones, with every set of payloads and every longest delay: the one       *)
(* notification an sc_event holds is always in time for the entry that     *)
(* comes first.  For the polled one, with every clock period, delay and    *)
(* number of calls: it implements a bag that hands out what is due, the    *)
(* earliest first, and may be viewed with due times counted from now.      *)
(*                                                                         *)
(* For peq_with_cb_and_phase the theorems assume what the callbacks of     *)
(* QuietCallbacks keep to: one that notifies immediately from the loop for *)
(* the delta cycle or for timed entries puts its payload on a list fec has *)
(* left behind, and nothing announces it.                                  *)
(***************************************************************************)
EXTENDS EventQueues, PeqOps_proofs

QuietCallbacks == \A loop \in {"delta", "timed"} : "immediate" \notin Callbacks[loop]

-----------------------------------------------------------------------------
(* The one notification of an sc_event                                     *)

Queues == Seq(PeqEntry(Payloads, MaxDelay))

\* None pending, or one.
OneNotice(e) == e = {} \/ \E a \in 0 .. MaxDelay : e = {a}

\* What is pending is in time for the first entry.
InTime(e, q) == q # <<>> => \E t \in e : t <= Head(q).due

\* The instance of EventPeq uses the operators of PeqOps.
LEMMA SameOps ==
  /\ \A q, v, t : Get!PeqDelay(q, v, t) = PeqDelay(q, v, t)
  /\ \A q : Get!PeqAge(q) = PeqAge(q)
  /\ \A e, t : Get!Notified(e, t) = {Min(e \cup {t})}
  /\ Get!PeqEntry(Payloads, MaxDelay) = PeqEntry(Payloads, MaxDelay)
<1>1. \A S : Get!Cardinality(S) = Cardinality(S)
  BY DEF Get!Cardinality, Cardinality, Get!IsFiniteSet, IsFiniteSet
<1>2. \A q, t : Get!PeqWithin(q, t) = PeqWithin(q, t)
  BY <1>1 DEF Get!PeqWithin, PeqWithin
<1>3. \A q, v, t : Get!PeqDelay(q, v, t) = PeqDelay(q, v, t)
  BY <1>2 DEF Get!PeqDelay, PeqDelay
<1>4. \A q : Get!PeqAge(q) = PeqAge(q)
  BY DEF Get!PeqAge, PeqAge
<1>5. \A e, t : Get!Notified(e, t) = {Min(e \cup {t})}
  BY DEF Get!Notified, Get!Min, Min
<1>6. Get!PeqEntry(Payloads, MaxDelay) = PeqEntry(Payloads, MaxDelay)
  BY DEF Get!PeqEntry, PeqEntry
<1> QED BY <1>3, <1>4, <1>5, <1>6

\* notify leaves one notification pending: one that was, or the new one,
\* whichever is earlier.
LEMMA Earlier ==
  ASSUME NEW e, OneNotice(e), NEW t \in 0 .. MaxDelay
  PROVE  /\ OneNotice({Min(e \cup {t})})
         /\ Min(e \cup {t}) <= t
         /\ \A x \in e : Min(e \cup {t}) <= x
         /\ Min(e \cup {t}) \in 0 .. MaxDelay
         /\ Min(e \cup {t}) \in e \cup {t}
<1> DEFINE E == e \cup {t}
<1>0. MaxDelay \in Nat
  BY CbPeqAssumption
<1>1. \E m \in E : \A x \in E : m <= x
  <2>1. CASE e = {}
    <3>1. t \in E /\ \A x \in E : x = t
      BY <2>1
    <3> QED BY <1>0, <3>1
  <2>2. ASSUME NEW a \in 0 .. MaxDelay, e = {a}
        PROVE  \E m \in E : \A x \in E : m <= x
    <3>1. a \in E /\ t \in E /\ \A x \in E : x = a \/ x = t
      BY <2>2
    <3>2. CASE a <= t
      BY <1>0, <3>1, <3>2
    <3>3. CASE t <= a
      BY <1>0, <3>1, <3>3
    <3> QED BY <1>0, <3>2, <3>3
  <2> QED BY <2>1, <2>2 DEF OneNotice
<1>2. Min(E) \in E /\ \A x \in E : Min(E) <= x
  BY <1>1 DEF Min
<1>3. E \subseteq 0 .. MaxDelay
  BY DEF OneNotice
<1> QED BY <1>2, <1>3 DEF OneNotice

\* delay and notify together keep the notification in time.
LEMMA InTimeDelay ==
  ASSUME NEW e, OneNotice(e), NEW q \in Queues, Ordered(q), InTime(e, q),
         NEW p \in Payloads, NEW t \in 0 .. MaxDelay
  PROVE  InTime({Min(e \cup {t})}, PeqDelay(q, p, t))
<1> DEFINE m == Min(e \cup {t})
<1>0. MaxDelay \in Nat
  BY CbPeqAssumption
<1>1. m \in 0 .. MaxDelay /\ m <= t /\ \A x \in e : m <= x
  BY Earlier
<1> HIDE DEF m
<1>2. CASE Head(PeqDelay(q, p, t)) = [due |-> t, val |-> p]
  <2>1. Head(PeqDelay(q, p, t)).due = t
    BY <1>2
  <2> QED BY <1>1, <2>1 DEF InTime, m
<1>3. CASE q # <<>> /\ Head(PeqDelay(q, p, t)) = Head(q)
  <2>1. PICK x \in e : x <= Head(q).due
    BY <1>3 DEF InTime
  <2>2. x \in 0 .. MaxDelay /\ m <= x
    BY <1>1 DEF OneNotice
  <2>3. Head(q).due \in Nat
    <3>1. 1 \in DOMAIN q /\ Head(q) = q[1]
      BY <1>3 DEF Queues
    <3> QED BY <1>0, <3>1, PeqFields DEF Queues
  <2>4. m <= Head(q).due
    BY <1>0, <1>1, <2>1, <2>2, <2>3
  <2> QED BY <1>3, <2>4 DEF InTime, m
<1> QED BY <1>0, <1>2, <1>3, PeqDelayHead DEF Queues

\* Asking for the due time of the first entry is in time for it.
LEMMA InTimeRearm ==
  ASSUME NEW e, OneNotice(e), NEW q \in Queues, q # <<>>
  PROVE  /\ InTime({Min(e \cup {Head(q).due})}, q)
         /\ Head(q).due \in 0 .. MaxDelay
<1>0. MaxDelay \in Nat
  BY CbPeqAssumption
<1>1. 1 \in DOMAIN q /\ Head(q) = q[1]
  BY DEF Queues
<1>2. Head(q).due \in 0 .. MaxDelay
  BY <1>0, <1>1, PeqFields DEF Queues
<1>3. Min(e \cup {Head(q).due}) <= Head(q).due
  BY <1>2, Earlier
<1> QED BY <1>2, <1>3 DEF InTime

\* A notification for a later time and the entries come nearer alike.
LEMMA InTimeAge ==
  ASSUME NEW e, OneNotice(e), e # {0}, NEW q \in Queues, InTime(e, q)
  PROVE  /\ InTime({t - 1 : t \in e}, PeqAge(q))
         /\ OneNotice({t - 1 : t \in e})
<1>0. MaxDelay \in Nat
  BY CbPeqAssumption
<1>1. /\ PeqAge(q) \in Queues /\ Len(PeqAge(q)) = Len(q)
      /\ \A i \in DOMAIN q :
           PeqAge(q)[i].due = IF q[i].due = 0 THEN 0 ELSE q[i].due - 1
  BY <1>0, PeqAgeKeeps DEF Queues
<1>2. OneNotice({t - 1 : t \in e})
  <2>1. CASE e = {}
    BY <2>1 DEF OneNotice
  <2>2. ASSUME NEW a \in 0 .. MaxDelay, e = {a}
        PROVE  OneNotice({t - 1 : t \in e})
    <3>1. {t - 1 : t \in e} = {a - 1} /\ a # 0
      BY <2>2
    <3>2. a - 1 \in 0 .. MaxDelay
      BY <1>0, <3>1
    <3> QED BY <3>1, <3>2 DEF OneNotice
  <2> QED BY <2>1, <2>2 DEF OneNotice
<1>3. ASSUME PeqAge(q) # <<>>
      PROVE  \E t \in {s - 1 : s \in e} : t <= Head(PeqAge(q)).due
  <2>1. q # <<>> /\ 1 \in DOMAIN q /\ Head(q) = q[1]
        /\ Head(PeqAge(q)) = PeqAge(q)[1]
    BY <1>1, <1>3 DEF Queues
  <2>2. PICK a \in e : a <= Head(q).due
    BY <2>1 DEF InTime
  <2>3. a \in 0 .. MaxDelay /\ a # 0
    BY <2>2 DEF OneNotice
  <2>4. q[1].due \in 0 .. MaxDelay
    BY <1>0, <2>1, PeqFields DEF Queues
  <2>5. PeqAge(q)[1].due = q[1].due - 1
    BY <1>1, <2>1, <2>2, <2>3, <2>4
  <2>6. a - 1 <= Head(PeqAge(q)).due
    BY <2>1, <2>2, <2>3, <2>4, <2>5
  <2> QED BY <2>6
<1> QED BY <1>2, <1>3 DEF InTime

-----------------------------------------------------------------------------
(* peq_with_get and peq_scc                                                *)

\* The queue is in order, its event holds at most one notification, and no
\* wake-up is lost.
GetInv ==
  /\ m_scheduled_events \in Queues /\ Ordered(m_scheduled_events)
  /\ OneNotice(m_event)
  /\ reader \in {"waiting", "woken", "busy"}
  /\ unused \subseteq Payloads
  /\ reader = "waiting" => InTime(m_event, m_scheduled_events)

\* A new queue has nothing to wake for.
LEMMA GetInit == Get!Init => GetInv
BY DEF Get!Init, GetInv, Queues, Ordered, OneNotice, InTime

\* An entry goes to its place behind those of its time.
LEMMA GetInsert ==
  ASSUME GetInv, NEW p \in Payloads, NEW t \in 0 .. MaxDelay, Get!insert_entry(p, t)
  PROVE  /\ m_scheduled_events' = PeqDelay(m_scheduled_events, p, t)
         /\ m_scheduled_events' \in Queues /\ Ordered(m_scheduled_events')
         /\ unused' \subseteq Payloads
<1>1. /\ m_scheduled_events' = PeqDelay(m_scheduled_events, p, t)
      /\ unused' = unused \ {p}
  BY SameOps DEF Get!insert_entry
<1>2. /\ PeqDelay(m_scheduled_events, p, t) \in Queues
      /\ Ordered(PeqDelay(m_scheduled_events, p, t))
  BY CbPeqAssumption, PeqDelayed DEF GetInv, Queues
<1> QED BY <1>1, <1>2 DEF GetInv

\* No step of the queue loses a wake-up.
LEMMA GetStep == GetInv /\ [Get!Next]_getVars => GetInv'
<1> SUFFICES ASSUME GetInv, [Get!Next]_getVars PROVE GetInv'
  OBVIOUS
<1>0. MaxDelay \in Nat /\ 0 \in 0 .. MaxDelay
  BY CbPeqAssumption
<1>1. ASSUME NEW p \in Payloads, Get!notify_immediate(p) PROVE GetInv'
  <2>1. /\ Get!insert_entry(p, 0) /\ m_event' = {}
        /\ reader' = IF reader = "waiting" THEN "woken" ELSE reader
    BY <1>1 DEF Get!notify_immediate
  <2>2. /\ m_scheduled_events' \in Queues /\ Ordered(m_scheduled_events')
        /\ unused' \subseteq Payloads
    BY <1>0, <2>1, GetInsert
  <2>3. reader' \in {"woken", "busy"} /\ OneNotice(m_event')
    BY <2>1 DEF GetInv, OneNotice
  <2> QED BY <2>2, <2>3 DEF GetInv
<1>2. ASSUME NEW p \in Payloads, NEW t \in 0 .. MaxDelay, Get!notify(p, t)
      PROVE  GetInv'
  <2>1. /\ Get!insert_entry(p, t) /\ m_event' = {Min(m_event \cup {t})}
        /\ reader' = reader
    BY <1>2, SameOps DEF Get!notify
  <2>2. /\ m_scheduled_events' = PeqDelay(m_scheduled_events, p, t)
        /\ m_scheduled_events' \in Queues /\ Ordered(m_scheduled_events')
        /\ unused' \subseteq Payloads
    BY <2>1, GetInsert
  <2>3. OneNotice(m_event')
    BY <2>1, Earlier DEF GetInv
  <2>4. reader = "waiting" => InTime(m_event', m_scheduled_events')
    BY <2>1, <2>2, InTimeDelay DEF GetInv
  <2> QED BY <2>1, <2>2, <2>3, <2>4 DEF GetInv
<1>3. CASE Get!get_next_transaction
  <2>1. CASE Get!has_next
    <3>1. /\ m_scheduled_events # <<>> /\ m_scheduled_events' = Tail(m_scheduled_events)
          /\ reader' = "busy" /\ m_event' = m_event /\ unused' = unused
      BY <1>3, <2>1 DEF Get!get_next_transaction, Get!has_next
    <3>2. m_scheduled_events' \in Queues /\ Ordered(m_scheduled_events')
      BY <1>0, <3>1, PeqTail DEF GetInv, Queues
    <3> QED BY <3>1, <3>2 DEF GetInv
  <2>2. CASE ~Get!has_next
    <3>1. /\ m_event' = Get!Rearmed /\ reader' = "waiting"
          /\ m_scheduled_events' = m_scheduled_events /\ unused' = unused
      BY <1>3, <2>2 DEF Get!get_next_transaction
    <3>2. CASE m_scheduled_events = <<>>
      <4>1. m_event' = m_event
        BY <3>1, <3>2 DEF Get!Rearmed
      <4> QED BY <3>1, <3>2, <4>1 DEF GetInv, InTime
    <3>3. CASE m_scheduled_events # <<>>
      <4>1. m_event' = {Min(m_event \cup {Head(m_scheduled_events).due})}
        BY <3>1, <3>3, SameOps DEF Get!Rearmed
      <4>2. /\ InTime(m_event', m_scheduled_events)
            /\ Head(m_scheduled_events).due \in 0 .. MaxDelay
        BY <3>3, <4>1, InTimeRearm DEF GetInv
      <4>3. OneNotice(m_event')
        BY <4>1, <4>2, Earlier DEF GetInv
      <4> QED BY <3>1, <4>2, <4>3 DEF GetInv
    <3> QED BY <3>2, <3>3
  <2> QED BY <2>1, <2>2
<1>4. CASE Get!cancel_all
  <2>1. /\ m_scheduled_events' = <<>> /\ m_event' = {}
        /\ reader' = reader /\ unused' = unused
    BY <1>4 DEF Get!cancel_all
  <2>2. <<>> \in Queues /\ Ordered(<<>>) /\ OneNotice({}) /\ InTime({}, <<>>)
    BY DEF Queues, Ordered, OneNotice, InTime
  <2> QED BY <2>1, <2>2 DEF GetInv
<1>5. CASE Get!Fire
  <2>1. /\ m_event' = {}
        /\ reader' = IF reader = "waiting" THEN "woken" ELSE reader
        /\ m_scheduled_events' = m_scheduled_events /\ unused' = unused
    BY <1>5 DEF Get!Fire
  <2>2. reader' \in {"woken", "busy"} /\ OneNotice({})
    BY <2>1 DEF GetInv, OneNotice
  <2> QED BY <2>1, <2>2 DEF GetInv
<1>6. CASE Get!TimePasses
  <2>1. /\ m_event # {0} /\ m_event' = {t - 1 : t \in m_event}
        /\ m_scheduled_events' = PeqAge(m_scheduled_events) /\ reader' = reader
        /\ unused' \subseteq Payloads
    BY <1>6, SameOps DEF Get!TimePasses
  <2>2. /\ m_scheduled_events' \in Queues /\ Ordered(m_scheduled_events')
    BY <1>0, <2>1, PeqAgeKeeps, PeqAgeOrdered DEF GetInv, Queues
  <2>3. OneNotice(m_event')
    <3>1. InTime(m_event, <<>>) /\ <<>> \in Queues
      BY DEF InTime, Queues
    <3> QED BY <2>1, <3>1, InTimeAge DEF GetInv
  <2>4. reader = "waiting" => InTime(m_event', m_scheduled_events')
    BY <2>1, InTimeAge DEF GetInv
  <2> QED BY <2>1, <2>2, <2>3, <2>4 DEF GetInv
<1>7. CASE UNCHANGED getVars
  BY <1>7 DEF getVars, GetInv
<1> QED BY <1>1, <1>2, <1>3, <1>4, <1>5, <1>6, <1>7 DEF Get!Next

-----------------------------------------------------------------------------
(* peq_with_cb_and_phase                                                   *)

\* The lists fec has been through are empty and what it left is announced.
CbInv ==
  /\ m_immediate_yield \in Seq(Payloads)
  /\ m_delta \in [{0, 1} -> Seq(Payloads)]
  /\ m_ppq \in Queues /\ Ordered(m_ppq)
  /\ OneNotice(m_e)
  /\ parity \in {0, 1} /\ calling \in BOOLEAN /\ fresh \subseteq Payloads
  /\ fec \in Loops \cup {"idle", "woken"}
  /\ calling => fec \in Loops
  /\ fec \in {"delta", "timed", "idle"} => m_immediate_yield = <<>>
  /\ fec \in {"timed", "idle"} => m_delta[parity] = <<>>
  /\ fec \in {"timed", "idle"} /\ m_delta[Other] # <<>> => m_e = {0}
  /\ fec = "idle" => (m_ppq # <<>> => Head(m_ppq).due > 0) /\ InTime(m_e, m_ppq)

\* A new queue has nothing to announce.
LEMMA CbInit == Init => CbInv
BY DEF Init, CbInv, Queues, Ordered, OneNotice, InTime

\* Whoever notifies, in whatever loop, leaves what it notified announced.
LEMMA CbNotify ==
  ASSUME CbInv, NEW kinds \in SUBSET Kinds, notify(kinds),
         parity' = parity, calling' = calling,
         fec \in {"delta", "timed"} => "immediate" \notin kinds
  PROVE  CbInv'
<1>0. MaxDelay \in Nat \ {0} /\ 0 \in 0 .. MaxDelay
  BY CbPeqAssumption
<1>1. PICK p \in fresh :
        /\ fresh' = fresh \ {p}
        /\ \/ "immediate" \in kinds /\ notify_immediate(p)
           \/ "delta" \in kinds /\ notify_delta(p)
           \/ "timed" \in kinds /\ \E when \in 1 .. MaxDelay : notify_timed(p, when)
  BY DEF notify
<1>2. p \in Payloads /\ fresh' \subseteq Payloads /\ Other \in {0, 1} /\ Other # parity
      /\ Other' = Other
  BY <1>1 DEF CbInv, Other
<1>3. ASSUME "immediate" \in kinds, notify_immediate(p) PROVE CbInv'
  <2>1. /\ m_immediate_yield' = Append(m_immediate_yield, p) /\ m_e' = {}
        /\ fec' = IF fec = "idle" THEN "woken" ELSE fec
        /\ m_delta' = m_delta /\ m_ppq' = m_ppq
    BY <1>3 DEF notify_immediate
  <2>2. m_immediate_yield' \in Seq(Payloads) /\ OneNotice(m_e')
    BY <1>2, <2>1 DEF CbInv, OneNotice
  <2>3. fec' \in {"immediate", "woken"} /\ (calling' => fec' \in Loops)
    BY <1>3, <2>1 DEF CbInv, Loops
  <2> QED BY <1>2, <2>1, <2>2, <2>3 DEF CbInv
<1>4. ASSUME notify_delta(p) PROVE CbInv'
  <2>1. /\ m_delta' = [m_delta EXCEPT ![Other] = Append(@, p)]
        /\ m_e' = {Min(m_e \cup {0})}
        /\ m_immediate_yield' = m_immediate_yield /\ m_ppq' = m_ppq /\ fec' = fec
    BY <1>4 DEF notify_delta, Notified
  <2>2. m_delta' \in [{0, 1} -> Seq(Payloads)] /\ m_delta'[parity] = m_delta[parity]
    BY <1>2, <2>1 DEF CbInv
  <2>3. m_e' = {0}
    <3>1. Min(m_e \cup {0}) <= 0 /\ Min(m_e \cup {0}) \in 0 .. MaxDelay
      BY <1>0, Earlier DEF CbInv
    <3> QED BY <1>0, <2>1, <3>1
  <2>4. OneNotice(m_e')
    BY <1>0, <2>3 DEF OneNotice
  <2>5. fec = "idle" => InTime(m_e', m_ppq)
    <3> SUFFICES ASSUME fec = "idle", m_ppq # <<>> PROVE 0 <= Head(m_ppq).due
      BY <2>3 DEF InTime
    <3>1. Head(m_ppq).due > 0 /\ Head(m_ppq).due \in 0 .. MaxDelay
      BY InTimeRearm DEF CbInv
    <3> QED BY <3>1
  <2> QED BY <1>2, <2>1, <2>2, <2>3, <2>4, <2>5 DEF CbInv
<1>5. ASSUME NEW when \in 1 .. MaxDelay, notify_timed(p, when) PROVE CbInv'
  <2>0. when \in 0 .. MaxDelay /\ when > 0
    BY <1>0
  <2>1. /\ m_ppq' = PeqDelay(m_ppq, p, when) /\ m_e' = {Min(m_e \cup {when})}
        /\ m_immediate_yield' = m_immediate_yield /\ m_delta' = m_delta /\ fec' = fec
    BY <1>5 DEF notify_timed, Notified
  <2>2. m_ppq' \in Queues /\ Ordered(m_ppq')
    BY <1>0, <1>2, <2>0, <2>1, PeqDelayed DEF CbInv, Queues
  <2>3. OneNotice(m_e')
    BY <2>0, <2>1, Earlier DEF CbInv
  <2>4. m_e = {0} => m_e' = {0}
    <3>1. \A x \in m_e : Min(m_e \cup {when}) <= x
      BY <2>0, Earlier DEF CbInv
    <3>2. Min(m_e \cup {when}) \in 0 .. MaxDelay
      BY <2>0, Earlier DEF CbInv
    <3> QED BY <1>0, <2>1, <3>1, <3>2
  <2>5. fec = "idle" => InTime(m_e', m_ppq')
    BY <1>2, <2>0, <2>1, InTimeDelay DEF CbInv
  <2>6. ASSUME fec = "idle", m_ppq' # <<>> PROVE Head(m_ppq').due > 0
    <3>1. CASE Head(m_ppq') = [due |-> when, val |-> p]
      BY <2>0, <3>1
    <3>2. CASE m_ppq # <<>> /\ Head(m_ppq') = Head(m_ppq)
      BY <2>6, <3>2 DEF CbInv
    <3> QED BY <1>0, <1>2, <2>0, <2>1, <3>1, <3>2, PeqDelayHead DEF CbInv, Queues
  <2> QED BY <1>2, <2>1, <2>2, <2>3, <2>4, <2>5, <2>6 DEF CbInv
<1> QED BY <1>1, <1>3, <1>4, <1>5

\* fec goes from list to list, leaving each empty, and on its way out announces
\* what is left.
LEMMA CbFec == CbInv /\ fec_runs => CbInv'
<1> SUFFICES ASSUME CbInv, fec_runs PROVE CbInv'
  OBVIOUS
<1>0. /\ MaxDelay \in Nat \ {0} /\ 0 \in 0 .. MaxDelay
      /\ Other \in {0, 1} /\ Other # parity
  BY CbPeqAssumption DEF CbInv, Other
<1>1. CASE fec_starts
  BY <1>1 DEF fec_starts, lists, CbInv, Loops, Other
<1>2. CASE fec_immediate
  <2>1. fec = "immediate" /\ ~calling /\ parity' = parity /\ fresh' = fresh
    BY <1>2 DEF fec_immediate, Loop
  <2>2. CASE /\ m_immediate_yield # <<>>
             /\ m_immediate_yield' = Tail(m_immediate_yield)
             /\ m_delta' = m_delta /\ m_ppq' = m_ppq
             /\ calling' = TRUE /\ m_e' = m_e /\ fec' = fec
    <3>1. m_immediate_yield' \in Seq(Payloads)
      BY <2>2 DEF CbInv
    <3> QED BY <2>1, <2>2, <3>1 DEF CbInv, Loops, Other
  <2>3. CASE /\ m_immediate_yield = <<>> /\ fec' = "delta" /\ m_e' = m_e
             /\ UNCHANGED <<lists, calling>>
    BY <2>1, <2>3 DEF CbInv, lists, Loops, Other
  <2> QED BY <1>2, <2>2, <2>3 DEF fec_immediate, Loop
<1>3. CASE fec_delta
  <2>1. fec = "delta" /\ ~calling /\ parity' = parity /\ fresh' = fresh
    BY <1>3 DEF fec_delta, Loop
  <2>2. CASE /\ m_delta[parity] # <<>>
             /\ m_delta' = [m_delta EXCEPT ![parity] = Tail(@)]
             /\ m_immediate_yield' = m_immediate_yield /\ m_ppq' = m_ppq
             /\ calling' = TRUE /\ m_e' = m_e /\ fec' = fec
    <3>1. m_delta[parity] \in Seq(Payloads)
      BY DEF CbInv
    <3>2. Tail(m_delta[parity]) \in Seq(Payloads)
      BY <2>2, <3>1
    <3>3. m_delta' \in [{0, 1} -> Seq(Payloads)]
      BY <2>2, <3>2 DEF CbInv
    <3> QED BY <2>1, <2>2, <3>3 DEF CbInv, Loops, Other
  <2>3. CASE m_delta[parity] = <<>> /\ AfterDelta /\ UNCHANGED <<lists, calling>>
    <3>1. /\ m_e' = IF m_delta[Other] # <<>> THEN {Min(m_e \cup {0})} ELSE m_e
          /\ fec' = IF m_ppq = <<>> THEN "idle" ELSE "timed"
      BY <2>3 DEF AfterDelta, Notified
    <3>2. m_delta[Other] # <<>> => m_e' = {0}
      <4>1. Min(m_e \cup {0}) <= 0 /\ Min(m_e \cup {0}) \in 0 .. MaxDelay
        BY <1>0, Earlier DEF CbInv
      <4> QED BY <1>0, <3>1, <4>1
    <3>3. OneNotice(m_e')
      BY <1>0, <3>1, <3>2 DEF CbInv, OneNotice
    <3>4. Other' = Other
      BY <2>1 DEF Other
    <3> QED BY <2>1, <2>3, <3>1, <3>2, <3>3, <3>4 DEF CbInv, lists, Loops, InTime
  <2> QED BY <1>3, <2>2, <2>3 DEF fec_delta, Loop
<1>4. CASE fec_timed
  <2>1. fec = "timed" /\ ~calling /\ parity' = parity /\ fresh' = fresh
    BY <1>4 DEF fec_timed, Loop
  <2>2. CASE /\ TimedDue # <<>> /\ m_ppq' = Tail(m_ppq)
             /\ m_immediate_yield' = m_immediate_yield /\ m_delta' = m_delta
             /\ calling' = TRUE /\ m_e' = m_e /\ fec' = fec
    <3>1. m_ppq # <<>>
      BY <1>0, <2>2, PeqReadyHead DEF CbInv, Queues, TimedDue
    <3>2. m_ppq' \in Queues /\ Ordered(m_ppq')
      BY <1>0, <2>2, <3>1, PeqTail DEF CbInv, Queues
    <3> QED BY <2>1, <2>2, <3>2 DEF CbInv, Loops, Other
  <2>3. CASE TimedDue = <<>> /\ AfterTimed /\ UNCHANGED <<lists, calling>>
    <3>1. m_ppq # <<>> => Head(m_ppq).due > 0
      BY <1>0, <2>3, PeqReadyHead DEF CbInv, Queues, TimedDue
    <3>2. /\ fec' = "idle"
          /\ m_e' = IF m_ppq = <<>> THEN m_e ELSE {Min(m_e \cup {Head(m_ppq).due})}
      BY <2>3 DEF AfterTimed, Notified
    <3>3. OneNotice(m_e') /\ InTime(m_e', m_ppq)
      <4>1. CASE m_ppq = <<>>
        BY <3>2, <4>1 DEF CbInv, InTime
      <4>2. CASE m_ppq # <<>>
        BY <3>2, <4>2, InTimeRearm, Earlier DEF CbInv
      <4> QED BY <4>1, <4>2
    <3>4. m_delta[Other] # <<>> => m_e' = {0}
      <4> SUFFICES ASSUME m_delta[Other] # <<>>, m_ppq # <<>> PROVE m_e' = {0}
        BY <2>1, <3>2 DEF CbInv
      <4>1. m_e = {0} /\ Head(m_ppq).due \in 0 .. MaxDelay
        BY <2>1, InTimeRearm DEF CbInv
      <4>2. /\ \A x \in m_e : Min(m_e \cup {Head(m_ppq).due}) <= x
            /\ Min(m_e \cup {Head(m_ppq).due}) \in 0 .. MaxDelay
        <5>1. OneNotice(m_e)
          BY DEF CbInv
        <5> QED BY <4>1, <5>1, Earlier
      <4> QED BY <1>0, <3>2, <4>1, <4>2
    <3>5. Other' = Other
      BY <2>1 DEF Other
    <3> QED BY <2>1, <2>3, <3>1, <3>2, <3>3, <3>4, <3>5 DEF CbInv, lists, Loops
  <2> QED BY <1>4, <2>2, <2>3 DEF fec_timed, Loop
<1> QED BY <1>1, <1>2, <1>3, <1>4 DEF fec_runs

\* The kernel leaves an idle queue's notification in time for its entries.
LEMMA CbKernel == CbInv /\ (DeltaCycle \/ TimePasses) => CbInv'
<1> SUFFICES ASSUME CbInv, DeltaCycle \/ TimePasses PROVE CbInv'
  OBVIOUS
<1>0. /\ MaxDelay \in Nat \ {0}
      /\ Other \in {0, 1} /\ Other # parity
  BY CbPeqAssumption DEF CbInv, Other
<1>1. CASE DeltaCycle
  <2>1. /\ fec = "idle" /\ parity' = Other /\ UNCHANGED <<lists, calling, fresh>>
        /\ \/ m_e = {0} /\ m_e' = {} /\ fec' = "woken"
           \/ m_e # {0} /\ m_e' = m_e /\ fec' = fec
    BY <1>1 DEF DeltaCycle
  <2>2. Other' = parity
    BY <2>1 DEF CbInv, Other
  <2>3. CASE m_e = {0} /\ m_e' = {} /\ fec' = "woken"
    BY <1>0, <2>1, <2>3 DEF CbInv, lists, OneNotice, Loops
  <2>4. CASE m_e # {0} /\ m_e' = m_e /\ fec' = fec
    <3>1. m_delta[Other] = <<>> /\ m_delta[parity] = <<>>
      BY <2>1, <2>4 DEF CbInv
    <3> QED BY <1>0, <2>1, <2>2, <2>4, <3>1 DEF CbInv, lists, Loops
  <2> QED BY <2>1, <2>3, <2>4
<1>2. CASE TimePasses
  <2>1. /\ fec = "idle" /\ m_e # {0} /\ parity' \in {0, 1}
        /\ m_e' = IF m_e = {1} THEN {} ELSE {t - 1 : t \in m_e}
        /\ fec' = IF m_e = {1} THEN "woken" ELSE "idle"
        /\ m_ppq' = PeqAge(m_ppq) /\ fresh' \subseteq Payloads
        /\ m_immediate_yield' = m_immediate_yield /\ m_delta' = m_delta
        /\ calling' = calling
    BY <1>2 DEF TimePasses
  <2>2. m_ppq' \in Queues /\ Ordered(m_ppq')
    BY <1>0, <2>1, PeqAgeKeeps, PeqAgeOrdered DEF CbInv, Queues
  <2>3. OneNotice({t - 1 : t \in m_e}) /\ InTime({t - 1 : t \in m_e}, m_ppq')
    BY <2>1, InTimeAge DEF CbInv
  <2>4. OneNotice(m_e') /\ calling' = FALSE
    BY <2>1, <2>3 DEF OneNotice, CbInv, Loops
  <2>5. /\ \A d \in {0, 1} : m_delta[d] = <<>>
        /\ m_immediate_yield = <<>>
    <3>1. m_delta[Other] = <<>> /\ m_delta[parity] = <<>> /\ m_immediate_yield = <<>>
      BY <2>1 DEF CbInv
    <3> QED BY <1>0, <3>1 DEF CbInv
  <2>6. Other' \in {0, 1}
    <3>1. parity' \in {0, 1}
      BY <2>1
    <3>2. Other' = 1 - parity'
      BY DEF Other
    <3>3. CASE parity' = 0
      BY <3>2, <3>3
    <3>4. CASE parity' = 1
      BY <3>2, <3>4
    <3> QED BY <3>1, <3>3, <3>4
  <2>7. ASSUME m_e # {1}, m_ppq' # <<>> PROVE Head(m_ppq').due > 0
    <3>1. /\ Len(m_ppq') = Len(m_ppq)
          /\ \A i \in DOMAIN m_ppq :
               m_ppq'[i].due = IF m_ppq[i].due = 0 THEN 0 ELSE m_ppq[i].due - 1
      BY <1>0, <2>1, PeqAgeKeeps DEF CbInv, Queues
    <3>2. /\ m_ppq # <<>> /\ 1 \in DOMAIN m_ppq /\ Head(m_ppq) = m_ppq[1]
          /\ Head(m_ppq') = m_ppq'[1]
      BY <2>2, <2>7, <3>1 DEF CbInv, Queues
    <3>3. PICK a \in m_e : a <= Head(m_ppq).due
      BY <2>1, <3>2 DEF CbInv, InTime
    <3>4. a \in 0 .. MaxDelay /\ a # 0 /\ a # 1
      BY <2>1, <2>7, <3>3 DEF CbInv, OneNotice
    <3>5. m_ppq[1].due \in 0 .. MaxDelay
      BY <1>0, <3>2, PeqFields DEF CbInv, Queues
    <3>6. m_ppq'[1].due = m_ppq[1].due - 1
      BY <3>1, <3>2, <3>3, <3>4, <3>5
    <3> QED BY <3>2, <3>3, <3>4, <3>5, <3>6
  <2>8. CASE m_e = {1}
    BY <1>0, <2>1, <2>2, <2>4, <2>8 DEF CbInv, Loops
  <2>9. CASE m_e # {1}
    <3>1. fec' = "idle" /\ InTime(m_e', m_ppq') /\ (m_ppq' # <<>> => Head(m_ppq').due > 0)
      BY <2>1, <2>3, <2>7, <2>9
    <3>2. m_delta'[parity'] = <<>> /\ m_delta'[Other'] = <<>>
      BY <2>1, <2>5, <2>6
    <3> QED BY <2>1, <2>2, <2>4, <2>5, <3>1, <3>2 DEF CbInv
  <2> QED BY <2>8, <2>9
<1> QED BY <1>1, <1>2

\* No step of the queue leaves a payload unannounced.
LEMMA CbStep == QuietCallbacks /\ CbInv /\ [Next]_vars => CbInv'
<1> SUFFICES ASSUME QuietCallbacks, CbInv, [Next]_vars PROVE CbInv'
  OBVIOUS
<1>1. CASE Outside
  <2>1. fec \in {"idle", "woken"} /\ parity' = parity /\ calling' = calling
    BY <1>1 DEF Outside
  <2>2. CASE notify(Kinds)
    BY <2>1, <2>2, CbNotify
  <2>3. CASE cancel_all /\ UNCHANGED fresh
    <3>1. /\ m_immediate_yield' = <<>> /\ m_ppq' = <<>> /\ m_e' = {}
          /\ m_delta' = [d \in {0, 1} |-> <<>>] /\ fec' = fec /\ fresh' = fresh
      BY <2>3 DEF cancel_all
    <3>2. <<>> \in Queues /\ Ordered(<<>>) /\ OneNotice({}) /\ InTime({}, <<>>)
      BY DEF Queues, Ordered, OneNotice, InTime
    <3>3. Other \in {0, 1} /\ Other' = Other
      BY <2>1 DEF CbInv, Other
    <3>4. m_delta'[parity'] = <<>> /\ m_delta'[Other'] = <<>>
      BY <2>1, <3>1, <3>3 DEF CbInv
    <3> QED BY <2>1, <3>1, <3>2, <3>4 DEF CbInv
  <2> QED BY <1>1, <2>2, <2>3 DEF Outside
<1>2. CASE CallbackNotifies
  <2>1. calling /\ notify(Callbacks[fec]) /\ parity' = parity /\ calling' = calling
    BY <1>2 DEF CallbackNotifies
  <2>2. fec \in Loops /\ Callbacks[fec] \in SUBSET Kinds
    BY <2>1, CbPeqAssumption DEF CbInv
  <2> QED BY <2>1, <2>2, CbNotify DEF QuietCallbacks
<1>3. CASE CallbackReturns
  BY <1>3 DEF CallbackReturns, lists, CbInv, Other
<1>4. CASE fec_runs
  BY <1>4, CbFec
<1>5. CASE DeltaCycle \/ TimePasses
  BY <1>5, CbKernel
<1>6. CASE UNCHANGED vars
  BY <1>6 DEF vars, lists, CbInv, Other
<1> QED BY <1>1, <1>2, <1>3, <1>4, <1>5, <1>6 DEF Next

-----------------------------------------------------------------------------
(* The polled queue                                                        *)

\* The payloads of q in the order of their due times and, among equals, of the
\* calls that made them, all made before call c.
InCallOrder(q, c) ==
  /\ \A i, j \in DOMAIN q : i < j =>
       q[i].due < q[j].due \/ (q[i].due = q[j].due /\ q[i].val < q[j].val)
  /\ \A i \in DOMAIN q : q[i].val < c

\* The entries of q as a set.
Contents(q) == {q[i] : i \in DOMAIN q}

\* Due times counted from n.
From(q, n) ==
  [i \in DOMAIN q |-> [due |-> IF q[i].due <= n THEN 0 ELSE q[i].due - n,
                       val |-> q[i].val]]

\* Call order is in particular the order of due times.
LEMMA InOrder ==
  ASSUME NEW m \in Nat, NEW q \in Seq(PeqEntry(Nat, m)), NEW c \in Nat,
         InCallOrder(q, c)
  PROVE  Ordered(q)
<1> SUFFICES ASSUME NEW i \in DOMAIN q, NEW j \in DOMAIN q, i <= j
             PROVE  q[i].due <= q[j].due
  BY DEF Ordered
<1>1. q[i].due \in Nat /\ q[j].due \in Nat /\ i \in Nat /\ j \in Nat
  BY PeqFields
<1>2. CASE i = j
  BY <1>1, <1>2
<1>3. CASE i < j
  BY <1>1, <1>3 DEF InCallOrder
<1> QED BY <1>1, <1>2, <1>3

\* A queue fits under every later longest delay.
LEMMA Widened ==
  ASSUME NEW m \in Nat, NEW k \in Nat, m <= k, NEW q \in Seq(PeqEntry(Nat, m))
  PROVE  q \in Seq(PeqEntry(Nat, k))
<1>1. PeqEntry(Nat, m) \subseteq PeqEntry(Nat, k)
  <2>1. 0 .. m \subseteq 0 .. k
    OBVIOUS
  <2> QED BY <2>1 DEF PeqEntry
<1> QED BY <1>1

\* A call puts its payload behind those due no later, and adds just that one.
LEMMA CallInserts ==
  ASSUME NEW m \in Nat, NEW q \in Seq(PeqEntry(Nat, m)), NEW c \in Nat,
         InCallOrder(q, c), NEW t \in 0 .. m
  PROVE  /\ PeqDelay(q, c, t) \in Seq(PeqEntry(Nat, m))
         /\ InCallOrder(PeqDelay(q, c, t), c + 1)
         /\ Contents(PeqDelay(q, c, t)) = Contents(q) \cup {[due |-> t, val |-> c]}
<1> DEFINE r == PeqDelay(q, c, t)
           k == PeqWithin(q, t)
           e == [due |-> t, val |-> c]
<1>0. Ordered(q)
  BY InOrder
<1>1. /\ r \in Seq(PeqEntry(Nat, m)) /\ Len(r) = Len(q) + 1 /\ k \in 0 .. Len(q)
      /\ \A i \in 1 .. Len(q) + 1 :
           r[i] = IF i <= k THEN q[i] ELSE IF i = k + 1 THEN e ELSE q[i - 1]
  BY <1>0, PeqDelayed
<1>2. /\ DOMAIN q = 1 .. Len(q) /\ Len(q) \in Nat /\ DOMAIN r = 1 .. Len(q) + 1
      /\ t \in Nat
  BY <1>1
<1>3. \A i \in DOMAIN q : /\ q[i].due \in Nat /\ q[i].val \in Nat /\ q[i].val < c
                          /\ (q[i].due <= t <=> i <= k)
  <2> SUFFICES ASSUME NEW i \in DOMAIN q
               PROVE  /\ q[i].due \in Nat /\ q[i].val \in Nat /\ q[i].val < c
                      /\ (q[i].due <= t <=> i <= k)
    OBVIOUS
  <2>1. q[i].due \in Nat /\ q[i].val \in Nat
    BY PeqFields
  <2>2. q[i].val < c
    BY DEF InCallOrder
  <2>3. q[i].due <= t <=> i <= k
    BY <1>2, InOrder, PeqWithinFirst
  <2> QED BY <2>1, <2>2, <2>3
<1>4. e.due = t /\ e.val = c
  OBVIOUS
<1> HIDE DEF r, k, e
<1>5. ASSUME NEW i \in DOMAIN r, NEW j \in DOMAIN r, i < j
      PROVE  r[i].due < r[j].due \/ (r[i].due = r[j].due /\ r[i].val < r[j].val)
  <2>1. i \in 1 .. Len(q) + 1 /\ j \in 1 .. Len(q) + 1 /\ k \in Nat /\ i \in Nat /\ j \in Nat
    BY <1>1, <1>2
  <2>2. CASE j <= k
    <3>1. r[i] = q[i] /\ r[j] = q[j] /\ i \in DOMAIN q /\ j \in DOMAIN q
      BY <1>1, <1>2, <1>5, <2>1, <2>2
    <3> QED BY <1>5, <3>1 DEF InCallOrder
  <2>3. CASE j = k + 1
    <3>1. i <= k /\ i \in DOMAIN q
      BY <1>1, <1>2, <1>5, <2>1, <2>3
    <3>2. r[i] = q[i] /\ r[j] = e
      BY <1>1, <2>1, <2>3, <3>1
    <3>3. q[i].due <= t /\ q[i].val < c /\ q[i].due \in Nat
      BY <1>3, <3>1
    <3> QED BY <1>2, <1>4, <3>2, <3>3
  <2>4. CASE j > k + 1
    <3>1. j - 1 \in DOMAIN q /\ r[j] = q[j - 1] /\ ~ (j - 1 <= k)
      BY <1>1, <1>2, <2>1, <2>4
    <3>2. CASE i <= k
      <4>1. i \in DOMAIN q /\ r[i] = q[i] /\ i < j - 1
        BY <1>1, <1>2, <2>1, <2>4, <3>2
      <4> QED BY <3>1, <4>1 DEF InCallOrder
    <3>3. CASE i = k + 1
      <4>1. r[i] = e
        BY <1>1, <2>1, <3>3
      <4>2. ~ (q[j - 1].due <= t) /\ q[j - 1].due \in Nat
        BY <1>3, <3>1
      <4> QED BY <1>2, <1>4, <3>1, <4>1, <4>2
    <3>4. CASE i > k + 1
      <4>1. i - 1 \in DOMAIN q /\ r[i] = q[i - 1] /\ i - 1 < j - 1
        BY <1>1, <1>2, <1>5, <2>1, <3>4
      <4> QED BY <3>1, <4>1 DEF InCallOrder
    <3> QED BY <2>1, <3>2, <3>3, <3>4
  <2> QED BY <2>1, <2>2, <2>3, <2>4
<1>6. ASSUME NEW i \in DOMAIN r PROVE r[i] \in Contents(q) \cup {e} /\ r[i].val < c + 1
  <2>1. i \in 1 .. Len(q) + 1 /\ k \in 0 .. Len(q) /\ Len(q) \in Nat
    BY <1>1, <1>2
  <2>2. \A j \in DOMAIN q : q[j] \in Contents(q) /\ q[j].val < c + 1
    BY <1>3 DEF Contents
  <2>3. CASE i <= k
    BY <1>1, <1>2, <2>1, <2>2, <2>3
  <2>4. CASE i = k + 1
    BY <1>1, <1>4, <2>1, <2>4
  <2>5. CASE i > k + 1
    <3>1. i - 1 \in DOMAIN q /\ r[i] = q[i - 1]
      BY <1>1, <1>2, <2>1, <2>5
    <3> QED BY <2>2, <3>1
  <2> QED BY <2>1, <2>3, <2>4, <2>5
<1>7. \A i \in DOMAIN q : q[i] \in Contents(r)
  <2> SUFFICES ASSUME NEW i \in DOMAIN q PROVE \E j \in DOMAIN r : q[i] = r[j]
    BY DEF Contents
  <2>1. CASE i <= k
    BY <1>1, <1>2, <2>1
  <2>2. CASE ~ (i <= k)
    <3>1. i + 1 \in DOMAIN r /\ r[i + 1] = q[i]
      <4>1. i + 1 \in 1 .. Len(q) + 1 /\ ~ (i + 1 <= k) /\ i + 1 # k + 1 /\ i + 1 - 1 = i
        BY <1>1, <1>2, <2>2
      <4> QED BY <1>1, <1>2, <4>1
    <3> QED BY <3>1
  <2> QED BY <2>1, <2>2
<1>8. e \in Contents(r)
  <2>1. k + 1 \in DOMAIN r /\ r[k + 1] = e
    BY <1>1, <1>2
  <2> QED BY <2>1 DEF Contents
<1>9. Contents(r) = Contents(q) \cup {e}
  <2>1. \A x \in Contents(r) : x \in Contents(q) \cup {e}
    BY <1>6 DEF Contents
  <2>2. \A x \in Contents(q) : x \in Contents(r)
    BY <1>7 DEF Contents
  <2> QED BY <1>8, <2>1, <2>2
<1>10. InCallOrder(r, c + 1)
  BY <1>5, <1>6 DEF InCallOrder
<1> QED BY <1>1, <1>9, <1>10 DEF r, e

\* The head comes before every other entry, and without it the rest is left.
LEMMA HeadIsFirst ==
  ASSUME NEW m \in Nat, NEW q \in Seq(PeqEntry(Nat, m)), NEW c \in Nat,
         InCallOrder(q, c), q # <<>>
  PROVE  /\ Tail(q) \in Seq(PeqEntry(Nat, m)) /\ InCallOrder(Tail(q), c)
         /\ Head(q) \in Contents(q)
         /\ Head(q).due \in Nat
         /\ \A f \in Contents(q) :
              \/ Head(q).due < f.due
              \/ Head(q).due = f.due /\ Head(q).val <= f.val
         /\ Contents(Tail(q)) = Contents(q) \ {Head(q)}
<1>1. /\ Tail(q) \in Seq(PeqEntry(Nat, m)) /\ Len(Tail(q)) = Len(q) - 1
      /\ Len(q) \in Nat \ {0}
      /\ \A i \in 1 .. Len(q) - 1 : Tail(q)[i] = q[i + 1]
  BY InOrder, PeqTail
<1>2. /\ DOMAIN q = 1 .. Len(q) /\ DOMAIN Tail(q) = 1 .. Len(q) - 1
      /\ Head(q) = q[1] /\ 1 \in DOMAIN q
  BY <1>1
<1>3. \A i \in DOMAIN q : q[i].due \in Nat /\ q[i].val \in Nat
  <2> SUFFICES ASSUME NEW i \in DOMAIN q PROVE q[i].due \in Nat /\ q[i].val \in Nat
    OBVIOUS
  <2> QED BY PeqFields
<1>4. \A i \in DOMAIN q : i # 1 =>
        \/ q[1].due < q[i].due
        \/ q[1].due = q[i].due /\ q[1].val < q[i].val
  BY <1>1, <1>2 DEF InCallOrder
<1> DEFINE T == Tail(q)
<1>5. /\ Len(T) = Len(q) - 1 /\ DOMAIN T = 1 .. Len(q) - 1
      /\ \A i \in 1 .. Len(q) - 1 : T[i] = q[i + 1]
  BY <1>1, <1>2
<1> HIDE DEF T
<1>6. InCallOrder(T, c)
  <2>1. ASSUME NEW i \in DOMAIN T
        PROVE  T[i] = q[i + 1] /\ i + 1 \in DOMAIN q /\ i \in Nat
    BY <1>1, <1>2, <1>5
  <2>2. ASSUME NEW i \in DOMAIN T, NEW j \in DOMAIN T, i < j
        PROVE  T[i].due < T[j].due \/ (T[i].due = T[j].due /\ T[i].val < T[j].val)
    <3>1. /\ i + 1 < j + 1 /\ i + 1 \in DOMAIN q /\ j + 1 \in DOMAIN q
          /\ T[i] = q[i + 1] /\ T[j] = q[j + 1]
      BY <2>1, <2>2
    <3>2. \/ q[i + 1].due < q[j + 1].due
          \/ q[i + 1].due = q[j + 1].due /\ q[i + 1].val < q[j + 1].val
      BY <3>1 DEF InCallOrder
    <3> QED BY <3>1, <3>2
  <2>3. ASSUME NEW i \in DOMAIN T PROVE T[i].val < c
    BY <2>1 DEF InCallOrder
  <2> QED BY <2>2, <2>3 DEF InCallOrder
<1>7. \A f \in Contents(q) :
        q[1].due < f.due \/ (q[1].due = f.due /\ q[1].val <= f.val)
  BY <1>2, <1>3, <1>4 DEF Contents
<1>8. \A x \in Contents(T) : x \in Contents(q) /\ x # q[1]
  <2> SUFFICES ASSUME NEW i \in DOMAIN T PROVE T[i] \in Contents(q) /\ T[i] # q[1]
    BY DEF Contents
  <2>1. T[i] = q[i + 1] /\ i + 1 \in DOMAIN q /\ i + 1 # 1
    BY <1>1, <1>2, <1>5
  <2>2. q[i + 1] # q[1]
    BY <1>2, <1>3, <1>4, <2>1
  <2> QED BY <2>1, <2>2 DEF Contents
<1>9. \A x \in Contents(q) : x # q[1] => x \in Contents(T)
  <2> SUFFICES ASSUME NEW i \in DOMAIN q, q[i] # q[1] PROVE q[i] \in Contents(T)
    BY DEF Contents
  <2>1. i - 1 \in DOMAIN T /\ T[i - 1] = q[i]
    <3>1. i # 1
      OBVIOUS
    <3>2. i - 1 \in 1 .. Len(q) - 1 /\ (i - 1) + 1 = i
      BY <1>1, <1>2, <3>1
    <3> QED BY <1>5, <3>2
  <2> QED BY <2>1 DEF Contents
<1>10. Contents(T) = Contents(q) \ {q[1]}
  BY <1>8, <1>9
<1>11. q[1] \in Contents(q)
  BY <1>2 DEF Contents
<1> QED BY <1>1, <1>2, <1>3, <1>6, <1>7, <1>10, <1>11 DEF T

\* The due times counted from n are those of an ordered queue.
LEMMA Counted ==
  ASSUME NEW m \in Nat, NEW q \in Seq(PeqEntry(Nat, m)), NEW c \in Nat,
         InCallOrder(q, c), NEW n \in Nat
  PROVE  /\ From(q, n) \in Seq(PeqEntry(Nat, m)) /\ Len(From(q, n)) = Len(q)
         /\ DOMAIN From(q, n) = DOMAIN q
         /\ Ordered(From(q, n))
         /\ \A i \in DOMAIN q :
              /\ From(q, n)[i].due = IF q[i].due <= n THEN 0 ELSE q[i].due - n
              /\ From(q, n)[i].val = q[i].val
<1> DEFINE e(i) == [due |-> IF q[i].due <= n THEN 0 ELSE q[i].due - n,
                    val |-> q[i].val]
<1>1. DOMAIN q = 1 .. Len(q) /\ Len(q) \in Nat
  OBVIOUS
<1>2. \A i \in DOMAIN q : q[i].due \in 0 .. m /\ q[i].val \in Nat
  <2> SUFFICES ASSUME NEW i \in DOMAIN q PROVE q[i].due \in 0 .. m /\ q[i].val \in Nat
    OBVIOUS
  <2> QED BY PeqFields
<1>3. \A i \in 1 .. Len(q) :
        /\ e(i) \in PeqEntry(Nat, m) /\ e(i).val = q[i].val
        /\ e(i).due = IF q[i].due <= n THEN 0 ELSE q[i].due - n
  <2> SUFFICES ASSUME NEW i \in 1 .. Len(q) PROVE e(i) \in PeqEntry(Nat, m)
    OBVIOUS
  <2>1. q[i].due \in 0 .. m /\ q[i].val \in Nat
    BY <1>1, <1>2
  <2>2. (IF q[i].due <= n THEN 0 ELSE q[i].due - n) \in 0 .. m
    BY <2>1
  <2> QED BY <2>1, <2>2 DEF PeqEntry
<1>4. From(q, n) = [i \in 1 .. Len(q) |-> e(i)]
  BY <1>1 DEF From
<1> HIDE DEF e
<1>5. /\ From(q, n) \in Seq(PeqEntry(Nat, m)) /\ Len(From(q, n)) = Len(q)
      /\ DOMAIN From(q, n) = DOMAIN q
      /\ \A i \in DOMAIN q : From(q, n)[i] = e(i)
  BY <1>1, <1>3, <1>4
<1>6. Ordered(From(q, n))
  <2> SUFFICES ASSUME NEW i \in DOMAIN q, NEW j \in DOMAIN q, i <= j
               PROVE  e(i).due <= e(j).due
    BY <1>5 DEF Ordered
  <2>1. q[i].due <= q[j].due
    BY InOrder DEF Ordered
  <2>2. q[i].due \in Nat /\ q[j].due \in Nat
    BY <1>2
  <2> QED BY <1>1, <1>3, <2>1, <2>2
<1> QED BY <1>1, <1>3, <1>5, <1>6

\* Counted from the next instant, everything is one nearer.
LEMMA CountedLater ==
  ASSUME NEW m \in Nat, NEW q \in Seq(PeqEntry(Nat, m)), NEW c \in Nat,
         InCallOrder(q, c), NEW n \in Nat
  PROVE  From(q, n + 1) = PeqAge(From(q, n))
<1> DEFINE f == From(q, n)
<1>1. /\ DOMAIN f = DOMAIN q
      /\ \A i \in DOMAIN q :
           /\ f[i].due = IF q[i].due <= n THEN 0 ELSE q[i].due - n
           /\ f[i].val = q[i].val
  BY Counted
<1> HIDE DEF f
<1>2. \A i \in DOMAIN q :
        /\ (IF q[i].due <= n + 1 THEN 0 ELSE q[i].due - (n + 1))
             = (IF f[i].due = 0 THEN 0 ELSE f[i].due - 1)
        /\ f[i].val = q[i].val
  <2> SUFFICES ASSUME NEW i \in DOMAIN q
               PROVE  (IF q[i].due <= n + 1 THEN 0 ELSE q[i].due - (n + 1))
                        = (IF f[i].due = 0 THEN 0 ELSE f[i].due - 1)
    BY <1>1
  <2>1. q[i].due \in Nat
    BY PeqFields
  <2>2. f[i].due = IF q[i].due <= n THEN 0 ELSE q[i].due - n
    BY <1>1
  <2> QED BY <2>1, <2>2
<1>3. From(q, n + 1) = [i \in DOMAIN q |->
                          [due |-> IF f[i].due = 0 THEN 0 ELSE f[i].due - 1,
                           val |-> f[i].val]]
  BY <1>2 DEF From
<1> QED BY <1>1, <1>3 DEF PeqAge, f

\* PeqDelayed for payloads that are numbers.
LEMMA DelayedNumber ==
  ASSUME NEW m \in Nat, NEW q \in Seq(PeqEntry(Nat, m)), Ordered(q),
         NEW c \in Nat, NEW t \in 0 .. m
  PROVE  /\ PeqDelay(q, c, t) \in Seq(PeqEntry(Nat, m))
         /\ Len(PeqDelay(q, c, t)) = Len(q) + 1
         /\ \A i \in 1 .. Len(q) + 1 :
              PeqDelay(q, c, t)[i] =
                IF i <= PeqWithin(q, t) THEN q[i]
                ELSE IF i = PeqWithin(q, t) + 1 THEN [due |-> t, val |-> c]
                ELSE q[i - 1]
BY PeqDelayed

\* A call for d after n stands in the same place, whichever way times count.
LEMMA CountedDelay ==
  ASSUME NEW m \in Nat, NEW q \in Seq(PeqEntry(Nat, m)), NEW c \in Nat,
         InCallOrder(q, c), NEW n \in Nat, NEW d \in Nat, n + d \in 0 .. m
  PROVE  From(PeqDelay(q, c, n + d), n) = PeqDelay(From(q, n), c, d)
<1> DEFINE f == From(q, n)
           t == n + d
           r == PeqDelay(q, c, t)
           s == PeqDelay(f, c, d)
           k == PeqWithin(q, t)
<1>0. /\ t \in 0 .. m /\ d \in 0 .. m /\ t \in Nat /\ Ordered(q)
      /\ DOMAIN q = 1 .. Len(q) /\ Len(q) \in Nat
  BY InOrder
<1>1. /\ f \in Seq(PeqEntry(Nat, m)) /\ Len(f) = Len(q) /\ DOMAIN f = DOMAIN q
      /\ Ordered(f)
      /\ \A i \in DOMAIN q :
           /\ f[i].due = IF q[i].due <= n THEN 0 ELSE q[i].due - n
           /\ f[i].val = q[i].val
  BY Counted
<1>2. \A i \in DOMAIN q : f[i].due <= d <=> q[i].due <= t
  <2> SUFFICES ASSUME NEW i \in DOMAIN q PROVE f[i].due <= d <=> q[i].due <= n + d
    OBVIOUS
  <2>1. q[i].due \in Nat
    BY PeqFields
  <2>2. f[i].due = IF q[i].due <= n THEN 0 ELSE q[i].due - n
    BY <1>1
  <2> HIDE DEF f
  <2> QED BY <2>1, <2>2
<1>3. PeqWithin(f, d) = k
  <2>1. {i \in DOMAIN f : f[i].due <= d} = {i \in DOMAIN q : q[i].due <= t}
    BY <1>1, <1>2
  <2> QED BY <2>1 DEF PeqWithin
<1>4. /\ r \in Seq(PeqEntry(Nat, m)) /\ Len(r) = Len(q) + 1 /\ k \in 0 .. Len(q)
      /\ \A i \in 1 .. Len(q) + 1 :
           r[i] = IF i <= k THEN q[i]
                  ELSE IF i = k + 1 THEN [due |-> t, val |-> c] ELSE q[i - 1]
  <2>1. t \in 0 .. m /\ Ordered(q)
    BY <1>0
  <2> HIDE DEF t, f, s
  <2> QED BY <2>1, PeqDelayed
<1>5. /\ s \in Seq(PeqEntry(Nat, m)) /\ Len(s) = Len(f) + 1
      /\ \A i \in 1 .. Len(f) + 1 :
           s[i] = IF i <= PeqWithin(f, d) THEN f[i]
                  ELSE IF i = PeqWithin(f, d) + 1 THEN [due |-> d, val |-> c]
                  ELSE f[i - 1]
  <2>1. d \in 0 .. m /\ Ordered(f) /\ f \in Seq(PeqEntry(Nat, m))
    BY <1>0, <1>1
  <2> HIDE DEF f, t, r, k, s
  <2> QED BY <2>1, DelayedNumber DEF s
<1>6. InCallOrder(r, c + 1)
  BY <1>0, CallInserts
<1>7. /\ From(r, n) \in Seq(PeqEntry(Nat, m)) /\ Len(From(r, n)) = Len(r)
      /\ \A i \in DOMAIN r :
           From(r, n)[i] = [due |-> IF r[i].due <= n THEN 0 ELSE r[i].due - n,
                            val |-> r[i].val]
  <2> HIDE DEF r
  <2>1. From(r, n) \in Seq(PeqEntry(Nat, m)) /\ Len(From(r, n)) = Len(r)
    BY <1>4, <1>6, Counted
  <2> QED BY <2>1 DEF From
<1>8. \A i \in DOMAIN q :
        f[i] = [due |-> IF q[i].due <= n THEN 0 ELSE q[i].due - n, val |-> q[i].val]
  BY DEF From
<1>9. (IF t <= n THEN 0 ELSE t - n) = d
  BY <1>0
<1> HIDE DEF f, r, s, k, t
<1>10. ASSUME NEW i \in 1 .. Len(q) + 1
       PROVE  From(r, n)[i] = s[i]
  <2>0. i \in DOMAIN r /\ k \in Nat
    BY <1>0, <1>4
  <2>1. CASE i <= k
    <3>1. i \in DOMAIN q /\ r[i] = q[i] /\ s[i] = f[i]
      BY <1>0, <1>1, <1>3, <1>4, <1>5, <2>1
    <3> QED BY <1>7, <1>8, <2>0, <3>1
  <2>2. CASE i = k + 1
    <3>0. ~ (i <= k)
      BY <2>0, <2>2
    <3>1. r[i] = [due |-> t, val |-> c] /\ s[i] = [due |-> d, val |-> c]
      BY <1>1, <1>3, <1>4, <1>5, <2>2, <3>0, Zenon
    <3>2. r[i].due = t /\ r[i].val = c
      BY <3>1
    <3> QED BY <1>7, <1>9, <2>0, <3>1, <3>2
  <2>3. CASE i > k + 1
    <3>1. /\ i - 1 \in DOMAIN q /\ r[i] = q[i - 1] /\ s[i] = f[i - 1]
      BY <1>0, <1>1, <1>3, <1>4, <1>5, <2>0, <2>3
    <3> QED BY <1>7, <1>8, <2>0, <3>1
  <2> QED BY <2>0, <2>1, <2>2, <2>3
<1>11. From(r, n) = s
  <2>1. Len(From(r, n)) = Len(s) /\ Len(s) = Len(q) + 1
    BY <1>1, <1>4, <1>5, <1>7
  <2> QED BY <1>5, <1>7, <1>10, <2>1, SeqEqual
<1> QED BY <1>11 DEF f, r, s, t

\* What is handed out first is the payload of the head.
LEMMA CountedHead ==
  ASSUME NEW m \in Nat, NEW q \in Seq(PeqEntry(Nat, m)), NEW c \in Nat,
         InCallOrder(q, c), NEW n \in Nat, q # <<>>, Head(q).due <= n
  PROVE  Head(PeqReady(From(q, n))) = Head(q).val
<1> DEFINE f == From(q, n)
<1>1. /\ f \in Seq(PeqEntry(Nat, m)) /\ Ordered(f) /\ DOMAIN f = DOMAIN q
      /\ 1 \in DOMAIN q /\ Head(q) = q[1]
  BY Counted
<1>2. f[1].due = 0 /\ f[1].val = q[1].val
  BY <1>1, Counted
<1> HIDE DEF f
<1>3. 1 <= PeqWithin(f, 0)
  <2>1. f[1].due <= 0
    BY <1>2
  <2> QED BY <1>1, <2>1, PeqWithinFirst
<1>4. PeqWithin(f, 0) \in Nat
  BY <1>1, PeqWithinType
<1>5. PeqReady(f)[1] = q[1].val /\ Head(PeqReady(f)) = PeqReady(f)[1]
  BY <1>2, <1>3, <1>4 DEF PeqReady
<1> QED BY <1>1, <1>5 DEF f

\* Without its head, a queue counts as before.
LEMMA CountedTail ==
  ASSUME NEW m \in Nat, NEW q \in Seq(PeqEntry(Nat, m)), NEW c \in Nat,
         InCallOrder(q, c), NEW n \in Nat, q # <<>>
  PROVE  From(Tail(q), n) = Tail(From(q, n))
<1> DEFINE f == From(q, n)
           g == From(Tail(q), n)
<1>1. /\ Tail(q) \in Seq(PeqEntry(Nat, m)) /\ InCallOrder(Tail(q), c)
      /\ Len(Tail(q)) = Len(q) - 1 /\ Len(q) \in Nat /\ Len(q) > 0
      /\ \A i \in 1 .. Len(q) - 1 : Tail(q)[i] = q[i + 1]
  BY HeadIsFirst
<1>2. f \in Seq(PeqEntry(Nat, m)) /\ Len(f) = Len(q)
  BY Counted
<1>3. g \in Seq(PeqEntry(Nat, m)) /\ Len(g) = Len(q) - 1
  BY <1>1, Counted
<1>4. ASSUME NEW i \in 1 .. Len(q) - 1 PROVE g[i] = f[i + 1]
  <2>1. /\ i \in DOMAIN Tail(q) /\ i + 1 \in DOMAIN q /\ Tail(q)[i] = q[i + 1]
    BY <1>1
  <2> QED BY <2>1 DEF From
<1> HIDE DEF f, g
<1>5. /\ Tail(f) \in Seq(PeqEntry(Nat, m)) /\ Len(Tail(f)) = Len(q) - 1
      /\ \A i \in 1 .. Len(q) - 1 : Tail(f)[i] = f[i + 1]
  BY <1>1, <1>2
<1> QED BY <1>3, <1>4, <1>5, SeqEqual DEF f, g

\* The instance of Peq uses the operators of PeqOps, and its views of the
\* multimap are the ones above.
LEMMA SamePolled ==
  /\ \A q, v, t : Polled!PeqDelay(q, v, t) = PeqDelay(q, v, t)
  /\ \A q : Polled!PeqAge(q) = PeqAge(q)
  /\ \A q : Polled!PeqReady(q) = PeqReady(q)
  /\ Polled!Relative = From(multimap, now)
<1>1. \A S : Polled!Cardinality(S) = Cardinality(S)
  BY DEF Polled!Cardinality, Cardinality, Polled!IsFiniteSet, IsFiniteSet
<1>2. \A q, t : Polled!PeqWithin(q, t) = PeqWithin(q, t)
  BY <1>1 DEF Polled!PeqWithin, PeqWithin
<1>3. \A q, v, t : Polled!PeqDelay(q, v, t) = PeqDelay(q, v, t)
  BY <1>2 DEF Polled!PeqDelay, PeqDelay
<1>4. \A q : Polled!PeqAge(q) = PeqAge(q)
  BY DEF Polled!PeqAge, PeqAge
<1>5. \A q : Polled!PeqReady(q) = PeqReady(q)
  BY <1>2 DEF Polled!PeqReady, PeqReady
<1>6. Polled!Relative = From(multimap, now)
  BY DEF Polled!Relative, From
<1> QED BY <1>3, <1>4, <1>5, <1>6

\* The multimap is in call order, whatever the longest delay so far.
PolledInv == /\ now \in 0 .. MaxNow /\ period \in Periods
             /\ calls \in 0 .. MaxCalls /\ got \in Seq(Nat)
             /\ \E m \in Nat : multimap \in Seq(PeqEntry(Nat, m))
             /\ InCallOrder(multimap, calls)

\* A delay call, for whatever time from now on.
LEMMA PolledInsert ==
  ASSUME PolledInv, NEW d \in Nat, Polled!Insert(now + d)
  PROVE  /\ PolledInv'
         /\ Contents(multimap') = Contents(multimap) \cup {[due |-> now + d, val |-> calls]}
         /\ From(multimap, now)' = PeqDelay(From(multimap, now), calls, d)
<1>1. /\ calls < MaxCalls /\ calls' = calls + 1
      /\ multimap' = PeqDelay(multimap, calls, now + d)
      /\ now' = now /\ period' = period /\ got' = got
  BY SamePolled DEF Polled!Insert
<1>2. MaxCalls \in Nat /\ MaxNow \in Nat
  BY PeqAssumption DEF Polled!Bounds
<1>3. calls \in Nat /\ now \in Nat /\ calls' \in 0 .. MaxCalls
  BY <1>1, <1>2 DEF PolledInv
<1>4. PICK k \in Nat : multimap \in Seq(PeqEntry(Nat, k))
  BY DEF PolledInv
<1>5. PICK m \in Nat : k <= m /\ now + d <= m
  <2>1. k + now + d \in Nat /\ k <= k + now + d /\ now + d <= k + now + d
    BY <1>3
  <2> QED BY <2>1
<1>6. multimap \in Seq(PeqEntry(Nat, m)) /\ now + d \in 0 .. m
  BY <1>3, <1>4, <1>5, Widened
<1>7. InCallOrder(multimap, calls)
  BY DEF PolledInv
<1>8. /\ multimap' \in Seq(PeqEntry(Nat, m))
      /\ InCallOrder(multimap', calls + 1)
      /\ Contents(multimap') = Contents(multimap) \cup {[due |-> now + d, val |-> calls]}
  <2> DEFINE t == now + d
  <2>1. t \in 0 .. m
    BY <1>6
  <2> HIDE DEF t
  <2>2. /\ PeqDelay(multimap, calls, t) \in Seq(PeqEntry(Nat, m))
        /\ InCallOrder(PeqDelay(multimap, calls, t), calls + 1)
        /\ Contents(PeqDelay(multimap, calls, t))
             = Contents(multimap) \cup {[due |-> t, val |-> calls]}
    BY <1>3, <1>6, <1>7, <2>1, CallInserts
  <2> QED BY <1>1, <2>2 DEF t
<1>9. From(PeqDelay(multimap, calls, now + d), now)
        = PeqDelay(From(multimap, now), calls, d)
  BY <1>3, <1>6, <1>7, CountedDelay
<1>10. From(multimap, now)' = From(multimap', now')
  BY DEF From
<1> QED BY <1>1, <1>3, <1>8, <1>9, <1>10 DEF PolledInv

\* Every call keeps the call order, and is one the bag may make or none.
LEMMA PolledStep ==
  ASSUME PolledInv, [Polled!Next]_polledVars
  PROVE  PolledInv' /\ [Polled!Bag!Next]_(Polled!Bag!vars)
<1>0. /\ MaxCalls \in Nat /\ MaxNow \in Nat /\ MaxCycles \in Nat
      /\ Periods \subseteq Nat
  BY PeqAssumption DEF Polled!Bounds
<1>1. calls \in Nat /\ now \in Nat /\ InCallOrder(multimap, calls) /\ period \in Nat
  BY <1>0 DEF PolledInv
<1>2. PICK m \in Nat : multimap \in Seq(PeqEntry(Nat, m))
  BY DEF PolledInv
<1> DEFINE bag == Contents(multimap)
<1>3. ASSUME NEW p \in Periods, Polled!set_freq(p)
      PROVE  PolledInv' /\ [Polled!Bag!Next]_(Polled!Bag!vars)
  <2>1. period' = p /\ UNCHANGED <<now, multimap, calls, got>>
    BY <1>3 DEF Polled!set_freq
  <2> QED BY <2>1 DEF PolledInv, InCallOrder, Polled!Bag!vars
<1>4. ASSUME NEW d \in Nat, Polled!Insert(now + d)
      PROVE  PolledInv' /\ [Polled!Bag!Next]_(Polled!Bag!vars)
  <2> DEFINE e == [due |-> now + d, val |-> calls]
  <2>1. PolledInv' /\ Contents(multimap') = bag \cup {e}
    BY <1>4, PolledInsert
  <2>2. calls' = calls + 1 /\ now' = now /\ got' = got
    BY <1>4 DEF Polled!Insert
  <2>3. e.val = calls /\ e.due >= now /\ e \in Contents(multimap')
    BY <1>1, <2>1
  <2> HIDE DEF e
  <2>4. Polled!Bag!Put
    BY <2>1, <2>2, <2>3 DEF Polled!Bag!Put, Contents
  <2> QED BY <2>1, <2>4 DEF Polled!Bag!Next
<1>5. ASSUME NEW c \in 0 .. MaxCycles, Polled!delay(c)
      PROVE  PolledInv' /\ [Polled!Bag!Next]_(Polled!Bag!vars)
  <2>1. c * period \in Nat
    BY <1>0, <1>1
  <2> QED BY <1>4, <1>5, <2>1 DEF Polled!delay
<1>6. CASE Polled!delay_now
  <2>1. now = now + 0 /\ 0 \in Nat
    BY <1>1
  <2>2. Polled!Insert(now + 0)
    BY <1>6, <2>1 DEF Polled!delay_now
  <2> QED BY <1>4, <2>1, <2>2
<1>7. CASE Polled!get_next_transaction
  <2>1. now' = now /\ period' = period /\ calls' = calls
    BY <1>7 DEF Polled!get_next_transaction
  <2>2. CASE multimap # <<>> /\ Head(multimap).due <= now
    <3>1. got' = <<Head(multimap).val>> /\ multimap' = Tail(multimap)
      BY <1>7, <2>2 DEF Polled!get_next_transaction
    <3>2. /\ Tail(multimap) \in Seq(PeqEntry(Nat, m))
          /\ InCallOrder(Tail(multimap), calls)
          /\ Head(multimap) \in bag
          /\ \A f \in bag : \/ Head(multimap).due < f.due
                            \/ /\ Head(multimap).due = f.due
                               /\ Head(multimap).val <= f.val
          /\ Contents(Tail(multimap)) = bag \ {Head(multimap)}
      BY <1>1, <1>2, <2>2, HeadIsFirst
    <3>3. Head(multimap).val \in Nat
      <4>1. 1 \in DOMAIN multimap /\ Head(multimap) = multimap[1]
        BY <1>2, <2>2
      <4> QED BY <1>2, <4>1, PeqFields
    <3>4. PolledInv'
      BY <2>1, <3>1, <3>2, <3>3 DEF PolledInv
    <3>5. Polled!Bag!Take
      BY <2>1, <2>2, <3>1, <3>2 DEF Polled!Bag!Take, Polled!Bag!Before, Contents
    <3> QED BY <3>4, <3>5 DEF Polled!Bag!Next
  <2>3. CASE ~ (multimap # <<>> /\ Head(multimap).due <= now)
    <3>1. got' = <<>> /\ multimap' = multimap
      BY <1>7, <2>3 DEF Polled!get_next_transaction
    <3>2. PolledInv'
      BY <2>1, <3>1 DEF PolledInv, InCallOrder
    <3>3. \A f \in bag : f.due > now
      <4>1. CASE multimap = <<>>
        BY <4>1 DEF Contents
      <4>2. CASE multimap # <<>>
        <5>1. Head(multimap).due \in Nat /\ ~ (Head(multimap).due <= now)
          BY <1>1, <1>2, <2>3, <4>2, HeadIsFirst
        <5>2. \A f \in bag : Head(multimap).due < f.due \/ Head(multimap).due = f.due
          BY <1>1, <1>2, <4>2, HeadIsFirst
        <5>3. \A f \in bag : f.due \in Nat
          BY <1>2, PeqFields DEF Contents
        <5> QED BY <1>1, <5>1, <5>2, <5>3
      <4> QED BY <4>1, <4>2
    <3>4. Polled!Bag!TakeNone
      BY <2>1, <3>1, <3>3 DEF Polled!Bag!TakeNone, Contents
    <3> QED BY <3>2, <3>4 DEF Polled!Bag!Next
  <2> QED BY <2>2, <2>3
<1>8. CASE Polled!cancel_all
  <2>1. multimap' = <<>> /\ UNCHANGED <<now, period, calls, got>>
    BY <1>8 DEF Polled!cancel_all
  <2>2. <<>> \in Seq(PeqEntry(Nat, 0)) /\ InCallOrder(<<>>, calls)
    BY DEF InCallOrder
  <2>3. Polled!Bag!Clear
    BY <2>1 DEF Polled!Bag!Clear
  <2> QED BY <2>1, <2>2, <2>3 DEF PolledInv, Polled!Bag!Next
<1>9. CASE Polled!TimePasses
  <2>1. now < MaxNow /\ now' = now + 1 /\ UNCHANGED <<period, multimap, calls, got>>
    BY <1>9 DEF Polled!TimePasses
  <2>2. now' \in 0 .. MaxNow
    BY <1>0, <1>1, <2>1
  <2>3. Polled!Bag!Pass
    BY <2>1 DEF Polled!Bag!Pass
  <2> QED BY <2>1, <2>2, <2>3 DEF PolledInv, InCallOrder, Polled!Bag!Next
<1>10. CASE UNCHANGED polledVars
  BY <1>10 DEF polledVars, PolledInv, InCallOrder, Polled!Bag!vars
<1> QED BY <1>3, <1>5, <1>6, <1>7, <1>8, <1>9, <1>10 DEF Polled!Next

\* What each call and the passing of time do to the due times counted from now.
LEMMA PolledView ==
  ASSUME PolledInv, [Polled!Next]_polledVars
  PROVE  /\ now' # now => Polled!Relative' = Polled!PeqAge(Polled!Relative)
         /\ calls' # calls =>
              \E t \in {0} \cup {n * period : n \in 0 .. MaxCycles} :
                Polled!Relative' = Polled!PeqDelay(Polled!Relative, calls, t)
         /\ got' # got =>
              IF Polled!PeqReady(Polled!Relative) = <<>>
              THEN got' = <<>> /\ Polled!Relative' = Polled!Relative
              ELSE /\ got' = <<Head(Polled!PeqReady(Polled!Relative))>>
                   /\ Polled!Relative' = Tail(Polled!Relative)
<1>0. /\ MaxCycles \in Nat /\ Periods \subseteq Nat
      /\ calls \in Nat /\ now \in Nat /\ period \in Nat /\ InCallOrder(multimap, calls)
  BY PeqAssumption DEF Polled!Bounds, PolledInv
<1>1. PICK m \in Nat : multimap \in Seq(PeqEntry(Nat, m))
  BY DEF PolledInv
<1>2. /\ Polled!Relative = From(multimap, now)
      /\ Polled!Relative' = From(multimap', now')
  BY SamePolled DEF Polled!Relative, From
<1>3. ASSUME now' # now PROVE Polled!Relative' = Polled!PeqAge(Polled!Relative)
  <2>1. now' = now + 1 /\ multimap' = multimap
    BY <1>3 DEF Polled!Next, polledVars, Polled!set_freq, Polled!delay, Polled!delay_now,
      Polled!Insert, Polled!get_next_transaction, Polled!cancel_all, Polled!TimePasses
  <2>2. From(multimap, now + 1) = PeqAge(From(multimap, now))
    BY <1>0, <1>1, CountedLater
  <2> QED BY <1>2, <2>1, <2>2, SamePolled
<1>4. ASSUME calls' # calls
      PROVE  \E t \in {0} \cup {n * period : n \in 0 .. MaxCycles} :
               Polled!Relative' = Polled!PeqDelay(Polled!Relative, calls, t)
  <2>1. \/ \E c \in 0 .. MaxCycles : Polled!delay(c)
        \/ Polled!delay_now
    BY <1>4 DEF Polled!Next, polledVars, Polled!set_freq,
      Polled!get_next_transaction, Polled!cancel_all, Polled!TimePasses
  <2>2. ASSUME NEW d \in Nat, Polled!Insert(now + d)
        PROVE  Polled!Relative' = Polled!PeqDelay(Polled!Relative, calls, d)
    <3>1. From(multimap, now)' = PeqDelay(From(multimap, now), calls, d)
      BY <2>2, PolledInsert
    <3>2. From(multimap, now)' = Polled!Relative'
      BY <1>2 DEF From
    <3> QED BY <1>2, <3>1, <3>2, SamePolled
  <2>3. ASSUME NEW c \in 0 .. MaxCycles, Polled!delay(c)
        PROVE  \E t \in {0} \cup {n * period : n \in 0 .. MaxCycles} :
                 Polled!Relative' = Polled!PeqDelay(Polled!Relative, calls, t)
    <3>1. c * period \in Nat
      BY <1>0
    <3>2. Polled!Relative' = Polled!PeqDelay(Polled!Relative, calls, c * period)
      BY <2>2, <2>3, <3>1 DEF Polled!delay
    <3> QED BY <3>2
  <2>4. CASE Polled!delay_now
    <3>1. Polled!Insert(now + 0)
      BY <1>0, <2>4 DEF Polled!delay_now
    <3>2. Polled!Relative' = Polled!PeqDelay(Polled!Relative, calls, 0)
      BY <2>2, <3>1
    <3> QED BY <3>2
  <2> QED BY <2>1, <2>3, <2>4
<1>5. ASSUME got' # got
      PROVE  IF Polled!PeqReady(Polled!Relative) = <<>>
             THEN got' = <<>> /\ Polled!Relative' = Polled!Relative
             ELSE /\ got' = <<Head(Polled!PeqReady(Polled!Relative))>>
                  /\ Polled!Relative' = Tail(Polled!Relative)
  <2> DEFINE f == From(multimap, now)
  <2>1. Polled!get_next_transaction
    BY <1>5 DEF Polled!Next, polledVars, Polled!set_freq, Polled!delay, Polled!delay_now,
      Polled!Insert, Polled!cancel_all, Polled!TimePasses
  <2>2. /\ now' = now
        /\ IF multimap # <<>> /\ Head(multimap).due <= now
           THEN got' = <<Head(multimap).val>> /\ multimap' = Tail(multimap)
           ELSE got' = <<>> /\ multimap' = multimap
    BY <2>1 DEF Polled!get_next_transaction
  <2>3. /\ Polled!PeqReady(Polled!Relative) = PeqReady(f)
        /\ Polled!Relative = f /\ Polled!Relative' = From(multimap', now)
    BY <1>2, <2>2, SamePolled
  <2>4. /\ f \in Seq(PeqEntry(Nat, m)) /\ Ordered(f) /\ Len(f) = Len(multimap)
        /\ \A i \in DOMAIN multimap :
             f[i].due = IF multimap[i].due <= now THEN 0 ELSE multimap[i].due - now
    BY <1>0, <1>1, Counted
  <2> HIDE DEF f
  <2>5. PeqReady(f) = <<>> <=> ~ (multimap # <<>> /\ Head(multimap).due <= now)
    <3>1. PeqReady(f) = <<>> <=> (f # <<>> => Head(f).due > 0)
      BY <2>4, PeqReadyHead
    <3>2. f = <<>> <=> multimap = <<>>
      BY <1>1, <2>4
    <3>3. ASSUME multimap # <<>>
          PROVE  Head(f).due > 0 <=> ~ (Head(multimap).due <= now)
      <4>1. /\ 1 \in DOMAIN multimap /\ Head(multimap) = multimap[1]
            /\ Head(f) = f[1]
        BY <1>1, <2>4, <3>2, <3>3
      <4>2. multimap[1].due \in Nat
        BY <1>1, <4>1, PeqFields
      <4>3. f[1].due = IF multimap[1].due <= now THEN 0 ELSE multimap[1].due - now
        BY <2>4, <4>1
      <4> QED BY <1>0, <4>1, <4>2, <4>3
    <3> QED BY <3>1, <3>2, <3>3
  <2>6. CASE multimap # <<>> /\ Head(multimap).due <= now
    <3>1. Head(PeqReady(f)) = Head(multimap).val
      BY <1>0, <1>1, <2>6, CountedHead DEF f
    <3>2. From(Tail(multimap), now) = Tail(f)
      BY <1>0, <1>1, <2>6, CountedTail DEF f
    <3> QED BY <2>2, <2>3, <2>5, <2>6, <3>1, <3>2
  <2>7. CASE ~ (multimap # <<>> /\ Head(multimap).due <= now)
    BY <2>2, <2>3, <2>5, <2>7 DEF f
  <2> QED BY <2>6, <2>7
<1> QED BY <1>3, <1>4, <1>5

-----------------------------------------------------------------------------
(* Programs that declare one of the three                                  *)

\* A program that declares another queue leaves this one as it was made.
LEMMA GetQueue == QueuesSpec => []GetInv
<1>1. QueuesInit => GetInv
  BY GetInit DEF QueuesInit
<1>2. GetInv /\ [QueuesNext]_queueVars => GetInv'
  BY GetStep DEF QueuesNext, WithCb, WithGet, WithPolls, queueVars
<1> QED BY <1>1, <1>2, PTL DEF QueuesSpec

\* The same for the queue that calls back.
LEMMA CbQueue == QuietCallbacks => (QueuesSpec => []CbInv)
<1> SUFFICES ASSUME QuietCallbacks PROVE QueuesSpec => []CbInv
  OBVIOUS
<1>1. QueuesInit => CbInv
  BY CbInit DEF QueuesInit
<1>2. CbInv /\ [QueuesNext]_queueVars => CbInv'
  BY CbStep DEF QueuesNext, WithCb, WithGet, WithPolls, queueVars
<1> QED BY <1>1, <1>2, PTL DEF QueuesSpec

\* One notification at most is what the set of them never exceeds.
LEMMA AtMostOne ==
  ASSUME NEW e, OneNotice(e)
  PROVE  e \subseteq 0 .. MaxDelay /\ Cardinality(e) <= 1
<1>1. CASE e = {}
  BY <1>1, FS_EmptySet
<1>2. ASSUME NEW a \in 0 .. MaxDelay, e = {a}
      PROVE  e \subseteq 0 .. MaxDelay /\ Cardinality(e) <= 1
  BY <1>2, FS_Singleton
<1> QED BY <1>1, <1>2 DEF OneNotice

\* Every variable of both queues keeps its type: in particular an event never
\* holds a second notification.
THEOREM QueuesTyped == QuietCallbacks => (QueuesSpec => [](TypeOK /\ Get!TypeOK))
<1> SUFFICES ASSUME QuietCallbacks PROVE QueuesSpec => [](TypeOK /\ Get!TypeOK)
  OBVIOUS
<1>1. CbInv => TypeOK
  BY AtMostOne DEF CbInv, TypeOK, Queues
<1>2. GetInv => Get!TypeOK
  <2> SUFFICES ASSUME GetInv PROVE Get!TypeOK
    OBVIOUS
  <2>1. m_event \subseteq 0 .. MaxDelay /\ Cardinality(m_event) <= 1
    BY AtMostOne DEF GetInv
  <2>2. Get!Cardinality(m_event) = Cardinality(m_event)
    BY DEF Get!Cardinality, Cardinality, Get!IsFiniteSet, IsFiniteSet
  <2> QED BY <2>1, <2>2, SameOps DEF GetInv, Get!TypeOK, Queues
<1> QED BY <1>1, <1>2, GetQueue, CbQueue, PTL

\* While the reader of a peq_with_get or peq_scc waits and entries are queued,
\* the one notification of its event is pending and no later than the first of
\* them, whatever was notified, cancelled or fired while the reader was away.
THEOREM NothingLost == QueuesSpec => []NoLostWakeup
<1>1. GetInv => NoLostWakeup
  BY DEF GetInv, InTime, NoLostWakeup, Get!NoLostWakeup
<1> QED BY <1>1, GetQueue, PTL

\* Every payload a peq_with_cb_and_phase holds while fec sleeps has a wake-up
\* pending that is in time for it.
THEOREM AllAnnounced == QuietCallbacks => (QueuesSpec => []Announced)
<1> SUFFICES ASSUME QuietCallbacks PROVE QueuesSpec => []Announced
  OBVIOUS
<1>1. CbInv => Announced
  BY DEF CbInv, InTime, Announced
<1> QED BY <1>1, CbQueue, PTL
\* The same for the polled queue.
LEMMA OnlyPolled == [QueuesNext]_queueVars => [Polled!Next]_polledVars
BY DEF QueuesNext, WithCb, WithGet, WithPolls, queueVars

\* It stays in call order.
LEMMA PolledQueue == QueuesSpec => []PolledInv
<1>1. QueuesInit => PolledInv
  <2> SUFFICES ASSUME Polled!Init PROVE PolledInv
    BY DEF QueuesInit
  <2>1. /\ now = 0 /\ period = Period0 /\ multimap = <<>> /\ calls = 0 /\ got = <<>>
    BY DEF Polled!Init
  <2>2. <<>> \in Seq(PeqEntry(Nat, 0)) /\ InCallOrder(<<>>, 0)
    BY DEF InCallOrder
  <2> QED BY <2>1, <2>2, PeqAssumption DEF PolledInv, Polled!Bounds
<1>2. PolledInv /\ [QueuesNext]_queueVars => PolledInv'
  BY OnlyPolled, PolledStep
<1> QED BY <1>1, <1>2, PTL DEF QueuesSpec

\* Whatever is called in whatever order, and however often the frequency is
\* changed, the queue hands out what is due, the earliest first and equals in
\* the order of the calls, and loses and repeats nothing, although it looks at
\* the head of its multimap only.
THEOREM PolledIsBag == QueuesSpec => ImplementsBag
<1>1. QueuesInit => Polled!Bag!Init
  BY DEF QueuesInit, Polled!Init, Polled!Bag!Init
<1>2. PolledInv /\ [QueuesNext]_queueVars => [Polled!Bag!Next]_(Polled!Bag!vars)
  BY OnlyPolled, PolledStep
<1> QED BY <1>1, <1>2, PolledQueue, PTL
      DEF QueuesSpec, ImplementsBag, Polled!ImplementsBag, Polled!Bag!Spec

\* The models of the classes that own a peq may count due times from now,
\* forgetting how long ago an entry fell due: calls and time move that view
\* exactly as PeqDelay, PeqAge and PeqReady say, and a get takes what the view
\* has ready first.
THEOREM ViewIsExact == QueuesSpec => RelativeViewExact
<1>1. PolledInv /\ [QueuesNext]_queueVars =>
        [/\ now' # now => Polled!Relative' = Polled!PeqAge(Polled!Relative)
         /\ calls' # calls =>
              \E t \in {0} \cup {n * period : n \in 0 .. MaxCycles} :
                Polled!Relative' = Polled!PeqDelay(Polled!Relative, calls, t)
         /\ got' # got =>
              IF Polled!PeqReady(Polled!Relative) = <<>>
              THEN got' = <<>> /\ Polled!Relative' = Polled!Relative
              ELSE got' = <<Head(Polled!PeqReady(Polled!Relative))>>
                     /\ Polled!Relative' = Tail(Polled!Relative)]_(Polled!vars)
  BY OnlyPolled, PolledView
<1> QED BY <1>1, PolledQueue, PTL
      DEF QueuesSpec, RelativeViewExact, Polled!RelativeViewExact

\* Its variables keep their types, and the multimap stays in the order of the
\* due times and, among equals, of the calls.
THEOREM PolledSound == QueuesSpec => [](Polled!TypeOK /\ Polled!Ordered)
<1>1. PolledInv => Polled!TypeOK
  <2> SUFFICES ASSUME PolledInv PROVE multimap \in Seq(Polled!Entries)
    BY DEF PolledInv, Polled!TypeOK
  <2>1. PICK m \in Nat : multimap \in Seq(PeqEntry(Nat, m))
    BY DEF PolledInv
  <2>2. PeqEntry(Nat, m) \subseteq Polled!Entries
    BY DEF PeqEntry, Polled!Entries
  <2> QED BY <2>1, <2>2
<1>2. PolledInv => Polled!Ordered
  BY DEF PolledInv, InCallOrder, Polled!Ordered
<1> QED BY <1>1, <1>2, PolledQueue, PTL
=============================================================================
