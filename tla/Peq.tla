-------------------------------- MODULE Peq ---------------------------------
(***************************************************************************)
(* little_end::peq (srv_cpu/peq/peq.h, and its copies under peq/,          *)
(* peq_with_get/ and tlm_extension/) on its own, under every sequence of   *)
(* calls, with absolute times as in the source: m_scheduled_events is the  *)
(* multimap in iteration order, entries [due, val].  A payload is the      *)
(* number of the delay call that made it.  Time is counted in the smallest *)
(* clock period among Periods.                                             *)
(***************************************************************************)
EXTENDS Naturals, Sequences, PeqOps

CONSTANTS Periods,   \* clock periods set_freq selects: 1000 / m_freq ns
          Period0,   \* the period of the default frequency
          MaxCycles, \* bound: delays in cycles
          MaxCalls,  \* bound: delay calls
          MaxNow     \* bound: simulation time

Bounds ==
  /\ Periods \subseteq Nat \ {0} /\ Period0 \in Periods
  /\ MaxCycles \in Nat /\ MaxCalls \in Nat /\ MaxNow \in Nat

VARIABLES now,                \* sc_time_stamp()
          period,             \* 1000 / m_freq
          m_scheduled_events, \* the multimap, in iteration order
          calls,              \* delay calls so far
          got                 \* what get_next_transaction last returned

vars == <<now, period, m_scheduled_events, calls, got>>

Init == /\ now = 0
        /\ period = Period0
        /\ m_scheduled_events = <<>>
        /\ calls = 0
        /\ got = <<>>

set_freq(p) == period' = p /\ UNCHANGED <<now, m_scheduled_events, calls, got>>

\* Both delay calls insert at the upper bound of their due time.
Insert(due) == /\ calls < MaxCalls
               /\ m_scheduled_events' = PeqDelay(m_scheduled_events, calls, due)
               /\ calls' = calls + 1
               /\ UNCHANGED <<now, period, got>>
\* Mutant of delay: the due time is not counted from now.
DelayAbsolute(t) == Insert(t * period)
delay(t) == Insert(now + t * period)
delay_now == Insert(now)

\* Mutant of get_next_transaction: < for <=.
GetStrict ==
  /\ IF m_scheduled_events # <<>> /\ Head(m_scheduled_events).due < now
     THEN /\ got' = <<Head(m_scheduled_events).val>>
          /\ m_scheduled_events' = Tail(m_scheduled_events)
     ELSE got' = <<>> /\ UNCHANGED m_scheduled_events
  /\ UNCHANGED <<now, period, calls>>

get_next_transaction ==
  /\ IF m_scheduled_events # <<>> /\ Head(m_scheduled_events).due <= now
     THEN /\ got' = <<Head(m_scheduled_events).val>>
          /\ m_scheduled_events' = Tail(m_scheduled_events)
     ELSE got' = <<>> /\ UNCHANGED m_scheduled_events
  /\ UNCHANGED <<now, period, calls>>

cancel_all == m_scheduled_events' = <<>> /\ UNCHANGED <<now, period, calls, got>>

TimePasses == /\ now < MaxNow
              /\ now' = now + 1
              /\ UNCHANGED <<period, m_scheduled_events, calls, got>>

Next == \/ \E p \in Periods : set_freq(p)
        \/ \E t \in 0 .. MaxCycles : delay(t)
        \/ delay_now
        \/ get_next_transaction
        \/ cancel_all
        \/ TimePasses

Spec == Init /\ [][Next]_vars

-----------------------------------------------------------------------------
Entries == [due : Nat, val : Nat]
TypeOK == /\ now \in 0 .. MaxNow
          /\ period \in Periods
          /\ m_scheduled_events \in Seq(Entries)
          /\ calls \in 0 .. MaxCalls
          /\ got \in Seq(Nat)

\* The queue is ordered by due time and, among equals, by order of call, also
\* after set_freq changed the period between two calls (peq.h:27-36): a later
\* call with a shorter period overtakes, one with the same due time does not.
Ordered ==
  \A i, j \in DOMAIN m_scheduled_events :
    LET e == m_scheduled_events[i]
        f == m_scheduled_events[j]
    IN  i < j => e.due < f.due \/ (e.due = f.due /\ e.val < f.val)

Bag == INSTANCE TimedBag
         WITH bag <- {m_scheduled_events[i] : i \in DOMAIN m_scheduled_events}

\* peq.h looks at the head of its multimap only, and that is enough: nothing
\* comes out early, a due payload is never hidden behind one that is not, and
\* none is lost, repeated or overtaken by an equal (peq.h:44-59).
ImplementsBag == Bag!Spec

\* The queue as users on a clock see it, due times counted from now.
Relative ==
  [i \in DOMAIN m_scheduled_events |->
     [due |-> IF m_scheduled_events[i].due <= now THEN 0
              ELSE m_scheduled_events[i].due - now,
      val |-> m_scheduled_events[i].val]]

\* The relative view moves with calls and time exactly as PeqDelay, PeqAge and
\* PeqReady say, although it forgets how long ago an entry fell due: a get takes
\* the first entry ready, and comes back empty after a payload only when none
\* is.  The models of the classes that own a peq may use it in place of absolute
\* times.
RelativeViewExact ==
  [][/\ now' # now => Relative' = PeqAge(Relative)
     /\ calls' # calls =>
          \E t \in {0} \cup {n * period : n \in 0 .. MaxCycles} :
            Relative' = PeqDelay(Relative, calls, t)
     /\ got' # got =>
          IF PeqReady(Relative) = <<>>
          THEN got' = <<>> /\ Relative' = Relative
          ELSE got' = <<Head(PeqReady(Relative))>> /\ Relative' = Tail(Relative)]_vars
=============================================================================
