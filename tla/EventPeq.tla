------------------------------ MODULE EventPeq ------------------------------
(***************************************************************************)
(* The event-driven queues of src/peq: peq_with_get.h and peq_scc.h.  Any  *)
(* number of entries wait for their time, and one sc_event wakes the       *)
(* reader.  The event holds at most one notification, so the reader must   *)
(* ask until there is no more, which arms the event for the next entry.    *)
(*                                                                         *)
(* A reader may spend time on an entry before it asks again; what fires in *)
(* the meantime does not wake it.  Times are counted from now in periods,  *)
(* as in PeqOps.  Payloads are distinct while queued.                      *)
(***************************************************************************)
EXTENDS PeqOps, FiniteSetsExt

CONSTANTS Payloads, MaxDelay  \* bounds

VARIABLES
  m_scheduled_events,
  m_event,  \* the pending notification: {}, {0} (next delta), {k} (in k periods)
  reader,   \* "waiting" for the event, "woken" by it, "busy" with an entry
  unused    \* payloads that can still be notified at this instant

getVars == <<m_scheduled_events, m_event, reader, unused>>

Init == /\ m_scheduled_events = <<>>
        /\ m_event = {}
        /\ reader = "waiting"
        /\ unused = Payloads

\* Mutant of Notified: the new notification replaces the pending one.
NotifiedLast(event, t) == {t}

\* What sc_event::notify(t) leaves pending: the earlier of the two.
Notified(event, t) == {Min(event \cup {t})}

\* insert_entry and multimap::insert put an entry behind those of its time.
insert_entry(p, t) == /\ p \in unused /\ unused' = unused \ {p}
                      /\ m_scheduled_events' = PeqDelay(m_scheduled_events, p, t)

notify(p, t) == /\ insert_entry(p, t)
                /\ m_event' = Notified(m_event, t)
                /\ UNCHANGED reader

\* notify(trans): an immediate notification cancels the pending one and makes
\* a waiting reader runnable.
notify_immediate(p) ==
  /\ insert_entry(p, 0)
  /\ m_event' = {}
  /\ reader' = IF reader = "waiting" THEN "woken" ELSE reader

has_next == m_scheduled_events # <<>> /\ Head(m_scheduled_events).due = 0

\* Mutant of Rearmed: nothing is armed.
NotRearmed == m_event

\* What a get that finds nothing due leaves pending.
Rearmed == IF m_scheduled_events = <<>> THEN m_event
           ELSE Notified(m_event, Head(m_scheduled_events).due)

\* get_next_transaction() by the reader, which goes back to waiting when told
\* that there is no more.
get_next_transaction ==
  /\ reader # "waiting"
  /\ IF has_next
     THEN /\ m_scheduled_events' = Tail(m_scheduled_events)
          /\ reader' = "busy"
          /\ UNCHANGED m_event
     ELSE /\ m_event' = Rearmed
          /\ reader' = "waiting"
          /\ UNCHANGED m_scheduled_events
  /\ UNCHANGED unused

cancel_all == /\ m_scheduled_events' = <<>>
              /\ m_event' = {}
              /\ UNCHANGED <<reader, unused>>

\* The kernel: the event fires.
Fire == /\ m_event = {0}
        /\ m_event' = {}
        /\ reader' = IF reader = "waiting" THEN "woken" ELSE reader
        /\ UNCHANGED <<m_scheduled_events, unused>>

\* The kernel: time goes on when nothing is left to do at this instant; a busy
\* reader is one that waits for time to pass.
TimePasses == /\ m_event # {0} /\ reader # "woken"
              /\ m_event' = {t - 1 : t \in m_event}
              /\ m_scheduled_events' = PeqAge(m_scheduled_events)
              /\ unused' = Payloads \ {m_scheduled_events[i].val : i \in DOMAIN m_scheduled_events}
              /\ UNCHANGED reader

Next == \/ \E p \in Payloads : \/ notify_immediate(p)
                               \/ \E t \in 0 .. MaxDelay : notify(p, t)
        \/ get_next_transaction \/ cancel_all
        \/ Fire \/ TimePasses

-----------------------------------------------------------------------------
TypeOK == /\ m_scheduled_events \in Seq(PeqEntry(Payloads, MaxDelay))
          /\ m_event \subseteq 0 .. MaxDelay /\ Cardinality(m_event) <= 1
          /\ reader \in {"waiting", "woken", "busy"}
          /\ unused \subseteq Payloads

\* No wake-up is lost: while the reader waits and entries are queued, the one
\* notification of m_event is pending and no later than the first of them,
\* whatever was notified, cancelled or fired while the reader was away
\* (peq_with_get.h:45-74).
NoLostWakeup ==
  reader = "waiting" /\ m_scheduled_events # <<>>
    => \E t \in m_event : t <= Head(m_scheduled_events).due

\* Every entry is taken by the reader or cancelled.
Queued(p) == \E i \in DOMAIN m_scheduled_events : m_scheduled_events[i].val = p
EveryEntryLeaves == \A p \in Payloads : Queued(p) ~> ~Queued(p)
=============================================================================
