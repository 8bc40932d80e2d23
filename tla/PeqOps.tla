------------------------------- MODULE PeqOps -------------------------------
(***************************************************************************)
(* The contents of a little_end::peq (srv_cpu/peq/peq.h) as a value.       *)
(*                                                                         *)
(* m_scheduled_events is a multimap from due time to payload.  It is kept  *)
(* here as the sequence a walk over the multimap visits: entries in order  *)
(* of due time, equal due times in order of insertion.  A due time is held *)
(* relative to sc_time_stamp(), in clock periods: 0 means "due now or      *)
(* earlier", and PeqAge is what the passing of one period does to it.      *)
(***************************************************************************)
EXTENDS Naturals, Sequences, FiniteSets

\* The entries a peq over payloads V can hold, at most maxDue periods ahead.
PeqEntry(V, maxDue) == [due : 0 .. maxDue, val : V]

\* How many entries are due within d periods; on an ordered queue they are
\* its first ones.
PeqWithin(q, d) == Cardinality({i \in DOMAIN q : q[i].due <= d})

\* Mutant of PeqDelay: a period too many.
PeqDelayLate(q, v, t) ==
  LET k == PeqWithin(q, t + 1)
  IN  SubSeq(q, 1, k) \o <<[due |-> t + 1, val |-> v]>> \o SubSeq(q, k + 1, Len(q))

\* delay(trans, t): multimap::insert puts the pair after its equals.
PeqDelay(q, v, t) ==
  LET k == PeqWithin(q, t)
  IN  SubSeq(q, 1, k) \o <<[due |-> t, val |-> v]>> \o SubSeq(q, k + 1, Len(q))

\* get_next_transaction(), repeated until it returns nullptr: what the calls
\* return, in order, and what they leave behind.
PeqReady(q) == [i \in 1 .. PeqWithin(q, 0) |-> q[i].val]
PeqLater(q) == SubSeq(q, PeqWithin(q, 0) + 1, Len(q))

\* One period of simulation time passes.
PeqAge(q) ==
  [i \in DOMAIN q |-> [due |-> IF q[i].due = 0 THEN 0 ELSE q[i].due - 1,
                       val |-> q[i].val]]

\* The payloads waiting in the queue, next to come out first.
PeqVals(q) == [i \in DOMAIN q |-> q[i].val]
=============================================================================
