----------------------------- MODULE EventQueues ----------------------------
(***************************************************************************)
(* The payload event queues of src/peq, checked one at a time: the polled  *)
(* one and the two that are driven by events.  `used' says which a program *)
(* declares, and the variables of the others keep their initial values.    *)
(***************************************************************************)
EXTENDS CbPeq

CONSTANTS Periods, Period0, MaxCycles, MaxCalls, MaxNow  \* of the polled queue

VARIABLES used,
          m_scheduled_events, m_event, reader, unused,  \* of peq_with_get
          multimap, now, period, calls, got             \* of the polled queue

Get == INSTANCE EventPeq
Polled == INSTANCE Peq WITH m_scheduled_events <- multimap

ASSUME PeqAssumption == Polled!Bounds

getVars == <<m_scheduled_events, m_event, reader, unused>>
polledVars == <<multimap, now, period, calls, got>>
queueVars == <<used, vars, getVars, polledVars>>

QueuesInit == /\ used \in {"with_cb", "with_get", "polled"}
              /\ Init /\ Get!Init /\ Polled!Init

\* An action of one of the queues.
WithCb(action) == used = "with_cb" /\ action /\ UNCHANGED <<used, getVars, polledVars>>
WithGet(action) == used = "with_get" /\ action /\ UNCHANGED <<used, vars, polledVars>>
WithPolls(action) == used = "polled" /\ action /\ UNCHANGED <<used, vars, getVars>>

QueuesNext == WithCb(Next) \/ WithGet(Get!Next) \/ WithPolls(Polled!Next)

\* The kernel runs fec, or the reader, when it has woken it and leaves no
\* notification and no time behind; callbacks return, and a reader asks again.
QueuesSpec ==
  /\ QueuesInit /\ [][QueuesNext]_queueVars
  /\ WF_queueVars(WithCb(fec_runs)) /\ WF_queueVars(WithCb(CallbackReturns))
  /\ WF_queueVars(WithCb(DeltaCycle)) /\ WF_queueVars(WithCb(TimePasses))
  /\ WF_queueVars(WithGet(Get!get_next_transaction))
  /\ WF_queueVars(WithGet(Get!Fire)) /\ WF_queueVars(WithGet(Get!TimePasses))

\* Callbacks that notify immediately only where fec picks it up: an immediate
\* notification from a later loop goes to a list fec has left behind, cancels
\* what is pending and, made by fec itself, wakes nobody.
Careful == [loop \in Loops |->
              IF loop = "immediate" THEN Kinds ELSE {"delta", "timed"}]

-----------------------------------------------------------------------------
\* No wake-up is lost: while the reader of a peq_with_get waits and entries are
\* queued, the one notification its event holds is pending and no later than the
\* first of them, whatever was notified, cancelled or fired while the reader was
\* away (peq_with_get.h:45-74).
NoLostWakeup == Get!NoLostWakeup

\* Every entry is taken by the reader or cancelled (peq_with_get.h:57-85).
EveryEntryLeaves == Get!EveryEntryLeaves

\* The polled queue hands out what is due, the earliest first and equals in the
\* order of the calls; it loses and repeats nothing (peq.h:27-59).
ImplementsBag == Polled!ImplementsBag

\* Due times counted from now move with calls and time as PeqDelay and PeqAge
\* say: the models of the classes that own a peq may use them (peq.h:27-59).
RelativeViewExact == Polled!RelativeViewExact
=============================================================================
