------------------------------- MODULE CbPeq --------------------------------
(***************************************************************************)
(* peq_with_cb_and_phase: a queue that calls back.  notify puts a payload  *)
(* on one of four lists: for now, for the next delta cycle (two lists, by  *)
(* the parity of the delta count), or for later.  One event wakes fec,     *)
(* which works the lists off in that order, calling m_cb for each payload; *)
(* a callback may call notify again, on the lists fec is walking.          *)
(*                                                                         *)
(* sc_event keeps one notification, the earliest; an immediate one cancels *)
(* it, and does nothing more when fec itself is running: the kernel        *)
(* ignores immediate self-notifications (sc_kernel_ids.h, id 536).         *)
(* Phases and the reuse of list elements are left out.  Payloads are       *)
(* distinct while queued.                                                  *)
(***************************************************************************)
EXTENDS PeqOps, FiniteSetsExt

CONSTANTS Payloads, MaxDelay,  \* bounds
          Callbacks            \* kinds of notify the callbacks of each loop make

Kinds == {"immediate", "delta", "timed"}
Loops == {"immediate", "delta", "timed"}

ASSUME CbPeqAssumption ==
  /\ MaxDelay \in Nat \ {0} /\ IsFiniteSet(Payloads)
  /\ Callbacks \in [Loops -> SUBSET Kinds]

VARIABLES
  m_immediate_yield,
  m_delta,   \* m_even_delta is m_delta[0], m_uneven_delta is m_delta[1]
  m_ppq,
  m_e,       \* the pending notification: {}, {0} (next delta) or {k} (periods)
  parity,    \* the parity of sc_delta_count()
  fec,       \* "idle", "woken", or the loop it is in
  calling,   \* a callback is running
  fresh      \* payloads that can still be notified at this instant

lists == <<m_immediate_yield, m_delta, m_ppq>>
vars == <<lists, m_e, parity, fec, calling, fresh>>

Other == 1 - parity

Init == /\ m_immediate_yield = <<>>
        /\ m_delta = [d \in {0, 1} |-> <<>>]
        /\ m_ppq = <<>>
        /\ m_e = {}
        /\ parity \in {0, 1}
        /\ fec = "idle" /\ calling = FALSE
        /\ fresh = Payloads

\* What sc_event::notify(t) leaves pending: the earlier of the two.
Notified(t) == {Min(m_e \cup {t})}

\* Mutant of notify_delta: the list of the current parity.
NotifyThisDelta(p) ==
  /\ m_delta' = [m_delta EXCEPT ![parity] = Append(@, p)]
  /\ m_e' = Notified(0)
  /\ UNCHANGED <<m_immediate_yield, m_ppq, fec>>

\* notify(t, p, when), when = SC_ZERO_TIME: for the next delta cycle.
notify_delta(p) ==
  /\ m_delta' = [m_delta EXCEPT ![Other] = Append(@, p)]
  /\ m_e' = Notified(0)
  /\ UNCHANGED <<m_immediate_yield, m_ppq, fec>>

\* notify(t, p, when), when > 0.
notify_timed(p, when) ==
  /\ m_ppq' = PeqDelay(m_ppq, p, when)
  /\ m_e' = Notified(when)
  /\ UNCHANGED <<m_immediate_yield, m_delta, fec>>

\* notify(t, p).
notify_immediate(p) ==
  /\ m_immediate_yield' = Append(m_immediate_yield, p)
  /\ m_e' = {}
  /\ fec' = IF fec = "idle" THEN "woken" ELSE fec
  /\ UNCHANGED <<m_delta, m_ppq>>

cancel_all ==
  /\ m_immediate_yield' = <<>> /\ m_ppq' = <<>>
  /\ m_delta' = [d \in {0, 1} |-> <<>>]
  /\ m_e' = {}
  /\ UNCHANGED fec

notify(kinds) ==
  \E p \in fresh :
    /\ fresh' = fresh \ {p}
    /\ \/ "immediate" \in kinds /\ notify_immediate(p)
       \/ "delta" \in kinds /\ notify_delta(p)
       \/ "timed" \in kinds /\ \E when \in 1 .. MaxDelay : notify_timed(p, when)

\* Other processes use the queue while fec is not running.
Outside == /\ fec \in {"idle", "woken"}
           /\ \/ notify(Kinds)
              \/ cancel_all /\ UNCHANGED fresh
           /\ UNCHANGED <<parity, calling>>

\* A callback notifies, any number of times, and returns.
CallbackNotifies == /\ calling /\ notify(Callbacks[fec])
                    /\ UNCHANGED <<parity, calling>>

CallbackReturns == /\ calling /\ calling' = FALSE
                   /\ UNCHANGED <<lists, m_e, parity, fec, fresh>>

\* One list is worked off: call for the next payload, or go on.  The lists for
\* now and for a delta give their payload before the call.
Loop(now, list, rest, after) ==
  /\ fec = now /\ ~calling
  /\ \/ /\ list # <<>>
        /\ rest /\ calling' = TRUE
        /\ UNCHANGED <<m_e, fec>>
     \/ /\ list = <<>>
        /\ after /\ UNCHANGED <<lists, calling>>
  /\ UNCHANGED <<parity, fresh>>

fec_starts == /\ fec = "woken" /\ fec' = "immediate"
              /\ UNCHANGED <<lists, m_e, parity, calling, fresh>>

fec_immediate ==
  Loop("immediate", m_immediate_yield,
       m_immediate_yield' = Tail(m_immediate_yield) /\ UNCHANGED <<m_delta, m_ppq>>,
       fec' = "delta" /\ UNCHANGED m_e)

\* The list of the other parity needs another delta cycle.
AfterDelta == /\ m_e' = IF m_delta[Other] # <<>> THEN Notified(0) ELSE m_e
              /\ fec' = IF m_ppq = <<>> THEN "idle" ELSE "timed"

fec_delta ==
  Loop("delta", m_delta[parity],
       /\ m_delta' = [m_delta EXCEPT ![parity] = Tail(@)]
       /\ UNCHANGED <<m_immediate_yield, m_ppq>>,
       AfterDelta)

\* Entries of now come first in m_ppq; a callback adds behind them, so the top
\* deleted after the call is the payload called for.
TimedDue == PeqReady(m_ppq)

\* Mutant of AfterTimed: the next entry is not announced.
AfterTimedNothing == fec' = "idle" /\ UNCHANGED m_e

AfterTimed == /\ fec' = "idle"
              /\ m_e' = IF m_ppq = <<>> THEN m_e ELSE Notified(Head(m_ppq).due)

fec_timed ==
  Loop("timed", TimedDue,
       m_ppq' = Tail(m_ppq) /\ UNCHANGED <<m_immediate_yield, m_delta>>,
       AfterTimed)

\* The kernel: when no process is left to run, a delta cycle ends.  What the
\* event announces for the next one wakes fec; else time goes on, and the
\* delta count of the next instant is whatever the rest of the system makes it.
DeltaCycle == /\ fec = "idle"
              /\ parity' = Other
              /\ IF m_e = {0} THEN m_e' = {} /\ fec' = "woken"
                              ELSE UNCHANGED <<m_e, fec>>
              /\ UNCHANGED <<lists, calling, fresh>>

Queued(p) == \/ \E i \in DOMAIN m_immediate_yield : m_immediate_yield[i] = p
             \/ \E d \in {0, 1} : \E i \in DOMAIN m_delta[d] : m_delta[d][i] = p
             \/ \E i \in DOMAIN m_ppq : m_ppq[i].val = p

TimePasses ==
  /\ fec = "idle" /\ m_e # {0}
  /\ m_e' = IF m_e = {1} THEN {} ELSE {t - 1 : t \in m_e}
  /\ fec' = IF m_e = {1} THEN "woken" ELSE "idle"
  /\ parity' \in {0, 1}
  /\ m_ppq' = PeqAge(m_ppq)
  /\ fresh' = {p \in Payloads : ~Queued(p)}
  /\ UNCHANGED <<m_immediate_yield, m_delta, calling>>

fec_runs == fec_starts \/ fec_immediate \/ fec_delta \/ fec_timed

Next == Outside \/ CallbackNotifies \/ CallbackReturns \/ fec_runs \/ DeltaCycle \/ TimePasses

-----------------------------------------------------------------------------
TypeOK == /\ m_immediate_yield \in Seq(Payloads)
          /\ m_delta \in [{0, 1} -> Seq(Payloads)]
          /\ m_ppq \in Seq(PeqEntry(Payloads, MaxDelay))
          /\ m_e \subseteq 0 .. MaxDelay /\ Cardinality(m_e) <= 1
          /\ parity \in {0, 1} /\ calling \in BOOLEAN /\ fresh \subseteq Payloads
          /\ fec \in Loops \cup {"idle", "woken"}

\* Every payload in the queue has a notification pending that is in time for
\* it: whenever fec is idle nothing is left for now or for this delta cycle,
\* the next delta cycle is announced if something waits for it, and otherwise
\* the first of the timed entries is (peq_with_cb_and_phase.h:146-147, "An
\* event queue that can contain any number of pending notifications").
Announced ==
  fec = "idle" =>
    /\ m_immediate_yield = <<>> /\ m_delta[parity] = <<>>
    /\ m_delta[Other] # <<>> => m_e = {0}
    /\ m_ppq # <<>> => Head(m_ppq).due > 0 /\ \E t \in m_e : t <= Head(m_ppq).due

\* Every payload notified is called back or cancelled (254-286).
EveryPayloadLeaves == \A p \in Payloads : Queued(p) ~> ~Queued(p)
=============================================================================
