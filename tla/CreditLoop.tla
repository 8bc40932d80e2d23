----------------------------- MODULE CreditLoop -----------------------------
(***************************************************************************)
(* The credit loop of srv_cpu: class src (src.cpp) and class tgt (tgt.cpp) *)
(* joined by class top (top.h).                                            *)
(*                                                                         *)
(* Both are SC_METHODs on the rising edge of one 1 ns clock.  On an edge   *)
(* the kernel runs each of them once, in an order it does not promise, and *)
(* each runs to completion: a transport call made by one executes the      *)
(* other's nb_transport_fw inside the caller's step.  `pending' holds the  *)
(* processes the current edge has still to run; when it is empty, time may *)
(* advance to the next edge.                                               *)
(*                                                                         *)
(* The payload a = 10 + m_val is kept as m_val, counted modulo ValMod; of  *)
(* tgt's m_cycle_cnt only its remainder modulo m_crdt_sch_cycle is read.   *)
(***************************************************************************)
EXTENDS Integers, Sequences, PeqOps

CONSTANTS InitCredit, \* top.h: s->m_credit = 3
          Delay,      \* tgt.cpp: both delays are 6 cycles
          SchCycle,   \* tgt.cpp: m_crdt_sch_cycle = 2
          ValMod      \* bound: distinct payloads told apart

ASSUME ConstantsAssumption ==
  /\ InitCredit \in Nat
  /\ Delay \in Nat \ {0}
  /\ SchCycle \in Nat \ {0}
  /\ ValMod \in Nat \ {0}

VARIABLES
  m_val, m_credit,          \* src
  m_cycle,                  \* tgt: m_cycle_cnt % m_crdt_sch_cycle
  m_rcv_dat,                \* tgt: data received, not yet delayed
  m_peq, m_peq_ctl,         \* tgt: delayed data, delayed credits
  m_peq_que, m_snd_ctl,     \* tgt: data and credits ready to go back
  m_snd_msg_que,            \* tgt: data on its way out
  m_peq_ctl_stat,           \* tgt: number of requests not yet credited
  rcvd,                     \* what src last logged as received, if anything
  pending                   \* processes still to run on this edge

srcVars == <<m_val, m_credit>>
queVars == <<m_peq_que, m_snd_ctl, m_snd_msg_que>>
vars == <<srcVars, m_cycle, m_rcv_dat, m_peq, m_peq_ctl, queVars,
          m_peq_ctl_stat, rcvd, pending>>

Vals == 0 .. ValMod - 1
NextVal(v) == (v + 1) % ValMod
Procs == {"src", "tgt"}

Init == /\ m_val = 0
        /\ m_credit = InitCredit
        /\ m_cycle = 0
        /\ m_rcv_dat = <<>>
        /\ m_peq = <<>> /\ m_peq_ctl = <<>>
        /\ m_peq_que = <<>> /\ m_snd_ctl = <<>> /\ m_snd_msg_que = <<>>
        /\ m_peq_ctl_stat = 0
        /\ rcvd = <<>>
        /\ pending = Procs

-----------------------------------------------------------------------------
\* tgt::nb_transport_fw queues the data and marks one credit as owed.
TgtReceives(v) == /\ m_rcv_dat' = Append(m_rcv_dat, v)
                  /\ m_peq_ctl_stat' = m_peq_ctl_stat + 1

\* src::nb_transport_fw, for the two message types; it always answers
\* TLM_COMPLETED.
SrcCredited(n) == m_credit' = m_credit + n
SrcReceives(v) == rcvd' = <<v>>

\* Mutant of SrcEntry: one send more than there are credits.
SrcOverrun ==
  /\ "src" \in pending
  /\ pending' = pending \ {"src"}
  /\ IF m_credit >= 0
     THEN /\ TgtReceives(m_val)
          /\ m_credit' = m_credit - 1
          /\ m_val' = NextVal(m_val)
     ELSE UNCHANGED <<m_rcv_dat, m_peq_ctl_stat, srcVars>>
  /\ UNCHANGED <<m_cycle, m_peq, m_peq_ctl, queVars, rcvd>>

\* src::mth_entry; sending runs tgt::nb_transport_fw in the same step.
SrcEntry ==
  /\ "src" \in pending
  /\ pending' = pending \ {"src"}
  /\ IF m_credit > 0
     THEN /\ TgtReceives(m_val)
          /\ m_credit' = m_credit - 1
          /\ m_val' = NextVal(m_val)
     ELSE UNCHANGED <<m_rcv_dat, m_peq_ctl_stat, srcVars>>
  /\ UNCHANGED <<m_cycle, m_peq, m_peq_ctl, queVars, rcvd>>

\* Mutants of mth_dat_proc: one of the two delays a cycle short, no pop.
DatShort == IF m_rcv_dat = <<>> THEN m_peq
            ELSE PeqDelay(m_peq, Head(m_rcv_dat), Delay - 1)
CtlShort == IF m_rcv_dat = <<>> THEN m_peq_ctl
            ELSE PeqDelay(m_peq_ctl, 1, Delay - 1)
DatNotPopped == m_rcv_dat' = m_rcv_dat

\* tgt::mth_dat_proc: at most one request per cycle starts its delay, and one
\* credit with it.
DatDelayed == IF m_rcv_dat = <<>> THEN m_peq
              ELSE PeqDelay(m_peq, Head(m_rcv_dat), Delay)
CtlDelayed == IF m_rcv_dat = <<>> THEN m_peq_ctl
              ELSE PeqDelay(m_peq_ctl, 1, Delay)
mth_dat_proc == m_rcv_dat' = IF m_rcv_dat = <<>> THEN <<>> ELSE Tail(m_rcv_dat)

\* Mutant of mth_get_peq: newly due data put in front.
DatJumps == PeqReady(DatDelayed) \o m_peq_que

\* tgt::mth_get_peq: everything due moves to the ready queues.
DatReady == m_peq_que \o PeqReady(DatDelayed)
CtlReady == m_snd_ctl \o PeqReady(CtlDelayed)
mth_get_peq == /\ m_peq' = PeqLater(DatDelayed)
               /\ m_peq_ctl' = PeqLater(CtlDelayed)

\* Mutants of SndCredit: the credit sent is not popped; it is popped and not
\* sent.
CreditMinted ==
  IF CtlReady = <<>>
  THEN m_snd_ctl' = <<>> /\ UNCHANGED <<m_peq_ctl_stat, m_credit>>
  ELSE /\ SrcCredited(Head(CtlReady))
       /\ m_snd_ctl' = CtlReady
       /\ m_peq_ctl_stat' = m_peq_ctl_stat - 1
CreditDropped ==
  IF CtlReady = <<>>
  THEN m_snd_ctl' = <<>> /\ UNCHANGED <<m_peq_ctl_stat, m_credit>>
  ELSE /\ m_snd_ctl' = Tail(CtlReady)
       /\ m_peq_ctl_stat' = m_peq_ctl_stat - 1
       /\ UNCHANGED m_credit

\* tgt::mth_snd_msg, its two halves: one credit, one echo.
SndCredit ==
  IF CtlReady = <<>>
  THEN m_snd_ctl' = <<>> /\ UNCHANGED <<m_peq_ctl_stat, m_credit>>
  ELSE /\ SrcCredited(Head(CtlReady))
       /\ m_snd_ctl' = Tail(CtlReady)
       /\ m_peq_ctl_stat' = m_peq_ctl_stat - 1
SndData ==
  LET out == IF DatReady = <<>> THEN m_snd_msg_que
             ELSE Append(m_snd_msg_que, Head(DatReady))
  IN  /\ m_peq_que' = IF DatReady = <<>> THEN <<>> ELSE Tail(DatReady)
      /\ IF out = <<>>
         THEN UNCHANGED <<m_snd_msg_que, rcvd>>
         ELSE SrcReceives(Head(out)) /\ m_snd_msg_que' = Tail(out)
mth_snd_msg ==
  IF m_cycle' # 0
  THEN /\ m_peq_que' = DatReady
       /\ m_snd_ctl' = CtlReady
       /\ UNCHANGED <<m_snd_msg_que, m_peq_ctl_stat, m_credit, rcvd>>
  ELSE SndCredit /\ SndData

TgtEntry ==
  /\ "tgt" \in pending
  /\ pending' = pending \ {"tgt"}
  /\ m_cycle' = (m_cycle + 1) % SchCycle
  /\ mth_dat_proc
  /\ mth_get_peq
  /\ mth_snd_msg
  /\ UNCHANGED m_val

\* The next rising edge: one period passes and both processes run again.
ClockEdge ==
  /\ pending = {}
  /\ pending' = Procs
  /\ m_peq' = PeqAge(m_peq)
  /\ m_peq_ctl' = PeqAge(m_peq_ctl)
  /\ UNCHANGED <<srcVars, m_cycle, m_rcv_dat, queVars, m_peq_ctl_stat, rcvd>>

Next == SrcEntry \/ TgtEntry \/ ClockEdge

\* The kernel runs every process made runnable by an edge, and sc_start keeps
\* the clock going.
Fairness == WF_vars(SrcEntry) /\ WF_vars(TgtEntry) /\ WF_vars(ClockEdge)

Spec == Init /\ [][Next]_vars /\ Fairness

-----------------------------------------------------------------------------
TypeOK ==
  /\ m_val \in Vals
  /\ m_credit \in Int
  /\ m_cycle \in 0 .. SchCycle - 1
  /\ m_rcv_dat \in Seq(Vals)
  /\ m_peq \in Seq(PeqEntry(Vals, Delay))
  /\ m_peq_ctl \in Seq(PeqEntry({1}, Delay))
  /\ m_peq_que \in Seq(Vals)
  /\ m_snd_ctl \in Seq({1})
  /\ m_snd_msg_que \in Seq(Vals)
  /\ m_peq_ctl_stat \in Int
  /\ rcvd \in Seq(Vals)
  /\ pending \subseteq Procs

\* Credits are conserved: those src holds and those travelling back through
\* tgt (behind a request, in the delay queue, or waiting to be sent) always
\* add up to what top gave src.  Losing one would slow the loop for ever,
\* minting one would let src overrun tgt (src.cpp:41-45, tgt.cpp:15-65).
CreditConservation ==
  m_credit + Len(m_rcv_dat) + Len(m_peq_ctl) + Len(m_snd_ctl) = InitCredit

\* src never holds a negative or an excess credit, and m_peq_ctl_stat, from
\* which tgt pops without looking (tgt.cpp:63), holds one mark for each credit
\* not yet returned: it is never popped when empty.
StatMatchesDebt ==
  /\ m_credit \in 0 .. InitCredit
  /\ m_peq_ctl_stat = InitCredit - m_credit

\* The data path and the credit path, two queues of each kind filled by the
\* same call but drained by code that never looks at the other, stay in step:
\* entry by entry they hold the same due times (tgt.cpp:19-23, 31-40, 48-71).
PathsInStep ==
  /\ Len(m_peq) = Len(m_peq_ctl)
  /\ \A i \in DOMAIN m_peq : m_peq[i].due = m_peq_ctl[i].due
  /\ Len(m_peq_que) = Len(m_snd_ctl)
  /\ m_snd_msg_que = <<>>

\* tgt starts one request per cycle and src sends at most one per edge, so
\* even when the kernel swaps the order of the two from edge to edge no more
\* than two requests wait undelayed, and one once tgt has run.
ReceiveBacklog ==
  /\ Len(m_rcv_dat) <= 2
  /\ "tgt" \notin pending /\ "src" \in pending => Len(m_rcv_dat) <= 1

-----------------------------------------------------------------------------
\* The values on their way from src's send to src's receive, oldest first.
InFlight == m_snd_msg_que \o m_peq_que \o PeqVals(m_peq) \o m_rcv_dat

Channel == INSTANCE CreditWindow
             WITH Window <- InitCredit, credit <- m_credit, next <- m_val,
                  chan <- InFlight

\* The pair implements a window-controlled loop-back channel: values come back
\* in the order sent, none lost or repeated, each with exactly one credit in
\* the same step, whatever order the kernel runs the two processes in.
ImplementsChannel == Channel!SafeSpec

\* src keeps sending and every value sent is echoed: the loop never stalls
\* with credits stuck inside tgt.
ChannelLive == Channel!Spec
=============================================================================
