------------------------------- MODULE RrSpin -------------------------------
(***************************************************************************)
(* round_robin/main.cpp as it is built: TestPlatform with the threads      *)
(* PushPeq and RRArbitration, for sc_start(30, SC_NS).  The kernel gives   *)
(* control to one ready thread and gets it back when that thread waits or  *)
(* ends; time passes when no thread is ready.  The search of RRArbitration *)
(* is rr_sch of srv_cpu once more, with its input never empty.             *)
(***************************************************************************)
EXTENDS Integers

CONSTANTS N,      \* kInputPortNum
          MaxLen, \* the longest of the queues PushPeq fills
          Stop    \* sc_start(30, SC_NS), in periods of 1 ns

VARIABLES m_input,          \* m_input[0..3]: payloads waiting
          t_last_grant_id, t_gnt_id,
          now,
          push,             \* PushPeq: "ready" or "ended"
          arb               \* RRArbitration: "ready", "looks", "arb", "continue" or "waits"

spinVars == <<m_input, t_last_grant_id, t_gnt_id, now, push, arb>>

Sch == INSTANCE RrSch WITH m_arb_num <- N, m_last_grant_id <- t_last_grant_id,
                           sch_ret <- t_gnt_id

SpinInit == Sch!Init /\ now = 0 /\ push = "ready" /\ arb = "ready"

KernelHasControl == arb \in {"ready", "waits"}

\* Two payloads for input 2 and one for each other.
PushPeq == /\ push = "ready" /\ KernelHasControl
           /\ m_input' = [i \in Sch!Inputs |-> IF i = 2 THEN 2 ELSE 1]
           /\ push' = "ended"
           /\ UNCHANGED <<t_last_grant_id, t_gnt_id, now, arb>>

Resume == /\ arb = "ready" /\ arb' = "looks"
          /\ UNCHANGED <<m_input, t_last_grant_id, t_gnt_id, now, push>>

\* The head of the loop: t_have_input, or continue without a wait.
Look == /\ arb = "looks"
        /\ arb' = IF Sch!Waiting # {} THEN "arb" ELSE "continue"
        /\ UNCHANGED <<m_input, t_last_grant_id, t_gnt_id, now, push>>

Continue == /\ arb = "continue" /\ arb' = "looks"
            /\ UNCHANGED <<m_input, t_last_grant_id, t_gnt_id, now, push>>

\* The rest of it: grant, pop and wait one period.
Grant == /\ arb = "arb" /\ Sch!rr_sch
         /\ arb' = "waits"
         /\ UNCHANGED <<now, push>>

NextPeriod == /\ push = "ended" /\ arb = "waits" /\ now < Stop
              /\ now' = now + 1
              /\ arb' = "ready"
              /\ UNCHANGED <<m_input, t_last_grant_id, t_gnt_id, push>>

SpinNext == PushPeq \/ Resume \/ Look \/ Continue \/ Grant \/ NextPeriod

\* The kernel runs what is ready and lets time pass when nothing is; a thread
\* with control goes on.
SpinSpec == /\ SpinInit /\ [][SpinNext]_spinVars
            /\ WF_spinVars(PushPeq) /\ WF_spinVars(Resume) /\ WF_spinVars(Look)
            /\ WF_spinVars(Continue) /\ WF_spinVars(Grant) /\ WF_spinVars(NextPeriod)

-----------------------------------------------------------------------------
\* The simulation runs for the 30 ns it is asked for, and sc_start returns
\* (main.cpp:233, "sc_start(30, SC_NS);").
SimulationEnds == <>(now = Stop)
=============================================================================
