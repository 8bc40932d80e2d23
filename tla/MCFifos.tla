------------------------------ MODULE MCFifos -------------------------------
(***************************************************************************)
(* The two FIFO classes of the repository, checked one at a time: `used'   *)
(* says which of them a program declares, and the variables of the other   *)
(* keep their initial values.                                              *)
(***************************************************************************)
EXTENDS RingFifo

VARIABLES used,
          k_vec, k_wi, k_ri, k_free,  \* the slots of sc_core::sc_fifo
          m_num_readable, m_num_read, m_num_written,
          wrote, got, blocked, rd_blocked, runnable

Kernel == INSTANCE ScFifo WITH m_vec <- k_vec, m_wi <- k_wi, m_ri <- k_ri,
                               m_free <- k_free

kernelVars == <<k_vec, k_wi, k_ri, k_free, m_num_readable, m_num_read, m_num_written,
                wrote, got, blocked, rd_blocked, runnable>>

FifosInit == /\ used \in {"sc_component", "sc_core"}
             /\ Init /\ Kernel!ScInit
             /\ used = "sc_component" => k_vec = m_vec
             /\ used = "sc_core" => m_vec = k_vec

FifosNext ==
  /\ UNCHANGED used
  /\ \/ used = "sc_component" /\ Next /\ UNCHANGED kernelVars
     \/ used = "sc_core" /\ Kernel!ScNext /\ UNCHANGED vars

FifosSpec == FifosInit /\ [][FifosNext]_<<used, vars, kernelVars>>

-----------------------------------------------------------------------------
\* sc_core::sc_fifo implements the queue whose answers do not depend on which
\* process ran first in a delta cycle, through wrap-arounds and with calls that
\* block among those that do not (sc_fifo.h:219-290, 342-358).
ImplementsDelta == Kernel!Cycle!Spec

\* Nobody waits in vain: a writer that waits in write has no room and a reader
\* that waits in read has no value, also when the other's call and the wait
\* fell into the same delta cycle (sc_fifo.h:223-225, 266-268, 342-358).
NobodyWaitsInVain == Kernel!OnlyWhileNeeded
=============================================================================
