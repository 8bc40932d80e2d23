------------------------------ MODULE Programs ------------------------------
(***************************************************************************)
(* The small stand-alone programs of the repository with processes that    *)
(* meet: round_robin with its QoS threads, ab_communication, and           *)
(* module_communication.  Each is a program of its own: `program' says     *)
(* which one runs, and the variables of the others keep their values.      *)
(***************************************************************************)
EXTENDS TestPlatform

CONSTANTS MaxTime,          \* of ab_communication
          FifoLen, MaxEdge  \* of module_communication

ASSUME ProgramsAssumption ==
  MaxTime \in Nat /\ FifoLen \in Nat \ {0} /\ MaxEdge \in Nat

VARIABLES program,
          val, m_queue, printed, now, torun_ab,
          in_val, visible, taken, fresh, wrote, got,
          out_val, m_cur_val, m_new_val, seen, edge, torun

abVars == <<val, m_queue, printed, now, torun_ab>>
moduleVars == <<in_val, visible, taken, fresh, wrote, got,
                out_val, m_cur_val, m_new_val, seen, edge, torun>>
programVars == <<program, arbiterVars, abVars, moduleVars>>

Ab == INSTANCE AbComm WITH pending <- torun_ab
Modules == INSTANCE ModuleComm

ProgramsInit == \/ /\ program = "round_robin"
                   /\ ArbiterInit /\ Ab!Init /\ Modules!Init
                \/ /\ program \in {"ab_communication", "module_communication"}
                   /\ qos_input = [i \in Inputs |-> <<>>] /\ level_input = qos_input
                   /\ ArbiterInit /\ Ab!Init /\ Modules!Init

ProgramsNext ==
  \/ program = "round_robin" /\ ArbiterNext /\ UNCHANGED <<program, abVars, moduleVars>>
  \/ program = "ab_communication" /\ Ab!Next /\ UNCHANGED <<program, arbiterVars, moduleVars>>
  \/ program = "module_communication" /\ Modules!Next /\ UNCHANGED <<program, arbiterVars, abVars>>

ProgramsSpec == ProgramsInit /\ [][ProgramsNext]_programVars

-----------------------------------------------------------------------------
\* dst of ab_communication, which never looks whether there is a payload, never
\* pops an empty queue, whichever process runs first on a shared edge; what it
\* hands back are the payloads in the order they were sent, none left out
\* (dst.h:19-26).
EveryPopIsNext == Ab!EveryPopIsNext

\* On every edge the readers of module_communication get exactly the number
\* written on the edge before, whichever process the kernel runs first
\* (inside/main.cpp:16-36, outside/main.cpp:90-93, 108-111).
ReadsPreviousEdge == Modules!ReadsPreviousEdge
=============================================================================
