------------------------------ MODULE SrvPairs ------------------------------
(***************************************************************************)
(* The two pairs of srv_cpu/top.h that main.cpp runs beside the credit     *)
(* loop, on one 1 ns clock: CC sends a number to DD on every edge, which   *)
(* delays it one cycle in its peq and takes out at most one per edge; A    *)
(* writes a number into an sc_fifo without waiting on every edge, and BB   *)
(* reads all there is.  The numbers are kept modulo ValMod.                *)
(*                                                                         *)
(* sc_fifo keeps what DeltaFifo promises: it shows a value to its reader,  *)
(* and a free slot to its writer, in the delta cycle after the one it was  *)
(* written, or freed, in.                                                  *)
(***************************************************************************)
EXTENDS PeqOps

CONSTANTS ValMod,   \* bound
          FifoSize  \* the default size of sc_fifo

VARIABLES
  snd, dd_peq, popped,       \* CC's next number, DD's m_peq and last pop
  a_val, written, old, read, \* A's next number; the fifo: values written on this
                             \* edge and before it, values BB has read on it
  lost,                      \* a number A could not write
  ready                      \* processes still to run on this edge

pairVars == <<snd, dd_peq, popped>>
fifoVars == <<a_val, written, old, read, lost>>
vars == <<pairVars, fifoVars, ready>>

Vals == 0 .. ValMod - 1
Procs == {"CC", "DD", "A", "BB"}

Init == /\ snd = 0 /\ dd_peq = <<>> /\ popped = ValMod - 1
        /\ a_val = 0 /\ written = <<>> /\ old = <<>> /\ read = 0
        /\ lost = FALSE
        /\ ready = Procs

Runs(p) == p \in ready /\ ready' = ready \ {p}

\* Mutant of CC: the delay is of no cycle.
CCNoDelay == /\ Runs("CC")
             /\ dd_peq' = PeqDelay(dd_peq, snd, 0)
             /\ snd' = (snd + 1) % ValMod
             /\ UNCHANGED <<popped, fifoVars>>

\* CC::mth_entry and DD::nb_transport_fw, with cycle = 1.
CC == /\ Runs("CC")
      /\ dd_peq' = PeqDelay(dd_peq, snd, 1)
      /\ snd' = (snd + 1) % ValMod
      /\ UNCHANGED <<popped, fifoVars>>

\* DD::mth_entry: one get_next_transaction.
DD == /\ Runs("DD")
      /\ IF PeqReady(dd_peq) # <<>>
         THEN dd_peq' = Tail(dd_peq) /\ popped' = Head(dd_peq).val
         ELSE UNCHANGED <<dd_peq, popped>>
      /\ UNCHANGED <<snd, fifoVars>>

\* A::mth_entry: nb_write, its answer ignored.
A == /\ Runs("A")
     /\ IF Len(old) + Len(written) < FifoSize
        THEN written' = Append(written, a_val) /\ UNCHANGED lost
        ELSE lost' = TRUE /\ UNCHANGED written
     /\ a_val' = (a_val + 1) % ValMod
     /\ UNCHANGED <<pairVars, old, read>>

BB == /\ Runs("BB")
      /\ read' = Len(old)
      /\ UNCHANGED <<pairVars, a_val, written, old, lost>>

\* The fifo's update phase and the next edge of the clock.
ClockEdge == /\ ready = {}
             /\ ready' = Procs
             /\ dd_peq' = PeqAge(dd_peq)
             /\ old' = SubSeq(old, read + 1, Len(old)) \o written
             /\ written' = <<>> /\ read' = 0
             /\ UNCHANGED <<snd, popped, a_val, lost>>

Next == CC \/ DD \/ A \/ BB

-----------------------------------------------------------------------------
\* DD keeps up with CC: one pop per edge takes every number exactly on the edge
\* it is due, in order, whichever of the two runs first (top.h:36-52, 74-97).
PeqKeepsUp ==
  ready = {} => /\ PeqReady(dd_peq) = <<>>
                /\ Len(dd_peq) = 1
                /\ snd = (popped + 2) % ValMod

\* No number of A is lost although it never asks whether there is room, and BB
\* has read everything but this edge's number (top.h:134-140, 157-165).
FifoKeepsUp == ~lost /\ (ready = {} => read = Len(old) /\ Len(written) = 1)
=============================================================================
