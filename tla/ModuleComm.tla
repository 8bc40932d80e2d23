----------------------------- MODULE ModuleComm -----------------------------
(***************************************************************************)
(* The two programs of module_communication, side by side on one clock, as *)
(* they share nothing.  inside: one process writes a number into an        *)
(* sc_fifo on every edge, another reads one, neither looking at the        *)
(* answer.  outside: D writes a number into an sc_signal on every edge and *)
(* C reads it.  The modules A and B of outside only print.                 *)
(***************************************************************************)
EXTENDS Naturals, Sequences

CONSTANTS FifoLen,  \* m_tx_fifo("m_tx_fifo", 40)
          MaxEdge   \* bound: sc_start(30, SC_NS)

VARIABLES
  in_val,                              \* `static int val' of inside
  visible, taken, fresh, wrote, got,   \* its fifo
  out_val,                             \* `static int val' of D
  m_cur_val, m_new_val,                \* the signal m_s
  seen,                                \* what C printed last
  edge, torun                          \* the edge, processes yet to run on it

fifoVars == <<visible, taken, fresh, wrote, got>>
signalVars == <<m_cur_val, m_new_val>>
moduleVars == <<in_val, fifoVars, out_val, signalVars, seen, edge, torun>>

Fifo == INSTANCE DeltaFifo WITH Values <- Nat, Capacity <- FifoLen

\* C and D, which do not say dont_initialize, run once before the first edge.
Init == /\ in_val = 100 /\ Fifo!Init
        /\ out_val = 100 /\ m_cur_val = 0 /\ m_new_val = 0 /\ seen = 0
        /\ edge = 0 /\ torun = {"C", "D"}

Runs(p) == p \in torun /\ torun' = torun \ {p} /\ UNCHANGED edge

\* A::mth_entry and A::read_mth_entry of inside.
mth_entry == /\ Runs("writer")
             /\ in_val' = in_val + 1
             /\ Fifo!Put(in_val')
             /\ UNCHANGED <<out_val, signalVars, seen>>
read_mth_entry == /\ Runs("reader")
                  /\ Fifo!Get
                  /\ UNCHANGED <<in_val, out_val, signalVars, seen>>

\* Mutant of D: the signal shows its new value at once.
DShowsAtOnce == /\ Runs("D")
                /\ m_new_val' = out_val /\ m_cur_val' = out_val
                /\ out_val' = out_val + 1
                /\ UNCHANGED <<in_val, fifoVars, seen>>

\* D::mth_entry with sc_signal::write; C::mth_entry with sc_signal::read.
D == /\ Runs("D")
     /\ m_new_val' = out_val
     /\ out_val' = out_val + 1
     /\ UNCHANGED <<in_val, fifoVars, m_cur_val, seen>>
C == /\ Runs("C")
     /\ seen' = m_cur_val
     /\ UNCHANGED <<in_val, fifoVars, out_val, signalVars>>

\* The update phase of both channels, and the next edge.
ClockEdge == /\ torun = {} /\ edge < MaxEdge
             /\ edge' = edge + 1 /\ torun' = {"writer", "reader", "C", "D"}
             /\ Fifo!CycleEnds
             /\ m_cur_val' = m_new_val
             /\ UNCHANGED <<in_val, out_val, m_new_val, seen>>

Next == mth_entry \/ read_mth_entry \/ C \/ D \/ ClockEdge

-----------------------------------------------------------------------------
\* On every edge both readers get exactly the number written on the edge before,
\* whichever process the kernel runs first, and no number is refused or read
\* twice (inside/main.cpp:16-36, outside/main.cpp:90-93, 108-111).
ReadsPreviousEdge ==
  torun = {} =>
    /\ edge > 0 => wrote = <<TRUE>>
    /\ edge > 0 => got = IF edge = 1 THEN <<FALSE>> ELSE <<TRUE, in_val - 1>>
    /\ seen = IF edge = 0 THEN 0 ELSE out_val - 2
=============================================================================
