------------------------------- MODULE AbComm -------------------------------
(***************************************************************************)
(* ab_communication (and its copy in arbitration): src sends a payload on  *)
(* every edge of a 1 ns clock, dst pops one on every edge of a 2 ns clock  *)
(* without looking whether there is one.                                   *)
(*                                                                         *)
(* Both clocks rise at time 0 and on every even nanosecond, and the kernel *)
(* may run the two methods in either order.  src, which does not say       *)
(* dont_initialize, runs once before the first edge.  The payload's data   *)
(* is its number.                                                          *)
(***************************************************************************)
EXTENDS Naturals, Sequences

CONSTANT MaxTime  \* bound: sc_start(10, SC_NS)

VARIABLES
  val,      \* src::val, payloads sent
  m_queue,  \* dst::m_queue
  printed,  \* what nb_transport_bw showed last
  now, pending

abVars == <<val, m_queue, printed, now, pending>>

Edge(t) == IF t % 2 = 0 THEN {"src", "dst"} ELSE {"src"}

\* src::mth_entry with the dst::nb_transport_fw it calls.
Send == val' = val + 1 /\ m_queue' = Append(m_queue, val')

Init == /\ val = 0 /\ m_queue = <<>> /\ printed = 0
        /\ now = 0
        /\ pending = {"initialize"}

\* Mutant of initialize: src says dont_initialize too.
DontInitialize == /\ pending = {"initialize"}
                  /\ pending' = Edge(0)
                  /\ UNCHANGED <<val, m_queue, printed, now>>

\* The initialization phase, which runs src only, up to the first edge.
initialize == /\ pending = {"initialize"}
              /\ Send
              /\ pending' = Edge(0)
              /\ UNCHANGED <<printed, now>>

src_entry == /\ "src" \in pending
             /\ Send
             /\ pending' = pending \ {"src"}
             /\ UNCHANGED <<printed, now>>

\* dst::mth_entry with src::nb_transport_bw, which deletes the payload.  The
\* front of an empty deque is not a payload: 0.
dst_entry == /\ "dst" \in pending
             /\ printed' = IF m_queue = <<>> THEN 0 ELSE Head(m_queue)
             /\ m_queue' = IF m_queue = <<>> THEN <<>> ELSE Tail(m_queue)
             /\ pending' = pending \ {"dst"}
             /\ UNCHANGED <<val, now>>

ClockEdge == /\ pending = {} /\ now < MaxTime
             /\ now' = now + 1
             /\ pending' = Edge(now')
             /\ UNCHANGED <<val, m_queue, printed>>

Next == initialize \/ src_entry \/ dst_entry \/ ClockEdge

-----------------------------------------------------------------------------
\* dst never pops an empty queue, whichever of the two runs first on a shared
\* edge; what it hands back are the payloads in the order they were sent, none
\* left out (dst.h:19-26).
EveryPopIsNext == [][dst_entry => printed' = printed + 1]_abVars
=============================================================================
