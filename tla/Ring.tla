-------------------------------- MODULE Ring --------------------------------
(***************************************************************************)
(* The ring buffer both FIFOs keep their values in: sc_component::sc_fifo  *)
(* in write and read, and sc_core::sc_fifo in buf_write and buf_read, which *)
(* have the same statements (m_vec is m_buf there and Len0 is m_size).     *)
(***************************************************************************)
EXTENDS Integers, Sequences

CONSTANTS Values,  \* what is written
          Len0     \* the template parameter len (16), the size given to sc_fifo

VARIABLES m_vec,   \* the slots; a new array leaves them unset
          m_wi, m_ri, m_free

slotVars == <<m_vec, m_wi, m_ri, m_free>>

Slots == 0 .. Len0 - 1

RingInit == /\ m_vec \in [Slots -> Values]
            /\ m_wi = 0 /\ m_ri = 0
            /\ m_free = Len0

Store(v) == /\ m_free > 0
            /\ m_vec' = [m_vec EXCEPT ![m_wi] = v]
            /\ m_wi' = (m_wi + 1) % Len0
            /\ m_free' = m_free - 1
            /\ UNCHANGED m_ri

\* What Take takes.  The slot is overwritten with 0.
Front == m_vec[m_ri]
Take == /\ m_free < Len0
        /\ m_vec' = [m_vec EXCEPT ![m_ri] = 0]
        /\ m_ri' = (m_ri + 1) % Len0
        /\ m_free' = m_free + 1
        /\ UNCHANGED m_wi

-----------------------------------------------------------------------------
\* The values held: the slots from the read index on.
Held == [i \in 1 .. Len0 - m_free |-> m_vec[(m_ri + i - 1) % Len0]]

RingTypeOK == /\ m_vec \in [Slots -> Values]
              /\ m_wi \in Slots /\ m_ri \in Slots
              /\ m_free \in 0 .. Len0

\* The two indices and the free count, kept by different calls, never drift
\* apart: the write index is the read index plus the number of values held,
\* also after both have wrapped (scc_sc_fifo.h:49-51, 61-64; sc_fifo.h:396-421).
IndicesAgree == m_wi = (m_ri + (Len0 - m_free)) % Len0
=============================================================================
