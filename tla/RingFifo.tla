------------------------------ MODULE RingFifo ------------------------------
(***************************************************************************)
(* sc_component::sc_fifo (sc_fifo/scc_sc_fifo.h and, identical but for its *)
(* name, sc_fifo_with_delay/sc_fifo_with_delay.h): a ring buffer with a    *)
(* write index, a read index and a count of free slots.  nb_write and      *)
(* nb_read go to a deque of their own and share only the capacity.         *)
(*                                                                         *)
(* nb_write ends without a return statement once it has stored the value:  *)
(* what its caller is told then is undefined, here any Boolean.            *)
(***************************************************************************)
EXTENDS Ring

ASSUME RingAssumption == Len0 \in Nat \ {0} /\ 0 \in Values

VARIABLES m_que,   \* what nb_write and nb_read use
          answer,  \* of the last write or read
          nbAnswer \* of the last nb_write or nb_read

ringVars == <<slotVars, answer>>
vars == <<ringVars, m_que, nbAnswer>>

Init == /\ RingInit
        /\ m_que = <<>>
        /\ answer = <<>> /\ nbAnswer = <<>>

write(v) ==
  /\ IF m_free = 0
     THEN answer' = <<FALSE>> /\ UNCHANGED slotVars
     ELSE answer' = <<TRUE>> /\ Store(v)
  /\ UNCHANGED <<m_que, nbAnswer>>

\* Mutant of read: the slot is cleared before its value is taken.
ReadCleared ==
  /\ IF m_free = Len0
     THEN answer' = <<FALSE>> /\ UNCHANGED slotVars
     ELSE answer' = <<TRUE, 0>> /\ Take
  /\ UNCHANGED <<m_que, nbAnswer>>

read ==
  /\ IF m_free = Len0
     THEN answer' = <<FALSE>> /\ UNCHANGED slotVars
     ELSE answer' = <<TRUE, Front>> /\ Take
  /\ UNCHANGED <<m_que, nbAnswer>>

nb_write(v) ==
  /\ IF Len(m_que) = Len0
     THEN nbAnswer' = <<FALSE>> /\ UNCHANGED m_que
     ELSE m_que' = Append(m_que, v) /\ nbAnswer' \in {<<TRUE>>, <<FALSE>>}
  /\ UNCHANGED ringVars

nb_read ==
  /\ IF m_que = <<>>
     THEN nbAnswer' = <<FALSE>> /\ UNCHANGED m_que
     ELSE nbAnswer' = <<TRUE, Head(m_que)>> /\ m_que' = Tail(m_que)
  /\ UNCHANGED ringVars

Next == \/ \E v \in Values : write(v) \/ nb_write(v)
        \/ read
        \/ nb_read

Spec == Init /\ [][Next]_vars

-----------------------------------------------------------------------------
Answers == {<<>>, <<TRUE>>, <<FALSE>>} \cup {<<TRUE, v>> : v \in Values}

TypeOK == /\ RingTypeOK
          /\ m_que \in Seq(Values)
          /\ answer \in Answers /\ nbAnswer \in Answers

Fifo == INSTANCE BoundedFifo WITH Capacity <- Len0, items <- Held

\* write and read are a bounded FIFO queue, and answer truthfully: a full ring
\* refuses, an empty one yields nothing, and no slot is read that was cleared
\* or never written, whatever nb_write and nb_read do in between.
ImplementsFifo == Fifo!Spec
=============================================================================
