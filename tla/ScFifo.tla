------------------------------- MODULE ScFifo -------------------------------
(***************************************************************************)
(* sc_core::sc_fifo, the kernel channel between A and BB of srv_cpu and    *)
(* inside module_communication/inside: one writer process, one reader      *)
(* process, calls that block and calls that do not.                        *)
(*                                                                         *)
(* A process in `runnable' may make any number of calls before it waits    *)
(* for something; write and read wait by themselves, for an event of the   *)
(* channel.  When no process is runnable the kernel runs update and begins *)
(* the next delta cycle, with those the events woke and any others that    *)
(* waited for reasons of their own.                                        *)
(***************************************************************************)
EXTENDS Ring

VARIABLES
  m_num_readable, m_num_read, m_num_written,
  wrote, got,   \* answers of the last call of the writer, of the reader
  blocked,      \* the value of a write that waits for room, as <<value>>
  rd_blocked,   \* a read waits for a value
  runnable

countVars == <<m_num_readable, m_num_read, m_num_written>>
procVars == <<blocked, rd_blocked, runnable>>
scVars == <<slotVars, countVars, wrote, got, procVars>>

Procs == {"writer", "reader"}

ScInit == /\ RingInit
          /\ m_num_readable = 0 /\ m_num_read = 0 /\ m_num_written = 0
          /\ wrote = <<>> /\ got = <<>>
          /\ blocked = <<>> /\ rd_blocked = FALSE
          /\ runnable = Procs

num_available == m_num_readable - m_num_read

\* Mutant of num_free: slots emptied in this delta cycle count as free.
FreeAtOnce == m_free

num_free == Len0 - m_num_readable - m_num_written

\* What nb_write, and write when there is room, do; likewise nb_read and read.
Written(v) == IF num_free = 0 \/ m_free = 0
              THEN wrote' = <<FALSE>> /\ UNCHANGED <<slotVars, countVars>>
              ELSE /\ Store(v)
                   /\ m_num_written' = m_num_written + 1
                   /\ wrote' = <<TRUE>>
                   /\ UNCHANGED <<m_num_readable, m_num_read>>
ReadOut == IF num_available = 0 \/ m_free = Len0
           THEN got' = <<FALSE>> /\ UNCHANGED <<slotVars, countVars>>
           ELSE /\ got' = <<TRUE, Front>>
                /\ Take
                /\ m_num_read' = m_num_read + 1
                /\ UNCHANGED <<m_num_readable, m_num_written>>

nb_write(v) == /\ "writer" \in runnable /\ blocked = <<>>
               /\ Written(v)
               /\ UNCHANGED <<got, procVars>>

nb_read == /\ "reader" \in runnable /\ ~rd_blocked
           /\ ReadOut
           /\ UNCHANGED <<wrote, procVars>>

\* write(v): a new call, or one that was woken and looks again.
write(v) ==
  /\ "writer" \in runnable /\ blocked \in {<<>>, <<v>>}
  /\ IF num_free = 0
     THEN /\ blocked' = <<v>> /\ runnable' = runnable \ {"writer"}
          /\ UNCHANGED <<slotVars, countVars, wrote>>
     ELSE Written(v) /\ blocked' = <<>> /\ UNCHANGED runnable
  /\ UNCHANGED <<got, rd_blocked>>

read ==
  /\ "reader" \in runnable
  /\ IF num_available = 0
     THEN /\ rd_blocked' = TRUE /\ runnable' = runnable \ {"reader"}
          /\ UNCHANGED <<slotVars, countVars, got>>
     ELSE ReadOut /\ rd_blocked' = FALSE /\ UNCHANGED runnable
  /\ UNCHANGED <<wrote, blocked>>

\* A process waits for something else, or ends.
Yield(p) == /\ p \in runnable
            /\ IF p = "writer" THEN blocked = <<>> ELSE ~rd_blocked
            /\ runnable' = runnable \ {p}
            /\ UNCHANGED <<slotVars, countVars, wrote, got, blocked, rd_blocked>>

\* Mutant of Woken: the counts are looked at after update has reset them.
WokenAfter == {}

\* The processes the two notifications of update wake.
Woken == {p \in Procs : \/ p = "writer" /\ blocked # <<>> /\ m_num_read > 0
                        \/ p = "reader" /\ rd_blocked /\ m_num_written > 0}

update == /\ runnable = {}
          /\ m_num_readable' = Len0 - m_free
          /\ m_num_read' = 0 /\ m_num_written' = 0
          /\ \E others \in SUBSET {p \in Procs : IF p = "writer" THEN blocked = <<>>
                                                 ELSE ~rd_blocked} :
               runnable' = Woken \cup others
          /\ UNCHANGED <<slotVars, wrote, got, blocked, rd_blocked>>

ScNext == \/ \E v \in Values : write(v) \/ nb_write(v)
          \/ read \/ nb_read
          \/ \E p \in Procs : Yield(p)
          \/ update

-----------------------------------------------------------------------------
\* What is in the ring, split at what the reader can still take.
Cycle == INSTANCE DeltaFifo WITH
           Capacity <- Len0,
           visible <- SubSeq(Held, 1, num_available),
           fresh <- SubSeq(Held, num_available + 1, Len(Held)),
           taken <- m_num_read

ScTypeOK == /\ RingTypeOK
            /\ {m_num_readable, m_num_read, m_num_written} \subseteq 0 .. Len0
            /\ blocked \in {<<>>} \cup {<<v>> : v \in Values}
            /\ rd_blocked \in BOOLEAN /\ runnable \subseteq Procs

\* The three counters, of which update resets two, and the free count of the
\* ring account for the same slots: the ring holds what the reader can still
\* take and what was written in this delta cycle, and a slot emptied in it is
\* not written again before the next (sc_fifo.h:219-290, 342-358).
CountsAgree == /\ Len0 - m_free = num_available + m_num_written
               /\ num_available >= 0 /\ num_free >= 0

\* A process that waits for the channel has reason to: there is no room for the
\* writer's value, nothing for the reader to take.
OnlyWhileNeeded ==
  /\ blocked # <<>> /\ "writer" \notin runnable => num_free = 0
  /\ rd_blocked /\ "reader" \notin runnable => num_available = 0
=============================================================================
