----------------------------- MODULE PfcBuffers -----------------------------
(***************************************************************************)
(* The two buffers with flow control of srv_cpu/test/test.cpp.             *)
(*                                                                         *)
(* NetworkNode counts the data in its buffer and answers what does not fit *)
(* with a pause frame.  Switch has a queue per priority, drops what does   *)
(* not fit, and after each packet sends a pause frame for every queue that *)
(* is full.  The frames sent by the last call are kept; what a packet of   *)
(* the switch holds is left out, so a queue is its length.                 *)
(***************************************************************************)
EXTENDS Integers, SequencesExt

CONSTANTS NodeCapacity, Sizes,       \* NetworkNode: its size, data sent to it
          QueueCapacity, Priorities  \* Switch

VARIABLES
  buffer, buffer_usage,  \* NetworkNode
  queues,                \* Switch
  frames,                \* priorities the last sendPacket sent a frame for
  dropped                \* the priority of the packet it dropped, if any

nodeVars == <<buffer, buffer_usage>>
switchVars == <<queues, frames, dropped>>
pfcVars == <<buffer, buffer_usage, queues, frames, dropped>>

Init == /\ buffer = <<>> /\ buffer_usage = 0
        /\ queues = [p \in Priorities |-> 0]
        /\ frames = {} /\ dropped = {}

\* NetworkNode::sendData; data that does not fit is gone.
sendData(data) ==
  /\ IF buffer_usage + data <= NodeCapacity
     THEN buffer' = Append(buffer, data) /\ buffer_usage' = buffer_usage + data
     ELSE UNCHANGED nodeVars
  /\ UNCHANGED switchVars

\* Mutant of receiveData: it frees one unit, whatever the data took.
ReceiveOne == /\ buffer # <<>>
              /\ buffer' = Tail(buffer)
              /\ buffer_usage' = buffer_usage - 1
              /\ UNCHANGED switchVars

\* NetworkNode::receiveData.
receiveData == /\ buffer # <<>>
               /\ buffer' = Tail(buffer)
               /\ buffer_usage' = buffer_usage - Head(buffer)
               /\ UNCHANGED switchVars

\* Queue::enqueue, Queue::dequeue.
enqueue(p) == IF queues[p] < QueueCapacity
              THEN queues' = [queues EXCEPT ![p] = @ + 1] /\ dropped' = {}
              ELSE dropped' = {p} /\ UNCHANGED queues
dequeue(p) == /\ queues[p] > 0
              /\ queues' = [queues EXCEPT ![p] = @ - 1]
              /\ UNCHANGED <<nodeVars, frames, dropped>>

getRemainingCapacity(q) == QueueCapacity - q

\* Mutant of Congested: the queues as they were before the packet.
CongestedBefore == {p \in Priorities : getRemainingCapacity(queues[p]) <= 0}

\* The queues a call finds full when it has stored its packet.
Congested == {p \in Priorities : getRemainingCapacity(queues'[p]) <= 0}

\* Switch::sendPacket.
sendPacket(p) == /\ enqueue(p)
                 /\ frames' = Congested
                 /\ UNCHANGED nodeVars

Next == \/ \E data \in Sizes : sendData(data)
        \/ receiveData
        \/ \E p \in Priorities : sendPacket(p) \/ dequeue(p)

-----------------------------------------------------------------------------
\* The usage counter of the node is the data in its buffer and stays within its
\* capacity, through any sequence of sends, refusals and receives (258-275).
UsageIsExact == /\ buffer_usage = FoldSeq(LAMBDA d, sum : d + sum, 0, buffer)
                /\ buffer_usage <= NodeCapacity

\* A sender is told before its packets are dropped: whenever a queue is full,
\* the last call of sendPacket, for whatever priority, sent a frame for it
\* (340-349).
PausedBeforeDropped ==
  [][\A p \in Priorities : sendPacket(p) /\ dropped' = {p} => p \in frames]_pfcVars
=============================================================================
