---------------------------- MODULE BoundedFifo -----------------------------
(***************************************************************************)
(* A bounded first-in first-out queue whose calls answer whether they      *)
(* could be carried out.                                                   *)
(***************************************************************************)
EXTENDS Naturals, Sequences

CONSTANTS Values, Capacity

VARIABLES items,  \* the queue, oldest first
          answer  \* of the last call: <<succeeded>> or <<succeeded, value>>

vars == <<items, answer>>

Init == items = <<>> /\ answer = <<>>

Put == \E v \in Values :
         IF Len(items) < Capacity
         THEN items' = Append(items, v) /\ answer' = <<TRUE>>
         ELSE items' = items /\ answer' = <<FALSE>>

Get == IF items # <<>>
       THEN items' = Tail(items) /\ answer' = <<TRUE, Head(items)>>
       ELSE items' = items /\ answer' = <<FALSE>>

Next == Put \/ Get

Spec == Init /\ [][Next]_vars
=============================================================================
