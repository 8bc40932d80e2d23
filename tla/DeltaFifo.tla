----------------------------- MODULE DeltaFifo ------------------------------
(***************************************************************************)
(* What a queue between two processes of a SystemC simulation promises.    *)
(* Within a delta cycle the reader sees none of the writer's calls and the *)
(* writer none of the reader's: values become visible, and the slots of    *)
(* values taken become free, when the cycle ends.  So it cannot matter     *)
(* which of the two the kernel runs first.                                 *)
(***************************************************************************)
EXTENDS Naturals, Sequences

CONSTANTS Values, Capacity

VARIABLES visible,    \* what the reader can still take, oldest first
          taken,      \* slots it emptied in this delta cycle
          fresh,      \* what was written in this delta cycle
          wrote, got  \* answers of the last call of the writer, of the reader

vars == <<visible, taken, fresh, wrote, got>>

Init == visible = <<>> /\ taken = 0 /\ fresh = <<>> /\ wrote = <<>> /\ got = <<>>

Put(v) == /\ IF Len(visible) + taken + Len(fresh) < Capacity
             THEN fresh' = Append(fresh, v) /\ wrote' = <<TRUE>>
             ELSE wrote' = <<FALSE>> /\ UNCHANGED fresh
          /\ UNCHANGED <<visible, taken, got>>

Get == /\ IF visible # <<>>
          THEN /\ got' = <<TRUE, Head(visible)>>
               /\ visible' = Tail(visible)
               /\ taken' = taken + 1
          ELSE got' = <<FALSE>> /\ UNCHANGED <<visible, taken>>
       /\ UNCHANGED <<fresh, wrote>>

CycleEnds == /\ visible' = visible \o fresh
             /\ taken' = 0 /\ fresh' = <<>>
             /\ UNCHANGED <<wrote, got>>

Next == (\E v \in Values : Put(v)) \/ Get \/ CycleEnds

Spec == Init /\ [][Next]_vars
=============================================================================
