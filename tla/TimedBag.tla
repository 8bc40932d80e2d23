------------------------------ MODULE TimedBag ------------------------------
(***************************************************************************)
(* What a payload event queue promises, with no data structure: a set of   *)
(* payloads with the times they are due.  Asked for the next one, it gives *)
(* one that is due, the earliest due first and, among equals, the one put  *)
(* in first; if none is due it gives nothing.  Payloads are numbered in    *)
(* the order of the delay calls that made them.                            *)
(***************************************************************************)
EXTENDS Naturals

VARIABLES now,   \* simulation time
          bag,   \* the pending payloads, [due, val]
          calls, \* payloads made so far
          got    \* answer of the last call: nothing, or one payload

vars == <<now, bag, calls, got>>

Init == now = 0 /\ bag = {} /\ calls = 0 /\ got = <<>>

Put == /\ \E e \in bag' : /\ e.val = calls /\ e.due >= now
                         /\ bag' = bag \cup {e}
       /\ calls' = calls + 1
       /\ UNCHANGED <<now, got>>

Before(e, f) == e.due < f.due \/ (e.due = f.due /\ e.val <= f.val)

Take == \E e \in bag : /\ e.due <= now
                       /\ \A f \in bag : Before(e, f)
                       /\ bag' = bag \ {e}
                       /\ got' = <<e.val>>
                       /\ UNCHANGED <<now, calls>>

TakeNone == /\ \A e \in bag : e.due > now
            /\ got' = <<>>
            /\ UNCHANGED <<now, bag, calls>>

Clear == bag' = {} /\ UNCHANGED <<now, calls, got>>

Pass == now' = now + 1 /\ UNCHANGED <<bag, calls, got>>

Next == Put \/ Take \/ TakeNone \/ Clear \/ Pass

Spec == Init /\ [][Next]_vars
=============================================================================
