---------------------------- MODULE PayloadStack ----------------------------
(***************************************************************************)
(* What a payload memory manager promises: a payload it hands out is one   *)
(* that came back last or, if none is left, a new one.  Payloads are       *)
(* numbered in the order they were made.                                   *)
(***************************************************************************)
EXTENDS Naturals, Sequences

VARIABLES stack,   \* the free payloads, last returned first
          held,    \* the payloads in use
          created  \* how many there are

vars == <<stack, held, created>>

Init == stack = <<>> /\ held = {} /\ created = 0

Reuse == /\ stack # <<>>
         /\ held' = held \cup {Head(stack)}
         /\ stack' = Tail(stack)
         /\ UNCHANGED created

Make == /\ stack = <<>>
        /\ created' = created + 1
        /\ held' = held \cup {created'}
        /\ UNCHANGED stack

Return == \E p \in held : /\ held' = held \ {p}
                          /\ stack' = <<p>> \o stack
                          /\ UNCHANGED created

Next == Reuse \/ Make \/ Return

Spec == Init /\ [][Next]_vars
=============================================================================
