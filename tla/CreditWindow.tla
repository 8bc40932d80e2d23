---------------------------- MODULE CreditWindow ----------------------------
(***************************************************************************)
(* What the src/tgt pair of srv_cpu promises, with every queue, delay and  *)
(* clock edge left out: a loop-back channel under window flow control.  A  *)
(* value may be sent while fewer than Window of them are unanswered; each  *)
(* answer echoes the oldest unanswered value and reopens the window by     *)
(* one, in the same step.                                                  *)
(***************************************************************************)
EXTENDS Naturals, Sequences

CONSTANTS Window,  \* credits the sender starts with
          ValMod   \* bound: distinct values told apart

VARIABLES credit,  \* sends the sender may still make
          next,    \* the value it sends next
          chan,    \* values sent and not yet echoed, oldest first
          rcvd     \* the values echoed: the last one, or the empty sequence

vars == <<credit, next, chan, rcvd>>

Init == /\ credit = Window
        /\ next = 0
        /\ chan = <<>>
        /\ rcvd = <<>>

Send == /\ credit > 0
        /\ credit' = credit - 1
        /\ chan' = Append(chan, next)
        /\ next' = (next + 1) % ValMod
        /\ UNCHANGED rcvd

Echo == /\ chan # <<>>
        /\ credit' = credit + 1
        /\ chan' = Tail(chan)
        /\ rcvd' = <<Head(chan)>>
        /\ UNCHANGED next

Next == Send \/ Echo

SafeSpec == Init /\ [][Next]_vars

Spec == SafeSpec /\ WF_vars(Send) /\ WF_vars(Echo)
=============================================================================
