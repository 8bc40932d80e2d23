--------------------------- MODULE CreditLatency ----------------------------
(***************************************************************************)
(* CreditLoop with a stopwatch on every value in flight: `ages' counts the *)
(* clock edges since src sent it.  The stopwatches only watch; they change *)
(* nothing the two processes do.                                           *)
(***************************************************************************)
EXTENDS CreditLoop

CONSTANT MaxLatency  \* the longest round trip claimed, in clock periods

ASSUME LatencyAssumption == MaxLatency \in Nat

VARIABLE ages  \* ages[i]: edges since InFlight[i] was sent

timedVars == <<vars, ages>>

TimedInit == Init /\ ages = <<>>

TimedProcess ==
  \/ /\ SrcEntry
     /\ ages' = IF m_credit > 0 THEN Append(ages, 0) ELSE ages
  \/ /\ TgtEntry
     /\ ages' = IF Len(InFlight') < Len(InFlight) THEN Tail(ages) ELSE ages

TimedEdge == ClockEdge /\ ages' = [i \in DOMAIN ages |-> ages[i] + 1]

\* A value comes back at src no sooner than the 6 cycles of delay tgt imposes on
\* it (tgt.cpp:19) and within MaxLatency periods, whichever process the kernel
\* ran first on either edge and also when a full window of values queues behind
\* tgt's send slots, one in every m_crdt_sch_cycle cycles (tgt.cpp:43-46).
RoundTrip ==
  [][Len(InFlight') < Len(InFlight) => Head(ages) \in Delay .. MaxLatency]_timedVars
=============================================================================
