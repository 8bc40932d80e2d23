------------------------------ MODULE SrvMain -------------------------------
(***************************************************************************)
(* The simulation sc_main of srv_cpu/main.cpp runs: the credit loop of top *)
(* and the pairs CC/DD and A/BB.  Their clocks have one period and start   *)
(* together, so each edge runs all six processes, in any order.            *)
(***************************************************************************)
EXTENDS CreditLatency

CONSTANTS PairMod,  \* bound: numbers of the pairs told apart
          FifoSize  \* the default size of sc_fifo

ASSUME SrvMainAssumption == PairMod \in Nat \ {0, 1} /\ FifoSize \in Nat \ {0}

VARIABLES snd, dd_peq, popped, a_val, written, old, read, lost, ready

Pairs == INSTANCE SrvPairs WITH ValMod <- PairMod

pairVars == <<snd, dd_peq, popped, a_val, written, old, read, lost, ready>>
mainVars == <<timedVars, pairVars>>

MainInit == TimedInit /\ Pairs!Init

\* One process of either part, or the next edge for both.
MainNext == \/ TimedProcess /\ UNCHANGED pairVars
            \/ Pairs!Next /\ UNCHANGED timedVars
            \/ TimedEdge /\ Pairs!ClockEdge

\* The kernel runs every process an edge makes runnable.
MainSpec == /\ MainInit /\ [][MainNext]_mainVars
            /\ WF_mainVars(MainNext)

-----------------------------------------------------------------------------
\* Both pairs keep up, whichever process of a pair runs first on any edge.  DD
\* pops at most one number per edge, and takes each exactly on the edge it is due,
\* in order.  No number of A is lost although A never asks whether there is
\* room, and after each edge BB has read everything but that edge's number
\* (top.h:36-52, 74-97, 134-140, 157-165).
PairsKeepUp == Pairs!PeqKeepsUp /\ Pairs!FifoKeepsUp
=============================================================================
