------------------------------ MODULE VoqCBar -------------------------------
(***************************************************************************)
(* voq_c_bar.vhd: the diagonal propagation arbiter in hardware, for a 4x4  *)
(* switch.  Seven rows of four arbiter cells are wired south to north and  *)
(* east to west; a priority vector of seven bits, four of them set, tells  *)
(* which diagonals take part.                                              *)
(*                                                                         *)
(* The cell Arbiter is external: it grants when its request, its mask and  *)
(* both incoming signals are high, and a grant pulls its outgoing signals  *)
(* low.  A cell <<r, c>> is named as in the source; requests are the pairs *)
(* <<input, output>> counted from 0, arb_req(4 * input + output + 1).      *)
(***************************************************************************)
EXTENDS Integers, Sequences

CONSTANT Pairs  \* bound: the pairs that ever request

ASSUME VoqAssumption == Pairs \subseteq (0 .. 3) \X (0 .. 3)

Cells == (1 .. 7) \X (1 .. 4)

\* The cells with North and West tied to High.
Corners == {<<1, 1>>, <<5, 4>>, <<6, 3>>, <<7, 2>>}

\* Where the other cells take their North and West from.
NorthOf(x) == IF x[1] = 1 THEN <<7, x[2]>> ELSE <<x[1] - 1, x[2]>>

\* Mutant of WestOf: the lower rows are fed from the row above.
WestOfAbove(x) == IF x[2] > 1 THEN <<x[1], x[2] - 1>>
                  ELSE IF x[1] <= 4 THEN <<x[1] + 3, 4>> ELSE <<x[1] - 3, 4>>

WestOf(x) == IF x[2] > 1 THEN <<x[1], x[2] - 1>>
             ELSE IF x[1] <= 4 THEN <<x[1] + 3, 4>> ELSE <<x[1] - 4, 4>>

\* The bit of c_bar_P that masks a cell.
MaskBit(x) == LET bit == 9 - x[1] - x[2] IN IF bit > 0 THEN bit ELSE bit + 7

\* The request a cell looks at.
RequestOf(x) ==
  LET input == IF x[1] <= 4 THEN x[1]
               ELSE IF x[1] + x[2] <= 8 THEN x[1] - 4 ELSE x[1] - 3
  IN  <<input - 1, x[2] - 1>>

\* All cells a cell's North, its West, depends on.
Above == LET up[x \in Cells] == IF x \in Corners THEN {}
                                ELSE {NorthOf(x)} \cup up[NorthOf(x)]
         IN  up
Before == LET back[x \in Cells] == IF x \in Corners THEN {}
                                   ELSE {WestOf(x)} \cup back[WestOf(x)]
          IN  back

VARIABLES c_bar_P,  \* the bits set
          arb_req,
          m_ptr     \* of a dpa_scheduler constructed at each reset and called
                    \* to arbitrate on every rising edge

vars == <<c_bar_P, arb_req, m_ptr>>

Window(first) == (first - 3) .. first

Init == c_bar_P = {} /\ arb_req = {} /\ m_ptr = 0

\* Active_Win, on a rising edge.
Rotate ==
  /\ c_bar_P' = IF c_bar_P \in {Window(7), Window(6), Window(5)}
                THEN {bit - 1 : bit \in c_bar_P} ELSE Window(7)
  /\ m_ptr' = (m_ptr + 1) % 4
  /\ UNCHANGED arb_req

\* Active_Win, reset = '0'.
Reset == c_bar_P' = {} /\ m_ptr' = 0 /\ UNCHANGED arb_req

\* A request comes or goes, at any time.
Request == /\ \E p \in Pairs : arb_req' = IF p \in arb_req THEN arb_req \ {p}
                                          ELSE arb_req \cup {p}
           /\ UNCHANGED <<c_bar_P, m_ptr>>

\* The cells that grant: along the diagonals, from the corners on.
GrantingCells ==
  LET upTo[k \in 0 .. 7] ==
        IF k = 0 THEN {}
        ELSE LET before == upTo[k - 1]
             IN  before \cup
                 {x \in Cells : /\ MaskBit(x) = 8 - k
                                /\ MaskBit(x) \in c_bar_P
                                /\ RequestOf(x) \in arb_req
                                /\ (Above[x] \cup Before[x]) \cap before = {}}
  IN  upTo[7]

\* The port grant: each output or-s the cells with its request.
grant == {RequestOf(x) : x \in GrantingCells}

Next == Rotate \/ Reset \/ Request
Spec == Init /\ [][Next]_vars

-----------------------------------------------------------------------------
Cpp == INSTANCE Dpa WITH InputPorts <- 4, OutputPorts <- 4,
         m_requests <- arb_req, m_grants <- grant

\* The hardware grants what the C++ does, request for request: after as many
\* edges as arbitrations, the wiring of the 28 cells computes the grants of
\* dpa_scheduler::arbitration, and none while the vector is reset
\* (voq_c_bar.vhd:45-62, 66-80, 84-207; dpa.cpp:79-125).
SameAsCpp ==
  grant = IF c_bar_P = {} THEN {} ELSE Cpp!Granted(Cpp!Sweep[(m_ptr - 1) % 4])
=============================================================================
