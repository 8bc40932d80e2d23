------------------------------- MODULE RrSch --------------------------------
(***************************************************************************)
(* basic_sch (srv_cpu/sch/sch.cpp) and the loop of TEST_sch that drives    *)
(* it: rr_sch names the next non-empty input after the one granted last,   *)
(* and its caller pops one value from that input.  Of each input's queue   *)
(* only its length is kept.                                                *)
(***************************************************************************)
EXTENDS Integers

CONSTANTS m_arb_num, \* number of inputs, positive
          MaxLen     \* bound: values waiting at one input

Inputs == 0 .. m_arb_num - 1
None == -1

VARIABLES m_input,         \* m_input[i]: values waiting at input i
          m_last_grant_id,
          sch_ret          \* what rr_sch last returned

vars == <<m_input, m_last_grant_id, sch_ret>>

Init == /\ m_input = [i \in Inputs |-> 0]
        /\ m_last_grant_id = m_arb_num - 1
        /\ sch_ret = None

set_val(i) == /\ m_input[i] < MaxLen
              /\ m_input' = [m_input EXCEPT ![i] = @ + 1]
              /\ UNCHANGED <<m_last_grant_id, sch_ret>>

\* How many inputs the search advances over to reach i; the input granted
\* last is looked at last.
Distance(i) == ((i - m_last_grant_id - 1) % m_arb_num) + 1

Waiting == {i \in Inputs : m_input[i] > 0}

\* Mutant of rr_sch: it starts at input 0 every time.
FixedOrder ==
  IF Waiting = {}
  THEN sch_ret' = None /\ UNCHANGED <<m_input, m_last_grant_id>>
  ELSE \E i \in Waiting :
         /\ \A j \in Waiting : i <= j
         /\ m_last_grant_id' = i
         /\ sch_ret' = i
         /\ m_input' = [m_input EXCEPT ![i] = @ - 1]

\* rr_sch, and the pop its caller makes when it names an input.
rr_sch ==
  IF Waiting = {}
  THEN sch_ret' = None /\ UNCHANGED <<m_input, m_last_grant_id>>
  ELSE \E i \in Waiting :
         /\ \A j \in Waiting : Distance(i) <= Distance(j)
         /\ m_last_grant_id' = i
         /\ sch_ret' = i
         /\ m_input' = [m_input EXCEPT ![i] = @ - 1]

Next == (\E i \in Inputs : set_val(i)) \/ rr_sch

Spec == Init /\ [][Next]_vars

-----------------------------------------------------------------------------
TypeOK == /\ m_input \in [Inputs -> 0 .. MaxLen]
          /\ m_last_grant_id \in Inputs
          /\ sch_ret \in Inputs \cup {None}

\* A grant to another input brings every waiting one strictly closer to its
\* turn, and no grant is given to an empty input or withheld from a waiting
\* one: an input waits for at most m_arb_num - 1 grants, whatever arrives
\* elsewhere meanwhile (sch.cpp:36-41).
BoundedBypass ==
  [][rr_sch => /\ Waiting # {} => sch_ret' \in Waiting
               /\ \A i \in Waiting \ {sch_ret'} : Distance(i)' < Distance(i)]_vars
=============================================================================
