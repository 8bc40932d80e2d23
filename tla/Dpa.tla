-------------------------------- MODULE Dpa ---------------------------------
(***************************************************************************)
(* dpa_scheduler (srv_cpu/dpa/dpa.cpp), a diagonal propagation arbiter: an *)
(* N x N array of cells swept diagonal by diagonal from a rotating one;    *)
(* a cell with a request is granted when neither its row nor its column    *)
(* has been granted before it in the sweep.  m_requests and m_grants are   *)
(* the sets of <<input, output>> pairs they hold 1 at; requests are never  *)
(* withdrawn.  sch_result is cleared by init and never filled: left out.   *)
(***************************************************************************)
EXTENDS Integers, Sequences

CONSTANTS InputPorts, OutputPorts  \* the constructor's arguments

ASSUME DpaAssumption == InputPorts \in Nat \ {0} /\ OutputPorts \in Nat \ {0}

N == IF InputPorts >= OutputPorts THEN InputPorts ELSE OutputPorts
Ports == 0 .. N - 1

VARIABLES m_ptr, m_requests, m_grants

vars == <<m_ptr, m_requests, m_grants>>

Init == m_ptr = 0 /\ m_requests = {} /\ m_grants = {}

is_valid_port(p) == p >= 0 /\ p < N

\* request: a pair with an invalid port is ignored.
request(i, j) ==
  /\ m_requests' = IF is_valid_port(i) /\ is_valid_port(j)
                   THEN m_requests \cup {<<i, j>>} ELSE m_requests
  /\ UNCHANGED <<m_ptr, m_grants>>

\* Mutant of the constructor: the rows above keep their zeros.
MapNotRepeated == [row \in 0 .. 2 * N - 2 |->
                    [col \in Ports |->
                       IF row < N - 1 THEN 0 ELSE (row - (N - 1)) * N + col]]

\* The constructor numbers the cells in the lower N rows of a table of 2N - 1
\* and repeats all but the first of these in the rows above.
m_dpa_map == [row \in 0 .. 2 * N - 2 |->
               [col \in Ports |->
                  LET lower == IF row < N - 1 THEN row + N ELSE row
                  IN  (lower - (N - 1)) * N + col]]

\* The k-th cell of the sweep that starts on diagonal ptr: rows ptr .. N - 1
\* of the two nested loops, then rows 0 .. ptr - 1.
Cell(ptr, k) ==
  LET row == (ptr + k \div N) % N
      col == k % N
      cur_index == m_dpa_map[row + N - 1 - col][col]
  IN  <<cur_index \div N, cur_index % N>>
Sweep == [ptr \in Ports |-> [k \in 1 .. N * N |-> Cell(ptr, k - 1)]]

\* The masks: a row or a column is open until a cell of it is granted.
Open(c, granted) == \A g \in granted : g[1] # c[1] /\ g[2] # c[2]

\* The cells granted when the sweep has visited k of them.
Granted(sweep) ==
  LET upTo[k \in 0 .. Len(sweep)] ==
        IF k = 0 THEN {}
        ELSE LET before == upTo[k - 1]
             IN  IF sweep[k] \in m_requests /\ Open(sweep[k], before)
                 THEN before \cup {sweep[k]}
                 ELSE before
  IN  upTo[Len(sweep)]

\* Mutants of arbitration: old grants stay; the pointer does.
GrantsKept ==
  /\ m_ptr' = (m_ptr + 1) % N
  /\ UNCHANGED m_requests
  /\ m_grants' = m_grants \cup Granted(Sweep[m_ptr])
PointerKept ==
  /\ UNCHANGED <<m_ptr, m_requests>>
  /\ m_grants' = Granted(Sweep[m_ptr])

\* Every visited cell is overwritten, whether it is granted or not.
arbitration ==
  /\ m_ptr' = (m_ptr + 1) % N
  /\ UNCHANGED m_requests
  /\ m_grants' = LET sweep == Sweep[m_ptr]
                 IN  (m_grants \ {sweep[k] : k \in DOMAIN sweep}) \cup Granted(sweep)

\* Callers may pass any number; -1 and N stand for the invalid ones.
Requests == \E i, j \in -1 .. N : request(i, j)

Next == Requests \/ arbitration

Spec == Init /\ [][Next]_vars /\ WF_vars(arbitration)

-----------------------------------------------------------------------------
TypeOK == /\ m_ptr \in Ports
          /\ m_requests \subseteq Ports \X Ports
          /\ m_grants \subseteq Ports \X Ports

\* The grants of one arbitration connect requesting pairs only and no input or
\* output twice; no grant of an earlier arbitration is left over, although
\* the matrix is only overwritten and never cleared (dpa.cpp:79-122).
Matching ==
  /\ m_grants \subseteq m_requests
  /\ \A x, y \in m_grants : x[1] = y[1] <=> x[2] = y[2]

\* An arbitration leaves no request ungranted whose input and output are both
\* free: the wrap-around table makes the sweep visit every cell, also when it
\* starts in the middle (dpa.cpp:40-51, 85-122).
Maximal ==
  [][arbitration => \A c \in m_requests : ~Open(c, m_grants')]_vars

\* Every pair that has requested is granted again and again, however many
\* others request: the starting diagonal comes round (dpa.cpp:124-125).
EveryRequestServed ==
  \A c \in Ports \X Ports : c \in m_requests ~> c \in m_grants
=============================================================================
