------------------------------- MODULE Islip --------------------------------
(***************************************************************************)
(* srv_cpu/islip: one-iteration iSLIP scheduling of an N x N crossbar, and *)
(* a loop like TEST_islip (test.cpp) that drives it: each slot calls       *)
(* init(), then set_ql for every queue that holds something, then          *)
(* islip_sch().  TEST_islip reports all queues full in every slot; here    *)
(* queues fill at any time and may be emptied by being served, by nothing  *)
(* else.  The Boolean matrices m_ql, m_request, m_grant, m_accept are the  *)
(* sets of <<input, output>> pairs they are true at.                       *)
(***************************************************************************)
EXTENDS Naturals, FiniteSets

CONSTANTS N,      \* m_num_port
          Demand  \* the pairs traffic may arrive for

Ports == 0 .. N - 1

ASSUME IslipAssumption == N \in Nat \ {0} /\ Demand \subseteq Ports \X Ports

VARIABLES m_gi, m_ai,   \* priority pointers of the outputs and the inputs
          m_ql, m_request, m_grant, m_accept,
          sch_result,   \* the pairs connected
          step,         \* which call the driver makes next
          voq           \* driver: the queues that hold something

matrices == <<m_ql, m_request, m_grant, m_accept>>
vars == <<m_gi, m_ai, matrices, sch_result, step, voq>>

Init == /\ m_gi = [p \in Ports |-> p]
        /\ m_ai = [p \in Ports |-> p]
        /\ m_ql = {} /\ m_request = {} /\ m_grant = {} /\ m_accept = {}
        /\ sch_result = {}
        /\ step = "init"
        /\ voq = {}

\* Mutant of init: the accepts of the last slot stay.
InitKeepsAccept ==
  /\ step = "init" /\ step' = "load"
  /\ m_ql' = {} /\ m_request' = {} /\ m_grant' = {}
  /\ sch_result' = {}
  /\ UNCHANGED <<m_gi, m_ai, m_accept, voq>>

\* The slot begins: the driver has sent what the last one connected, which may
\* have emptied those queues.
init == /\ step = "init" /\ step' = "load"
        /\ m_ql' = {} /\ m_request' = {} /\ m_grant' = {} /\ m_accept' = {}
        /\ sch_result' = {}
        /\ \E emptied \in SUBSET sch_result : voq' = voq \ emptied
        /\ UNCHANGED <<m_gi, m_ai>>

\* The driver's calls of set_ql.
set_ql == /\ step = "load" /\ step' = "sch"
          /\ m_ql' = m_ql \cup voq
          /\ UNCHANGED <<m_gi, m_ai, m_request, m_grant, m_accept, sch_result, voq>>

\* New traffic, while the driver finds out what to report.
arrive(d) == /\ step = "load"
             /\ d \notin voq
             /\ voq' = voq \cup {d}
             /\ UNCHANGED <<m_gi, m_ai, matrices, sch_result, step>>

\* Mutant of the search: it starts at port 0 whatever the pointer says.
FirstFromZero(p, S) == CHOOSE x \in S : \A y \in S : x <= y

\* The search both loops make: the member of S met first, going round from p.
FirstFrom(p, S) ==
  CHOOSE x \in S : \A y \in S : (x + N - p) % N <= (y + N - p) % N

Requesting(req, j) == {i \in Ports : <<i, j>> \in req}
Granting(gr, i) == {j \in Ports : <<i, j>> \in gr}

send_request == m_request \cup m_ql
do_grant(req) ==
  m_grant \cup {<<FirstFrom(m_gi[j], Requesting(req, j)), j>> :
                  j \in {o \in Ports : Requesting(req, o) # {}}}
\* Input i accepts the first output from its pointer, and moves the pointer.
Choice(gr, i) == FirstFrom(m_ai[i], Granting(gr, i))
do_accept(gr) ==
  m_accept \cup {<<i, Choice(gr, i)>> : i \in {p \in Ports : Granting(gr, p) # {}}}

\* A pointer moves one beyond the port served.
Beyond(p) == (p + 1) % N

\* Mutant of the update: the pointer stays on the input served.
StaysOn(acc, j) ==
  CHOOSE i \in Ports : \E k \in Requesting(acc, j) : Beyond(i) = k

\* An output with several accepting inputs ends with the last one's successor.
LastAccepting(acc, j) ==
  CHOOSE i \in Requesting(acc, j) : \A k \in Requesting(acc, j) : k <= i

\* The four calls in order; each singleton names the matrix one call leaves.
islip_sch ==
  /\ step = "sch" /\ step' = "init"
  /\ \E req \in {send_request} :
     \E gr \in {do_grant(req)} :
     \E acc \in {do_accept(gr)} :
       /\ m_request' = req /\ m_grant' = gr /\ m_accept' = acc
       /\ m_ai' = [i \in Ports |-> IF Granting(gr, i) = {} THEN m_ai[i]
                                   ELSE Beyond(Choice(gr, i))]
       /\ m_gi' = [j \in Ports |-> IF Requesting(acc, j) = {} THEN m_gi[j]
                                   ELSE Beyond(LastAccepting(acc, j))]
       /\ sch_result' = sch_result \cup acc
  /\ UNCHANGED <<m_ql, voq>>

Slot == init \/ set_ql \/ islip_sch
Next == Slot \/ \E d \in Demand : arrive(d)

\* The driver's loop runs on, whatever arrives.
Spec == Init /\ [][Next]_vars /\ WF_vars(Slot)

-----------------------------------------------------------------------------
TypeOK == /\ m_gi \in [Ports -> Ports] /\ m_ai \in [Ports -> Ports]
          /\ m_ql \subseteq Demand
          /\ \A m \in {m_request, m_grant, m_accept, sch_result} : m \subseteq Demand
          /\ step \in {"init", "load", "sch"}
          /\ voq \subseteq Demand

\* A crossbar setting connects no port twice and only ports with traffic.
Matching == /\ sch_result \subseteq m_ql
            /\ \A x, y \in sch_result : x[1] = y[1] <=> x[2] = y[2]

\* How far port x is from a pointer at p, in the order of the searches.
Away(p, x) == (x + N - p) % N

\* The input output j would grant if the queues stayed as they are.
Favoured(j) == FirstFrom(m_gi[j], Requesting(voq, j))

\* How long queue d may still wait: first for its output's pointer to reach its
\* input, then for that output to settle on one input before it, then for that
\* input's pointer to come round to the output and move the output's pointer.
Wait(d) == (Away(m_gi[d[2]], d[1]) * N + Away(m_gi[d[2]], Favoured(d[2]))) * N
             + Away(m_ai[Favoured(d[2])], d[2])

\* No queue starves, and there is a bound: each slot that does not serve a queue
\* that holds something brings it strictly closer to being served, and nothing
\* that happens between the slots, arrivals in other queues included, sets it
\* back.  So it waits for less than N^3 slots (islip.cpp:78-133: a pointer moves
\* only past a port that was served).
BoundedWait ==
  [][\A d \in voq \cap voq' : IF step = "sch"
                             THEN d \in sch_result' \/ Wait(d)' < Wait(d)
                             ELSE Wait(d)' <= Wait(d)]_vars

\* Under full load the output pointers stop clashing: from some slot on every
\* slot connects all ports, whatever traffic came before.
FullThroughput ==
  <>[](voq = Ports \X Ports)
    => <>[](step = "init" => Cardinality(sch_result) = N)
=============================================================================
