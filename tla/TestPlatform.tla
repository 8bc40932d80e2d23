---------------------------- MODULE TestPlatform ----------------------------
(***************************************************************************)
(* The two QoS arbiters of round_robin/main.cpp, each a thread over four   *)
(* input queues of its own: QoSRRArbitration, one round robin by a key     *)
(* that puts the QoS value above the place in the turn, and                *)
(* QoSRRPrioLevelArbitration, a round robin for each QoS level, tried from *)
(* the highest level down.                                                 *)
(*                                                                         *)
(* A step is one round of a thread's loop, one grant a period.  A thread   *)
(* whose inputs are empty waits for m_push_evt, which nothing notifies.    *)
(* The first thread starts at 10 ns and the second at 20 ns, so the second *)
(* finds the first at its end.                                             *)
(***************************************************************************)
EXTENDS Integers, Sequences, FiniteSetsExt

CONSTANTS N,         \* kInputPortNum
          QosLevels, \* t_priority_level
          QosLowBit, \* t_qos_low_bit == log2(N) + 1
          MaxLen     \* bound: payloads per input

ASSUME TestPlatformAssumption ==
  /\ N \in Nat \ {0} /\ QosLevels \in Nat \ {0}
  /\ QosLowBit \in Nat /\ N <= 2 ^ QosLowBit
  /\ MaxLen \in Nat /\ N * MaxLen <= 10  \* the first thread's time to itself

Inputs == 0 .. N - 1
Levels == 0 .. QosLevels - 1

VARIABLES qos_input, qos_last,     \* m_input[4..7]; t_last_grant_id
          level_input, level_last  \* m_input[8..11]; t_last_grant_id of each level

qosVars == <<qos_input, qos_last>>
levelVars == <<level_input, level_last>>
arbiterVars == <<qosVars, levelVars>>

\* PushPeq gives both groups the same contents; which, is edited by hand (lines
\* 45 to 48), so any.
PushPeq == /\ qos_input \in [Inputs -> UNION {[1 .. n -> Levels] : n \in 0 .. MaxLen}]
           /\ level_input = qos_input

ArbiterInit == /\ PushPeq
               /\ qos_last = N - 1
               /\ level_last = [level \in Levels |-> N - 1]

Waiting(input) == {i \in Inputs : input[i] # <<>>}

\* pop_front of the input granted.
Popped(input, i) == [input EXCEPT ![i] = Tail(@)]

-----------------------------------------------------------------------------
port_priority(i) == (N - (i - qos_last)) % N

\* Mutant of total_priority: the two parts of the key overlap.
KeyOverlaps(i) == Head(qos_input[i]) * (N \div 2) + port_priority(i)

total_priority(i) == Head(qos_input[i]) * 2 ^ QosLowBit + port_priority(i)

\* The first input with the highest key.
QosGrant ==
  Min({i \in Waiting(qos_input) :
         \A j \in Waiting(qos_input) : total_priority(j) <= total_priority(i)})

QoSRRArbitration ==
  /\ Waiting(qos_input) # {}
  /\ qos_input' = Popped(qos_input, QosGrant)
  /\ qos_last' = QosGrant
  /\ UNCHANGED levelVars

-----------------------------------------------------------------------------
\* How many steps of the walk after input `last` input i is reached, N for
\* `last` itself.
Distance(last, i) == IF i > last THEN i - last ELSE i - last + N

AtLevel(level) == {i \in Waiting(level_input) : Head(level_input[i]) = level}

\* Mutant of Turn: the search starts at input 0.
TurnFromZero(level) == Min(AtLevel(level))

\* The walk from the pointer of a level: it stops at the first input with that
\* level in front; finding none it has gone once round and left the pointer in
\* place.
Turn(level) ==
  CHOOSE i \in AtLevel(level) : \A j \in AtLevel(level) :
    Distance(level_last[level], i) <= Distance(level_last[level], j)

\* The level at which the search over levels stops.
LevelGranted(level) == /\ AtLevel(level) # {}
                       /\ \A l \in Levels : l > level => AtLevel(l) = {}

QoSRRPrioLevelArbitration ==
  /\ Waiting(qos_input) = {}
  /\ \E level \in Levels :
       /\ LevelGranted(level)
       /\ level_input' = Popped(level_input, Turn(level))
       /\ level_last' = [level_last EXCEPT ![level] = Turn(level)]
  /\ UNCHANGED qosVars

ArbiterNext == QoSRRArbitration \/ QoSRRPrioLevelArbitration

-----------------------------------------------------------------------------
\* The single key does what it is for: the payload granted has the highest QoS
\* of those in front, and among the inputs that have one of that QoS it is the
\* turn of the one granted (main.cpp:143-160).
QosThenTurn ==
  [][\A i \in Waiting(qos_input) : qos_input'[i] # qos_input[i] =>
       \A j \in Waiting(qos_input) \ {i} :
         LET before(k) == Distance(qos_last, k)
         IN  \/ Head(qos_input[i]) > Head(qos_input[j])
             \/ Head(qos_input[i]) = Head(qos_input[j]) /\ before(i) < before(j)]_arbiterVars

\* No payload is granted before one of a higher level, and an input waiting at a
\* level comes closer to its turn with every grant of that level to another
\* while grants of other levels do not set it back: at most N - 1 payloads of
\* its own level pass it (main.cpp:203-222).
LevelThenTurn ==
  [][\A i, j \in Waiting(level_input) :
       level_input'[i] # level_input[i] /\ i # j =>
         LET level == Head(level_input[j])
             before == Distance(level_last[level], j)
             after == Distance(level_last'[level], j)
         IN  \/ Head(level_input[i]) = level /\ after < before
             \/ Head(level_input[i]) > level /\ after = before]_arbiterVars
=============================================================================
