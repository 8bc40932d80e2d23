------------------------------ MODULE SrvTests ------------------------------
(***************************************************************************)
(* The tests of srv_cpu/test/test.cpp that drive an object with state,     *)
(* which sc_main runs before the simulation starts: RUN_ALL_TESTS calls    *)
(* TEST(tokenbucket) and TEST(PFC), then TEST_dpa and TEST_sch follow.     *)
(* Each test makes objects of its own, so `test' says which is running and *)
(* the others' objects do not exist: their variables keep their values.    *)
(* Where a test makes a fixed list of calls, any calls are made here.      *)
(***************************************************************************)
EXTENDS Dpa

CONSTANTS m_arb_num, MaxLen,        \* inputs of the basic_sch; bound on their length
          rate, capacity, MaxTime,  \* of the token bucket; bound on its clock
          NodeCapacity, Sizes, QueueCapacity, Priorities  \* of the buffers

ASSUME SrvTestsAssumption ==
  /\ {m_arb_num, MaxLen, QueueCapacity} \subseteq Nat \ {0}
  /\ {rate, capacity, MaxTime, NodeCapacity} \subseteq Nat
  /\ Sizes \subseteq Nat

VARIABLES test,
          m_input, m_last_grant_id, sch_ret,
          tokens, last_time, now, used,
          buffer, buffer_usage, queues, frames, dropped

schVars == <<m_input, m_last_grant_id, sch_ret>>
bucketVars == <<tokens, last_time, now, used>>
pfcVars == <<buffer, buffer_usage, queues, frames, dropped>>
testVars == <<test, vars, schVars, bucketVars, pfcVars>>

Sch == INSTANCE RrSch
Bucket == INSTANCE TokenBucket
Pfc == INSTANCE PfcBuffers

TestsInit == /\ test \in {"tokenbucket", "PFC", "dpa", "sch"}
             /\ Init /\ Sch!Init /\ Bucket!Init /\ Pfc!Init

\* What each test does when it runs.
Tokenbucket == /\ test = "tokenbucket"
               /\ Bucket!Next
               /\ UNCHANGED <<test, vars, schVars, pfcVars>>
PFC == /\ test = "PFC"
       /\ Pfc!Next
       /\ UNCHANGED <<test, vars, schVars, bucketVars>>
Dpa_request == /\ test = "dpa"
               /\ Requests
               /\ UNCHANGED <<test, schVars, bucketVars, pfcVars>>
Dpa_arbitration == /\ test = "dpa"
                   /\ arbitration
                   /\ UNCHANGED <<test, schVars, bucketVars, pfcVars>>
TEST_sch == /\ test = "sch"
            /\ Sch!Next
            /\ UNCHANGED <<test, vars, bucketVars, pfcVars>>

TestsNext == Tokenbucket \/ PFC \/ Dpa_request \/ Dpa_arbitration \/ TEST_sch

\* TEST_dpa calls arbitration in a loop.
TestsSpec == /\ TestsInit /\ [][TestsNext]_testVars
             /\ WF_testVars(Dpa_arbitration)

-----------------------------------------------------------------------------
\* Each grant of rr_sch brings every waiting input closer to its turn, whatever
\* arrives meanwhile: none is passed over more than m_arb_num - 1 times
\* (sch.cpp:36-41).
BoundedBypass == Sch!BoundedBypass

\* The token bucket hands out exactly what a bucket of its capacity and rate
\* may, over every window of time, however the calls are spaced
\* (test.cpp:210-228).
RateExact == Bucket!RateExact

\* NetworkNode's usage counter is the data in its buffer and stays within its
\* capacity, through any sequence of sends, refusals and receives
\* (test.cpp:254-275).
UsageIsExact == Pfc!UsageIsExact

\* A sender is told before its packets are dropped: whenever a queue of Switch
\* is full, the last call of sendPacket, for whatever priority, sent a pause
\* frame for it (test.cpp:340-349).
PausedBeforeDropped == Pfc!PausedBeforeDropped
=============================================================================
