----------------------------- MODULE TokenBucket ----------------------------
(***************************************************************************)
(* TokenBucket of srv_cpu/test/test.cpp: a bucket filled at a rate up to a *)
(* capacity, from which callers take tokens at any time.  consume holds    *)
(* the mutex from end to end, so a call is one step.  Tokens and times are *)
(* whole numbers here; rounding of the doubles is left out.                *)
(***************************************************************************)
EXTENDS Integers, FiniteSetsExt

CONSTANTS rate, capacity,
          MaxTime  \* bound on the clock

VARIABLES tokens, last_time,
          now,   \* steady_clock
          used   \* used[s]: tokens consumed at time s or later

bucketVars == <<tokens, last_time, now, used>>

Times == 0 .. MaxTime

Init == /\ tokens = capacity
        /\ last_time = 0 /\ now = 0
        /\ used = [s \in Times |-> 0]

\* add_tokens: what it leaves in the bucket.
Refilled == Min({capacity, tokens + (now - last_time) * rate})

\* Mutant of consume: a call that fails loses what flowed in.
ConsumeDrops(n) ==
  /\ last_time' = now
  /\ IF Refilled >= n
     THEN /\ tokens' = Refilled - n
          /\ used' = [s \in Times |-> IF s <= now THEN used[s] + n ELSE used[s]]
     ELSE UNCHANGED <<tokens, used>>
  /\ UNCHANGED now

\* consume(n) returns true in the first case, false in the second; both keep
\* the tokens added and the time they were added at.
consume(n) ==
  /\ last_time' = now
  /\ IF Refilled >= n
     THEN /\ tokens' = Refilled - n
          /\ used' = [s \in Times |-> IF s <= now THEN used[s] + n ELSE used[s]]
     ELSE tokens' = Refilled /\ UNCHANGED used
  /\ UNCHANGED now

TimePasses == /\ now < MaxTime
              /\ now' = now + 1
              /\ UNCHANGED <<tokens, last_time, used>>

Next == TimePasses \/ \E n \in 1 .. capacity : consume(n)

-----------------------------------------------------------------------------
\* What a token bucket may hand out at this moment: over every window of time
\* that ends now, a full bucket and what flows in, less what was taken.
Allowed == Min({capacity + (now - s) * rate - used[s] : s \in 0 .. now})

\* The bucket hands out exactly that, however its callers are spaced and
\* although it adds up the time at calls only, also at calls that fail: no
\* window ever gets more, and no token is held back (test.cpp:210-228).
RateExact == Refilled = Allowed /\ Allowed >= 0
=============================================================================
