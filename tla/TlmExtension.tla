---------------------------- MODULE TlmExtension ----------------------------
(***************************************************************************)
(* tlm_extension: Initiator sends one transaction per nanosecond with a    *)
(* payload of its pool and a new extension attached; Target delays it in   *)
(* its peq and returns it from a clocked method, deleting the extension;   *)
(* the return releases the payload into the pool.                          *)
(*                                                                         *)
(* Each nanosecond runs request and response once, in any order.  The      *)
(* reference count of a payload is 1 while it is held and 0 otherwise:     *)
(* acquire follows allocate at once and release leads to free at once.     *)
(* Contents and address of a transaction, and the data word all of them    *)
(* share, are left out.                                                    *)
(***************************************************************************)
EXTENDS MmPool, PeqOps

CONSTANT Spread  \* target.h: cnt = 1 + rand() % 1

ASSUME SpreadAssumption == Spread \in Nat \ {0}

VARIABLES
  m_peq,     \* Target's delay queue, the payloads in flight
  ext,       \* ext[p]: what p's extension pointer points to
  pending,   \* methods still to run in this nanosecond
  looping    \* response is inside its loop

tlmVars == <<vars, m_peq, ext, pending, looping>>

Methods == {"request", "response"}

TlmInit == /\ Init
           /\ m_peq = <<>>
           /\ ext = [p \in Payloads |-> "none"]
           /\ pending = Methods
           /\ looping = FALSE

\* Initiator::request and the nb_transport_fw it calls.
request ==
  /\ "request" \in pending /\ ~looping
  /\ pending' = pending \ {"request"}
  /\ \E p \in Payloads, cnt \in 1 .. Spread :
       /\ allocate(p)
       /\ held' = held \cup {p}
       /\ ext' = [ext EXCEPT ![p] = "live"]
       /\ m_peq' = PeqDelay(m_peq, p, cnt)
  /\ UNCHANGED looping

Due == m_peq # <<>> /\ Head(m_peq).due = 0

\* Mutant of respond: the payload is released and stays queued.
RespondKeeps ==
  LET p == Head(m_peq).val
  IN  /\ ext' = [ext EXCEPT ![p] = "deleted"]
      /\ free(p)
      /\ held' = held \ {p}
      /\ m_peq' = Append(Tail(m_peq), [due |-> 1, val |-> p])

\* One round of the loop in Target::response: the extension is read and
\* deleted, nb_transport_bw is called and releases the payload.
respond ==
  LET p == Head(m_peq).val
  IN  /\ m_peq' = Tail(m_peq)
      /\ ext' = [ext EXCEPT ![p] = "deleted"]
      /\ free(p)
      /\ held' = held \ {p}

\* Mutant of response: if for while, one payload a nanosecond.
ResponseOnce ==
  /\ "response" \in pending
  /\ pending' = pending \ {"response"}
  /\ IF Due THEN respond ELSE UNCHANGED <<vars, m_peq, ext>>
  /\ UNCHANGED looping

response ==
  /\ "response" \in pending
  /\ IF Due
     THEN respond /\ looping' = TRUE /\ UNCHANGED pending
     ELSE /\ looping' = FALSE
          /\ pending' = pending \ {"response"}
          /\ UNCHANGED <<vars, m_peq, ext>>

NextNanosecond == /\ pending = {}
                  /\ pending' = Methods
                  /\ m_peq' = PeqAge(m_peq)
                  /\ UNCHANGED <<vars, ext, looping>>

TlmNext == request \/ response \/ NextNanosecond

TlmSpec == TlmInit /\ [][TlmNext]_tlmVars

-----------------------------------------------------------------------------
\* The payloads in use are those in flight, each once and with a live
\* extension: Target never reads a payload that went back to the pool or an
\* extension deleted on an earlier use of the same payload, and none leaks.
\* None stays longer than its delay: when both methods have run, in either
\* order, what falls due in this nanosecond is back, also when payloads sent in
\* different ones fall due together (initiator.h:32-56, 73-86; target.h:27-66).
InFlightIsHeld ==
  /\ \A i \in DOMAIN m_peq : ext[m_peq[i].val] = "live"
  /\ held = {m_peq[i].val : i \in DOMAIN m_peq}
  /\ Len(m_peq) = Cardinality(held)
  /\ pending = {} => PeqReady(m_peq) = <<>>

\* As many payloads as a delay is long, and one more, serve a run of any
\* length, whichever method runs first, and the pool makes no more access nodes
\* than it has payloads: spare nodes are found again (utilities.h:61-71).
PoolBounded == created <= Spread + 1 /\ Len(node) <= created
=============================================================================
