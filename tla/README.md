# A TLA+ model of my_systemc_library

The repository is a collection of SystemC exercises. Most of `src/` is vendored
(SystemC, gtest, gmock, spdlog headers and libraries under `src/include` and
`src/libs`). Its own code is about forty small files; what they have in common
is hardware-style scheduling: queues with delays, credits, id pools, crossbar
and round-robin arbiters, run by the SystemC kernel. This directory models the
parts that carry state and a protocol, checks them with TLC on small instances,
and proves results about them with TLAPS.

## 1. Inventory

All paths are relative to `src/`. "Order" is the recurring difficulty: SystemC
runs the processes of one clock edge one after the other, each to completion,
in an order that the standard leaves open.

| Component | State | Operations | Interacts with | What is hard | Correct when |
|---|---|---|---|---|---|
| **credit loop**, `srv_cpu/src.*`, `tgt.*`, `top.h` | credit, value; request queue, two delay queues, two ready queues, send queue, mark queue | `src::mth_entry`, `tgt::mth_entry` (three stages), two `nb_transport_fw` | `src` and `tgt` call each other synchronously inside a step | order on every edge; credits and data travel in separate queues | credits conserved, paths in step, echoes in order, never stalls, bounded latency |
| **accelerator**, `srv_cpu/accl` | five id pools, three split queues, four parent maps, four counters per level, a delay queue | four `split_*`, `mth_get_peq`, four `reclaim_*` per clock edge | its `peq` | pools that run dry mid-split, ids reused, beats out of order, cascading reclaim | ids partitioned, no dangling id, books balance, all work completes |
| **peq**, `srv_cpu/peq/peq.h` and three copies | multimap of due times, frequency | `delay` (two forms), `get_next_transaction`, `cancel_all`, `set_freq` | credit loop, accelerator, CC/DD | ties, overdue entries, a unit that changes between calls | delivers as a timed bag |
| **iSLIP**, `srv_cpu/islip` | four matrices, two pointer vectors, result | `init`, `set_ql`, `islip_sch` (request, grant, accept) | `TEST_islip` | decentralised choices; fairness comes from pointer rules only | result is a matching; no starvation; full throughput |
| **DPA**, `srv_cpu/dpa/dpa.*` | pointer, requests, grants, cell table | `request`, `arbitration`, `has_granted` | its test | wrap-around table, results overwritten not cleared | maximal matching; every request served |
| **round-robin scheduler**, `srv_cpu/sch` | input queues, last grant | `set_val`, `rr_sch` | `TEST_sch` | pointer moved while searching | bounded bypass |
| **ring FIFO**, `sc_fifo/scc_sc_fifo.h` and its twin | ring, two indices, free count; a deque | `write`, `read`, `nb_write`, `nb_read` | its mains | wrap-around; `nb_write` lacks a return | a bounded FIFO queue |
| **kernel FIFO**, `include/systemc/.../sc_fifo.h` | the same ring; three counts for the delta cycle; two events | `write`, `read` (blocking), `nb_write`, `nb_read`, `update` | A and BB, `module_communication`; the kernel | calls of two processes in one delta cycle; who is woken | answers do not depend on the order of processes; nobody waits in vain |
| **DPA in VHDL**, `srv_cpu/dpa/voq_c_bar.vhd` | priority vector | rotating window, combinational grants of 28 wired cells | - | wiring written out by hand | same grants as the C++ |
| **clocked pairs** CC/DD and A/BB, `srv_cpu/top.h`, `main.cpp` | a `peq`; a 16-deep `sc_fifo` | one method each per edge | each pair, in the same simulation as the credit loop | one pop per edge; `nb_write` unchecked | consumers keep up, nothing lost |
| **arbiter threads**, `round_robin/main.cpp` | input queues, last grant (of each level) | three `SC_THREAD` loops, `PushPeq` | the kernel | QoS and turn in one key; a pointer per level; a loop that must give control back | highest QoS first, turns kept, the simulation ends |
| **transaction pool**, `tlm_extension` | chain of access nodes; delay queue; extensions | `mm::allocate`, `mm::free`; `Initiator`, `Target` | Initiator and Target call each other; both use the pool | nodes reused, extension deleted while the payload points at it | pool is a stack; nothing used after it was given back |
| **queue with callback**, `peq/peq_with_cb_and_phase.h` | four lists, one `sc_event` | `notify` in three forms, `cancel_all`, `fec` | the kernel; callbacks re-enter it | one event announces many entries | no wake-up lost |
| **queues with an event**, `peq/peq_with_get.h`, `peq_scc.h` | multimap and one `sc_event` | `notify` in two forms, `get_next_transaction`, `cancel_all` | kernel events; a reader that may be away | one event, one pending notification, many entries | no wake-up lost, every entry leaves |
| **producer and consumer**, `ab_communication`, `arbitration` | one queue | push every 1 ns, pop every 2 ns | each calls the other's transport | the pop does not look whether there is anything | every pop gets the next payload |
| **module communication**, `module_communication` | an `sc_fifo`; an `sc_signal` | two writers, two readers per edge | kernel evaluate and update | reader and writer on one edge | the reader sees the last edge's value |
| **traffic classes**, `srv_cpu/test/test.cpp` | token bucket; buffer counters; a WRED queue; a CRC table | one class each | their own test | time accounted at calls only; a check after the fact | rate exact over every window; usage exact; paused before dropped |
| **packet encapsulation**, `srv_cpu/network` | one header | one function | its test | 16-bit sums | the checksum verifies (it does not) |
| socket and kernel exercises, `tlm_communication`, `sc_pratice`, ... | one number, printed | one method each | - | - | nothing to specify |
| language exercises | none | - | - | - | nothing to specify |

`PROJECT.json` lists the same parts with the modules that cover them, and every
hazard met while reading, at its line, with the properties aimed at it or the
reason there is none.

## 2. Modules

### Credit loop and pairs: `CreditLoop`, `CreditWindow`, `CreditLatency`, `SrvPairs`, `SrvMain`, `PeqOps`

`top` gives `src` 3 credits. On each edge of the 1 ns clock `src` sends one
value if it has a credit; the call runs `tgt::nb_transport_fw` at once. `tgt`
starts a delay of six cycles for one request per edge, and with it a second
delay for one credit; when both are over, every second edge sends one credit and
one echoed value back, each a call into `src`.

* `SrcEntry` and `TgtEntry` are the two `mth_entry` methods, calls into the
  other class included. `pending` is the set of processes the current edge has
  still to run; either may be first, and the choice is made anew on each edge.
  `ClockEdge` is the kernel's step to the next edge.
* `PeqOps` holds what a `peq` contains as a sequence in due-time order, with due
  times counted from now in clock periods, 0 meaning "due or overdue". That the
  relative view loses nothing is `RelativeViewExact` of `EventQueues`.
* A payload is the counter `m_val`, modulo `ValMod`. The counter of cycles is
  kept modulo the send period, the only thing read of it. `m_peq_ctl_stat`, a
  queue whose entries are never looked at, is kept as a number; it could go below
  0, and `StatMatchesDebt` says it does not. Logging and `cal_speed` are left out.
* `CreditWindow` is the promise with queues and clock removed: a loop-back
  channel with window flow control. `CreditLoop` implements it with
  `chan <- InFlight`, the values in the order they will come back.
* `CreditLatency` extends the loop with a stopwatch per value in flight.
* `SrvPairs` has one action per method of CC, DD, A and BB. Its `sc_fifo` is the
  one `DeltaFifo` promises: what is written on an edge is readable on the next,
  and what is read frees its slot on the next.
* `SrvMain` is the simulation `sc_main` runs: loop and pairs side by side, six
  processes per edge in any order. The clock of `top` and that of the pairs have
  one period and start together, so `ClockEdge` is one step for all.

### Accelerator: `Accl`, `MCAccl`

One action is one edge: the calls of `mth_entry` applied in the order of the
source to a record of the state, then one period passes. The four split
functions share one loop (`Draw`), the four reclaim functions their updates
(`Return`, `Close`), as the source's differ in the names of pools and maps only. The
levels sg, stripe, su, rdtxn, dat are the numbers 1 to 5. `rand() % 100` is any
function from the beats drawn on an edge to the set `Delays`.

### Payload event queue: `Peq`, `TimedBag`

All operations with absolute time. `set_freq` may be called between any two
others. `TimedBag` is the specification: a set of payloads with due times which
gives the earliest due one. Payloads are numbered by call, which tells equals
apart. `EventQueues` checks it beside the queues driven by events.

### Schedulers: `Islip`, `Dpa`, `VoqCBar`, `RrSch`

`Islip` splits a slot at the three calls a driver makes. `TEST_islip` reports
every queue full in every slot; the driver of the model lets traffic arrive at
any time for any pair in `Demand`, and a queue becomes empty by being served and
in no other way. This matters: if requests could vanish unserved, a three-port
switch can starve a port for ever, since a pointer waits for a request that
comes and goes. The virtual output queues of a switch do not behave so, and the
no-starvation property is stated for those. The loops "first from the pointer,
going round" are `FirstFrom`.

That no queue starves is stated as a bound, `BoundedWait`: `Wait(d)` is a number
below N^3 which every slot that does not serve queue d makes smaller and nothing
else makes larger. It says how long a queue waits, where "it is served
eventually" would say only that it does; and being about single steps it needs
no fairness. Its three digits are: how far the output's pointer is from the
input; how far from the pointer the input is that the output grants meanwhile;
how far that input's own pointer is from the output.

`Dpa` keeps the cell table of the constructor with its repeated rows, since the
hazard is in its index arithmetic, and visits it in the order of the two nested
loops. The row and column masks, recomputed on each call, are the predicate
`Open` on the cells granted before.

`RrSch` is `rr_sch` with the pop its caller makes. The search that advances
`m_last_grant_id` step by step is the minimum of `Distance`; when nothing waits
it goes all the way round and leaves the pointer where it was.

`VoqCBar` is the VHDL. The 28 port maps fold a torus into seven rows; where each
cell takes its North, its West, its mask bit and its request from is given by
four operators that name all 28 at once. The cell entity itself is not in the
repository and is modelled from its ports: it grants when its request, its mask
and both inputs are high, and a grant pulls its outputs low. The module
instantiates `Dpa` with the vector's window as `m_ptr` and compares the grants.

### Stand-alone programs: `TestPlatform`, `AbComm`, `ModuleComm`, `Programs`, `RrSpin`

`TestPlatform` has the two QoS arbiters of `round_robin/main.cpp`, one action
per round of their loops, from any contents `PushPeq` may be edited to push. The
constructor registers `RRArbitration` only; the module models the two others as
they run when they are registered in its place. `RrSpin` is the program as it is
built: `PushPeq` and `RRArbitration` under a kernel that gives control to one
thread at a time. The search is `RrSch`; what is new is the head of the loop,
which continues without a wait when all inputs are empty.

`AbComm` has the two methods of `ab_communication` on their two clocks. The extra
run of `src` in the initialization phase is an action, because the consumer lives
on it. `ModuleComm` has the processes of `module_communication/inside` around an
`sc_fifo` (as `DeltaFifo` promises) and C and D of `outside` around an
`sc_signal`, which has a current and a new value and an update phase.

`Programs` puts these three state machines into one run, one program at a time.

### Objects of the tests: `SrvTests`, `TokenBucket`, `PfcBuffers`

`sc_main` of `srv_cpu` runs the tests before the simulation. `TokenBucket` has
`consume` as one step, since it holds the mutex throughout; `used` is a history
variable, what was consumed from each moment on. `RateExact` compares the bucket
at every moment with the definition of a token bucket by its windows. Tokens and
times are whole numbers: rounding is left out. `PfcBuffers` has `NetworkNode`
and `Switch` with the frames the last call sent. `SrvTests` extends `Dpa` and
instantiates `RrSch`, `TokenBucket` and `PfcBuffers`, one test at a time; where
a test makes a fixed list of calls the model makes any.

### Packet header: `Encapsulate`

The IP header as ten words in memory and the loop that sums it, a step per word,
because the loop reads the field it writes.

### Transaction pool: `MmPool`, `PayloadStack`, `TlmExtension`

`MmPool` is `mm`: the doubly linked chain of access nodes with the two pointers
`free_list` and `empties` into it, kept as the source keeps them. `PayloadStack`
is the specification: a stack of free payloads and a set of those in use.
`TlmExtension` puts `Initiator::request` and `Target::response` over it. A
response is a step per round of its loop. The reference count of a payload, 1
while it is held and 0 otherwise, is the set `held`. `target.h` delays by
`1 + rand() % 1` cycles, always one; `Spread` allows more, so that payloads come
back out of order and the chain is exercised.

### Event-driven queues: `CbPeq`, `EventPeq`, `EventQueues`

`fec` is cut at its calls of `m_cb`: the callback may call `notify` any number of
times before it returns, on the lists `fec` is walking. `sc_event` is external:
of several notifications the earliest stays, an immediate one cancels it, and
the kernel ignores an immediate notification of a process by itself. `Callbacks`
says which forms of `notify` the callbacks of each loop use. With `Careful`,
immediate notification from the immediate loop only, everything holds. It does
not hold for immediate notification from the two later loops: the payload goes
to the list `fec` has already left, the pending notification is cancelled and
`fec` is not woken, so the payload waits until somebody else notifies. No user
of the class in the repository does this, and no property of the project is about
it: `Announced` and its theorem leave it out.

`EventPeq` is `peq_with_get` and `peq_scc`, whose rules are the same. A reader
woken by the event takes entries until it is told that there are no more, and may
spend time on each; what the event fires meanwhile does not reach it.
`EventQueues` checks `CbPeq`, `EventPeq` and `Peq` in one run, one queue at a
time.

### FIFOs: `Ring`, `RingFifo`, `BoundedFifo`, `ScFifo`, `DeltaFifo`, `MCFifos`

The repository's `sc_component::sc_fifo` and the kernel's `sc_core::sc_fifo`,
which `srv_cpu` and `module_communication` use, have the same ring, statement by
statement; `Ring` is that ring. `RingFifo` adds `write`, `read` and the two deque
operations. `new type[]` leaves the slots unset, hence every initial content.
`nb_write` reaches its end without a return after storing a value: its answer is
any Boolean. `BoundedFifo` is the specification.

`ScFifo` adds the kernel's counts and the two processes. A runnable process may
make any calls; `write` and `read` may make it wait for an event of the channel;
when nobody is runnable, `update` notifies and begins the next delta cycle.
`DeltaFifo` is the specification: two queues with a wall between writer and
reader that opens when the cycle ends. `ScFifo` implements it by splitting the
ring's contents at what is readable. `MCFifos` checks the two FIFOs, one at a
time.

## 3. Runs

Four runs check several small state machines side by side: a variable (`used`,
`test` or `program`) says which of them exists, the others keep their initial
values, and each property is about one of them. That is how the code uses them:
a test or a program has its own objects.

| Run | Bounds | What it shows |
|---|---|---|
| `srv_main` | source constants: 3 credits, delay 6, period 2, fifo of 16; 5 payloads, pair numbers modulo 4 | conservation, lockstep of the two paths, backlog, refinement of `CreditWindow` including its liveness, round trip between 6 and 9 periods; both pairs keep up |
| `accl` | K = 3, 2 sgs, pools 2,2,3,2,3, delays 0, 1, 3 | id pools, tree bookkeeping, completion |
| `fifos` | 3 slots, 2 values | FIFO refinement of the ring; delta-cycle refinement of the kernel FIFO, no wait in vain |
| `islip` | 3 ports, all pairs, any arrivals | a matching in each slot; bounded wait; full throughput under full load |
| `srv_tests` | 3 ports (3 inputs, 2 outputs, as the larger counts); 4 inputs; bucket and buffers of a few units | maximal matching, service; bounded bypass; exact rate; exact usage; pause before drop |
| `voq_c_bar` | the 4x4 switch of the source, all 16 pairs | same grants as `Dpa`, turned or reset in step with it |
| `programs` | 4 inputs, 3 QoS values, up to 2 payloads each; 10 ns; 30 edges | highest QoS first, turns kept within it; every pop is the next payload; readers see the last edge |
| `rr_spin` (violation) | source constants: 4 inputs, 30 ns | the simulation does not end |
| `tlm_extension` | delays up to 3 ns, 6 payloads | pool is a stack, nothing used after release, pool bounded, nothing returned late |
| `event_queues` | 3 payloads, delays up to 3; `peq`: 3 delay calls, delays up to 2 cycles, periods 1 and 3, time up to 4 | announcement in time, no wake-up lost, every payload leaves; timed-bag refinement and exactness of the relative view |
| `ip_checksum` (violation) | the packet of the test, either direction | the header checksum does not verify |

Findings. `rr_spin`: `RRArbitration` continues without a wait when its inputs are
empty (`round_robin/main.cpp:80-83`, the wait is commented out), so the program
never reaches the end of `sc_start(30, SC_NS)`; it takes no particular schedule,
only five grants or a thread that starts first. `ip_checksum`: the loop under
"Calculate IP checksum" (`network.cpp:24-29`) drops carries and adds the
checksum field to itself half-way.

Why the bounds are enough:

* Payloads of the credit loop: 3 credits keep at most 3 values in flight, so 5
  payload classes tell all of them, the next and the last received apart. At
  most two numbers of CC wait in DD, so modulo 4 tells them apart.
* The window, delay and period are those of the source; for other values the
  safety results are proved (section 5). At 6 and 2 the window runs out, values
  wait for a send slot and both orders of the processes occur on every edge.
* In the accelerator the source's pools (10, 60, 240, 1000, 5000) are smaller
  than a full family on the lowest levels only under load; the small pools make
  each level run dry, including in the middle of a family. K = 3 gives a first,
  a middle and a last child. Delays that differ by more than one cycle make beats
  overtake each other.
* Three delay calls give a queue with a first, middle and last entry and all
  ties; time 4 lets entries become overdue. With periods 1 and 3 a later
  call can overtake an earlier one.
* Three ports are the least for which a port can be passed over in favour of two
  others; with two, iSLIP's pointers cannot chase each other.
* `MaxLen` 2 tells an input that empties when served from one that does not, and
  in `TestPlatform` lets a payload of one level hide one of another. Three QoS
  values have a highest, a middle and a lowest.
* `voq_c_bar` has no bound: the switch of the source, every request matrix.
* Three slots, with every split between readable, written and emptied, let both
  indices wrap at different times; two values tell a kept slot from a cleared one.
* The clocks of `programs` run as long as the programs do (10 and 30 ns).
* Six payloads in `tlm_extension` are more than the four the pool ever makes
  (`PoolBounded`), so the bound stops nothing.
* Three payloads in `event_queues` give one being called back (or read), one it
  notifies and one already queued; three periods let a reader be away past one
  entry's time and back before another's.

## 4. Fairness

Safety properties use none. `CreditLoop` assumes weak fairness of its two
processes and of the clock, `SrvMain` of its next-state relation as a whole: the
kernel runs every process an edge makes runnable, and `sc_clock` goes on as long
as the simulation does. The second is enough for the loop although it shares the
kernel with the pairs, since an edge runs each process once. The accelerator assumes
the same of its single method. The drivers of the schedulers are loops that call
the scheduler in each round (`TEST_islip`, `TEST_sch`); weak fairness is assumed
of that call only, never of arrivals. In `EventQueues` the kernel runs `fec` or
the reader once woken, callbacks return, a reader comes back and asks again, and
delta cycles and time go on; whoever calls `notify` is under no obligation. In
`RrSpin` every action is fair: the kernel and both threads go on whenever they
can, which is the strongest the program can be granted, and it does not end all
the same. The other modules have no liveness property and assume none.

## 5. Proofs

Each of the modules below EXTENDS the module it is about, and its theorems hold
for every value of the constants that the named ASSUMEs allow; the runs evaluate
these. `PROJECT.json` lists the theorems with the properties they state. Four
hypotheses are in the theorems themselves, `QuietCallbacks`, `FifoSize > 1`,
`FifoLen > 1` and a lower bound on `MaxLatency`, explained below.

An invariant is proved in three facts, that Init implies it, that a step keeps it
(a lemma per action) and that it implies the property; the temporal step comes
last. What is said here is why the property is not inductive as it stands.

**`CreditLoop_proofs`**, for every window, delay, send period and payload bound.
`TypeCorrect`, `CreditsConserved`, `DebtMatches`, `PathsStayInStep` are the four
conjuncts of the invariant, and none of the last three is inductive alone:
`TgtEntry` sends the head of the ready data and the head of the ready credits in
one step; that these two are there together follows only from the lockstep of the
delay queues, and that the credit returned keeps `m_credit` within the window
only from conservation. `BacklogIsBounded` needs `Backlog`, how many requests
wait by which process has run. In `Refinement` `SrcEntry` is a `Send` or a
stutter, `ClockEdge` a stutter, and `TgtEntry` an `Echo` exactly when it sends.
`LoopInMain` carries all this over to `SrvMain`, whose steps are steps of the
loop or leave it alone. `BothKeepUp` is about the two pairs: `DDHolds` says which
numbers are in DD's queue and how far each is from its time, by which of CC and
DD has run on this edge. It assumes a fifo of at least two slots (the source has
16): with one, A finds the number of the edge before still in it and loses its
own.

`RoundTripIsBounded` says how long a value may be away. It holds if `MaxLatency`
is at least `InitCredit * SchCycle`, a slot for each value of a full window, and at
least `Delay + 1 + InitCredit * (SchCycle - 1)`; `MaxLatency` is a constant of the
claim, not of the code, and too small a one is false. Of ages alone nothing is
inductive, so `TimedInv` says that the i-th value in line will be in
time if it leaves with the i-th slot from now. A slot used moves the line up by
one and this is kept. A slot may go unused only when the first in line is not
ready; then it is at most `Delay` periods old, and those behind it, sent one per
edge (`Spaced`), are each a period younger, so that all are in time with the next
slot too. That a value not ready is young is `AgesFit`: its age and what is left
of its delay add up to `Delay` or one more, by which of src and tgt ran first on
the edge it was sent. For the constants of the source, a window of 3, a delay of 6
and a slot every 2 cycles, the theorem gives 10 periods and the run finds 9.

**`Accl_proofs`**, for every K, every number of sgs, every size of the pools and
all delays. The calls of `mth_entry` are functions on a record of the state, so
the invariant `Inv` is one on such a record, and each call is shown to keep it.
It says of each level that free ids and ids in use partition the ids (`Stocked`),
of each pair of levels that what is in use below has a parent in use above, and
that children owed, present and back add up to K (`Linked`), and of the beats in
use that they are delayed or back (`Carried`). A child is the last one to come
back only if the counts of its parent are right, so no level is sound without the
others. `Partitioned`, `NoneDangling` and `Balanced` follow. `ReclaimedAtOnce`:
the reclaim calls count a child and reclaim its parent at once, so between edges
no id has all its children back; from it follows `AcclTyped`, whose counts stay
below K.

**`Fifos_proofs`**, for every capacity and every set of values. Facts about the
ring are stated for any slots, read index and free count, and used for both
classes. The invariant joins `IndicesAgree`, and for the kernel's channel
`CountsAgree` and `OnlyWhileNeeded`. `Waits` is read off it; `RingIsFifo` and
`KernelIsDelta` are refinements, step by step, of the bounded queue and of the
queue whose answers do not depend on the order of processes. The contents of the
ring are a sequence of `(ri + i - 1) % Len0`, so each case is the arithmetic of
one index that wraps.

**`SrvTests_proofs`**, for every number of inputs and ports, rate and capacity; a
conjunct of the invariant per object. `Exact`: a token bucket refilled at calls
only hands out what the windows allow, because the tokens it would have now equal
the least, over all moments, of what the window from then on leaves (`BucketInv`:
below all of them, and equal to one). `Usage`: the counter is the sum over the
buffer, a fold, whose recursive function is first proved to exist. `GrantsMatch` and
`GrantsMaximal`: the sweep through the cell table meets every cell once (`CellIs`),
and a cell not granted was shut by a grant before it. `Bypass` and `Announced`
are action properties.

**`Islip_proofs`**, for every number of ports. `SlotsMatch` needs that the pointer
of a connected output is one beyond its input. `WaitIsBounded`: `SlotResult`
says what a slot leaves in terms of the queues reported; the three digits of
`Wait` are then compared case by case, by who is granted and who accepts.

**`EventQueues_proofs`**, for every set of payloads and every longest delay.
`NothingLost`, for `peq_with_get` and `peq_scc`: while the reader waits, the
one notification is no later than the first entry (`InTime`). For
`peq_with_cb_and_phase`, `AllAnnounced` and `QueuesTyped` assume
`QuietCallbacks`: the callbacks made from the loops for delta and timed entries
do not notify immediately, as in the run. The two do not hold without it (see
`Callbacks` in section 2). The invariant says which lists `fec` has emptied by
the loop it is in.

`PolledIsBag` and `ViewIsExact` are about `little_end::peq`, for all periods,
delays and orders of its calls; every model that owns a queue of `PeqOps` rests
on the second. The code looks at the head of the multimap only, so the head has
to be the earliest of all. `PolledSound` proves that the entries are ordered by
due time and equal ones by call, which also needs that every number in the queue
is less than the number of calls: that makes the multimap's "behind its equals"
the order of calls. The relative view forgets how long an entry is overdue;
`ViewIsExact` shows of each operation that this never changes where an entry goes
or whether it leaves, and that a get takes the entry the view has ready first.

**`Programs_proofs`**, first `tlm_extension`, for every number of payloads and
every longest delay. A node is made only when every node holds a free payload, so the chain is always
all nodes in the order they were made, and `free_list` cuts it in two (`Chain`):
that makes `ChainIntact` inductive. `PoolStaysSmall` needs to know when the
payloads in flight came in: those from place i on over what is left of `Spread`
nanoseconds before the i-th is due (`OnTime`). `HeldInFlight` follows; that
nothing is returned late rests on the queue's order, as response stops at the
first entry that is not due, and on delays of at least one. `ChainStaysIntact`
follows too; `PoolIsStack` is the refinement of `PayloadStack`.

The two communication programs, for runs of any length. That `dst` never pops an
empty queue is not inductive: it is `AbInv`, which counts what each method has
sent and popped by the time and by who has still to run on the edge, and says
that the queue is what lies between (`PopsAreNext`). `ModInv` does the same for
the four processes of `module_communication` (`ReadersLagOneEdge`). It assumes a
fifo of at least two slots (the source has 40): with one, a slot read on an edge
is not free again before the edge is over, and the writer's number is refused.

The QoS arbiters, for every number of inputs, of levels and of payloads with
`N * MaxLen <= 10`, what the first thread grants before the second starts (the
steps of the two would interleave otherwise; no proof step uses it).
`QosGoesFirst` is the arithmetic of the combined key: the turn, N less
the distance from the last grant, is below `2^QosLowBit`, so that the key orders
by QoS first; that needs `N <= 2^QosLowBit`, which `log2(N) + 1` bits give.
`LevelGoesFirst` is about the walk round the inputs: the input granted is nearer
than every other of its level, so the distances of the others shrink. The
invariant, `ArbInv`, is typing only; the work is in the lemmas on the step.

**`PeqOps_proofs`** holds what the five proofs about a delay queue share: what
`PeqDelay`, `PeqReady`, `PeqLater` and `PeqAge` return, that the due entries of a
queue are split off without loss, least members of sets, and small facts on
sequences.

Model-checked only:

* liveness, which the prover does not handle: `ChannelLive`, `AllReclaimed`,
  `FullThroughput`, `EveryRequestServed`, `EveryPayloadLeaves`, `EveryEntryLeaves`;
* that for the constants of the source `RoundTrip` holds with 9 periods already,
  one less than the theorem gives;
* `SameAsCpp`: the VHDL has one size and is checked for all its inputs, so a
  theorem would say nothing more.

## 6. Mutants

A property that no plausible bug can break says nothing. Beside the definitions
that model code stand mutated forms of some of them ("Mutant of ..."): a count
not reset, a pop forgotten, a delay a cycle short, a pointer that does not move.
`PROJECT.json` pairs each property of each run with one; with the mutant in
place of the original TLC reports the property violated.

## 7. Not modelled, and the plan

Not modelled, and why:

* Vendored code. The repository has 133 000 lines of implementation, of which
  some 5 400 are its own; the rest are the headers of SystemC, gtest, gmock,
  spdlog and fmt, so the share of all lines the modules can stand for is small
  whatever is modelled of the program. `sc_fifo` and the update phase of
  `sc_signal` are modelled because the programs' processes meet in them. The
  kernel's scheduler is in the repository as a binary only; its rules are stated
  where a module uses them.
* In `test.cpp`: the WRED queue, a random drop by a floating-point average, and
  the CRC-32 table, one computation without state.
* In `network.cpp`: the loop over the UDP header, of the same form as the one
  over the IP header, and the packet, which the function builds and drops.
* In `peq_with_cb_and_phase.h` and `peq_scc.h`: the reuse of list elements, a
  matter of C++ object lifetime.
* The socket exercises, where one call prints what it is given, and the language
  exercises; logging; the random generators beyond "any value".

The order of work was: the credit loop and its queue, on which most of `srv_cpu`
rests; the accelerator; the schedulers; the pool and the queue with callback; the
FIFOs, the event queues, the objects of the tests and the stand-alone programs.
The modules are written to be proved about: no recursive operators, constants
with named assumptions, one action per operation. The plan is done; the one
refinement of it left is a bound on the round trip that is exact for all
constants.
