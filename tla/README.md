# A verification project for Relativist

Relativist reduces interaction-combinator nets on a grid of workers. A net is
split into partitions, every worker reduces its own partition to local normal
form, the coordinator merges the results and resolves the active pairs that
crossed a border, and the loop repeats until no active pair is left. The claim
the whole program rests on is the *Fundamental Property* G1: the distributed
result is the sequential normal form, up to a renaming of agents.

The TLA+ modules in this directory model that pipeline from the net's arena up to
the coordinator's connections, and around it the other ways into and out of it:
the stateful delta loop, the streaming partition, the pure state machines, the
frames on the wire, the `compute` command, the codecs and the benchmarks. TLC
checks them on small instances. TLAPS proves, for every instance, the invariants
of the reduction engine, that the workers of the grid loop do not use the same
agent id while their ranges are apart, that the delta loop's border graph is exact, the barrier and the
identities of the coordinator runtime, that it and the pure state machines
implement a bulk-synchronous coordinator, and that the frame reader returns only
what was sent. Source paths below are relative to
`relativist-core/src/`.

## 1. Inventory

| component | state it keeps | operations | what makes it correct |
|---|---|---|---|
| net arena (`net/`) | agents, ports, redex queue, LIFO free list, FreePort redirects, `next_id` | `create_agent`, `connect`, `disconnect`, `remove_agent` | T1, I1, I2, I3', I6; the free list accounts for every dead id once |
| reduction engine (`reduction/`) | none of its own | `reduce_step`, `reduce_all`, `reduce_n`, `reduce_border_once`, four rules | invariants kept, no active pair forgotten, interface kept |
| partition (`partition/`) | the plan: partitions, borders, id ranges | `split`, strategies, `build_subnet` | D3, D4: borders tracked, ids confined |
| streaming partition (`partition/streaming.rs`, `bench/streaming.rs`) | owners, loads, forward references and their age, interface ids, borders | chunked generate-and-partition, two strategies, short circuit | the partitions put together are the net of the stream, however it is chunked |
| merge (`merge/core.rs`, `helpers.rs`) | none | `merge`, `rebuild_free_port_index`, `compute_border_activity` | D1, D5: wires restored whatever the order of the borders |
| grid loop (`merge/grid.rs`) | current net, metrics, round | `run_grid`, `run_grid_delta`, `run_single_worker` | G1, T7, progress of every round |
| delta protocol (`merge/border_graph.rs`, `border_resolver.rs`, `worker.rs`) | border graph, pending mints, cached partitions, stateful workers | deltas, resolution of border pairs, mints and their echoes, final collection | graph and workers agree, convergence means normal form, the loop stops |
| coordinator and worker FSMs (`coordinator.rs`, `worker.rs`) | state, context, timer | `transition` on events | rounds do not overlap, every wait ends, everybody stops |
| coordinator runtime (`protocol/coordinator.rs`) | two parallel vectors of streams and ids, join queue, retained state | accept, distribute, collect, prune, merge, join window, solo reduction, shutdown | BSP barrier, identities, nothing lost, always returns |
| worker runtime (`protocol/worker.rs`) | one connection | register, reduce, return, daemon loop | answers every assignment once |
| self-worker (`protocol/self_worker.rs`) | one in-process partition | reduce and return | treated like a remote partition |
| retained state (`protocol/retained.rs`) | two maps by worker | register, refresh, release | bounded memory |
| wire format (`protocol/frame.rs`, `compression.rs`) | what is read of a frame | `send_frame`, `recv_frame` | only messages that were sent, none skipped in silence |
| encoding and the compute command (`encoding/`, `commands.rs`) | none | build a net for an expression or a lambda term, reduce it, read the answer back | the answer is the value of the expression, or none is given |
| benchmarks (`bench/`, `io/generators.rs`) | none | generate nets, measure `reduce_all` and `run_grid`, verify one against the other | verified results, the interactions and rounds the validator expects |
| transports, file formats, security, configuration, observability | files, settings, counters | connect, parse, log, measure | outside the protocol |

How they interact. `split` consumes the net and gives each worker a partition
whose cut wires end in numbered border FreePorts. `reduce_all` runs on each
partition and may move, join or erase border ends. `rebuild_free_port_index`
reports where each border ended up; `merge` reconnects the reported ends and
`connect` queues the active pairs this creates. Over the wire the same loop runs
in `run_coordinator`: partitions travel as `AssignPartition` and
`PartitionResult` messages over one ordered connection per worker, and between
rounds workers may join, leave, fail or be given up.

What is hard here: wires of an active pair that lead back into the pair, ids
that are recycled while somebody still refers to them, borders restored in hash
order, index vectors edited by `swap_remove` while joins append to them, timeouts
that race late results, id ranges that outgrow 32 bits, and departures in the
middle of a round. PROJECT.json lists these as hazards, each at
its line, with the properties that would catch it.

## 2. Modules

    Net <- Reduction <- Engine                              <- MCEngine
                               <- Engine_proofs
                     <- Partition <- Merge <- Grid          <- MCGrid
                                                <- Grid_proofs (with FoldRule)
                                           <- BorderGraph <- DeltaGrid <- MCDeltaGrid
                                                <- DeltaGrid_proofs (with FoldRule)
                                           <- Streaming     <- MCStreaming
                     <- Encoding <- Readback <- Lambda, Bench
    Grid, Lambda, Bench <- Compute                          <- MCCompute
    BSP <- PushFSM      <- PushFSM_proofs
    BSP <- GridProtocol <- MCGridProtocol
                        <- GridProtocol_proofs <- GridRounds_proofs
    Frame               <- Frame_proofs

**Net** - a net is a record (`agents`, `ports`, `queue`, `next_id`, `free_list`,
`redirects`, `shadow`, `root`); each method of `Net` is an operator from nets to
nets under its own name. The checks of `net/debug.rs` are operators too. The Vecs
that grow on demand are total functions on `AgentIds`.

**Reduction** - the rules (`interact_void`, `_anni`, `_eras`, `_comm`) with their
self-loop cases, the dispatch, `reduce_step`. `Entangled` names the pairs whose
auxiliary ports are wired to one another in a pattern their rule does not wire
back; the properties use it to separate the nets the rules are written for from
the ones they are not.

**Engine** - `reduce_all` on one net, one action per rule. `InputAssumption` says
what a caller hands to it. The history variable `lost` collects the FreePorts whose
redirect `remove_agent` purges because an agent has their number.

**Partition**, **Merge** - `split` for an arbitrary allocation, and the merge in
three steps: unite, restore one border, reconcile the free lists.
`compute_id_ranges` has the code's shape: chunks of `MinChunk` ids or of `Growth`
times what is in use, clamped at `U32Max`; `RangesClamped` says when 32 bits do not
suffice for them.

**Grid** - `run_grid` as a state machine, with the sequential reduction of the
same net run first as the reference. `InputAssumption` says what a caller hands to
it: nets of the right type whose free list accounts for their ids. `Split` chooses any allocation (or the
contiguous one); `LocalStep` and `LocalDone` are the worker loop; `MergeRestore(b)` takes
the borders in any order, as the iteration over the border HashMap does.
`ResolveLenient` is `reduce_all` on the merged net; `ResolveStrict` is
`reduce_border_once`. The modes `remote` and `deferred` are the loop of
`run_coordinator`, where partitions and results go over the wire (`OverTheWire`
drops what CompactSubnet does not carry: redirects, the shadow of the borders, the
recycling policy); `deferred` is its `strict_bsp`, which resolves nothing. `hybrid`
gives partition 0 to the self-worker, which gets it as a frame like any other and
does not rebuild its index. The history variable `marks` names what a run has met:
an `entangled` pair, a `shortcut` for a self-loop, a redirect `purged` by agent
id, a border relayed on both sides (`chained`), a self-worker's index left behind
(`unindexed`), ranges that `overlap` or were left. All but the shortcut are the
`Troubles`, findings 4 to 7 and 11.

**BorderGraph** - the coordinator's side of the delta protocol: the graph of
borders with its incrementally kept set of active ones (`apply_delta`,
`remove_border`, `add_border_state`), the resolver of a border redex for the six
pairs of symbols (`resolve_same`, `resolve_con_dup`, `resolve_non_era_era`), the
batches of agents to mint it sends, and `register_minted_agents`, which turns the
echoes of a batch into borders. A name of an agent that does not exist yet is a
`Pending` reference.

**DeltaGrid** - `run_grid_delta` round by round: `WorkerRound` is
`handle_round_start` (apply the payload, mint, reduce, report deltas), `Absorb`,
`ResolveRedex` and `Package` are the coordinator's half, `Converge`, `RoundCap`,
`FinalCollect`, `FinalMerge` and `FinalReturn` its ends. The workers are driven
one after the other by `LocalDeltaDispatch` of the integration tests, the only
dispatcher there is; which redex is resolved first is open, because the set of
active borders is a hash set.

**Streaming** - `generate_and_partition_chunked`, one action per chunk: placement
by round robin or Fennel, `install_connection`, the pending store, its age limit,
`finalize`, and the short circuit that assembles the whole net when one chunk
holds it. `build_input_net` is the assembly of the benchmark suite, the reference.

**Encoding**, **Readback** - the builders of Church numerals and of the four
operations, the Horner codec; `discover_root` and the readbacks of numbers
(`decode_nat`, `decode_shared_chain`, `decode_biguint`) as walks over the net.

**Lambda** - `LambdaCodec`: `encode_term` with its stack of binders and their
chains of DUPs, `readback` with the map of binder ports it keeps while it walks.
A term is a tree; what comes out is compared without names. The module ends with
the reference: substitution with de Bruijn indices and leftmost-outermost beta
steps (`ValueOf`).

**Bench** - the nets of the benchmarks, the backtracking search
`nets_isomorphic`, `verify` of each benchmark and `expected_interactions` of the
validator.

**Compute** - the callers that put these together: the `compute` command on its
registry, local and grid paths, a program that registers LambdaCodec itself (the
command's registry does not know it), and the benchmark suite. Compute extends
Grid, so the reductions are the rules and the grid loop of the other modules.

**Frame** - `send_frame` and `recv_frame` over a byte stream. A byte is the number
of its frame, its position and whether it is intact; a header read across a
disturbance may read as anything. `Drop` is the cancellation of `recv_frame` by
the 50 ms peek of `run_coordinator` or by a timeout; `PeekIgnores` is that peek when
`recv_frame` failed: the error is not looked at and the stream is read again.

**BSP** - what a bulk-synchronous coordinator promises: a round hands out
partitions, each is answered once, only then something is merged, only then the
next round begins, and the run may fail at any time. `PushFSM` and `GridProtocol`
implement it (`ImplementsBSP`, an INSTANCE with a refinement mapping).

**PushFSM** - the two pure state machines of SPEC-13, `transition` of the
coordinator and of the worker, every row of both tables (the wildcard rows
included: `OnUnexpected`, `WorkerIgnores`). The repository has no runtime that
drives them, so what lies between them - the event queue, the jobs started by
`InvokeSplit`, `DispatchPartitions` and `InvokeMergeAndReduce`, the timer, the
connections - is external and as free as the actions' documentation allows.

**GridProtocol** - `run_coordinator` and its peers. The net is the set of its
parts (`Atoms`): a split shares them out, a worker returns its share, a merge
unites what came back; whether redexes remain after a strict round is a free
choice (a lenient round leaves none). What is kept in full is the control:

| model | code |
|---|---|
| `phase` | the position in `run_coordinator` |
| `worker_streams`, `worker_ids`, `next_worker_id`, `pending` | the variables of the same names |
| `plan`, `cursor`, `collected`, `departing` | the round's partitions, the stream being polled, `collect_results_vec`, `departing_worker_ids` |
| `initial`, `last_acked` | the keys of the two maps of `RetainedStateRegistry` |
| `backlog`, `link`, `inbox`, `outbox` | connections not yet accepted, and per peer the connection and the frames in each direction |
| `peer`, `task` | where `run_worker_inner` is |
| `self_worker` | where the task of `spawn_self_partition` is: reducing, writing a result longer than the pipe, done, failed |
| `granted`, `promised`, `withheld` | history: ids given, JoinAcks not yet honoured, a departure without a result |

Each timeout is an action that is enabled whenever the code could be waiting.
A closed connection still delivers what was sent before; a crash may lose it.
`LeaveRequest`, `JoinRequest` and `Error` are served by the coordinator but not
sent by the worker loop of this repository, so the peers that send them are
external (constants `Leavers`, `Joiners`, `Faulty`).

**Engine_proofs**, **Grid_proofs**, **DeltaGrid_proofs**, **Frame_proofs**,
**PushFSM_proofs**, **GridProtocol_proofs** (types and identities) and **GridRounds_proofs** (the
rounds) - the theorems about these modules, see section 4.

**FoldRule** - the proof rule for loops. The loops of the code over queues,
partitions and free lists are folds in the model; the module has the body of a
loop (`Body`), the order of its items (`Pick`) and its invariant (`Good`) as
constant operators and proves that what the body preserves holds after the loop
(`FoldKeeps`). A proof instantiates it once per loop.

Operators commented *Mutant of ...* are defective variants of the definition
that follows them, used to confirm that a property can fail.

## 3. Runs

| run | instance | result |
|---|---|---|
| `engine` | every wiring of an active pair, an optional third agent and up to 3 interface ports, and four generated nets | holds |
| `grid` | six shapes of four-agent nets in every wiring, five nets of six agents, 2 workers, every allocation, 2 rounds, all five modes, with and without a self-worker | holds |
| `protocol` | plain and elastic grids, cohort of 0 or 2, lenient and strict, 3 peers of which one joins, one leaves and one breaks, 2 rounds | holds |
| `protocol_live` | plain and hybrid grids, two joiners, ids run out at 3, under fairness | holds |
| `fsm` | two workers and a late joiner, two rounds, one fault | holds, liveness included |
| `frame` | three frames of up to 2 payload bytes, one damaged byte, two cancelled reads | holds, liveness included |
| `delta` | ten shapes of two or three agents in every wiring and allocation, 2 workers, round caps 1 and 6 | holds |
| `stream` | small nets in every wiring, chunks of one and two agents, whole and cut short, lifetimes 1, 2 and none, both strategies, both generators | holds |
| `compute` | every operation on operands 0 to 3, polynomials of degree 0 to 2, every lambda term of up to 7 nodes over two names, every benchmark but one at sizes 1 to 4 (1 to 3, 1 and 2, or 1 and 4 where the nets grow fast), lenient and strict | holds |
| `delta_parity`, `compute_horner`, `compute_strict` | smallest inputs that show a finding | violated, see section 5 |

What the passing runs say.

* `engine`: `UntangledNetKeptWellFormed` (assert_all_invariants after every rule,
  whatever ids the free list hands out), `FreeListSound` (free list and live
  agents together are exactly the ids below `next_id`), `NoLostRedex` (an empty
  queue means normal form), `InterfacePreserved` (an interface port is held by
  one live port or remembered by a pair of redirects, unless the redirect was
  purged for an agent of the same number: finding 7, which already
  `ep_annihilation_con(2)` meets). Interface ports are numbered from 0, as the
  generators and encoders do.
* `grid`: `FundamentalProperty` (G1), `InteractionCountInvariant` (T7 where no
  rule takes the self-loop shortcut), `MergedNetWellFormed`, `IdsConfined` (D4,
  and every partition passes the receiver's check of its free list),
  `SkippedRoundHadNoRedex` (SPEC-19 R5), `RoundsMakeProgress` (SPEC-05 R30a). The
  first four are claimed of the runs that meet no Trouble that would break them;
  the instance has nets for each: `relayed_twice` is chained, `relayed_and_purged`
  and the generated nets lose redirects, the ranges of `aged_tree` overlap in its
  second round, and hybrid grids leave an index behind. So the claim is that these
  five are all that goes wrong on these nets, not that nothing does.
* `protocol`: `ImplementsBSP`, `BarrierBetweenRounds` (no active worker still has
  work of the round that is over), `NetWholeUnlessWithheld` (D1 over the wire),
  `IdentityTravelsWithStream`, `IdsNeverReused` (SPEC-20 R11), `JoinAckHonest`
  (R11a, R16).
* `protocol_live`: `CoordinatorReturns` (with `max_rounds` set, and unless it waits
  for a self-worker that still writes: findings 8 and 13), `PeersReleased`, and
  `ImplementsBSP` for the slots of the self-worker.
* `fsm`: `ImplementsBSP` (the machines count results and never look at who sent
  them, yet a merge starts exactly when every partition is back),
  `TimeoutOfThisRound` (a queued PhaseTimeout never ends another round),
  `CollectEnds`, `WorkersStop`.
* `frame`: `OnlyWhatWasSent` whatever happens; `NoSilentSkip` (no frame is passed
  over without an error) until the peek ignores an error (finding 12) or a second
  call is dropped; `AllArrive` of an undisturbed stream.
* `delta`: `ActiveRedexesExact`, `GraphMatchesWorkers`,
  `PendingPromotedNextRound`, `ConvergedIsNormal`, `StopsByItself` (the largest
  cap is never what ends the loop).
* `stream`: `StreamedNetIsTheNet`, `PartitionsQueueRedexes`, `OneChunkStricter`.
* `compute`: `ValueIsRead` (the value of a readable expression or term is read,
  and it is the right one), `NeverWrong` (nothing else is ever printed, also where
  the readbacks give up), `SuiteAsExpected` (every benchmark verifies, makes the
  expected interactions of each rule, in the grid as many as alone, and takes the
  expected rounds: one for the EP nets, one per link of a strict cascade),
  `NeverEntangled`; deadlock is checked, so every computation reaches an answer.
  `NeverEntangled` says where finding 4 does not bite: in a sequential reduction
  and in the lenient grid the FIFO queue of `reduce_all` happens never to bring an
  entangled pair together for the nets the encoders build, and no benchmark meets
  one in the strict grid either. It depends on that order (the mutant reduces the
  newest redex first), and not on the nets: in the strict grid 1^2 does meet one,
  which is finding 3.

Bounds. Rules look only at one pair and its four neighbours, so an active pair
with one more agent and three interface ports already shows every way a pair can
be wired: outwards, into itself, to each other, to the same neighbour. The grid
needs two workers and two rounds for a border pair, a relayed border and a
recycled id to meet; `MaxInteractions` cuts the reductions that never end.
`MinChunk` = 6 and `Growth` = 1 stand for 100 000 and 10, and `U32Max` = 30 for
`u32::MAX`: a worker may leave its range, and the ranges of a second round are
clamped for a net that has issued 12 ids, which is what a few rounds do in the code. In `compute` `Growth` is 0: its
computations take at most five rounds from nets of a few dozen ids, in which the
code's ranges are neither clamped nor used up. Four agents in every wiring give
each pair of rules that a border can separate; the larger nets are the ones that
findings 6, 7 and 11 need. For the protocol two active workers are what `swap_remove` needs to
move one, a third peer is needed to join while another leaves, and two rounds are
needed for a late message to meet the next round. `MaxRounds` is `max_rounds`, which
the code leaves unset by default: without it a strict grid may go on for ever
(finding 8), so `CoordinatorReturns` is about grids that set it. `MaxWorkerId` stands
for `u32::MAX`. In `fsm` two rounds let a stale timeout or result meet the next
round. In `frame` a header of two bytes and payloads of up to two are the least
that can be split, swallowed or read as one another; three frames are needed for
one to be skipped between two that are not. In `delta` a cap of 6 is more rounds
than any of the nets takes (that is `StopsByItself`) and a cap of 1 exercises the
early end. In `stream` three and four agents in chunks of one give every pattern of
forward references, several to the same agent included. In `compute` 0 and 1 are
the special cases of the encoders, 2 the least operand that shares, 3 the least
that shares twice. Seven nodes are enough for a redex under a binder, a binder
used twice, one shadowed by its own name and one erased; a term whose value took
more than `MaxBetaSteps` steps would violate NeverWrong as soon as it was read. The benchmark
left out is TreeSumBalanced, whose nets are those of TreeSum.

Deadlock checking is off except in `compute`: the loops really stop; that they
stop in the right state is what the properties say.

Fairness. `FairSpec` of GridProtocol: weak fairness of the coordinator as a whole
and of each worker loop. The coordinator is one task. It waits under a
timer (`worker_connect_timeout`, `distribute_timeout`, `collect_timeout`, the join
window) with two exceptions: acknowledgements and Shutdown (`protocol/coordinator.rs:419`,
676, 953) are sent without one, a few bytes that the socket buffers take, which the
model assumes; and it awaits the task of the self-worker (line 1282), which the
model keeps (`DrainEnd` is enabled only when that task has ended). A worker task
waits only for its connection, and so does the self-worker's, which has weak
fairness of its own. Nobody is required to
connect, leave or fail, and no particular branch is: a timeout may always beat an
answer. In PushFSM weak fairness is on the event loop, the running job, a started
timer, each worker and the connection of the cohort (the machine has no timer
while it waits for workers). In Frame the sender finishes what it began and the reader reads what is
there; DeltaGrid is sequential. Local reductions are assumed to end, which the
code assumes too.

## 4. Proofs

Every theorem holds for all values of the constants that satisfy the named
assumption of its module; TLC evaluates that assumption in the runs. The
inductive invariants named below were checked by TLC, as invariants of these
instances, before they were proved.

### The coordinator's bookkeeping (`GridProtocol_proofs`)

`ProtocolAssumption`: any finite set of peers, any net, any configurations
accepted by `GridConfig::normalize`, any bounds.

* `TypeCorrect`: `Spec => []TypeOK`. `TypeOK` is not inductive: `CollectTimeout`
  reads `worker_ids[cursor]` where only `cursor <= Len(worker_streams)` is known.
  The strengthening `TypeInv` adds that the two vectors have the same length.
* `IdentityCorrect`: `Spec => []IdentityTravelsWithStream`, by induction
  (`IdentityInductive`, invariant `IdentityInv`): an admission keeps ids distinct
  only if the admitted peer is not active already (a stream is in one place), and
  only if every id ever granted is below `next_worker_id` (`GrantedBelow`), which
  also covers the ids burnt by a JoinAck that could not be delivered.
* `IdsNeverReusedCorrect`: `Spec => IdsNeverReused`, an action property, from
  `GrantedBelow`: the only step that grants an id grants `next_worker_id`.

The lemmas `Push`, `SwapRemove`, `PushElements`, `PopElements` state what
appending, popping and `swap_remove` do to a vector and to its set of elements;
`Admission`, `Departure`, `TakenLeaves`, `QueuedStays` are the four ways a
connection moves.

### The rounds (`GridRounds_proofs`)

* `BarrierCorrect`: `Spec => []BarrierBetweenRounds`;
* `NetWholeCorrect`: `Spec => []NetWholeUnlessWithheld`;
* `JoinAckCorrect`: `Spec => []JoinAckHonest`;
* `ImplementsBSPCorrect`: `Spec => ImplementsBSP`, the refinement of `BSP` (its
  safety part: BSP states no fairness).

They follow from one induction (`GridInductive`, invariant `GridInv`). None of the
properties is inductive, because each speaks of the moment between two rounds
and depends on what was in flight before:

* `WorkInv` - a peer has at most one piece of work, be it an unread assignment, a
  reduction or an uncollected result; an error carries the id of its peer; a peer
  that is not admitted has none.
* `RoundInv` - in a round the piece of an active peer is the partition planned for
  its slot, and every slot below `cursor` is settled: collected, or booked in
  `departing`. So whoever still holds work when the round ends is pruned.
* `NetInv` - the partitions planned cover the net, and until one is withheld every
  slot already passed has its partition among the collected ones.
* `PromiseInv` - a JoinAck's slot is the slot of the joiner until the next
  dispatch, although `swap_remove` may move others in the same window.

The refinement maps a partition to the id of its holder (`Holder`), the only
name `swap_remove` does not change.

### The pure state machines (`PushFSM_proofs`)

* `ImplementsBSPCorrect`: `Spec => ImplementsBSP`, for any workers, rounds and
  faults (`FSMAssumption`). The coordinator compares neither the sender nor the
  round of a result, so the proof follows each partition (`PieceInv`): at most one
  piece of work for a slot exists anywhere - to be dispatched, in an inbox, in
  reduction, in the event queue, in hand - and all pieces are of the current round.
  As many results as slots (`CountInv`) are then one of every slot (a pigeonhole
  argument on the collected sequence), and nothing is left for the next round.
  `TokenInv` says that the event a phase waits for is pending exactly once, or its
  job still runs; `FatalInv` that a round with a queued fatal error lacks a
  partition, so it cannot merge before the error is read.
* `TimeoutOfThisRoundCorrect`: `Spec => TimeoutOfThisRound`, an action property,
  from `TimeInv`: a queued PhaseTimeout is of the current round, and it is read
  before the MergeComplete that starts the next one.

Both rest on `FSMInductive`; the invariant is required only while the coordinator
is not in `Error`, where it stays (`ErrorStays`).

### Frames (`Frame_proofs`)

* `OnlyWhatWasSentCorrect`: `Spec => []OnlyWhatWasSent`, and `NoSilentSkipCorrect`:
  `Spec => []NoSilentSkip` (with its exclusions of an ignored error and of two
  dropped calls), for any number and size of frames, any damage and any dropped
  calls. `PeekIgnores` is one of the steps: the first theorem covers it, the
  second ends with it, because a damaged frame is passed over there. The invariant is about the stream the reader has not used up:
  its buffer, the wire and the next byte to be written have no gap, so the first
  of them says where the reader is; a checksum that matches then pins down the
  frame.

### The reduction engine (`Engine_proofs`)

`NetAssumption` (any finite range of agent ids) and `InputAssumption`: a net given
to `reduce_all` passes `assert_all_invariants`, has no port wired to itself and
no wires in slots without an agent, its free list accounts for the ids that are
not live, its queue knows every active pair and no border shadow is set (the
shadow exists only in a worker's partition). The nets the builders make and the
merge returns are of this kind; nothing is assumed about size or wiring.

* `UntangledNetKeptWellFormedCorrect`: `Spec => []UntangledNetKeptWellFormed`;
* `NoLostRedexCorrect`: `Spec => []NoLostRedex`;
* `FreeListSoundCorrect`: `Spec => []FreeListSound`, entangled pairs included;
* `InterfacePreservedCorrect`: `Spec /\ InterfaceInput(net) => []InterfacePreserved`.

The first three hold by one induction (`EngineInductive`, invariant `EngineInv`). The checks of
`net/debug.rs` fail *inside* a rule, between the removal of the pair and the last
`link`, so the argument needs what holds there: `Dangling(n, D)` says that a net
is well-wired except for the ports `D` of live agents that are wired to nothing.
`RemovePair` shows that removing an active pair leaves `D` equal to the neighbours
of the pair, `CreateSound` that an agent taken from the free list or from `next_id` adds
its own ports to `D`, `LinkSound` that `link` takes its two ends out of `D` and queues
the pair when both are principal, `LinkSkips` that a link to a removed agent
changes nothing. For each rule (`VoidSound`, `AnniSound`, `ErasSound`, `CommSound`)
these are chained through the cases of the rule - outer wires, self-loops, two
wires of one agent - until `D` is empty. That is where `Entangled` is needed and
nothing else: only for such a pair does `D` not become empty. The queue needs
`FirstValidIs`: entries popped before the first valid one are stale, and a
stale entry is no active pair.

The interface needs a hypothesis on the first net, `InterfaceInput`: no redirect is
kept for an interface port yet, and one port holds it. Its number may be that of an
agent, as in every net of the generators and the encoders. The theorem then says
which ports can be lost: those in `lost`, whose redirect, or whose partner's, has
gone with an agent of the same number (finding 7), and no others; and a port once
forgotten never comes back to disturb another (lemma `Forgetting`).
`InterfacePreserved` says for each other index that it is held once or relayed; the
invariant `InterfaceInv` adds that the two are exclusive, that two relayed ports
name one another, and that no other FreePort is in the net (`Facing`). Inside a rule an
interface port may be neither held nor relayed; it is then one more dangling end, so
`Sound(K, n, D)` is the invariant of the wires (`Tied`) with `D` extended by
interface ports. `link` of a port and a FreePort makes it held, `link` of two
FreePorts writes the pair of redirects, and the chains of links of the four rules
are the same ones as above, proved once for any set `K` of followed indices
(`K = {}` gives the first three theorems).

### The ids of the grid loop (`Grid_proofs`)

`InputAssumption` of `Grid` and the assumptions on sizes; any nets, allocations,
numbers of workers, rounds and modes.

* `IdsConfinedCorrect`: `Spec => []IdsConfined`. While the workers reduce, no id is
  live or free in two partitions, and the receiver of a partition accepts its free
  list, up to the first round whose ranges the clamping at `U32Max` makes overlap,
  or a worker leaves (mark `overlap`). Entangled pairs are included: they lose
  wires, never ids.

The property compares partitions and says nothing of where their ids come from, so
it is not inductive: two workers could be about to take the same fresh id, and
the next `split` could hand out a free list that names a live agent. The invariant
`IdsInv` (theorem `IdsInductive`) says, as long as the mark is not set (`marks` only
grow, lemma `MarksStay`),

* `Arena` of the merged net in every phase: the free list names dead ids, each
  once, and whatever is live or free lies below `next_id`;
* `Reducing`: each worker is `Confined` to ids below the `next_id` the ranges were
  computed from, which it was given by `split` and nobody else was, and to the
  part of its own range below its own `next_id`. That the ranges are apart is what
  ~`RangesClamped` gives (lemma `RangesApart`): an unclamped range begins where the
  ids in use end, and each ends before the next begins;
* `Restoring`: when the partitions are united, `next_id` of the merged net has
  passed that of every partition, so the free lists can be put together.

The steps of a net are described by two relations. `Rewired(n, m)` is what
`connect`, `link`, restoring a border and the wire format do: no id changes.
`Grows(n, m, k)` is what the rules do: at most `k` new ids, all taken from `next_id` on,
and an id that leaves the free list was on it. `RulesGrow` and `StepGrows` show
`k = 4` for every rule, entangled or not, from what `remove_agent` and `create_agent`
do under each recycling policy. `SubnetIds`, `UniteArena` and `ReconcileArena` are
the counterparts for `build_subnet` and the two ends of `merge`. `RangeStartsEmpty`
is a fact about the code that the proof turned up: the ranges of `compute_id_ranges`
begin at `next_id`, past the last slot of every partition, so the scan of
`build_subnet` for free slots inside a range (SPEC-22 R10a) never finds one, and a worker's free list
holds only what that worker has removed itself.

The exclusion is not idle: with chunks of ten times `next_id` the merged net's
`next_id` grows at least elevenfold a round, so a net of a hundred thousand ids on two workers is
clamped in its fifth round (finding 11). For how many rounds the theorem speaks thus depends
on the net; what it says is that nothing else makes two workers use one id.

The loops inside these operations (`drain_stale_redexes`, the queue and the free
list of `build_subnet`, the two nested loops that put the free lists together) are
instances of `FoldRule`: `Drain`, `Internal`, `Slots`, `FreeOne`, `FreeAll`.

### The border graph of the delta loop (`DeltaGrid_proofs`)

`DeltaInputAssumption` of `DeltaGrid`: no wire of a net handed to `run_grid_delta`
leads to an agent that is gone, and its redirects are PortRefs. Any such nets,
allocations, numbers of workers and rounds, both modes.

* `ActiveRedexesCorrect`: `Spec => []ActiveRedexesExact`. The set of active borders,
  maintained one change at a time by `apply_delta`, `add_border_states` and
  `remove_border`, is what a scan of the graph finds.
* `PendingPromotedCorrect`: `Spec => []PendingPromotedNextRound`. No border a
  resolution queued outlives the next round's results.
* `GraphMatchesCorrect`: `Spec => []GraphMatchesWorkers`. Until the first agent is
  minted, the ends the coordinator resolves on are the ends the workers hold, in
  whatever order results arrive and deltas are applied.

None of the three is inductive. The invariant `DeltaInv` (theorem `DeltaInductive`)
follows the references through the loop:

* `PartsSound`, `MessagesSound`: every port, redirect, border index, delta, payload
  and batch holds a PortRef of the code, except that the target of a wire of a batch
  may be a slot of that batch. So a `Pending` mark never leaks out of the
  queue into a net or into a delta. They also say that a worker's
  `previous_border_state` is the index of the partition it holds, that every worker
  answers once in a round, and that a delta names the end the worker has now;
* `GraphSound`: a border of the graph is a `BorderState` whose `is_redex` agrees with
  its ends, the active set is the set of those with `is_redex`, and every queued
  border waits for at least one mint;
* `EveryMintOwed`, during a round: an end that waits for a slot is covered by an
  echo among the results or by a batch at a worker that has not answered. It starts
  with `ResolverSound`: what a resolution queues, for each of the six pairs of
  symbols, are slots of the batches it sends;
* `GraphFollows` and, once the results are in, `GraphAgrees`: as long as nothing was
  minted, a border's end in the graph is its worker's own, or a delta that says so is
  among the results; and a border joins two different workers, without which
  `apply_delta` could write a worker's delta to the wrong side.

The operations of `Net` and the rules preserve `PlainNet`, entangled pairs included
(`RulesPlain`, `ReduceAllPlain`); `PlanSound` is the counterpart for `split` and
`from_partition_plan`, `BatchesMinted` for the minting, `RegisteredSound` for
`register_minted_agents`, `ResultsApplied` for the deltas and `ResolutionsPackaged`
for the payloads. The 26 loops involved are instances of `FoldRule`.

### What is only model-checked

* Liveness (`CollectEnds`, `WorkersStop`, `CoordinatorReturns`, `PeersReleased`,
  `AllArrive`): it needs fairness and ENABLED, which are outside the prover.
* `Grid`: `FundamentalProperty` and `InteractionCountInvariant` rest on the
  confluence of the calculus, an induction over reductions. `MergedNetWellFormed`,
  `SkippedRoundHadNoRedex` and `RoundsMakeProgress` need an account of every wire
  through split, relay and merge, under the exclusion of findings 4 to 7 and 11.
* `DeltaGrid`: `ConvergedIsNormal` and `StopsByItself` rest on the workers' local
  reductions ending in normal forms of their partitions, which entangled pairs
  (finding 4) break on larger nets, and on termination.
* `Streaming`: `StreamedNetIsTheNet` and `OneChunkStricter` compare the pipeline with
  a second fold over the whole stream, an induction over its batches.
  `PartitionsQueueRedexes` is the local half of it.
* `Compute`: the walks of `Readback` and `Lambda` are RECURSIVE operators.

## 5. Findings

Three are runs whose property TLC violates; the quoted lines are in PROJECT.json.

1. *Delta loop against reduce_all* (`delta_parity`). The coordinator resolves a
   border redex with its cached partitions (`merge/border_resolver.rs:540`), and
   nothing tells the cache of local reductions. When a worker's own commutation
   creates the agent that faces the border, `materialize_agent` finds nothing and
   the loop panics. Other nets converge on a net that is not isomorphic to the
   sequential one: a CON-CON resolution reconnects the neighbours at `worker_a`
   only, and the mints of a CON-ERA pair whose slots are wired only locally are
   refused as a ProtocolViolation.
2. *A wrong number* (`compute_horner`). Polynomials of degree 2 with leading
   coefficient 0 pass the guards of `decode_biguint` and are misread:
   [0, 1, 0] at x = 2 prints 4.
3. *A wrong answer of the strict grid* (`compute_strict`). 1^2 on two workers with
   `strict_bsp`: another order of reduction meets an entangled pair, and a wire is
   lost.

The following hold of the models above and of the code. The instances meet each
of them; each is excluded by name from the property it would break and shows when
the exclusion is lifted.

4. *Entangled annihilation* (`reduction/rules.rs:106`). Two CONs wired a.1-b.1 as
   well as principal to principal: both `link` calls see a removed agent and
   return, and the outer wires end nowhere. The same happens to a DUP pair wired
   crosswise, and a CON-DUP pair with a shared auxiliary wire is worse: the ids
   of the pair are recycled before `link` tests them. Excluded by `tangled` in
   Engine and `"entangled" \notin marks` in Grid.
5. *Self-worker without index rebuild* (`protocol/self_worker.rs:62`). The partition
   comes back without `rebuild_free_port_index`, although SPEC-20 wants it treated
   like any remote one; when a border has moved the merge restores a wire to where
   it was. Mark `unindexed`.
6. *Three-border chains* (`merge/core.rs:192`). On a wire that two annihilations
   relay through three borders the chain takes the wrong hop, because it prefers
   any AgentPort of the border it lands on. Six CONs show it, two annihilating
   pairs between two others so that the wire crosses the border before, between
   and after them. In `grid` it is a border relayed on both sides (`relayed_twice`);
   mark `chained`.
7. *Redirects purged by agent id* (`net/core.rs:695`). `remove_agent` removes
   `freeport_redirects[id]`, a map keyed by border id. A net without interface
   ports numbers its borders from 0; when a worker relays borders 0 and 3 through
   an annihilation and then removes its agents 0 and 3, both redirects are gone
   and the wire is lost (`relayed_and_purged`). The interface is lost the same way:
   the second pair of `ep_annihilation_con(2)` purges redirects 2 and 3. Mark
   `purged` in Grid, `lost` in Engine.
8. *Deferred borders never reduced* (`protocol/coordinator.rs:1501`). With
   `strict_bsp` `run_coordinator` resolves no border redex and the contiguous
   strategy cuts the same pair again in every round; excluded by
   `mode # "deferred"` in RoundsMakeProgress.
9. *Ok with part of the net missing* (`protocol/coordinator.rs:1469`). With
   `elastic_departure` a departed worker's partition is neither reclaimed nor an
   error; excluded by `withheld` in NetWholeUnlessWithheld.
10. *Retained registry keyed by slot, released by WorkerId*
    (`protocol/coordinator.rs:1030`). After worker 0 is lost `last_acked` keeps
    more entries than `k_eff`, the bound of the comment at line 1372.
11. *Id ranges clamped* (`partition/helpers.rs:62`). The chunks are
    max(100 000, 10 next_id), the last worker starts past the chunks of the others,
    and the merged net goes on from there. After a few rounds start and end are
    clamped to `u32::MAX`: the ranges overlap, which the debug assertion D3
    (`merge/core.rs:50`) refuses, and in a release build the workers create agents
    with the same ids. Only a debug assertion (`net/core.rs:541`) keeps a worker from
    leaving its range, too. Mark `overlap`.
12. *The peek ignores errors* (`protocol/coordinator.rs:1051`). It takes only
    `Ok(Ok(..))`: after a checksum or size error the stream stays in place and is
    read again, from wherever the failed call left it. What is then returned was
    still sent (`OnlyWhatWasSent`), but a frame may have been passed over in
    silence. History variable `ignored`.
13. *Waiting for the self-worker* (`protocol/coordinator.rs:1282`). With
    `hybrid_coordinator` and `elastic_departure`, a self-worker that has timed out is
    a departure, but its task is awaited without a timer while nobody reads its
    stream: a result longer than the 1 MiB pipe blocks both for ever. `SelfBlocked`,
    excluded from `CoordinatorReturns`.

T7 as `docs/theory/invariants.md` states it, without exception, does not hold
either: an erasure or a commutation that meets a self-loop does in one
interaction what several do when the loop is closed later, which is why
`InteractionCountInvariant` excludes runs in which a rule took that shortcut.

Smaller observations made while translating:

* `coordinator.rs`: a result that arrives before AllDispatched meets the wildcard
  row and is dropped; the round then ends by its timer (`CollectEnds`).
  `AcceptingMembershipChanges` and `SoloReducing` are never entered, departures do
  not reduce `total_workers`, and `WorkerContext.round` is never set.
* `partition/streaming.rs`: an interface id that is declared after a border took
  its number aliases that border (`bench/streaming.rs:367` knows); the short
  circuit drops FreePortInterface wires; `border_wire_count` counts skipped ids;
  `default_chunked_iter` drops a wire between two ports of one agent; the
  conversion of a chunked result into a plan sets `next_border_id` to 0. The
  pipeline checks the age of forward references before it delivers a chunk, the
  suite's assembly after (`OneChunkStricter` is that relation exactly).
* `encoding/`: the all-zero polynomial [0, 0] is inside the documented envelope
  and is not read; the registry refuses powers with exponent 0 and sums of squares up to 1.
  A lambda term whose value is a free variable is not read (no agent faces
  FreePort 0), and neither is a shared application that is stuck, as in
  (\x. x x)(\x. y x): the readback then fails, it is never wrong.
* `protocol/frame.rs`: a `recv_frame` that is cancelled inside a frame puts the
  stream out of step. One such cancellation is always noticed; two of them may
  cancel out and lose a message in silence (the case `NoSilentSkip` excludes).

## 6. Not modelled

* The pull-dispatch variants of the state machines (`CoordinatorPullContext`,
  `WorkerPullContext`): nothing drives them, and `try_transition_inner` refuses
  PartitionResultReceived in the two states in which the final results arrive,
  so a composition would only show that it cannot finish.
* `partition/remap.rs` and the archived v2 payload: serialisations of the same
  partition. `Net::union`, the tombstones of debug
  builds. `extend_with_chunk_borders`, which only tests call.
* The text of terms, numbers and nets (`parse_term`, `print_term`, JSON, the text
  DSL): a term is its tree and a net its arena.
* The daemon's reconnect loop: a second job is a new peer. Tokens, versions and
  TLS: a peer with a wrong one is a peer that is dropped.
* File formats, command line, transports, logging, metrics, the times, statistics
  and CSV rows of the benchmarks: input and output. `run_single_worker` is `Engine`.
* About half of the lines under `src/` are tests, most of them inside the files
  they test, and much of the rest is the input and output above, so the
  lines the map names are a small share of all lines. What is left of the
  program's own logic is listed here.
* The 2^24 arena slots of `build_subnet_sparse`, the 2^28 commutation ids of a
  request and the 50 ms of the peek are far beyond any instance; the first two are
  left out, the third is an action that may happen at any time.

## 7. Plan

1. `PartitionsQueueRedexes` of `Streaming`, with the loops of a chunk as instances of
   `FoldRule`.
2. The daemon loop as a peer that comes back, and the admission of a joiner that
   arrives while the coordinator reduces alone.
