------------------------------ MODULE Streaming ------------------------------
(***************************************************************************)
(* Chunked generation and partitioning: partition/streaming.rs with the    *)
(* generators of bench/streaming.rs and the partition-free assembly of     *)
(* bench/suite.rs.  A stream is a sequence of batches; every batch brings  *)
(* agents and connection directives, and a wire whose far agent has not    *)
(* been generated yet waits in the pending store.                          *)
(***************************************************************************)
EXTENDS Merge

CONSTANTS
    Streams,        \* the streams handed to the pipeline
    Lifetimes       \* the values of max_pending_lifetime; U32Max disables it

ASSUME StreamingAssumption == Lifetimes \subseteq 1 .. U32Max

VARIABLES
    stage,          \* "chunks", "done", "expired", "unresolved", "oversized", "panic"
    stream,         \* the batches
    fennel,         \* FennelStreamingStrategy (alpha 1.0), else round robin
    short_circuit,  \* chunk_size is CHUNK_SIZE_MAX_SENTINEL
    lifetime,       \* max_pending_lifetime
    seen,           \* chunks_seen
    pipe,           \* the pipeline's local state
    parts,          \* ChunkedPartitionResult.partitions
    borders         \* ChunkedPartitionResult.borders

vars == <<stage, stream, fennel, short_circuit, lifetime, seen, pipe, parts, borders>>

(***************************************************************************)
(* ConnectionDirective and AgentBatch.                                     *)
(***************************************************************************)
Resolved(s, t) == [kind |-> "Resolved", source |-> s, target |-> t]
Pending(s, t) == [kind |-> "Pending", source |-> s, target |-> t]
FreePortInterface(s, n) == [kind |-> "Interface", source |-> s, target |-> FreePort(n)]

Batch(agents, wires) == [agents |-> agents, connections |-> wires]
OfKind(batch, kind) == SelectSeq(batch.connections, LAMBDA d : d.kind = kind)

(* The live ports and the live agents in the order of the arena.           *)
PortScan(n) ==
    SelectSeq([k \in 1 .. 3 * ArenaSize |-> <<(k - 1) \div 3, (k - 1) % 3>>],
              LAMBDA ip : ip \in LivePorts(n))
AgentScan(n) == SelectSeq([k \in 1 .. ArenaSize |-> k - 1], LAMBDA i : n.agents[i] # None)

-----------------------------------------------------------------------------
(***************************************************************************)
(* The generators.  default_chunked_iter emits a net in one batch, each    *)
(* wire from the end with the smaller agent id.                            *)
(***************************************************************************)
default_chunked_iter(n) ==
    LET ports == PortScan(n)
        directive(ip) ==
            LET target == n.ports[ip[1]][ip[2]]
            IN  IF IsAgentPort(target)
                THEN IF ip[1] < target[2]
                     THEN <<Resolved(AgentPort(ip[1], ip[2]), target)>> ELSE <<>>
                ELSE IF target # DISCONNECTED
                THEN <<FreePortInterface(AgentPort(ip[1], ip[2]), target[2])>> ELSE <<>>
        ids == AgentScan(n)
    IN  << Batch([k \in DOMAIN ids |-> <<ids[k], n.agents[ids[k]]>>],
                 FlattenSeq([k \in DOMAIN ports |-> directive(ports[k])])) >>

(* size independent ERA-ERA pairs, chunk \div 2 pairs (at least one) per   *)
(* batch.                                                                  *)
ep_annihilation_stream(size, chunk) ==
    LET per == Max({chunk \div 2, 1})
        pairs(k) == Min({per, size - per * (k - 1)})
        first(k) == 2 * per * (k - 1)
    IN  [k \in 1 .. (size + per - 1) \div per |->
            Batch([j \in 1 .. 2 * pairs(k) |-> <<first(k) + j - 1, "Era">>],
                  [j \in 1 .. pairs(k) |-> Resolved(AgentPort(first(k) + 2 * j - 2, 0),
                                                    AgentPort(first(k) + 2 * j - 1, 0))])]

(***************************************************************************)
(* dual_tree_stream: two perfect binary trees of CONs joined at the roots, *)
(* emitted bottom-up, the left tree first.  A child is wired to its parent *)
(* by a forward reference unless the parent is in the same batch; a leaf's *)
(* auxiliary ports are interface FreePorts numbered above the agents.      *)
(***************************************************************************)
dual_tree_stream(depth, chunk) ==
    LET nodes == 2 ^ depth - 1
        level(i) == CHOOSE l \in 0 .. depth : 2 ^ l <= i + 1 /\ i + 1 < 2 ^ (l + 1)
        order == SetToSortSeq(0 .. nodes - 1,
                    LAMBDA a, b : level(a) > level(b) \/ (level(a) = level(b) /\ a < b))
        emitted(i) == (CHOOSE k \in DOMAIN order : order[k] = i) - 1
        batchOf(eid) == eid \div chunk
        toParent(eid, i, tree) ==
            LET parent == AgentPort(tree + emitted((i - 1) \div 2), IF i % 2 = 1 THEN 1 ELSE 2)
            IN  IF i = 0 THEN <<>>
                ELSE IF batchOf(parent[2]) = batchOf(eid)
                THEN <<Resolved(AgentPort(eid, 0), parent)>>
                ELSE <<Pending(AgentPort(eid, 0), parent)>>
        leaf(eid, i, tree, p) ==
            IF 2 * i + p < nodes THEN <<>>
            ELSE <<FreePortInterface(AgentPort(eid, p),
                      2 * nodes + (IF tree > 0 THEN nodes + 1 ELSE 0) + 2 * i + p - nodes)>>
        root(eid, i, tree) ==
            IF i = 0 /\ tree = 0
            THEN <<Pending(AgentPort(eid, 0), AgentPort(nodes + eid, 0))>> ELSE <<>>
        wiresOf(eid) ==
            LET tree == IF eid >= nodes THEN nodes ELSE 0
                i == order[eid - tree + 1]
            IN  toParent(eid, i, tree) \o leaf(eid, i, tree, 1) \o leaf(eid, i, tree, 2)
                    \o root(eid, i, tree)
    IN  [k \in 1 .. (2 * nodes + chunk - 1) \div chunk |->
            LET base == chunk * (k - 1)
                size == Min({chunk, 2 * nodes - base})
            IN  Batch([j \in 1 .. size |-> <<base + j - 1, "Con">>],
                      FlattenSeq([j \in 1 .. size |-> wiresOf(base + j - 1)]))]

-----------------------------------------------------------------------------
(* SparseNet::create_agent_at.                                             *)
create_agent_at(n, id, sym) ==
    [n EXCEPT !.agents[id] = sym, !.next_id = Max({@, id + 1})]

(* The arena of to_dense: the ids up to the largest live one.              *)
DenseLen(n) == IF Live(n) = {} THEN 1 ELSE Max(Live(n)) + 1

to_dense(n, range) == [n EXCEPT !.free_list = RangeFreeList(n.agents, range, DenseLen(n))]

(***************************************************************************)
(* build_input_net_from_suite: the same stream assembled into one net.  A  *)
(* forward reference expires when its target has not come limit chunks     *)
(* after it was recorded.                                                  *)
(***************************************************************************)
build_input_net(batches, limit) ==
    LET agents(n, b) == FoldLeft(LAMBDA m, a : create_agent_at(m, a[1], a[2]), n, b.agents)
        wire(n, ds) == FoldLeft(LAMBDA m, d : connect(m, d.source, d.target), n, ds)
        step(acc, k) ==
            LET b == batches[k]
                n == wire(agents(acc.net, b), SelectSeq(b.connections, LAMBDA d : d.kind # "Pending"))
                waiting == acc.waiting \o [j \in DOMAIN OfKind(b, "Pending") |->
                                              <<OfKind(b, "Pending")[j], k>>]
                arrived == SelectSeq(waiting, LAMBDA w : w[1].target[2] \in Live(n))
                left == SelectSeq(waiting, LAMBDA w : w[1].target[2] \notin Live(n))
                late == \E j \in DOMAIN left : k - left[j][2] > limit
            IN  IF ~acc.ok THEN acc
                ELSE [ok |-> limit = U32Max \/ ~late, waiting |-> left,
                      net |-> wire(n, [j \in DOMAIN arrived |-> arrived[j][1]])]
        end == FoldLeft(step, [ok |-> TRUE, waiting |-> <<>>, net |-> EmptyNet],
                        [k \in DOMAIN batches |-> k])
    IN  [ok |-> end.ok /\ end.waiting = <<>>,
         net |-> to_dense(end.net, [start |-> 0, end |-> DenseLen(end.net)])]

-----------------------------------------------------------------------------
(***************************************************************************)
(* The pipeline's state: the accumulators (subnet and free_port_index per  *)
(* worker), agent_owner and the strategy's counts, the border allocator,   *)
(* the reserved interface ids and the pending store.                       *)
(***************************************************************************)
EmptyPipe ==
    [ subnets  |-> [w \in WorkerIds |-> EmptyNet],
      index    |-> [w \in WorkerIds |-> <<>>],
      owner    |-> <<>>,
      counts   |-> [w \in WorkerIds |-> 0],
      borders  |-> <<>>,
      counter  |-> 0,
      first    |-> U32Max,
      reserved |-> {},
      pending  |-> <<>> ]

Init ==
    /\ stage = "chunks"
    /\ stream \in Streams
    /\ fennel \in BOOLEAN
    /\ short_circuit \in BOOLEAN
    /\ lifetime \in Lifetimes
    /\ short_circuit => ~fennel /\ lifetime = U32Max
    /\ seen = 0
    /\ pipe = EmptyPipe
    /\ parts = <<>>
    /\ borders = <<>>

(***************************************************************************)
(* allocate_batch.  Fennel scores a worker by the agent's neighbours of    *)
(* earlier batches it holds, less its load; the lowest id wins a tie.      *)
(***************************************************************************)
Neighbours(p, batch, id, w) ==
    LET ids == {batch.agents[k][1] : k \in DOMAIN batch.agents}
        ds == OfKind(batch, "Resolved")
        other(d) == IF d.source[2] = id THEN d.target[2] ELSE d.source[2]
    IN  Cardinality({k \in DOMAIN ds :
            /\ id \in {ds[k].source[2], ds[k].target[2]}
            /\ other(ds[k]) \notin ids
            /\ other(ds[k]) \in DOMAIN p.owner
            /\ p.owner[other(ds[k])] = w})

FennelChoice(p, batch, id, counts) ==
    LET score(w) == Neighbours(p, batch, id, w) - counts[w]
    IN  Min({w \in WorkerIds : \A v \in WorkerIds : score(v) <= score(w)})

RoundRobinChoice(counts) == FoldFunction(+, 0, counts) % NumWorkers

(* The agents of the batch go to their workers (add_agent).                *)
allocate_batch(p, batch) ==
    LET place(q, a) ==
            LET w == IF fennel THEN FennelChoice(p, batch, a[1], q.counts)
                     ELSE RoundRobinChoice(q.counts)
            IN  [q EXCEPT !.counts[w] = @ + 1,
                          !.owner = (a[1] :> w) @@ @,
                          !.subnets[w] = create_agent_at(@, a[1], a[2])]
    IN  FoldLeft(place, p, batch.agents)

(* PartitionAccumulator::connect.                                          *)
Attach(p, w, a, b) ==
    [p EXCEPT !.subnets[w] = connect(@, a, b),
              !.index[w] = IF IsFreePort(b) THEN (b[2] :> a) @@ @ ELSE @]

(* The first border id from counter on that no interface has reserved.     *)
FreshBorder(p) ==
    CHOOSE b \in p.counter .. p.counter + Cardinality(p.reserved) :
        b \notin p.reserved /\ \A c \in p.counter .. b - 1 : c \in p.reserved

(***************************************************************************)
(* install_connection: a wire inside a worker, or a border wire with a     *)
(* fresh id, recorded from the lower to the higher worker.                 *)
(***************************************************************************)
(* Mutant of install_connection: the counter is used as it stands.         *)
install_connection_aliased(p, s, t) ==
    LET v == p.owner[s[2]]
        w == p.owner[t[2]]
        b == p.counter
    IN  IF v = w THEN Attach(p, v, s, t)
        ELSE [Attach(Attach(p, v, s, FreePort(b)), w, t, FreePort(b)) EXCEPT
                 !.borders = (b :> IF v <= w THEN <<s, t>> ELSE <<t, s>>) @@ @,
                 !.counter = b + 1,
                 !.first = IF @ = U32Max THEN b ELSE @]

(* Mutant of install_connection: an inner wire is stored without looking   *)
(* for a redex.                                                            *)
install_connection_raw(p, s, t) ==
    LET v == p.owner[s[2]]
        w == p.owner[t[2]]
        b == FreshBorder(p)
    IN  IF v = w THEN [p EXCEPT !.subnets[v] = set_port(set_port(@, s, t), t, s)]
        ELSE [Attach(Attach(p, v, s, FreePort(b)), w, t, FreePort(b)) EXCEPT
                 !.borders = (b :> IF v <= w THEN <<s, t>> ELSE <<t, s>>) @@ @,
                 !.counter = b + 1,
                 !.first = IF @ = U32Max THEN b ELSE @]

install_connection(p, s, t) ==
    LET v == p.owner[s[2]]
        w == p.owner[t[2]]
        b == FreshBorder(p)
    IN  IF v = w THEN Attach(p, v, s, t)
        ELSE [Attach(Attach(p, v, s, FreePort(b)), w, t, FreePort(b)) EXCEPT
                 !.borders = (b :> IF v <= w THEN <<s, t>> ELSE <<t, s>>) @@ @,
                 !.counter = b + 1,
                 !.first = IF @ = U32Max THEN b ELSE @]

InstallAll(p, ds) == FoldLeft(LAMBDA q, d : install_connection(q, d.source, d.target), p, ds)

(* Mutant of Expired: one chunk earlier.                                   *)
ExpiredEarly(p, now) ==
    lifetime # U32Max /\ \E k \in DOMAIN p.pending : now - p.pending[k].birth >= lifetime

(* Entries of the pending store that are older than the budget.            *)
Expired(p, now) ==
    lifetime # U32Max /\ \E k \in DOMAIN p.pending : now - p.pending[k].birth > lifetime

(* A directive that names an agent no batch has brought so far panics.     *)
Unowned(p, batch) ==
    \/ \E k \in DOMAIN OfKind(batch, "Resolved") :
           ~({OfKind(batch, "Resolved")[k].source[2], OfKind(batch, "Resolved")[k].target[2]}
                \subseteq DOMAIN p.owner)
    \/ \E k \in DOMAIN OfKind(batch, "Interface") :
           OfKind(batch, "Interface")[k].source[2] \notin DOMAIN p.owner

(* The wires that waited for an agent.                                     *)
Delivered(p, id) ==
    [InstallAll(p, SelectSeq(p.pending, LAMBDA d : d.target[2] = id)) EXCEPT
        !.pending = SelectSeq(@, LAMBDA d : d.target[2] # id)]

(***************************************************************************)
(* One iteration of the streaming loop: reserve the interface ids, place   *)
(* the agents, install the resolved wires and the interface, buffer the    *)
(* forward references, check their age, deliver the ones whose agent came. *)
(***************************************************************************)
Chunk ==
    LET batch == stream[seen + 1]
        ids == [k \in DOMAIN batch.agents |-> batch.agents[k][1]]
        reserving == [pipe EXCEPT !.reserved = @ \cup
                         {OfKind(batch, "Interface")[k].target[2] : k \in DOMAIN OfKind(batch, "Interface")}]
        placed == allocate_batch(reserving, batch)
        wired == InstallAll(placed, OfKind(batch, "Resolved"))
        faced == FoldLeft(LAMBDA p, d : Attach(p, p.owner[d.source[2]], d.source, d.target),
                          wired, OfKind(batch, "Interface"))
        fresh == OfKind(batch, "Pending")
        buffered == [faced EXCEPT !.pending = @ \o [k \in DOMAIN fresh |->
                        [source |-> fresh[k].source, target |-> fresh[k].target, birth |-> seen + 1]]]
    IN  /\ stage = "chunks"
        /\ ~short_circuit
        /\ seen < Len(stream)
        /\ seen' = seen + 1
        /\ IF Unowned(placed, batch)
           THEN stage' = "panic" /\ UNCHANGED pipe
           ELSE IF Expired(buffered, seen + 1)
           THEN stage' = "expired" /\ UNCHANGED pipe
           ELSE pipe' = FoldLeft(Delivered, buffered, ids) /\ UNCHANGED stage
        /\ UNCHANGED <<stream, fennel, short_circuit, lifetime, parts, borders>>

(***************************************************************************)
(* PartitionAccumulator::finalize: the bands of the id space are disjoint, *)
(* whatever ids the workers hold; an arena more than four times the live   *)
(* agents is refused.                                                      *)
(***************************************************************************)
Band(p, w) ==
    LET total == Max({Max(DOMAIN p.owner) + 1, 0})
        band == (total + NumWorkers - 1) \div NumWorkers
    IN  IF p.owner = <<>> THEN [start |-> 0, end |-> 0]
        ELSE [start |-> Min({w * band, total}), end |-> Min({(w + 1) * band, total})]

Oversized(p, w) ==
    p.counts[w] > 0 /\ Max(Live(p.subnets[w])) + 1 > 4 * p.counts[w]

PartitionFrom(p, w) ==
    LET dense == to_dense(p.subnets[w], Band(p, w))
    IN  [ subnet          |-> [dense EXCEPT !.next_id = Max({@, Band(p, w).start})],
          free_port_index |-> p.index[w],
          id_range        |-> Band(p, w),
          border_start    |-> IF p.first = U32Max THEN p.counter ELSE p.first,
          border_end      |-> p.counter ]

Finalize ==
    /\ stage = "chunks"
    /\ ~short_circuit
    /\ seen = Len(stream)
    /\ IF pipe.pending # <<>>
       THEN stage' = "unresolved" /\ UNCHANGED <<parts, borders>>
       ELSE IF \E w \in WorkerIds : Oversized(pipe, w)
       THEN stage' = "oversized" /\ UNCHANGED <<parts, borders>>
       ELSE /\ parts' = [w \in WorkerIds |-> PartitionFrom(pipe, w)]
            /\ borders' = pipe.borders
            /\ stage' = "done"
    /\ UNCHANGED <<stream, fennel, short_circuit, lifetime, seen, pipe>>

(***************************************************************************)
(* chunk_size = u32::MAX: the resolved wires are assembled into one net,   *)
(* which is split by ContiguousIdStrategy; the other directives are        *)
(* skipped.                                                                *)
(***************************************************************************)
Materialise ==
    LET resolvedOnly == [k \in DOMAIN stream |->
                            [stream[k] EXCEPT !.connections = OfKind(stream[k], "Resolved")]]
        n == build_input_net(resolvedOnly, U32Max).net
    IN  /\ stage = "chunks"
        /\ short_circuit
        /\ parts' = split(n, ContiguousId(n))
        /\ borders' = Borders(n, ContiguousId(n))
        /\ stage' = "done"
        /\ UNCHANGED <<stream, fennel, short_circuit, lifetime, seen, pipe>>

Next == Chunk \/ Finalize \/ Materialise

Spec == Init /\ [][Next]_vars
-----------------------------------------------------------------------------
Directives(kind) ==
    UNION {ToSet(OfKind(stream[k], kind)) : k \in DOMAIN stream}

LateInterface ==
    UNION {{d.target[2] : d \in ToSet(OfKind(stream[k], "Interface"))} : k \in 2 .. Len(stream)}

Reassembled ==
    FoldSet(LAMBDA b, n : RestoreBorder(n, parts, borders, b), Unite(parts, borders), DOMAIN borders)

SameNet(m, n) ==
    /\ m.agents = n.agents
    /\ \A ip \in LivePorts(m) : m.ports[ip[1]][ip[2]] = n.ports[ip[1]][ip[2]]

(* The partitions of a stream, put together again by merge, are the net    *)
(* the same directives assemble without partitions (split/merge identity,  *)
(* the doc of ChunkedPartitionResult), whatever the chunks, the strategy   *)
(* and the forward references.  Two exceptions the code documents or has:  *)
(* an interface id declared after a border took it, and the short circuit, *)
(* which knows resolved wires only.                                        *)
StreamedNetIsTheNet ==
    /\ stage = "done"
    /\ IF short_circuit THEN Directives("Pending") \cup Directives("Interface") = {}
       ELSE LateInterface \cap DOMAIN borders = {}
    => SameNet(Reassembled, build_input_net(stream, U32Max).net)

(* Every active pair that ended up inside one partition is in that         *)
(* partition's queue, also when a forward reference closed it.             *)
PartitionsQueueRedexes ==
    stage = "done" => \A w \in WorkerIds : RedexesQueued(parts[w].subnet)

(* The two readers of a stream agree on which streams are malformed, the   *)
(* pipeline being one chunk stricter: it looks at the age of a forward     *)
(* reference before it delivers the agents of the chunk.                   *)
OneChunkStricter ==
    /\ ~short_circuit
    /\ stage # "chunks"
    /\ lifetime # U32Max
    => (stage \in {"expired", "unresolved"} <=> ~build_input_net(stream, lifetime - 1).ok)
=============================================================================
