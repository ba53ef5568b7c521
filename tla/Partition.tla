----------------------------- MODULE Partition -----------------------------
(***************************************************************************)
(* Decomposition of a net into one partition per worker: partition/split.rs *)
(* and partition/helpers.rs.  The allocation sigma is an argument: it is    *)
(* the result of whatever PartitionStrategy the caller supplies.            *)
(***************************************************************************)
EXTENDS Reduction

CONSTANTS
    NumWorkers,     \* partitions are numbered 0 .. NumWorkers-1
    MinChunk,       \* stands for min_chunk of compute_id_ranges (100 000)
    Growth          \* stands for the factor of its proportional part (10)

ASSUME PartitionAssumption ==
    /\ NumWorkers \in Nat \ {0}
    /\ MinChunk \in Nat \ {0}
    /\ Growth \in Nat

WorkerIds == 0 .. NumWorkers - 1

Allocations(n) == [Live(n) -> WorkerIds]

(* ContiguousIdStrategy: live ids ascending, in chunks of ceil(total / n).  *)
ContiguousId(n) ==
    LET total == Cardinality(Live(n))
        chunk == (total + NumWorkers - 1) \div NumWorkers
    IN  [i \in Live(n) |-> Cardinality({j \in Live(n) : j < i}) \div chunk]

(* Every FreePort index in the port array, DISCONNECTED excluded.           *)
FreePortIds(n) ==
    {n.ports[ip[1]][ip[2]][2] : ip \in
        {jq \in AgentIds \X PortIds : /\ IsFreePort(n.ports[jq[1]][jq[2]])
                                      /\ n.ports[jq[1]][jq[2]] # DISCONNECTED}}

BorderIdStart(n) ==
    IF FreePortIds(n) = {} THEN 0 ELSE Max(FreePortIds(n)) + 1

(***************************************************************************)
(* compute_id_ranges: a chunk of ids per worker from base on, proportional *)
(* to what is in use, the last one open; start and end are clamped to the  *)
(* ids of 32 bits.                                                         *)
(***************************************************************************)
Lesser(x, y) == IF x < y THEN x ELSE y

chunk_size(base) == IF MinChunk < Growth * base THEN Growth * base ELSE MinChunk

RangeEnd(w, base) ==
    IF w = NumWorkers - 1 THEN U32Max ELSE Lesser(base + (w + 1) * chunk_size(base), U32Max)

(* Mutant of compute_id_ranges: every worker starts at the same id.        *)
compute_id_ranges_shared(w, base) ==
    [start |-> Lesser(base, U32Max - 1), end |-> RangeEnd(w, base)]

compute_id_ranges(w, base) ==
    [start |-> Lesser(base + w * chunk_size(base), U32Max - 1), end |-> RangeEnd(w, base)]

(* The ids of 32 bits do not suffice for the ranges: the last one is       *)
(* clamped, and overlaps the one before it (the debug assertion D3 of      *)
(* merge refuses that) or the ids in use.                                  *)
RangesClamped(base) == base + (NumWorkers - 1) * chunk_size(base) > U32Max - 1

(***************************************************************************)
(* classify_wires: a wire between agents of different workers is a border,  *)
(* found from its smaller agent id; border ids are consecutive in the order *)
(* of the scan (agent id, then port).                                       *)
(***************************************************************************)
(* The lookup sigma[&other_id] panics on a wire to an agent that is gone.   *)
AllocationCovers(n, sigma) ==
    \A ip \in LivePorts(n) :
        LET target == n.ports[ip[1]][ip[2]]
        IN  IsAgentPort(target) /\ ip[1] < target[2] => target[2] \in DOMAIN sigma

BorderPorts(n, sigma) ==
    {ip \in LivePorts(n) :
        LET target == n.ports[ip[1]][ip[2]]
        IN  /\ IsAgentPort(target)
            /\ ip[1] < target[2]
            /\ sigma[ip[1]] # sigma[target[2]]}

ScanBefore(ip, jq) == ip[1] < jq[1] \/ (ip[1] = jq[1] /\ ip[2] < jq[2])

Borders(n, sigma) ==
    LET scan == BorderPorts(n, sigma)
        base == BorderIdStart(n)
        rank(ip) == Cardinality({jq \in scan : ScanBefore(jq, ip)})
    IN  [b \in base .. base + Cardinality(scan) - 1 |->
            LET ip == CHOOSE jq \in scan : rank(jq) = b - base
            IN  <<AgentPort(ip[1], ip[2]), n.ports[ip[1]][ip[2]]>>]

(* The border ids whose wire has an end in worker w, with that end.         *)
BorderEntries(n, sigma, w) ==
    LET bs == Borders(n, sigma)
        mine(b) == {k \in {1, 2} : sigma[bs[b][k][2]] = w}
    IN  [b \in {c \in DOMAIN bs : mine(c) # {}} |->
            bs[b][CHOOSE k \in {1, 2} : k \in mine(b)]]

(***************************************************************************)
(* build_subnet: the worker's agents, border wires replaced by FreePorts,   *)
(* the queued pairs internal to the worker, the None slots of the id range  *)
(* that the arena covers as the free list.  An empty worker (sparse path)   *)
(* keeps only its id range.                                                 *)
(***************************************************************************)
PushNone(agents, list, i) == IF agents[i] = None THEN Append(list, i) ELSE list

RangeFreeList(agents, range, arena_len) ==
    LET stop == IF range.end < arena_len THEN range.end ELSE arena_len
    IN  FoldLeft(LAMBDA l, i : PushNone(agents, l, i), <<>>,
                 [k \in 1 .. stop - range.start |-> range.start + k - 1])

PushInternal(mine, queue, ab) ==
    IF {ab[1], ab[2]} \subseteq mine THEN Append(queue, ab) ELSE queue

build_subnet(n, sigma, w) ==
    LET mine == {i \in Live(n) : sigma[i] = w}
        entries == BorderEntries(n, sigma, w)
        range == compute_id_ranges(w, n.next_id)
        overrides(r) == {b \in DOMAIN entries : entries[b] = r}
        agents == [i \in AgentIds |-> IF i \in mine THEN n.agents[i] ELSE None]
        target(i, p) ==
            LET over == overrides(AgentPort(i, p))
            IN  IF over # {} THEN FreePort(CHOOSE b \in over : TRUE) ELSE n.ports[i][p]
    IN  IF mine = {} THEN [EmptyNet EXCEPT !.next_id = range.start]
        ELSE [EmptyNet EXCEPT
                !.agents = agents,
                !.ports = [i \in AgentIds |-> [p \in PortIds |->
                              IF i \in mine THEN target(i, p) ELSE DISCONNECTED]],
                !.queue = FoldLeft(LAMBDA q, ab : PushInternal(mine, q, ab), <<>>, n.queue),
                !.next_id = Max({range.start, Max(mine) + 1}),
                !.free_list = RangeFreeList(agents, range, Max(mine) + 1),
                !.redirects = n.redirects,
                !.shadow = {entries[b][2] : b \in DOMAIN entries}]

propagate_root(n, sigma, w) ==
    IF IsAgentPort(n.root) /\ sigma[n.root[2]] = w THEN n.root ELSE DISCONNECTED

(* One partition of the plan.                                              *)
PartitionOf(n, sigma, w) ==
    [ subnet          |-> [build_subnet(n, sigma, w) EXCEPT
                              !.root = propagate_root(n, sigma, w)],
      free_port_index |-> BorderEntries(n, sigma, w),
      id_range        |-> compute_id_ranges(w, n.next_id),
      border_start    |-> BorderIdStart(n),
      border_end      |-> BorderIdStart(n) + Cardinality(BorderPorts(n, sigma)) ]

split(n, sigma) == [w \in WorkerIds |-> PartitionOf(n, sigma, w)]

(***************************************************************************)
(* CompactSubnet: what arrives of a subnet that is sent to a worker or     *)
(* back.  Live agents, their ports, the queue, next_id, the root and the   *)
(* order of the free list travel; redirects, the shadow of the borders and *)
(* the recycling policy do not.  The receiver refuses a free list whose    *)
(* ids are not free, not issued or not distinct.                           *)
(***************************************************************************)
OverTheWire(n) ==
    [EmptyNet EXCEPT !.agents = n.agents,
                     !.ports = [i \in AgentIds |-> IF i \in Live(n) THEN n.ports[i]
                                                   ELSE EmptyNet.ports[i]],
                     !.queue = n.queue,
                     !.next_id = n.next_id,
                     !.root = n.root,
                     !.free_list = n.free_list]

WireAccepts(n) == validate_free_list(n) /\ \A id \in ToSet(n.free_list) : id < n.next_id
=============================================================================
