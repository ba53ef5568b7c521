------------------------------- MODULE Merge -------------------------------
(***************************************************************************)
(* Recombination of locally reduced partitions: merge/core.rs and          *)
(* merge/helpers.rs.                                                       *)
(***************************************************************************)
EXTENDS Partition

(***************************************************************************)
(* rebuild_free_port_index: the live port that holds each border FreePort, *)
(* else the redirect recorded for it.                                      *)
(***************************************************************************)
rebuild_free_port_index(part) ==
    LET n == part.subnet
        range == part.border_start .. part.border_end - 1
        holders(b) == {ip \in LivePorts(n) : n.ports[ip[1]][ip[2]] = FreePort(b)}
        held == {b \in range : holders(b) # {}}
        redirected == (range \cap DOMAIN n.redirects) \ held
    IN  [b \in held \cup redirected |->
            IF b \in held
            THEN LET ip == CHOOSE x \in holders(b) : \A y \in holders(b) : ~ScanBefore(x, y)
                 IN  AgentPort(ip[1], ip[2])
            ELSE n.redirects[b]]

(* Mutant of compute_border_activity: every border must be principal.      *)
compute_border_activity_all(part) ==
    \A b \in DOMAIN part.free_port_index : IsPrincipal(part.free_port_index[b])

(* A border endpoint that is a principal port may form a border redex.     *)
compute_border_activity(part) ==
    \E b \in DOMAIN part.free_port_index : IsPrincipal(part.free_port_index[b])

(***************************************************************************)
(* merge, steps 1 and 2: unite the agents and the internal wires; a wire   *)
(* to a border FreePort stays open until its border is restored.  A later  *)
(* partition overwrites a slot an earlier one filled.                      *)
(***************************************************************************)
Owner(parts, i) ==
    LET owners == {w \in WorkerIds : parts[w].subnet.agents[i] # None}
    IN  IF owners = {} THEN -1 ELSE Max(owners)

Unite(parts, borders) ==
    LET sub(i) == parts[Owner(parts, i)].subnet
        port(i, p) ==
            IF Owner(parts, i) = -1 \/ p >= total_ports(sub(i).agents[i]) THEN DISCONNECTED
            ELSE LET target == sub(i).ports[i][p]
                 IN  IF IsFreePort(target) /\ target[2] \in DOMAIN borders
                     THEN DISCONNECTED ELSE target
        rooted == {w \in WorkerIds : parts[w].subnet.root # DISCONNECTED}
    IN  [EmptyNet EXCEPT
            !.agents = [i \in AgentIds |->
                           IF Owner(parts, i) = -1 THEN None ELSE sub(i).agents[i]],
            !.ports = [i \in AgentIds |-> [p \in PortIds |-> port(i, p)]],
            !.next_id = Max({parts[w].subnet.next_id : w \in WorkerIds}),
            !.root = IF rooted = {} THEN DISCONNECTED ELSE parts[Max(rooted)].subnet.root]

(***************************************************************************)
(* merge, step 3: the wire of one border is restored between the two       *)
(* current ends the partitions report, each followed through FreePort      *)
(* redirects (resolve_freeport_chain, at most MaxChainDepth hops).         *)
(***************************************************************************)
MaxChainDepth == 8

Reporters(parts, b) == {w \in WorkerIds : b \in DOMAIN parts[w].free_port_index}

NextHop(parts, borders, r) ==
    IF ~(IsFreePort(r) /\ r[2] \in DOMAIN borders) THEN r
    ELSE LET at(w) == parts[w].free_port_index[r[2]]
             reporting == Reporters(parts, r[2])
             terminal == {w \in reporting : IsAgentPort(at(w))}
         IN  IF reporting = {} THEN r
             ELSE IF terminal # {} THEN at(Min(terminal))
             ELSE at(Min(reporting))

resolve_freeport_chain(parts, borders, r) ==
    LET hop[k \in 0 .. MaxChainDepth] ==
            IF k = 0 THEN r ELSE NextHop(parts, borders, hop[k - 1])
    IN  hop[MaxChainDepth]

(* A border that is relayed on both of its sides: NextHop follows only the *)
(* first reporter's redirect, and a chain of borders may turn back.        *)
Chained(parts, borders) ==
    \E b \in DOMAIN borders :
        /\ Cardinality(Reporters(parts, b)) = 2
        /\ \A w \in Reporters(parts, b) : IsFreePort(parts[w].free_port_index[b])

(* Mutant of RestoreBorder: the ends of the plan, not the current ones.    *)
RestoreBorder_planned(n, parts, borders, b) ==
    LET reporting == Reporters(parts, b)
        end(w) == resolve_freeport_chain(parts, borders, parts[w].free_port_index[b])
    IN  IF Cardinality(reporting) < 2 THEN n
        ELSE connect(n, borders[b][1], borders[b][2])

(* current_a is the first reporting partition's end, current_b the last's. *)
RestoreBorder(n, parts, borders, b) ==
    LET reporting == Reporters(parts, b)
        end(w) == resolve_freeport_chain(parts, borders, parts[w].free_port_index[b])
    IN  IF Cardinality(reporting) < 2 THEN n
        ELSE connect(n, end(Min(reporting)), end(Max(reporting)))

(* merge, last step: the partitions' free ids, one list after the other;   *)
(* an id is pushed if its slot is free and it has not been pushed before.  *)
PushFree(n, list, id) ==
    IF n.agents[id] = None /\ id \notin ToSet(list) THEN Append(list, id) ELSE list

PushFreeList(n, list, ids) == FoldLeft(LAMBDA l, id : PushFree(n, l, id), list, ids)

ReconcileFreeList(n, parts) ==
    [n EXCEPT !.free_list =
        FoldLeft(LAMBDA list, w : PushFreeList(n, list, parts[w].subnet.free_list),
                 <<>>, [k \in 1 .. NumWorkers |-> k - 1])]
=============================================================================
