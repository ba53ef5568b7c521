----------------------------- MODULE DeltaGrid -----------------------------
(***************************************************************************)
(* run_grid_delta (merge/grid.rs): the bulk-synchronous loop with stateful *)
(* workers.  The net is split once; in every round each worker applies the *)
(* coordinator's payload, reduces, and reports only the borders that moved *)
(* (worker.rs, handle_round_start); the coordinator keeps the border graph *)
(* and a cache of the initial partitions, resolves the border redexes and  *)
(* ships the outcome with the next round.  At the end the partitions are   *)
(* collected and merged.                                                   *)
(*                                                                         *)
(* The code is modelled as a release build: the debug assertions of        *)
(* connect and apply_border_deltas_to_partition are not part of it.  The   *)
(* only WorkerDispatch of the repository, which drives the workers in one  *)
(* process, is LocalDeltaDispatch.                                         *)
(***************************************************************************)
EXTENDS BorderGraph

CONSTANTS
    InitialNets,    \* the nets handed to run_grid_delta
    RoundCaps,      \* the values of GridConfig.max_rounds
    MaxInteractions \* bound on the length of a reduction

ASSUME DeltaGridAssumption ==
    RoundCaps \subseteq Nat /\ IsFiniteSet(RoundCaps) /\ RoundCaps # {} /\ MaxInteractions \in Nat

(* What a caller hands to run_grid_delta: no wire leads to an agent that   *)
(* is gone, and the redirects are PortRefs.                                *)
ASSUME DeltaInputAssumption ==
    \A n \in InitialNets :
        /\ NetType(n)
        /\ RefsValid(n)
        /\ IsFiniteSet(DOMAIN n.redirects)
        /\ \A k \in DOMAIN n.redirects : n.redirects[k] \in PortRefs

VARIABLES
    stage,      \* where the loop is
    strict,     \* GridConfig.strict_bsp
    cap,        \* GridConfig.max_rounds
    input,      \* the net the run was started with
    parts,      \* the workers' partitions
    reported,   \* per worker: previous_border_state
    cache,      \* partitions_vec, the coordinator's copies
    graph,      \* the BorderGraph
    bid, cid,   \* BorderIdAllocator, CommutationIdAllocator
    dispatch,   \* pending_dispatch: the payload of each worker
    results,    \* the RoundResults of this round, in order of arrival
    promoted,   \* the borders this round's echoes promoted, as <<border, state>>
    todo,       \* active border redexes still to resolve
    resolved,   \* resolutions of this round, <<border, state, resolution>>
    rounds, converged,
    restoring,  \* borders the final merge has still to restore
    net         \* the returned net

vars == <<stage, strict, cap, input, parts, reported, cache, graph, bid, cid, dispatch,
          results, promoted, todo, resolved, rounds, converged, restoring, net>>

EmptyPayload == [resolved |-> {}, new |-> <<>>, reconnect |-> <<>>, batches |-> <<>>]

(* reduce_all on a net whose reduction is not longer than MaxInteractions. *)
ReduceOnce(run) ==
    IF IsNormalForm(run.net) THEN run
    ELSE [net |-> reduce_step(run.net), count |-> run.count + 1]

ReduceAll(n) ==
    LET run == FoldLeft(LAMBDA r, k : ReduceOnce(r), [net |-> n, count |-> 0],
                        [k \in 1 .. MaxInteractions |-> k])
    IN  [run EXCEPT !.net.queue = IF IsNormalForm(run.net) THEN <<>> ELSE @]

Terminates(n) == ReduceAll(n).net.queue = <<>>

Init ==
    /\ stage = "start"
    /\ strict \in BOOLEAN
    /\ cap \in RoundCaps
    /\ input \in {n \in InitialNets : Terminates(n)}
    /\ parts = <<>>
    /\ reported = <<>>
    /\ cache = <<>>
    /\ graph = [borders |-> <<>>, active |-> {}, pending |-> <<>>, mints |-> <<>>]
    /\ bid = 0
    /\ cid = 0
    /\ dispatch = [w \in WorkerIds |-> EmptyPayload]
    /\ results = <<>>
    /\ promoted = <<>>
    /\ todo = {}
    /\ resolved = <<>>
    /\ rounds = 0
    /\ converged = FALSE
    /\ restoring = {}
    /\ net = EmptyNet

(* The net is split, the partitions go to the workers and to the cache.    *)
Start(sigma) ==
    /\ stage = "start"
    /\ parts' = split(input, sigma)
    /\ reported' = [w \in WorkerIds |-> parts'[w].free_port_index]
    /\ cache' = parts'
    /\ graph' = from_partition_plan(parts')
    /\ bid' = BorderIdSeed(graph')
    /\ stage' = "round"
    /\ UNCHANGED <<strict, cap, input, cid, dispatch, results, promoted, todo, resolved,
                   rounds, converged, restoring, net>>

-----------------------------------------------------------------------------
(***************************************************************************)
(* apply_border_deltas_to_partition: deltas re-point a border, a resolved  *)
(* border is cut, a new border is wired and extends the id window that     *)
(* rebuild_free_port_index looks at.                                       *)
(***************************************************************************)
Cut(part, b) ==
    IF b \in DOMAIN part.free_port_index /\ IsAgentPort(part.free_port_index[b])
    THEN disconnect(part.subnet, part.free_port_index[b])
    ELSE part.subnet

RepointBorder(part, d) ==
    IF d[2] = DISCONNECTED
    THEN [part EXCEPT !.subnet = Cut(part, d[1]), !.free_port_index = Without(@, d[1])]
    ELSE [part EXCEPT !.subnet = connect(Cut(part, d[1]), d[2], FreePort(d[1])),
                      !.free_port_index = Put(@, d[1], d[2])]

RemoveBorder(part, b) ==
    [part EXCEPT !.subnet = Cut(part, b), !.free_port_index = Without(@, b)]

InsertBorder(part, e) ==
    [part EXCEPT !.subnet = connect(@, e[2], FreePort(e[1])),
                 !.free_port_index = Put(@, e[1], e[2]),
                 !.border_end = Max({@, e[1] + 1})]

(* The resolver sends no deltas, so a payload removes and inserts.          *)
apply_payload_borders(part, payload) ==
    FoldLeft(InsertBorder, FoldSet(LAMBDA b, p : RemoveBorder(p, b), part, payload.resolved),
             payload.new)

(* The borders that moved since the last report, as <<border, end>>.       *)
compute_outgoing_deltas(previous, current) ==
    {<<b, current[b]>> : b \in {c \in DOMAIN current :
                                   c \notin DOMAIN previous \/ previous[c] # current[c]}}
        \cup {<<b, DISCONNECTED>> : b \in DOMAIN previous \ DOMAIN current}

(***************************************************************************)
(* apply_pending_commutation: mint one agent per slot, wire the batch,     *)
(* echo every slot's id.  Malformed lists the rejections of R33c.          *)
(***************************************************************************)
Malformed(batch) ==
    LET hints == ToSet(batch.wiring)
    IN  \/ batch.symbols = <<>>
        \/ \E j, k \in DOMAIN batch.wiring :
               /\ j # k
               /\ batch.wiring[j][1] = batch.wiring[k][1]
               /\ batch.wiring[j][2] = batch.wiring[k][2]
        \/ \E h \in hints :
               \/ h[1] >= Len(batch.symbols)
               \/ h[2] >= total_ports(batch.symbols[h[1] + 1])
               \/ h[3][1] = "slot" /\ h[3][2] >= Len(batch.symbols)
               \/ IsFreePort(h[3])

MintSlot(acc, sym) ==
    [net |-> create_agent(acc.net, sym), ids |-> Append(acc.ids, NewAgentId(acc.net))]

SlotEnd(ids, r) == IF r[1] = "slot" THEN AgentPort(ids[r[2] + 1], r[3]) ELSE r

WireSlot(ids, n, h) == connect(n, AgentPort(ids[h[1] + 1], h[2]), SlotEnd(ids, h[3]))

apply_pending_commutation(n, batch) ==
    LET minted == FoldLeft(MintSlot, [net |-> n, ids |-> <<>>], batch.symbols)
    IN  [ net |-> FoldLeft(LAMBDA m, h : WireSlot(minted.ids, m, h), minted.net, batch.wiring),
          echoes |-> [k \in DOMAIN minted.ids |-> <<batch.cid % CidSpace, k - 1, minted.ids[k]>>] ]

(* LocalDeltaDispatch hands the worker the pairs whose first end is an     *)
(* agent port; handle_round_start skips a pair of equal ends.              *)
Reconnect(n, ab) ==
    IF IsAgentPort(ab[1]) /\ ab[1] # ab[2] THEN connect(n, ab[1], ab[2]) ELSE n

ReconnectAll(n, pairs) == FoldLeft(Reconnect, n, pairs)

(* The batches of a payload one after the other.  ok is FALSE when the id  *)
(* range is exhausted before a batch or a batch is malformed.              *)
MintBatch(range, acc, batch) ==
    IF ~acc.ok \/ acc.net.next_id >= range.end \/ Malformed(batch)
    THEN [acc EXCEPT !.ok = FALSE]
    ELSE LET done == apply_pending_commutation(acc.net, batch)
         IN  [ok |-> TRUE, net |-> done.net, echoes |-> acc.echoes \o done.echoes]

MintAll(part, payload) ==
    LET prepared == apply_payload_borders(part, payload)
    IN  FoldLeft(LAMBDA acc, batch : MintBatch(part.id_range, acc, batch),
                 [ok |-> TRUE, net |-> ReconnectAll(prepared.subnet, payload.reconnect),
                  echoes |-> <<>>], payload.batches)

Answered == {results[k].worker : k \in DOMAIN results}

(* The end of handle_round_start: worker w has reduced its net, rebuilds   *)
(* its border index and reports what has moved since its last report.      *)
RoundResult(w, part, minted, reduced) ==
    LET after == [part EXCEPT !.subnet = reduced.net]
        index == rebuild_free_port_index(after)
        kept == [after EXCEPT !.free_port_index = index]
    IN  /\ reduced.net.queue = <<>>
        /\ parts' = [parts EXCEPT ![w] = kept]
        /\ reported' = [reported EXCEPT ![w] = index]
        /\ results' = Append(results,
              [worker |-> w, deltas |-> compute_outgoing_deltas(reported[w], index),
               local |-> reduced.count, activity |-> compute_border_activity(kept),
               echoes |-> minted.echoes])

(* handle_round_start of worker w.                                         *)
WorkerRound(w) ==
    LET minted == MintAll(parts[w], dispatch[w])
    IN  /\ stage = "round"
        /\ rounds < cap
        /\ w \notin Answered
        /\ IF ~minted.ok
           THEN /\ stage' = "failed"
                /\ UNCHANGED <<parts, reported, results>>
           ELSE /\ RoundResult(w, apply_payload_borders(parts[w], dispatch[w]), minted,
                               ReduceAll(minted.net))
                /\ UNCHANGED stage
        /\ UNCHANGED <<strict, cap, input, cache, graph, bid, cid, dispatch, promoted, todo,
                       resolved, rounds, converged, restoring, net>>

-----------------------------------------------------------------------------
(***************************************************************************)
(* What a promotion <<border, state>> sends to worker w with the next      *)
(* round: its new borders, and the wire to an interface FreePort of a      *)
(* promotion that stays inside w.                                          *)
(***************************************************************************)
Intra(p) == p[2].worker_a = p[2].worker_b
Lafont(p) == Intra(p) /\ (IsFreePort(p[2].side_a) \/ IsFreePort(p[2].side_b))
IsSelfSentinel(b, r) == r = FreePort(b)

NewBordersOf(p, w) ==
    LET st == p[2]
        toA == /\ st.worker_a = w
               /\ ~IsSelfSentinel(p[1], st.side_a)
               /\ ~(Intra(p) /\ IsFreePort(st.side_a) /\ ~IsFreePort(st.side_b))
        toB == /\ st.worker_b = w
               /\ ~IsSelfSentinel(p[1], st.side_b)
               /\ ~(Intra(p) /\ IsFreePort(st.side_b))
    IN  (IF toA THEN << <<p[1], st.side_a>> >> ELSE <<>>)
            \o (IF toB THEN << <<p[1], st.side_b>> >> ELSE <<>>)

LafontWireOf(p, w) ==
    LET st == p[2]
    IN  IF ~Lafont(p) \/ st.worker_a # w \/ st.side_a = st.side_b THEN <<>>
        ELSE IF IsFreePort(st.side_a) /\ ~IsFreePort(st.side_b)
        THEN << <<st.side_b, st.side_a>> >> ELSE << <<st.side_a, st.side_b>> >>

(***************************************************************************)
(* The convergence checks of the two modes.                                *)
(***************************************************************************)
NoLocalRedex == \A k \in DOMAIN results : results[k].local = 0
NoBorderActivity == \A k \in DOMAIN results : ~results[k].activity

every_border_has_inert_remote(g) ==
    LET principal == {b \in DOMAIN g.borders :
                         IsPrincipal(g.borders[b].side_a) \/ IsPrincipal(g.borders[b].side_b)}
    IN  /\ principal # {}
        /\ \A b \in principal : ~is_principal_pair(g.borders[b].side_a, g.borders[b].side_b)

check_delta_convergence(g) ==
    NoBorderActivity /\ NoLocalRedex /\ detect_border_redexes(g) = {}

(* Mutants of check_delta_convergence_post_resolve: border redexes are     *)
(* ignored; a border whose remote end is inert counts as activity.         *)
check_delta_convergence_local(g) == NoLocalRedex

check_delta_convergence_restless(g) ==
    NoLocalRedex /\ detect_border_redexes(g) = {} /\ NoBorderActivity

check_delta_convergence_post_resolve(g) ==
    /\ NoLocalRedex
    /\ detect_border_redexes(g) = {}
    /\ NoBorderActivity \/ every_border_has_inert_remote(g)

(* The deltas of a worker reach the cache in any order (they come out of a *)
(* HashMap), and the order matters when one border moves to the port       *)
(* another one leaves.                                                     *)
CacheUpdate(part, deltas) ==
    {FoldLeft(RepointBorder, part, s) : s \in SetToSeqs(deltas)}

CacheUpdates(options) ==
    {c \in [WorkerIds -> UNION Range(options)] : \A w \in WorkerIds : c[w] \in options[w]}

(***************************************************************************)
(* The coordinator takes the results of the round, in order of arrival:    *)
(* register the minted agents, drop the borders that stay inside a worker, *)
(* apply the deltas to the graph and to the cache, then check convergence  *)
(* (strict) or go on to the border redexes.                                *)
(***************************************************************************)
Register(acc, r) ==
    IF acc.fault # "none" THEN acc
    ELSE IF \E k \in DOMAIN r.echoes : Stray(acc.graph, r.echoes[k])
    THEN [acc EXCEPT !.fault = "failed"]
    ELSE IF DuplicatePromotion(Promoted(acc.graph, r.echoes))
    THEN [acc EXCEPT !.fault = "panic"]
    ELSE [graph |-> register_minted_agents(acc.graph, r.echoes), fault |-> "none",
          promoted |-> acc.promoted \o Promoted(acc.graph, r.echoes)]

Registered == FoldLeft(Register, [graph |-> graph, fault |-> "none", promoted |-> <<>>], results)

Prune(g, p) == IF Lafont(p) THEN remove_border(g, p[1]) ELSE g

DeltasOf(w) == UNION {results[k].deltas : k \in {j \in DOMAIN results : results[j].worker = w}}

Absorb ==
    LET registered == Registered
        pruned == FoldLeft(Prune, registered.graph, registered.promoted)
        updated == FoldLeft(LAMBDA g, r : apply_deltas(g, r.worker, r.deltas), pruned, results)
        strictlyDone == strict /\ registered.promoted = <<>> /\ check_delta_convergence_post_resolve(updated)
    IN  /\ stage = "round"
        /\ Answered = WorkerIds
        /\ IF registered.fault # "none"
           THEN /\ stage' = registered.fault
                /\ UNCHANGED <<graph, cache, promoted, todo, rounds, converged>>
           ELSE /\ graph' = updated
                /\ cache' \in CacheUpdates([w \in WorkerIds |-> CacheUpdate(cache[w], DeltasOf(w))])
                /\ promoted' = registered.promoted
                /\ rounds' = rounds + 1
                /\ todo' = detect_border_redexes(updated)
                /\ converged' = strictlyDone
                /\ stage' = IF strictlyDone THEN "collect" ELSE "resolve"
        /\ UNCHANGED <<strict, cap, input, parts, reported, bid, cid, dispatch, results,
                       resolved, restoring, net>>

(* resolve_border_redex; a missing agent is the panic of assert_agent.     *)
ResolveRedex(b) ==
    LET st == graph.borders[b]
        res == Resolution(graph, cache, b, bid, cid)
        found == HasAgent(cache[st.worker_a], st.side_a) /\ HasAgent(cache[st.worker_b], st.side_b)
    IN  /\ stage = "resolve"
        /\ IF ~found
           THEN /\ stage' = "panic"
                /\ UNCHANGED <<graph, bid, cid, todo, resolved>>
           ELSE /\ graph' = remove_border(graph, b)
                /\ bid' = res.bid
                /\ cid' = res.cid
                /\ todo' = todo \ {b}
                /\ resolved' = Append(resolved, <<b, st, res>>)
                /\ UNCHANGED stage
        /\ UNCHANGED <<strict, cap, input, parts, reported, cache, dispatch, results, promoted,
                       rounds, converged, restoring, net>>

(***************************************************************************)
(* package_resolutions: the payload of worker w.                           *)
(***************************************************************************)
PushOwn(w, q, batch) == IF batch.worker = w THEN Append(q, batch) ELSE q

PackageResolution(w, payload, r) ==
    LET st == r[2]
    IN  [payload EXCEPT
            !.resolved = IF w \in {st.worker_a, st.worker_b} THEN @ \cup {r[1]} ELSE @,
            !.reconnect = IF st.worker_a = w THEN @ \o r[3].reconnect ELSE @,
            !.batches = FoldLeft(LAMBDA q, x : PushOwn(w, q, x), @, r[3].batches)]

PackagePromotion(w, payload, p) ==
    [payload EXCEPT !.new = @ \o NewBordersOf(p, w), !.reconnect = @ \o LafontWireOf(p, w)]

(* A resolution's new borders wait for their agents.                       *)
QueuePending(q, r) == q \o r[3].pending

Packaged(w) ==
    FoldLeft(LAMBDA payload, r : PackageResolution(w, payload, r), EmptyPayload, resolved)

(* The cache follows: cut the resolved borders, reconnect, and remove the  *)
(* agents the resolved principal ends belonged to.                         *)
RewireCache(n, ab) ==
    IF DISCONNECTED \in {ab[1], ab[2]} \/ ab[1] = ab[2] THEN n ELSE connect(n, ab[1], ab[2])

MaintainCache(part, payload) ==
    LET consumed == {part.free_port_index[b][2] : b \in
                        {c \in payload.resolved : /\ c \in DOMAIN part.free_port_index
                                                  /\ IsPrincipal(part.free_port_index[c])}}
        cut == apply_payload_borders(part, payload)
        wired == FoldLeft(RewireCache, cut.subnet, payload.reconnect)
    IN  [cut EXCEPT !.subnet = FoldSet(LAMBDA i, n : remove_agent(n, i), wired, consumed)]

(***************************************************************************)
(* After the resolutions: the convergence check (lenient), else the next   *)
(* round's payload, the queue of pending borders and the cache.            *)
(***************************************************************************)
LenientlyDone ==
    /\ ~strict
    /\ promoted = <<>>
    /\ IF resolved = <<>> THEN check_delta_convergence_post_resolve(graph)
       ELSE check_delta_convergence(graph)

Converge ==
    /\ stage = "resolve"
    /\ todo = {}
    /\ LenientlyDone
    /\ converged' = TRUE
    /\ stage' = "collect"
    /\ UNCHANGED <<strict, cap, input, parts, reported, cache, graph, bid, cid, dispatch, results,
                   promoted, todo, resolved, rounds, restoring, net>>

Package ==
    /\ stage = "resolve"
    /\ todo = {}
    /\ ~LenientlyDone
    /\ graph' = [graph EXCEPT !.pending = FoldLeft(QueuePending, @, resolved)]
    /\ cache' = [w \in WorkerIds |-> MaintainCache(cache[w], Packaged(w))]
    /\ dispatch' = [w \in WorkerIds |->
           FoldLeft(LAMBDA payload, p : PackagePromotion(w, payload, p), Packaged(w), promoted)]
    /\ stage' = "round"
    /\ results' = <<>>
    /\ resolved' = <<>>
    /\ UNCHANGED <<strict, cap, input, parts, reported, bid, cid, promoted, todo,
                   rounds, converged, restoring, net>>

(* check_max_rounds_cap at the top of the loop.                            *)
RoundCap ==
    /\ stage = "round"
    /\ rounds >= cap
    /\ stage' = "collect"
    /\ UNCHANGED <<strict, cap, input, parts, reported, cache, graph, bid, cid, dispatch, results,
                   promoted, todo, resolved, rounds, converged, restoring, net>>

(* LocalDeltaDispatch hands back the partitions without the agents whose   *)
(* principal port is disconnected (cleanup_t1_violations).                 *)
Collected(w) ==
    LET n == parts[w].subnet
        dead == {i \in Live(n) : get_target(n, AgentPort(i, 0)) = DISCONNECTED}
    IN  [parts[w] EXCEPT !.subnet = FoldSet(LAMBDA i, m : remove_agent(m, i), n, dead)]

PlanBorders == [b \in DOMAIN graph.borders |->
                   <<graph.borders[b].side_a, graph.borders[b].side_b>>]

(* run_grid_delta_final_collect: collect the partitions and merge them.    *)
FinalCollect ==
    /\ stage = "collect"
    /\ parts' = [w \in WorkerIds |-> Collected(w)]
    /\ net' = Unite(parts', PlanBorders)
    /\ restoring' = DOMAIN graph.borders
    /\ stage' = "merge"
    /\ UNCHANGED <<strict, cap, input, reported, cache, graph, bid, cid, dispatch, results,
                   promoted, todo, resolved, rounds, converged>>

FinalMerge(b) ==
    /\ stage = "merge"
    /\ net' = RestoreBorder(net, parts, PlanBorders, b)
    /\ restoring' = restoring \ {b}
    /\ UNCHANGED <<stage, strict, cap, input, parts, reported, cache, graph, bid, cid, dispatch,
                   results, promoted, todo, resolved, rounds, converged>>

FinalReturn ==
    /\ stage = "merge"
    /\ restoring = {}
    /\ net' = ReconcileFreeList(net, parts)
    /\ stage' = "done"
    /\ UNCHANGED <<strict, cap, input, parts, reported, cache, graph, bid, cid, dispatch, results,
                   promoted, todo, resolved, rounds, converged, restoring>>

Next ==
    \/ stage = "start" /\ \E sigma \in Allocations(input) : Start(sigma)
    \/ stage = "round" /\ \E w \in WorkerIds : WorkerRound(w)
    \/ Absorb
    \/ \E b \in todo : ResolveRedex(b)
    \/ Converge
    \/ Package
    \/ RoundCap
    \/ FinalCollect
    \/ \E b \in restoring : FinalMerge(b)
    \/ FinalReturn

Spec == Init /\ [][Next]_vars /\ WF_vars(Next)
-----------------------------------------------------------------------------
(* The set of active borders, which apply_delta, add_border_state and      *)
(* remove_border maintain one change at a time, is what a scan of the      *)
(* graph would find: no border redex is missed and none is stale.          *)
ActiveRedexesExact ==
    graph.active = {b \in DOMAIN graph.borders :
                       is_principal_pair(graph.borders[b].side_a, graph.borders[b].side_b)}

WorkerEnd(w, b) ==
    IF b \in DOMAIN parts[w].free_port_index THEN parts[w].free_port_index[b] ELSE DISCONNECTED

(* Until the first agent is minted, the ends the coordinator reads off its *)
(* graph when it resolves are the ends the workers hold, although it has   *)
(* only seen the deltas: compute_outgoing_deltas tells all that moved.     *)
GraphMatchesWorkers ==
    stage = "resolve" /\ graph.mints = <<>> =>
        \A b \in DOMAIN graph.borders :
            /\ WorkerEnd(graph.borders[b].worker_a, b) = graph.borders[b].side_a
            /\ WorkerEnd(graph.borders[b].worker_b, b) = graph.borders[b].side_b

(* Every border a resolution left pending is promoted by the echoes of the *)
(* very next round: none waits for a mint nobody will report.              *)
PendingPromotedNextRound == stage = "resolve" => graph.pending = <<>>

(* When the loop reports convergence no redex is left, neither inside a    *)
(* partition nor across a border, as the workers hold them.                *)
ConvergedIsNormal ==
    converged =>
        /\ \A w \in WorkerIds : ActivePairs(parts[w].subnet) = {}
        /\ \A b \in DOMAIN graph.borders :
               ~ /\ IsPrincipal(WorkerEnd(graph.borders[b].worker_a, b))
                 /\ IsPrincipal(WorkerEnd(graph.borders[b].worker_b, b))

(* A terminating net never spins in the loop: the largest round cap is     *)
(* never what stops it.                                                    *)
StopsByItself == ~(stage = "round" /\ rounds >= Max(RoundCaps))

(* run_grid_delta is equivalent to the v1 loop (merge/types.rs, the doc of *)
(* GridConfig.delta_mode): a run the cap does not cut short converges on a *)
(* net isomorphic to the one reduce_all returns.                           *)
EquivalentToSequential ==
    /\ stage \notin {"failed", "panic"}
    /\ stage = "done" /\ converged => Isomorphic(ReduceAll(input).net, net)
=============================================================================
