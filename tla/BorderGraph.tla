---------------------------- MODULE BorderGraph ----------------------------
(***************************************************************************)
(* The coordinator's view of the borders in delta mode                     *)
(* (merge/border_graph.rs) and the resolver of border redexes              *)
(* (merge/border_resolver.rs).                                             *)
(*                                                                         *)
(* A rule that creates agents is resolved in two phases: the resolver asks *)
(* the workers to mint the agents (a CommutationBatch) and queues the new  *)
(* borders with pending ends <<"pending", commutation id, slot, port>>;    *)
(* the workers echo the ids they minted and the graph promotes the queued  *)
(* borders whose ends are known.                                           *)
(***************************************************************************)
EXTENDS Merge

CONSTANT CidSpace   \* commutation ids on the wire are taken modulo this (2^28)

ASSUME BorderGraphAssumption == CidSpace \in Nat \ {0}

Pending(cid, slot, p) == <<"pending", cid, slot, p>>
IsPending(r) == r[1] = "pending"
SlotMarker(slot, p) == <<"slot", slot, p>>

is_principal_pair(a, b) == IsPrincipal(a) /\ IsPrincipal(b)

BorderState(a, b, wa, wb) ==
    [side_a |-> a, side_b |-> b, worker_a |-> wa, worker_b |-> wb,
     is_redex |-> is_principal_pair(a, b)]

(* Exactly two partitions carry an end of every border of a plan.          *)
from_partition_plan(parts) ==
    LET ids == UNION {DOMAIN parts[w].free_port_index : w \in WorkerIds}
        state(b) == LET wa == Min(Reporters(parts, b))
                        wb == Max(Reporters(parts, b))
                    IN  BorderState(parts[wa].free_port_index[b],
                                    parts[wb].free_port_index[b], wa, wb)
        borders == [b \in ids |-> state(b)]
    IN  [ borders |-> borders,
          active  |-> {b \in ids : borders[b].is_redex},
          pending |-> <<>>,
          mints   |-> <<>> ]

Without(f, k) == [x \in DOMAIN f \ {k} |-> f[x]]

detect_border_redexes(g) == {b \in g.active : b \in DOMAIN g.borders}

(* Mutant of remove_border: the set of active redexes is forgotten.        *)
remove_border_keeps_active(g, b) ==
    IF b \notin DOMAIN g.borders THEN g ELSE [g EXCEPT !.borders = Without(@, b)]

remove_border(g, b) ==
    IF b \notin DOMAIN g.borders THEN g
    ELSE [g EXCEPT !.borders = Without(@, b),
                   !.active = IF g.borders[b].is_redex THEN @ \ {b} ELSE @]

(***************************************************************************)
(* apply_deltas, one delta <<border, new end>> of worker w: an unknown     *)
(* border or a worker that owns neither side is skipped; two disconnected  *)
(* sides end the border; else the redex flag and the incremental set of    *)
(* active redexes follow the new sides.                                    *)
(***************************************************************************)
(* Mutant of apply_delta: the delta always moves side_a.                   *)
apply_delta_side_a(g, w, d) ==
    LET b == d[1]
    IN  IF b \notin DOMAIN g.borders THEN g
        ELSE LET moved == [g.borders[b] EXCEPT !.side_a = d[2]]
                 redex == is_principal_pair(moved.side_a, moved.side_b)
             IN  [g EXCEPT !.borders[b] = [moved EXCEPT !.is_redex = redex],
                           !.active = IF redex THEN @ \cup {b} ELSE @ \ {b}]

apply_delta(g, w, d) ==
    LET b == d[1]
    IN  IF b \notin DOMAIN g.borders THEN g
        ELSE LET st == g.borders[b]
                 moved == IF st.worker_a = w THEN [st EXCEPT !.side_a = d[2]]
                          ELSE [st EXCEPT !.side_b = d[2]]
                 redex == is_principal_pair(moved.side_a, moved.side_b)
             IN  IF w \notin {st.worker_a, st.worker_b} THEN g
                 ELSE IF moved.side_a = DISCONNECTED /\ moved.side_b = DISCONNECTED
                 THEN remove_border(g, b)
                 ELSE [g EXCEPT !.borders[b] = [moved EXCEPT !.is_redex = redex],
                                !.active = IF redex THEN @ \cup {b} ELSE @ \ {b}]

apply_deltas(g, w, deltas) == FoldSet(LAMBDA d, acc : apply_delta(acc, w, d), g, deltas)

(***************************************************************************)
(* register_minted_agents: an echo <<commutation id, slot, agent id>> that *)
(* no queued border waits for is a protocol violation (R48); the others    *)
(* are recorded and every queued border with two known ends is promoted,   *)
(* replacing the border of the same id if the rule preserved one.          *)
(***************************************************************************)
MintKey(cid, slot) == <<cid % CidSpace, slot>>

pending_port_matches(r, key) == IsPending(r) /\ MintKey(r[2], r[3]) = key

Stray(g, mint) ==
    ~ \E k \in DOMAIN g.pending :
        \/ pending_port_matches(g.pending[k].side_a, <<mint[1], mint[2]>>)
        \/ pending_port_matches(g.pending[k].side_b, <<mint[1], mint[2]>>)

IsKnown(mints, r) == IsPending(r) => MintKey(r[2], r[3]) \in DOMAIN mints

try_resolve_port_ref(mints, r) ==
    IF IsPending(r) THEN AgentPort(mints[MintKey(r[2], r[3])], r[4]) ELSE r

Record(mints, m) == Put(mints, <<m[1], m[2]>>, m[3])

Recorded(g, echoes) == FoldLeft(Record, g.mints, echoes)

(* The two passes over the queue: the borders whose ends are known, as     *)
(* <<id, state>>, and the ones that have to wait.                          *)
IsReady(mints, p) == IsKnown(mints, p.side_a) /\ IsKnown(mints, p.side_b)

PushReady(mints, q, p) ==
    IF ~IsReady(mints, p) THEN q
    ELSE Append(q, <<p.border_id, BorderState(try_resolve_port_ref(mints, p.side_a),
                                              try_resolve_port_ref(mints, p.side_b),
                                              p.worker_a, p.worker_b)>>)

PushWaiting(mints, q, p) == IF IsReady(mints, p) THEN q ELSE Append(q, p)

Promoted(g, echoes) ==
    LET mints == Recorded(g, echoes)
    IN  FoldLeft(LAMBDA q, p : PushReady(mints, q, p), <<>>, g.pending)

Waiting(g, echoes) ==
    LET mints == Recorded(g, echoes)
    IN  FoldLeft(LAMBDA q, p : PushWaiting(mints, q, p), <<>>, g.pending)

(* add_border_states panics on a second border of the same id.             *)
DuplicatePromotion(promoted) ==
    \E j, k \in DOMAIN promoted : j # k /\ promoted[j][1] = promoted[k][1]

add_border_state(g, b, st) ==
    [g EXCEPT !.borders = Put(@, b, st),
              !.active = IF st.is_redex THEN @ \cup {b} ELSE @]

Replaced(g, promoted) == FoldLeft(LAMBDA acc, p : remove_border(acc, p[1]), g, promoted)
Added(g, promoted) == FoldLeft(LAMBDA acc, p : add_border_state(acc, p[1], p[2]), g, promoted)

(* Mutant of register_minted_agents: the queue keeps what it promoted.     *)
register_minted_agents_keeps(g, echoes) ==
    LET promoted == Promoted(g, echoes)
    IN  [Added(Replaced(g, promoted), promoted) EXCEPT !.mints = Recorded(g, echoes)]

register_minted_agents(g, echoes) ==
    LET promoted == Promoted(g, echoes)
    IN  [Added(Replaced(g, promoted), promoted) EXCEPT
            !.mints = Recorded(g, echoes), !.pending = Waiting(g, echoes)]

-----------------------------------------------------------------------------
(***************************************************************************)
(* The resolver.  A resolution carries the wires worker_a reconnects, the  *)
(* batches of agents to mint (per worker: symbols by slot and wiring       *)
(* <<slot, port, target>>) and the borders to queue; it takes fresh border *)
(* ids and commutation ids from the two allocators.                        *)
(***************************************************************************)
(* materialize_agent found the agent of a side in the coordinator's cache. *)
HasAgent(part, side) == IsPrincipal(side) /\ side[2] \in Live(part.subnet)

BorderIdSeed(g) == IF DOMAIN g.borders = {} THEN 0 ELSE Max(DOMAIN g.borders) + 1

Batch(cid, w, symbols, wiring) ==
    [cid |-> cid, worker |-> w, symbols |-> symbols, wiring |-> wiring]

PendingBorder(b, side_a, side_b, wa, wb) ==
    [border_id |-> b, side_a |-> side_a, side_b |-> side_b, worker_a |-> wa, worker_b |-> wb]

Annihilated(st, reconnect, bid, cid) ==
    [reconnect |-> reconnect, batches |-> <<>>, pending |-> <<>>, bid |-> bid, cid |-> cid]

(* Same symbols: the four auxiliary neighbours are paired crosswise (CON)  *)
(* or in parallel (DUP), all of it in the bucket of worker_a.              *)
resolve_same(st, cache, bid, cid) ==
    LET a == st.side_a[2]
        b == st.side_b[2]
        t_a(p) == Aux(cache[st.worker_a].subnet, a, p)
        t_b(p) == Aux(cache[st.worker_b].subnet, b, p)
        wires == CASE cache[st.worker_a].subnet.agents[a] = "Con" ->
                          << <<t_a(1), t_b(2)>>, <<t_a(2), t_b(1)>> >>
                   [] cache[st.worker_a].subnet.agents[a] = "Dup" ->
                          << <<t_a(1), t_b(1)>>, <<t_a(2), t_b(2)>> >>
                   [] OTHER -> <<>>
    IN  Annihilated(st, wires, bid, cid)

(* The principal port of a new agent of resolve_con_dup: wired locally if  *)
(* its neighbour is an agent of the same worker, else across a new border. *)
IsLocalTarget(target, home, w) == IsAgentPort(target) /\ home = w

(* The new agents' principal ports <<target, its home, slot, worker, cid>> *)
(* that need a border, and the wiring of batch c that needs none.          *)
PushCrossing(q, e) == IF IsLocalTarget(e[1], e[2], e[4]) THEN q ELSE Append(q, e)

PushLocal(c, q, e) ==
    IF e[5] = c /\ IsLocalTarget(e[1], e[2], e[4]) THEN Append(q, <<e[3], 0, e[1]>>) ELSE q

resolve_con_dup(con, dup, wc, wd, cache, bid, cid) ==
    LET t_c(p) == Aux(cache[wc].subnet, con, p)
        t_d(p) == Aux(cache[wd].subnet, dup, p)
        \* the principal ports of p, q, r, s
        ends == << <<t_c(1), wc, 0, wc, cid>>, <<t_c(2), wc, 0, wd, cid + 1>>,
                   <<t_d(1), wd, 1, wc, cid>>, <<t_d(2), wd, 1, wd, cid + 1>> >>
        crossing == FoldLeft(PushCrossing, <<>>, ends)
        external == [k \in DOMAIN crossing |->
                        LET e == crossing[k]
                        IN  PendingBorder(bid + k - 1, Pending(e[5], e[3], 0), e[1], e[4], e[2])]
        next == bid + Len(crossing)
        internal == << PendingBorder(next, Pending(cid, 0, 2), Pending(cid + 1, 1, 1), wc, wd),
                       PendingBorder(next + 1, Pending(cid + 1, 0, 1), Pending(cid, 1, 2), wd, wc) >>
        local(c) == FoldLeft(LAMBDA q, e : PushLocal(c, q, e), <<>>, ends)
    IN  [ reconnect |-> <<>>,
          batches   |-> << Batch(cid, wc, <<"Dup", "Con">>, Append(local(cid), <<0, 1, SlotMarker(1, 1)>>)),
                           Batch(cid + 1, wd, <<"Dup", "Con">>, Append(local(cid + 1), <<0, 2, SlotMarker(1, 2)>>)) >>,
          pending   |-> external \o internal,
          bid       |-> next + 2,
          cid       |-> cid + 2 ]

(* An eraser of resolve_non_era_era: wired to a local neighbour, else the  *)
(* border its neighbour is on is kept, with the eraser as its new end; a   *)
(* FreePort that is no border is queued as one between w and itself.       *)
PreservedBorder(g, target, cid, slot, w) ==
    LET b == target[2]
        eraser == Pending(cid, slot, 0)
    IN  IF b \notin DOMAIN g.borders THEN PendingBorder(b, eraser, target, w, w)
        ELSE LET st == g.borders[b]
             IN  IF st.worker_a = w THEN PendingBorder(b, eraser, st.side_b, w, st.worker_b)
                 ELSE PendingBorder(b, eraser, st.side_a, w, st.worker_a)

resolve_non_era_era(g, node, w, cache, bid, cid) ==
    LET target(p) == Aux(cache[w].subnet, node, p)
        ends == << <<target(1), w, 0, w, cid>>, <<target(2), w, 1, w, cid>> >>
        cross == FoldLeft(PushCrossing, <<>>, ends)
    IN  [ reconnect |-> <<>>,
          batches   |-> << Batch(cid, w, <<"Era", "Era">>,
                               FoldLeft(LAMBDA q, e : PushLocal(cid, q, e), <<>>, ends)) >>,
          pending   |-> [k \in DOMAIN cross |->
                               PreservedBorder(g, cross[k][1], cid, cross[k][3], w)],
          bid       |-> bid,
          cid       |-> cid + 1 ]

(* resolve_border_redex: dispatch on the symbols of the two agents.        *)
Resolution(g, cache, b, bid, cid) ==
    LET st == g.borders[b]
        sa == cache[st.worker_a].subnet.agents[st.side_a[2]]
        sb == cache[st.worker_b].subnet.agents[st.side_b[2]]
    IN  CASE sa = sb -> resolve_same(st, cache, bid, cid)
          [] sa = "Con" /\ sb = "Dup" ->
                resolve_con_dup(st.side_a[2], st.side_b[2], st.worker_a, st.worker_b, cache, bid, cid)
          [] sa = "Dup" /\ sb = "Con" ->
                resolve_con_dup(st.side_b[2], st.side_a[2], st.worker_b, st.worker_a, cache, bid, cid)
          [] sa # "Era" /\ sb = "Era" ->
                resolve_non_era_era(g, st.side_a[2], st.worker_a, cache, bid, cid)
          [] OTHER ->
                resolve_non_era_era(g, st.side_b[2], st.worker_b, cache, bid, cid)
=============================================================================
