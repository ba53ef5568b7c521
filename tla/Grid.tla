-------------------------------- MODULE Grid --------------------------------
(***************************************************************************)
(* run_grid (merge/grid.rs): the bulk-synchronous loop split -> local      *)
(* reduction -> merge -> border resolution -> termination check, with the  *)
(* sequential reduction of the same net beside it as the reference of the  *)
(* Fundamental Property G1.                                                *)
(*                                                                         *)
(* The local reductions run one worker after the other, as in run_grid;    *)
(* the merge restores the borders in any order, as the iteration over the  *)
(* border HashMap does.  In hybrid mode partition 0 is reduced by the      *)
(* coordinator itself (protocol/self_worker.rs).  The mode "remote" is the *)
(* same loop in run_coordinator (protocol/coordinator.rs), where the       *)
(* partitions go over the wire and back; "deferred" is strict_bsp as       *)
(* run_coordinator implements it: no border is resolved at all.            *)
(***************************************************************************)
EXTENDS Merge

CONSTANTS
    InitialNets,    \* the nets handed to run_grid
    Strategies,     \* "any": every allocation; "contiguous": ContiguousIdStrategy
    Modes,          \* subset of GridModes
    HybridModes,    \* subset of BOOLEAN: does partition 0 run in the coordinator?
    MaxRounds,      \* GridConfig.max_rounds
    MaxInteractions \* bound on the length of a reduction: some nets never end

GridModes == {"lenient", "strict", "coordinator_free", "remote", "deferred"}

ASSUME GridAssumption ==
    /\ Strategies \subseteq {"any", "contiguous"}
    /\ Modes \subseteq GridModes
    /\ HybridModes \subseteq BOOLEAN
    /\ MaxRounds \in Nat
    /\ MaxInteractions \in Nat

(* What a caller hands to run_grid.                                        *)
ASSUME InputAssumption ==
    \A n \in InitialNets : NetType(n) /\ FreeListAccounts(n)

VARIABLES
    phase,          \* where the loop is
    mode, hybrid,   \* GridConfig: strict_bsp / coordinator_free_rounds, hybrid
    net,            \* current_net, the merged net
    parts, borders, \* the PartitionPlan
    cursor,         \* the worker whose partition is being reduced
    active,         \* some worker reported has_border_activity
    pending,        \* borders still to restore
    snapshot,       \* pairs reduce_border_once has still to process
    count,          \* metrics.total_interactions
    rounds, converged,
    oracle, oracleCount,    \* the sequential reduction of the same net
    marks           \* history: what the properties have to know of the run

gridVars == <<mode, hybrid, net, parts, borders, cursor, active, pending,
              snapshot, count, rounds, converged>>
oracleVars == <<oracle, oracleCount>>
vars == <<phase, gridVars, oracleVars, marks>>

(***************************************************************************)
(* What the properties have to know of a run.  Of a pair that is reduced:  *)
(* is it entangled; does its rule take the shortcut for a self-loop, which *)
(* replaces several interactions by one; does remove_agent purge the       *)
(* redirect of a FreePort that has the number of one of the agents?        *)
(***************************************************************************)
Mark(name, condition) == IF condition THEN {name} ELSE {}

Marks(n) ==
    LET a == HeadPair(n)[1]
        b == HeadPair(n)[2]
    IN  Mark("entangled", Entangled(n, a, b))
        \cup Mark("shortcut", /\ HeadRule(n) \in {"Eras", "Comm"}
                              /\ SelfLoop(n, a) \/ SelfLoop(n, b))
        \cup Mark("purged", {a, b} \cap DOMAIN n.redirects # {})

(* The loop of run_coordinator: partitions travel as frames, also to the   *)
(* coordinator's own worker, which run_grid does not have.                 *)
Sent == mode \in {"remote", "deferred"}

(* run_grid is called with the net n in mode m.                            *)
Called(n, m) ==
    /\ phase = "oracle"
    /\ mode = m
    /\ hybrid \in HybridModes
    /\ hybrid => Sent
    /\ net = n
    /\ parts = <<>>
    /\ borders = <<>>
    /\ cursor = 0
    /\ active = FALSE
    /\ pending = {}
    /\ snapshot = <<>>
    /\ count = 0
    /\ rounds = 0
    /\ converged = FALSE
    /\ oracle = net
    /\ oracleCount = 0
    /\ marks = {}

Init == \E n \in InitialNets, m \in Modes : Called(n, m)

-----------------------------------------------------------------------------
(* The reference: reduce_all on the whole net.                             *)
SequentialStep ==
    /\ phase = "oracle"
    /\ ~IsNormalForm(oracle)
    /\ oracleCount < MaxInteractions
    /\ HasRoomFor(oracle, 4)
    /\ oracle' = reduce_step(oracle)
    /\ oracleCount' = oracleCount + 1
    /\ marks' = marks \cup Marks(oracle)
    /\ UNCHANGED <<phase, gridVars>>

(* The sequential reduction is over; run_grid makes its Normal Form check. *)
Start ==
    /\ phase = "oracle"
    /\ IsNormalForm(oracle)
    /\ net' = drain_stale_redexes(net)
    /\ converged' = (net'.queue = <<>>)
    /\ phase' = IF net'.queue = <<>> THEN "done" ELSE "split"
    /\ UNCHANGED <<mode, hybrid, parts, borders, cursor, active, pending,
                   snapshot, count, rounds, oracleVars, marks>>

RoundLimit ==
    /\ phase = "split"
    /\ rounds >= MaxRounds
    /\ phase' = "done"
    /\ UNCHANGED <<gridVars, oracleVars, marks>>

(* The borders are resolved by reduce_all.                                 *)
Lenient == mode \in {"lenient", "remote"}

Carried(part) == IF Sent THEN [part EXCEPT !.subnet = OverTheWire(@)] ELSE part

Split(sigma) ==
    /\ phase = "split"
    /\ rounds < MaxRounds
    /\ AllocationCovers(net, sigma)
    /\ parts' = [w \in WorkerIds |-> Carried(split(net, sigma)[w])]
    /\ borders' = Borders(net, sigma)
    /\ cursor' = 0
    /\ active' = FALSE
    /\ phase' = "reduce"
    /\ marks' = marks \cup Mark("overlap", RangesClamped(net.next_id))
    /\ UNCHANGED <<mode, hybrid, net, pending, snapshot, count, rounds,
                   converged, oracleVars>>

Allocate(n) ==
    (IF "any" \in Strategies THEN Allocations(n) ELSE {})
        \cup (IF "contiguous" \in Strategies THEN {ContiguousId(n)} ELSE {})

(* Only a debug assertion keeps create_agent inside the worker's range: a  *)
(* release build goes on with the ids of the next worker.                  *)
LeftRange(sub, range) == Mark("overlap", range.end < sub.next_id)

(* Mutant of LocalStep: local interactions are not added up.               *)
LocalStepUncounted ==
    LET sub == parts[cursor].subnet
    IN  /\ phase = "reduce"
        /\ ~IsNormalForm(sub)
        /\ count < MaxInteractions
        /\ HasRoomFor(sub, 4)
        /\ parts' = [parts EXCEPT ![cursor].subnet = reduce_step(sub)]
        /\ count' = count
        /\ marks' = marks \cup Marks(sub)
                              \cup LeftRange(parts'[cursor].subnet, parts[cursor].id_range)
        /\ UNCHANGED <<phase, mode, hybrid, net, borders, cursor, active, pending,
                       snapshot, rounds, converged, oracleVars>>

(* One interaction of the local reduce_all of the current worker.          *)
LocalStep ==
    LET sub == parts[cursor].subnet
    IN  /\ phase = "reduce"
        /\ ~IsNormalForm(sub)
        /\ count < MaxInteractions
        /\ HasRoomFor(sub, 4)
        /\ parts' = [parts EXCEPT ![cursor].subnet = reduce_step(sub)]
        /\ count' = count + 1
        /\ marks' = marks \cup Marks(sub)
                              \cup LeftRange(parts'[cursor].subnet, parts[cursor].id_range)
        /\ UNCHANGED <<phase, mode, hybrid, net, borders, cursor, active, pending,
                       snapshot, rounds, converged, oracleVars>>

(* The worker is in local Normal Form: what is left in its queue is stale  *)
(* and popped, the border index is rebuilt (not by the coordinator's own   *)
(* worker) and the activity flag computed from it (the coordinator's own   *)
(* worker reports none).                                                   *)
IsSelf(w) == hybrid /\ w = 0

(* The loop over the partitions of the plan ends here.                     *)
LastWorker(w) == w = NumWorkers - 1

LocalDone ==
    LET reduced == [parts[cursor] EXCEPT !.subnet.queue = <<>>]
        indexed == [reduced EXCEPT !.free_port_index =
                       IF IsSelf(cursor) THEN @ ELSE rebuild_free_port_index(reduced)]
    IN  /\ phase = "reduce"
        /\ IsNormalForm(parts[cursor].subnet)
        /\ parts' = [parts EXCEPT ![cursor] = Carried(indexed)]
        /\ active' = (active \/ (~IsSelf(cursor) /\ compute_border_activity(indexed)))
        /\ IF LastWorker(cursor)
           THEN cursor' = cursor /\ phase' = "merge"
           ELSE cursor' = cursor + 1 /\ phase' = phase
        /\ marks' = marks \cup Mark("unindexed",
                      IsSelf(cursor) /\ reduced.free_port_index # rebuild_free_port_index(reduced))
        /\ UNCHANGED <<mode, hybrid, net, borders, pending, snapshot, count,
                       rounds, converged, oracleVars>>

MergeUnite ==
    /\ phase = "merge"
    /\ net' = Unite(parts, borders)
    /\ pending' = DOMAIN borders
    /\ phase' = "restore"
    /\ marks' = marks \cup Mark("chained", Chained(parts, borders))
    /\ UNCHANGED <<mode, hybrid, parts, borders, cursor, active, snapshot, count,
                   rounds, converged, oracleVars>>

MergeRestore(b) ==
    /\ phase = "restore"
    /\ b \in pending
    /\ net' = RestoreBorder(net, parts, borders, b)
    /\ pending' = pending \ {b}
    /\ UNCHANGED <<phase, mode, hybrid, parts, borders, cursor, active, snapshot,
                   count, rounds, converged, oracleVars, marks>>

(* The end of the merge; under coordinator_free_rounds a round without     *)
(* border activity skips the border resolution (SPEC-19 R3 and R4), and    *)
(* strict_bsp over the wire has none.                                      *)
SkipResolution == mode = "coordinator_free" /\ ~active

(* Mutant of Unresolved: every strict round leaves its borders.            *)
UnresolvedStrict == SkipResolution \/ ~Lenient

Unresolved == SkipResolution \/ mode = "deferred"

MergeFinish ==
    LET merged == ReconcileFreeList(net, parts)
    IN  /\ phase = "restore"
        /\ pending = {}
        /\ IF Lenient \/ Unresolved
           THEN net' = merged /\ snapshot' = <<>>
           ELSE net' = [merged EXCEPT !.queue = <<>>] /\ snapshot' = merged.queue
        /\ phase' = IF Unresolved THEN "check" ELSE "resolve"
        /\ UNCHANGED <<mode, hybrid, parts, borders, cursor, active, pending, count,
                       rounds, converged, oracleVars, marks>>

(* Lenient border resolution: reduce_all on the merged net.                *)
ResolveLenient ==
    /\ phase = "resolve"
    /\ Lenient
    /\ IF IsNormalForm(net)
       THEN phase' = "check" /\ UNCHANGED <<count, marks>>
       ELSE /\ HasRoomFor(net, 4)
            /\ count < MaxInteractions
            /\ count' = count + 1
            /\ marks' = marks \cup Marks(net)
            /\ phase' = phase
    /\ net' = reduce_step(net)
    /\ UNCHANGED <<mode, hybrid, parts, borders, cursor, active, pending, snapshot,
                   rounds, converged, oracleVars>>

(* Mutant of ResolveStrict: a pair that a resolution creates is resolved   *)
(* in the same round.                                                      *)
ResolveStrictDrains ==
    LET pair == Head(snapshot)
        alone == [net EXCEPT !.queue = <<pair>>]
        stepped == reduce_step(alone)
    IN  /\ phase = "resolve"
        /\ ~Lenient
        /\ snapshot # <<>>
        /\ count < MaxInteractions
        /\ HasRoomFor(net, 4)
        /\ IF is_valid_redex(net, pair[1], pair[2])
           THEN /\ net' = [stepped EXCEPT !.queue = <<>>]
                /\ snapshot' = Tail(snapshot) \o stepped.queue
                /\ count' = count + 1
                /\ marks' = marks \cup Marks(alone)
           ELSE snapshot' = Tail(snapshot) /\ UNCHANGED <<net, count, marks>>
        /\ UNCHANGED <<phase, mode, hybrid, parts, borders, cursor, active, pending,
                       rounds, converged, oracleVars>>

(* Strict border resolution: reduce_border_once takes each snapshotted     *)
(* pair once; what it creates stays in the queue for the next round.       *)
ResolveStrict ==
    LET pair == Head(snapshot)
        alone == [net EXCEPT !.queue = <<pair>>]
        stepped == reduce_step(alone)
    IN  /\ phase = "resolve"
        /\ ~Lenient
        /\ snapshot # <<>>
        /\ count < MaxInteractions
        /\ HasRoomFor(net, 4)
        /\ snapshot' = Tail(snapshot)
        /\ IF is_valid_redex(net, pair[1], pair[2])
           THEN /\ net' = [stepped EXCEPT !.queue = net.queue \o @]
                /\ count' = count + 1
                /\ marks' = marks \cup Marks(alone)
           ELSE UNCHANGED <<net, count, marks>>
        /\ UNCHANGED <<phase, mode, hybrid, parts, borders, cursor, active, pending,
                       rounds, converged, oracleVars>>

ResolveStrictDone ==
    /\ phase = "resolve"
    /\ ~Lenient
    /\ snapshot = <<>>
    /\ phase' = "check"
    /\ UNCHANGED <<gridVars, oracleVars, marks>>

(* End of the round: the termination check of run_grid.                    *)
CheckTermination ==
    /\ phase = "check"
    /\ rounds' = rounds + 1
    /\ net' = drain_stale_redexes(net)
    /\ converged' = (net'.queue = <<>>)
    /\ phase' = IF net'.queue = <<>> THEN "done" ELSE "split"
    /\ UNCHANGED <<mode, hybrid, parts, borders, cursor, active, pending, snapshot,
                   count, oracleVars, marks>>

Next ==
    \/ SequentialStep
    \/ Start
    \/ RoundLimit
    \/ phase = "split" /\ \E sigma \in Allocate(net) : Split(sigma)
    \/ LocalStep
    \/ LocalDone
    \/ MergeUnite
    \/ \E b \in pending : MergeRestore(b)
    \/ MergeFinish
    \/ ResolveLenient
    \/ ResolveStrict
    \/ ResolveStrictDone
    \/ CheckTermination

Spec == Init /\ [][Next]_vars
-----------------------------------------------------------------------------
Converged == phase = "done" /\ converged

(* The disagreements with the specification that the README reports, each  *)
(* met by a run whose marks name it.                                       *)
Troubles == {"entangled", "purged", "chained", "unindexed", "overlap"}
Untroubled == marks \cap Troubles = {}

(* G1, the Fundamental Property: a converged run_grid returns the normal   *)
(* form of the sequential reduction, whatever the allocation, the order of *)
(* the borders and the mode, as long as it met none of the five Troubles.  *)
FundamentalProperty ==
    Converged /\ Untroubled => Isomorphic(oracle, net)

(* T7: it gets there after the same number of interactions, as long as no  *)
(* rule took the shortcut for a self-loop.                                 *)
InteractionCountInvariant ==
    Converged /\ marks = {} => count = oracleCount

(* merge/core.rs R11: the merged net passes assert_all_invariants and its  *)
(* free list is valid, unless an entangled pair was reduced, a border was  *)
(* relayed on both sides, the index of the coordinator's own partition was *)
(* left behind, or ids overlapped.                                         *)
MergedNetWellFormed ==
    phase \in {"resolve", "check", "split", "done"} /\ marks \cap (Troubles \ {"purged"}) = {} =>
        assert_all_invariants(net) /\ validate_free_list(net)

(* D3, D4 and SPEC-22 R10c: while the workers reduce, no agent id is live  *)
(* or free in two partitions, so the merge never overwrites an agent, and  *)
(* every partition is one that its receiver accepts from the wire - as     *)
(* long as no range was clamped or used up.                                *)
IdsConfined ==
    phase \in {"reduce", "merge"} /\ "overlap" \notin marks =>
        /\ \A w \in WorkerIds : WireAccepts(parts[w].subnet)
        /\ \A v, w \in WorkerIds : v # w =>
                LET used(x) == Live(parts[x].subnet) \cup ToSet(parts[x].subnet.free_list)
                IN  used(v) \cap used(w) = {}

(* SPEC-05 R30a of the loops that resolve their borders: the number of     *)
(* rounds is bounded by the number of interactions, because every round    *)
(* reduces at least one pair, also one whose agents no allocation ever     *)
(* brings together.                                                        *)
RoundsMakeProgress == mode # "deferred" /\ "entangled" \notin marks => rounds <= count

(* SPEC-19 R5: a round that skips the border resolution because no worker  *)
(* reported border activity leaves no active pair unresolved.              *)
SkippedRoundHadNoRedex ==
    phase = "check" /\ SkipResolution /\ "entangled" \notin marks => ActivePairs(net) = {}
=============================================================================
