---------------------------- MODULE GridProtocol ----------------------------
(***************************************************************************)
(* The distributed grid loop over the wire: run_coordinator of             *)
(* protocol/coordinator.rs with the workers of protocol/worker.rs (and the *)
(* in-process self-worker of protocol/self_worker.rs in hybrid mode), one  *)
(* ordered connection per peer.                                            *)
(*                                                                         *)
(* The net is abstracted to the set of its parts (Atoms): a split shares   *)
(* them out, a worker returns the share it was given, a merge unites the   *)
(* shares that came back.  Whether redexes remain is a free choice.  What  *)
(* the loop does with connections, rounds, ids and departures is kept.     *)
(*                                                                         *)
(* The wire format also has LeaveRequest, JoinRequest and Error, which the *)
(* coordinator serves and the worker loop of this repository never sends:  *)
(* Leavers, Joiners and Faulty are the peers that do.                      *)
(***************************************************************************)
EXTENDS Integers, Sequences, FiniteSets

CONSTANTS
    Peers,          \* processes that may connect
    Joiners,        \* peers that open with JoinRequest instead of Register
    Leavers,        \* peers that may send LeaveRequest
    Faulty,         \* peers that may crash or report an Error
    Atoms,          \* the parts of the net
    Configs,        \* the NodeConfig / GridConfig settings to explore
    MaxRounds,      \* GridConfig.max_rounds
    MaxWorkerId     \* stands for u32::MAX, the exhausted WorkerId

ConfigSpace ==
    [num_workers : Nat, hybrid_coordinator : BOOLEAN, elastic_join : BOOLEAN,
     elastic_departure : BOOLEAN, retain_partitions : BOOLEAN, strict_bsp : BOOLEAN]

(* GridConfig.normalize: a departure is detected only with retained state  *)
(* and open joins, and a hybrid coordinator opens joins.                   *)
Normalized(c) ==
    /\ c.elastic_departure => c.retain_partitions
    /\ c.hybrid_coordinator \/ c.elastic_departure => c.elastic_join

ASSUME ProtocolAssumption ==
    /\ IsFiniteSet(Peers)
    /\ Joiners \subseteq Peers
    /\ Leavers \subseteq Peers
    /\ Faulty \subseteq Peers
    /\ Configs \subseteq ConfigSpace
    /\ \A c \in Configs : Normalized(c)
    /\ MaxRounds \in Nat
    /\ MaxWorkerId \in Nat
    /\ \A c \in Configs : c.num_workers < MaxWorkerId

NoPromise == <<>>
NoTask == <<>>

VARIABLES
    cfg,                            \* the configuration of this run
    phase,                          \* where run_coordinator is
    worker_streams, worker_ids,     \* the two parallel vectors
    next_worker_id,
    pending,                        \* pending_connections_queue
    net, redexes, rounds,           \* current_net, its redexes, metrics.rounds
    self_worker,                    \* state of the self-worker's task (hybrid mode)
    plan,                           \* the partitions of this round, by slot
    cursor,                         \* the stream being polled
    collected,                      \* collect_results_vec
    departing,                      \* departing_worker_ids
    initial, last_acked,            \* keys of the RetainedStateRegistry maps
    backlog,                        \* connections not accepted yet
    link, inbox, outbox,            \* per peer: connection, frames to / from it
    peer, task,                     \* per peer: state, partition being reduced
    granted,                        \* history: the WorkerId given to a peer
    promised,                       \* history: <<round, slot>> of an unserved JoinAck
    withheld                        \* history: a worker departed without its result

coordVars == <<cfg, phase, worker_streams, worker_ids, next_worker_id, pending>>
loopVars == <<net, redexes, rounds, self_worker>>
roundVars == <<plan, cursor, collected, departing>>
retainedVars == <<initial, last_acked>>
wireVars == <<backlog, link, inbox, outbox>>
peerVars == <<peer, task>>
historyVars == <<granted, promised, withheld>>
vars == <<coordVars, loopVars, roundVars, retainedVars, wireVars, peerVars, historyVars>>

-----------------------------------------------------------------------------
(* Messages (protocol/types.rs).  A partition is named by its slot.        *)
RegisterAck(id) == [type |-> "RegisterAck", worker_id |-> id]
JoinAck(id, slot, round) ==
    [type |-> "JoinAck", worker_id |-> id, partition_index |-> slot,
     next_round_number |-> round]
JoinNack == [type |-> "JoinNack"]
LeaveAck == [type |-> "LeaveAck"]
Shutdown == [type |-> "Shutdown"]

AssignPartition(round, partition) ==
    [type |-> "AssignPartition", round |-> round, partition |-> partition]

Register == [type |-> "Register"]
JoinRequest == [type |-> "JoinRequest"]
LeaveRequest == [type |-> "LeaveRequest"]
Error(id) == [type |-> "Error", worker_id |-> id]
PartitionResult(round, partition) ==
    [type |-> "PartitionResult", round |-> round, partition |-> partition]

Send(chan, p, m) == [chan EXCEPT ![p] = Append(@, m)]
Receive(chan, p) == [chan EXCEPT ![p] = Tail(@)]
Heads(chan, p, type) == chan[p] # <<>> /\ Head(chan[p]).type = type

Close(p) == [link EXCEPT ![p] = "closed"]

(* Mutant of CloseAll: connections that only wait are left open.           *)
CloseActive ==
    [p \in Peers |->
        IF link[p] = "open" /\ \E i \in DOMAIN worker_streams : worker_streams[i] = p
        THEN "closed" ELSE link[p]]

(* run_coordinator returns: every connection it holds is dropped.          *)
CloseAll == [p \in Peers |-> IF link[p] = "open" THEN "closed" ELSE link[p]]

-----------------------------------------------------------------------------
(* Slots: the self-partition is slot 0 in hybrid mode, the streams follow  *)
(* in vector order.                                                        *)
Offset == IF cfg.hybrid_coordinator THEN 1 ELSE 0
SlotOf(i) == i - 1 + Offset
k_eff == Len(worker_streams) + Offset
Slots == 0 .. k_eff - 1

remote_workers_needed ==
    IF cfg.hybrid_coordinator /\ cfg.num_workers > 0
    THEN cfg.num_workers - 1 ELSE cfg.num_workers

ActivePeers == {worker_streams[i] : i \in DOMAIN worker_streams}
ActiveIds == {worker_ids[i] : i \in DOMAIN worker_ids}

(* Vec::swap_remove: the last element takes the place of the removed one.  *)
swap_remove(s, i) == SubSeq([s EXCEPT ![i] = s[Len(s)]], 1, Len(s) - 1)

Init ==
    /\ cfg \in Configs
    /\ phase = "accept"
    /\ worker_streams = <<>>
    /\ worker_ids = <<>>
    /\ next_worker_id = Offset
    /\ pending = <<>>
    /\ net = Atoms
    /\ redexes \in BOOLEAN
    /\ rounds = 0
    /\ self_worker = "none"
    /\ plan = <<>>
    /\ cursor = 1
    /\ collected = {}
    /\ departing = {}
    /\ initial = {}
    /\ last_acked = {}
    /\ backlog = {}
    /\ link = [p \in Peers |-> "none"]
    /\ inbox = [p \in Peers |-> <<>>]
    /\ outbox = [p \in Peers |-> <<>>]
    /\ peer = [p \in Peers |-> "out"]
    /\ task = [p \in Peers |-> NoTask]
    /\ granted = [p \in Peers |-> -1]
    /\ promised = [p \in Peers |-> NoPromise]
    /\ withheld = FALSE

-----------------------------------------------------------------------------
(***************************************************************************)
(* accept_workers: registrations until the initial cohort is complete.     *)
(***************************************************************************)
AcceptWorker(p) ==
    /\ phase = "accept"
    /\ Len(worker_streams) < remote_workers_needed
    /\ p \in backlog
    /\ link[p] = "open"
    /\ Heads(outbox, p, "Register")
    /\ worker_streams' = Append(worker_streams, p)
    /\ worker_ids' = Append(worker_ids, next_worker_id)
    /\ next_worker_id' = next_worker_id + 1
    /\ granted' = [granted EXCEPT ![p] = next_worker_id]
    /\ backlog' = backlog \ {p}
    /\ outbox' = Receive(outbox, p)
    /\ inbox' = Send(inbox, p, RegisterAck(next_worker_id))
    /\ UNCHANGED <<cfg, phase, pending, loopVars, roundVars, retainedVars, link,
                   peerVars, promised, withheld>>

(* A JoinRequest is for running sessions: nack and drop.                   *)
AcceptReject(p) ==
    /\ phase = "accept"
    /\ Len(worker_streams) < remote_workers_needed
    /\ p \in backlog
    /\ Heads(outbox, p, "JoinRequest")
    /\ backlog' = backlog \ {p}
    /\ outbox' = Receive(outbox, p)
    /\ inbox' = Send(inbox, p, JoinNack)
    /\ link' = Close(p)
    /\ UNCHANGED <<coordVars, loopVars, roundVars, retainedVars, peerVars, historyVars>>

(* Mutant of AcceptFail: no worker_connect_timeout.                        *)
AcceptFailOnBreak ==
    /\ phase = "accept"
    /\ Len(worker_streams) < remote_workers_needed
    /\ \E p \in backlog : link[p] = "closed"
    /\ phase' = "err"
    /\ link' = CloseAll
    /\ UNCHANGED <<cfg, worker_streams, worker_ids, next_worker_id, pending, loopVars,
                   roundVars, retainedVars, backlog, inbox, outbox, peerVars, historyVars>>

(* worker_connect_timeout, or a connection that breaks while registering.  *)
AcceptFail ==
    /\ phase = "accept"
    /\ Len(worker_streams) < remote_workers_needed
    /\ phase' = "err"
    /\ link' = CloseAll
    /\ UNCHANGED <<cfg, worker_streams, worker_ids, next_worker_id, pending, loopVars,
                   roundVars, retainedVars, backlog, inbox, outbox, peerVars, historyVars>>

AcceptDone ==
    /\ phase = "accept"
    /\ Len(worker_streams) >= remote_workers_needed
    /\ phase' = "loop"
    /\ UNCHANGED <<cfg, worker_streams, worker_ids, next_worker_id, pending, loopVars,
                   roundVars, retainedVars, wireVars, peerVars, historyVars>>

-----------------------------------------------------------------------------
(***************************************************************************)
(* The head of the loop: convergence, the round limit, no workers.         *)
(***************************************************************************)
Finish ==
    /\ phase = "loop"
    /\ ~redexes \/ rounds >= MaxRounds
    /\ phase' = "ok"
    /\ inbox' = [p \in Peers |->
                    IF p \in ActivePeers THEN Append(inbox[p], Shutdown) ELSE inbox[p]]
    /\ link' = CloseAll
    /\ UNCHANGED <<cfg, worker_streams, worker_ids, next_worker_id, pending, loopVars,
                   roundVars, retainedVars, backlog, outbox, peerVars, historyVars>>

Continues == phase = "loop" /\ redexes /\ rounds < MaxRounds

NoWorkers ==
    /\ Continues
    /\ worker_streams = <<>>
    /\ phase' = IF cfg.hybrid_coordinator THEN "solo" ELSE "err"
    /\ link' = IF cfg.hybrid_coordinator THEN link ELSE CloseAll
    /\ UNCHANGED <<cfg, worker_streams, worker_ids, next_worker_id, pending, loopVars,
                   roundVars, retainedVars, backlog, inbox, outbox, peerVars, historyVars>>

(* SoloReducing: batches of reduce_n to Normal Form, queueing arrivals.    *)
SoloAccept(p) ==
    /\ phase = "solo"
    /\ p \in backlog
    /\ backlog' = backlog \ {p}
    /\ pending' = Append(pending, p)
    /\ UNCHANGED <<cfg, phase, worker_streams, worker_ids, next_worker_id, loopVars,
                   roundVars, retainedVars, link, inbox, outbox, peerVars, historyVars>>

(* Mutant of SoloFinish: the queued connections are not dropped.           *)
SoloFinishKeepsOpen ==
    /\ phase = "solo"
    /\ redexes' = FALSE
    /\ phase' = "ok"
    /\ link' = link
    /\ UNCHANGED <<cfg, worker_streams, worker_ids, next_worker_id, pending, net, rounds, self_worker,
                   roundVars, retainedVars, backlog, inbox, outbox, peerVars, historyVars>>

SoloFinish ==
    /\ phase = "solo"
    /\ redexes' = FALSE
    /\ phase' = "ok"
    /\ link' = CloseAll
    /\ UNCHANGED <<cfg, worker_streams, worker_ids, next_worker_id, pending, net, rounds, self_worker,
                   roundVars, retainedVars, backlog, inbox, outbox, peerVars, historyVars>>

-----------------------------------------------------------------------------
(***************************************************************************)
(* Split and distribute_partitions: slot s gets the atoms sigma sends      *)
(* there; every stream is sent its partition; retained_initial is filled.  *)
(***************************************************************************)
PartitionOf(sigma, s) == [worker_id |-> s, share |-> {a \in net : sigma[a] = s}]

IndexOf(p) == CHOOSE i \in DOMAIN worker_streams : worker_streams[i] = p

Dispatch(sigma) ==
    /\ Continues
    /\ worker_streams # <<>>
    /\ plan' = [s \in Slots |-> PartitionOf(sigma, s)]
    /\ inbox' = [p \in Peers |->
                    IF p \in ActivePeers
                    THEN Append(inbox[p], AssignPartition(rounds, plan'[SlotOf(IndexOf(p))]))
                    ELSE inbox[p]]
    /\ initial' = IF cfg.retain_partitions THEN initial \cup Slots ELSE initial
    /\ cursor' = 1
    /\ collected' = {}
    /\ departing' = {}
    /\ promised' = [p \in Peers |-> IF p \in ActivePeers THEN NoPromise ELSE promised[p]]
    /\ self_worker' = IF cfg.hybrid_coordinator THEN "reducing" ELSE "none"
    /\ phase' = "collect"
    /\ UNCHANGED <<cfg, worker_streams, worker_ids, next_worker_id, pending, net, redexes,
                   rounds, last_acked, backlog, link, outbox, peerVars, granted, withheld>>

(* A send to a peer that has gone may fail, or time out on one that does   *)
(* not read; so may the one to the self-worker, which refuses a partition  *)
(* above max_payload_size: the run is abandoned.                           *)
DispatchFail ==
    /\ Continues
    /\ worker_streams # <<>>
    /\ \/ \E p \in ActivePeers : link[p] = "closed" \/ peer[p] = "leaving"
       \/ cfg.hybrid_coordinator
    /\ phase' = "err"
    /\ link' = CloseAll
    /\ UNCHANGED <<cfg, worker_streams, worker_ids, next_worker_id, pending, loopVars,
                   roundVars, retainedVars, backlog, inbox, outbox, peerVars, historyVars>>

-----------------------------------------------------------------------------
(***************************************************************************)
(* Collect: the streams one after the other, each with collect_timeout.    *)
(***************************************************************************)
Polled == worker_streams[cursor]
Polling == phase = "collect" /\ cursor <= Len(worker_streams)

CollectResult ==
    LET m == Head(outbox[Polled])
    IN  /\ Polling
        /\ Heads(outbox, Polled, "PartitionResult")
        /\ outbox' = Receive(outbox, Polled)
        /\ IF m.round = rounds
           THEN /\ collected' = collected \cup {m.partition}
                /\ initial' = IF cfg.retain_partitions
                              THEN initial \cup {m.partition.worker_id} ELSE initial
                /\ last_acked' = IF cfg.retain_partitions
                                 THEN last_acked \cup {m.partition.worker_id} ELSE last_acked
                /\ phase' = "peek"
                /\ link' = link
           ELSE /\ phase' = "err"
                /\ link' = CloseAll
                /\ UNCHANGED <<collected, initial, last_acked>>
        /\ UNCHANGED <<cfg, worker_streams, worker_ids, next_worker_id, pending, loopVars,
                       plan, cursor, departing, backlog, inbox, peerVars, historyVars>>

(* The 50 ms peek for a LeaveRequest behind the result.                    *)
PeekLeave ==
    /\ phase = "peek"
    /\ Heads(outbox, Polled, "LeaveRequest")
    /\ outbox' = Receive(outbox, Polled)
    /\ inbox' = Send(inbox, Polled, LeaveAck)
    /\ departing' = departing \cup {worker_ids[cursor]}
    /\ cursor' = cursor + 1
    /\ phase' = "collect"
    /\ UNCHANGED <<cfg, worker_streams, worker_ids, next_worker_id, pending, loopVars, plan,
                   collected, retainedVars, backlog, link, peerVars, historyVars>>

PeekNothing ==
    /\ phase = "peek"
    /\ cursor' = cursor + 1
    /\ phase' = "collect"
    /\ UNCHANGED <<cfg, worker_streams, worker_ids, next_worker_id, pending, loopVars, plan,
                   collected, departing, retainedVars, wireVars, peerVars, historyVars>>

(* A LeaveRequest instead of a result.                                     *)
CollectLeave ==
    /\ Polling
    /\ Heads(outbox, Polled, "LeaveRequest")
    /\ outbox' = Receive(outbox, Polled)
    /\ inbox' = Send(inbox, Polled, LeaveAck)
    /\ departing' = departing \cup {worker_ids[cursor]}
    /\ withheld' = TRUE
    /\ cursor' = cursor + 1
    /\ UNCHANGED <<cfg, phase, worker_streams, worker_ids, next_worker_id, pending, loopVars,
                   plan, collected, retainedVars, backlog, link, peerVars, granted, promised>>

(* Mutant of Lose: the lost worker is only skipped.                        *)
LoseSkips(id) ==
    /\ withheld' = TRUE
    /\ cursor' = cursor + 1
    /\ UNCHANGED <<phase, link, departing, cfg, worker_streams, worker_ids, next_worker_id, pending,
                   loopVars, plan, collected, retainedVars, backlog, inbox, peerVars,
                   granted, promised>>

(* handle_connection_loss and handle_phase_timeout on worker id.           *)
Lose(id) ==
    /\ IF cfg.elastic_departure
       THEN /\ departing' = departing \cup {id}
            /\ withheld' = TRUE
            /\ cursor' = cursor + 1
            /\ UNCHANGED <<phase, link>>
       ELSE /\ phase' = "err"
            /\ link' = CloseAll
            /\ UNCHANGED <<departing, withheld, cursor>>
    /\ UNCHANGED <<cfg, worker_streams, worker_ids, next_worker_id, pending, loopVars, plan,
                   collected, retainedVars, backlog, inbox, peerVars, granted, promised>>

CollectError ==
    /\ Polling
    /\ Heads(outbox, Polled, "Error")
    /\ outbox' = Receive(outbox, Polled)
    /\ Lose(Head(outbox[Polled]).worker_id)

CollectBroken ==
    /\ Polling
    /\ link[Polled] = "closed"
    /\ outbox[Polled] = <<>>
    /\ outbox' = outbox
    /\ Lose(worker_ids[cursor])

(* collect_timeout may expire with the answer on its way.                  *)
CollectTimeout ==
    /\ Polling
    /\ outbox' = outbox
    /\ Lose(worker_ids[cursor])

(* The self-worker is polled last; its id is 0.                            *)
PollingSelf ==
    /\ phase = "collect"
    /\ cfg.hybrid_coordinator
    /\ cursor = Len(worker_streams) + 1

(* reduce_all on the self-partition ends, in a task of its own.  A result  *)
(* that fits the 1 MiB pipe is sent; a longer one is being written until   *)
(* the coordinator reads; an error closes the stream; or the task panics.  *)
SelfReduced ==
    /\ self_worker = "reducing"
    /\ self_worker' \in {"sent", "writing", "closed", "panicked"}
    /\ UNCHANGED <<coordVars, net, redexes, rounds, roundVars, retainedVars, wireVars,
                   peerVars, historyVars>>

SelfFlush ==
    /\ PollingSelf
    /\ self_worker = "writing"
    /\ self_worker' = "sent"
    /\ UNCHANGED <<coordVars, net, redexes, rounds, roundVars, retainedVars, wireVars,
                   peerVars, historyVars>>

(* Mutant of CollectSelf: the self-result is not pushed.                   *)
CollectSelfUnpushed ==
    /\ PollingSelf
    /\ self_worker = "sent"
    /\ collected' = collected
    /\ last_acked' = IF cfg.retain_partitions THEN last_acked \cup {0} ELSE last_acked
    /\ cursor' = cursor + 1
    /\ UNCHANGED <<coordVars, loopVars, plan, departing, initial, wireVars, peerVars,
                   historyVars>>

CollectSelf ==
    /\ PollingSelf
    /\ self_worker = "sent"
    /\ collected' = collected \cup {plan[0]}
    /\ last_acked' = IF cfg.retain_partitions THEN last_acked \cup {0} ELSE last_acked
    /\ cursor' = cursor + 1
    /\ UNCHANGED <<coordVars, loopVars, plan, departing, initial, wireVars, peerVars,
                   historyVars>>

(* It is late, or it failed and closed its stream.                         *)
CollectSelfTimeout ==
    /\ PollingSelf
    /\ outbox' = outbox
    /\ Lose(0)

(* Every stream polled: what connected meanwhile is queued, the retained   *)
(* state of the departed released.                                         *)
CollectDone == phase = "collect" /\ cursor > k_eff

DrainAccept(p) ==
    /\ CollectDone
    /\ p \in backlog
    /\ backlog' = backlog \ {p}
    /\ pending' = Append(pending, p)
    /\ UNCHANGED <<cfg, phase, worker_streams, worker_ids, next_worker_id, loopVars,
                   roundVars, retainedVars, link, inbox, outbox, peerVars, historyVars>>

(* join_handle.await returns an error: the self-worker's task panicked.    *)
SelfWorkerPanicked ==
    /\ CollectDone
    /\ self_worker = "panicked"
    /\ phase' = "err"
    /\ link' = CloseAll
    /\ UNCHANGED <<cfg, worker_streams, worker_ids, next_worker_id, pending, loopVars,
                   roundVars, retainedVars, backlog, inbox, outbox, peerVars, historyVars>>

(* It returns without one: join_handle.await has no timer, and the stream  *)
(* is not read any more.                                                   *)
DrainEnd ==
    /\ CollectDone
    /\ self_worker \in {"none", "sent", "closed"}
    /\ initial' = initial \ departing
    /\ last_acked' = last_acked \ departing
    /\ phase' = "prune"
    /\ UNCHANGED <<cfg, worker_streams, worker_ids, next_worker_id, pending, loopVars,
                   roundVars, wireVars, peerVars, historyVars>>

-----------------------------------------------------------------------------
(***************************************************************************)
(* Departures: swap_remove on both vectors, highest index first.           *)
(***************************************************************************)
DepartedIndices == {i \in DOMAIN worker_ids : worker_ids[i] \in departing}

(* Mutant of Prune: worker_ids uses remove, which shifts.                  *)
PruneShift(i) ==
    /\ phase = "prune"
    /\ i \in DepartedIndices
    /\ \A j \in DepartedIndices : j <= i
    /\ worker_streams' = swap_remove(worker_streams, i)
    /\ worker_ids' = SubSeq(worker_ids, 1, i - 1) \o SubSeq(worker_ids, i + 1, Len(worker_ids))
    /\ link' = Close(worker_streams[i])
    /\ UNCHANGED <<cfg, phase, next_worker_id, pending, loopVars, roundVars, retainedVars,
                   backlog, inbox, outbox, peerVars, historyVars>>

(* Mutant of Prune: the id of the last worker is taken back.               *)
PruneReclaims(i) ==
    /\ phase = "prune"
    /\ i \in DepartedIndices
    /\ \A j \in DepartedIndices : j <= i
    /\ worker_streams' = swap_remove(worker_streams, i)
    /\ worker_ids' = swap_remove(worker_ids, i)
    /\ next_worker_id' = next_worker_id - (IF worker_ids[i] = next_worker_id - 1 THEN 1 ELSE 0)
    /\ link' = Close(worker_streams[i])
    /\ UNCHANGED <<cfg, phase, pending, loopVars, roundVars, retainedVars,
                   backlog, inbox, outbox, peerVars, historyVars>>

Prune(i) ==
    /\ phase = "prune"
    /\ i \in DepartedIndices
    /\ \A j \in DepartedIndices : j <= i
    /\ worker_streams' = swap_remove(worker_streams, i)
    /\ worker_ids' = swap_remove(worker_ids, i)
    /\ link' = Close(worker_streams[i])
    /\ UNCHANGED <<cfg, phase, next_worker_id, pending, loopVars, roundVars, retainedVars,
                   backlog, inbox, outbox, peerVars, historyVars>>

AllWorkersDeparted ==
    /\ departing # {}
    /\ worker_streams = <<>>
    /\ ~cfg.hybrid_coordinator

(* Mutant of PruneDone: the departed streams are not taken out first.      *)
PruneDoneEarly ==
    /\ phase = "prune"
    /\ phase' = "merge"
    /\ UNCHANGED <<cfg, worker_streams, worker_ids, next_worker_id, pending, loopVars, link,
                   roundVars, retainedVars, backlog, inbox, outbox, peerVars, historyVars>>

PruneDone ==
    /\ phase = "prune"
    /\ DepartedIndices = {}
    /\ phase' = IF AllWorkersDeparted THEN "err" ELSE "merge"
    /\ link' = IF AllWorkersDeparted THEN CloseAll ELSE link
    /\ UNCHANGED <<cfg, worker_streams, worker_ids, next_worker_id, pending, loopVars,
                   roundVars, retainedVars, backlog, inbox, outbox, peerVars, historyVars>>

(* Mutant of MergedNet: results of departed workers are left out.          *)
MergedFromRemaining ==
    UNION {part.share : part \in {c \in collected : c.worker_id \notin departing}}

MergedNet == UNION {part.share : part \in collected}

(* Merge what was collected; only strict_bsp leaves redexes for later.     *)
Merge(remain) ==
    /\ phase = "merge"
    /\ remain => cfg.strict_bsp
    /\ net' = MergedNet
    /\ redexes' = remain
    /\ rounds' = rounds + 1
    /\ phase' = IF cfg.elastic_join THEN "join" ELSE "loop"
    /\ UNCHANGED <<cfg, worker_streams, worker_ids, next_worker_id, pending, self_worker,
                   roundVars, retainedVars, wireVars, peerVars, historyVars>>

-----------------------------------------------------------------------------
(***************************************************************************)
(* The join window: first the queued connections in order, then new ones.  *)
(***************************************************************************)
Arrivals == IF pending # <<>> THEN {Head(pending)} ELSE backlog

Taken(p) ==
    /\ phase = "join"
    /\ p \in Arrivals
    /\ pending' = IF pending # <<>> THEN Tail(pending) ELSE pending
    /\ backlog' = IF pending # <<>> THEN backlog ELSE backlog \ {p}

(* Mutants of FirstRound and FirstSlot: the round is counted twice; the    *)
(* self-slot is forgotten.                                                 *)
FirstRoundTwice == rounds + 1

(* The round and the slot of the joiner's first partition.                 *)
FirstRound == rounds
FirstSlot == k_eff

(* process_join_request: the ack of a live joiner.                         *)
Join(p) ==
    /\ Taken(p)
    /\ link[p] = "open"
    /\ Heads(outbox, p, "JoinRequest")
    /\ next_worker_id # MaxWorkerId
    /\ outbox' = Receive(outbox, p)
    /\ inbox' = Send(inbox, p, JoinAck(next_worker_id, FirstSlot, FirstRound))
    /\ worker_streams' = Append(worker_streams, p)
    /\ worker_ids' = Append(worker_ids, next_worker_id)
    /\ next_worker_id' = next_worker_id + 1
    /\ initial' = IF cfg.retain_partitions THEN initial \cup {next_worker_id} ELSE initial
    /\ granted' = [granted EXCEPT ![p] = next_worker_id]
    /\ promised' = [promised EXCEPT ![p] = <<FirstRound, FirstSlot>>]
    /\ UNCHANGED <<cfg, phase, loopVars, roundVars, last_acked, link, peerVars, withheld>>

(* The JoinAck cannot be delivered: the id is burnt, the stream dropped.   *)
JoinLost(p) ==
    /\ Taken(p)
    /\ link[p] = "closed"
    /\ Heads(outbox, p, "JoinRequest")
    /\ next_worker_id # MaxWorkerId
    /\ outbox' = Receive(outbox, p)
    /\ next_worker_id' = next_worker_id + 1
    /\ UNCHANGED <<cfg, phase, worker_streams, worker_ids, loopVars, roundVars, retainedVars,
                   link, inbox, peerVars, historyVars>>

(* WorkerIdSpaceExhausted: nack, and the session goes on.                  *)
JoinExhausted(p) ==
    /\ Taken(p)
    /\ Heads(outbox, p, "JoinRequest")
    /\ next_worker_id = MaxWorkerId
    /\ outbox' = Receive(outbox, p)
    /\ inbox' = Send(inbox, p, JoinNack)
    /\ link' = Close(p)
    /\ UNCHANGED <<cfg, phase, worker_streams, worker_ids, next_worker_id, loopVars,
                   roundVars, retainedVars, peerVars, historyVars>>

(* No JoinRequest within the window, or a message that is not one.         *)
JoinDropped(p) ==
    /\ Taken(p)
    /\ link' = Close(p)
    /\ UNCHANGED <<cfg, phase, worker_streams, worker_ids, next_worker_id, loopVars,
                   roundVars, retainedVars, inbox, outbox, peerVars, historyVars>>

(* Mutant of JoinClose: the window stays open until the cohort is full.    *)
JoinCloseWaits ==
    /\ phase = "join"
    /\ pending = <<>>
    /\ k_eff >= cfg.num_workers
    /\ phase' = "loop"
    /\ UNCHANGED <<cfg, worker_streams, worker_ids, next_worker_id, pending, loopVars,
                   roundVars, retainedVars, wireVars, peerVars, historyVars>>

JoinClose ==
    /\ phase = "join"
    /\ pending = <<>>
    /\ phase' = "loop"
    /\ UNCHANGED <<cfg, worker_streams, worker_ids, next_worker_id, pending, loopVars,
                   roundVars, retainedVars, wireVars, peerVars, historyVars>>

-----------------------------------------------------------------------------
(***************************************************************************)
(* Peers (run_worker_inner).                                               *)
(***************************************************************************)
Running == phase \notin {"ok", "err"}

Connect(p) ==
    /\ Running
    /\ peer[p] = "out"
    /\ peer' = [peer EXCEPT ![p] = "waiting"]
    /\ link' = [link EXCEPT ![p] = "open"]
    /\ backlog' = backlog \cup {p}
    /\ outbox' = Send(outbox, p, IF p \in Joiners THEN JoinRequest ELSE Register)
    /\ UNCHANGED <<coordVars, loopVars, roundVars, retainedVars, inbox, task, historyVars>>

ReceiveAck(p) ==
    /\ peer[p] = "waiting"
    /\ Heads(inbox, p, "RegisterAck") \/ Heads(inbox, p, "JoinAck")
    /\ inbox' = Receive(inbox, p)
    /\ peer' = [peer EXCEPT ![p] = "idle"]
    /\ UNCHANGED <<coordVars, loopVars, roundVars, retainedVars, backlog, link, outbox, task,
                   historyVars>>

(* Mutant of ReceiveAssign: the partition is not kept.                     *)
ReceiveAssignForgets(p) ==
    /\ peer[p] = "idle"
    /\ Heads(inbox, p, "AssignPartition")
    /\ inbox' = Receive(inbox, p)
    /\ task' = task
    /\ peer' = [peer EXCEPT ![p] = "reducing"]
    /\ UNCHANGED <<coordVars, loopVars, roundVars, retainedVars, backlog, link, outbox,
                   historyVars>>

ReceiveAssign(p) ==
    /\ peer[p] = "idle"
    /\ Heads(inbox, p, "AssignPartition")
    /\ inbox' = Receive(inbox, p)
    /\ task' = [task EXCEPT ![p] = Head(inbox[p])]
    /\ peer' = [peer EXCEPT ![p] = "reducing"]
    /\ UNCHANGED <<coordVars, loopVars, roundVars, retainedVars, backlog, link, outbox,
                   historyVars>>

SendResult(p) ==
    /\ peer[p] = "reducing"
    /\ outbox' = Send(outbox, p, PartitionResult(task[p].round, task[p].partition))
    /\ task' = [task EXCEPT ![p] = NoTask]
    /\ peer' = [peer EXCEPT ![p] = "idle"]
    /\ UNCHANGED <<coordVars, loopVars, roundVars, retainedVars, backlog, link, inbox,
                   historyVars>>

(* The worker returns: Shutdown, a nack, or the end of its connection.     *)
Return(p) ==
    /\ peer[p] \in {"waiting", "idle", "reducing", "leaving"}
    /\ \/ peer[p] = "idle" /\ Heads(inbox, p, "Shutdown")
       \/ peer[p] = "waiting" /\ Heads(inbox, p, "JoinNack")
       \/ peer[p] = "leaving" /\ \E k \in DOMAIN inbox[p] : inbox[p][k].type = "LeaveAck"
       \/ link[p] = "closed"
    /\ peer' = [peer EXCEPT ![p] = "gone"]
    /\ link' = Close(p)
    /\ inbox' = [inbox EXCEPT ![p] = <<>>]
    /\ task' = [task EXCEPT ![p] = NoTask]
    /\ UNCHANGED <<coordVars, loopVars, roundVars, retainedVars, backlog, outbox, historyVars>>

(* A graceful departure, with the current result returned or without it.   *)
Leave(p) ==
    /\ p \in Leavers
    /\ peer[p] \in {"idle", "reducing"}
    /\ outbox' = Send(outbox, p, LeaveRequest)
    /\ task' = [task EXCEPT ![p] = NoTask]
    /\ peer' = [peer EXCEPT ![p] = "leaving"]
    /\ UNCHANGED <<coordVars, loopVars, roundVars, retainedVars, backlog, link, inbox,
                   historyVars>>

ReportError(p) ==
    /\ p \in Faulty
    /\ peer[p] = "reducing"
    /\ outbox' = Send(outbox, p, Error(granted[p]))
    /\ task' = [task EXCEPT ![p] = NoTask]
    /\ peer' = [peer EXCEPT ![p] = "leaving"]
    /\ UNCHANGED <<coordVars, loopVars, roundVars, retainedVars, backlog, link, inbox,
                   historyVars>>

(* A crash closes the connection; frames on their way may be lost.         *)
Crash(p) ==
    /\ p \in Faulty
    /\ peer[p] \in {"waiting", "idle", "reducing", "leaving"}
    /\ peer' = [peer EXCEPT ![p] = "gone"]
    /\ link' = Close(p)
    /\ inbox' = [inbox EXCEPT ![p] = <<>>]
    /\ task' = [task EXCEPT ![p] = NoTask]
    /\ \/ outbox' = outbox
       \/ outbox' = [outbox EXCEPT ![p] = <<>>]
    /\ UNCHANGED <<coordVars, loopVars, roundVars, retainedVars, backlog, historyVars>>

-----------------------------------------------------------------------------
Accepting ==
    \/ \E p \in Peers : AcceptWorker(p)
    \/ \E p \in Peers : AcceptReject(p)
    \/ AcceptFail
    \/ AcceptDone

Collecting ==
    \/ CollectResult
    \/ PeekLeave
    \/ PeekNothing
    \/ CollectLeave
    \/ CollectError
    \/ CollectBroken
    \/ CollectTimeout
    \/ CollectSelf
    \/ CollectSelfTimeout
    \/ \E p \in Peers : DrainAccept(p)
    \/ SelfWorkerPanicked
    \/ DrainEnd

Joining ==
    \/ \E p \in Peers : Join(p)
    \/ \E p \in Peers : JoinLost(p)
    \/ \E p \in Peers : JoinExhausted(p)
    \/ \E p \in Peers : JoinDropped(p)
    \/ JoinClose

Coordinator ==
    \/ Accepting
    \/ Finish
    \/ NoWorkers
    \/ \E p \in Peers : SoloAccept(p)
    \/ SoloFinish
    \/ \E sigma \in [net -> Slots] : Dispatch(sigma)
    \/ DispatchFail
    \/ Collecting
    \/ \E i \in DOMAIN worker_ids : Prune(i)
    \/ PruneDone
    \/ \E remain \in BOOLEAN : Merge(remain)
    \/ Joining

(* What run_worker_inner does on its own, and what may happen to a peer.   *)
WorkerLoop(p) ==
    \/ ReceiveAck(p)
    \/ ReceiveAssign(p)
    \/ SendResult(p)
    \/ Return(p)

Peer(p) ==
    \/ Connect(p)
    \/ WorkerLoop(p)
    \/ Leave(p)
    \/ ReportError(p)
    \/ Crash(p)

SelfWorker == SelfReduced \/ SelfFlush

Next == Coordinator \/ SelfWorker \/ \E p \in Peers : Peer(p)

Spec == Init /\ [][Next]_vars

(* The coordinator task is scheduled and its timers fire; a worker task    *)
(* that has something to read, a result to send or a closed connection     *)
(* goes on; the self-worker's local reduction ends.  Nobody has to         *)
(* connect, leave or fail.                                                 *)
Fairness ==
    /\ WF_vars(Coordinator)
    /\ WF_vars(SelfWorker)
    /\ \A p \in Peers : WF_vars(WorkerLoop(p))

FairSpec == Spec /\ Fairness
-----------------------------------------------------------------------------
Partitions == [worker_id : Nat, share : SUBSET Atoms]

Assignments == [type : {"AssignPartition"}, round : Nat, partition : Partitions]

ToWorker ==
    [type : {"RegisterAck"}, worker_id : Nat]
    \cup [type : {"JoinAck"}, worker_id : Nat, partition_index : Nat, next_round_number : Nat]
    \cup [type : {"JoinNack", "LeaveAck", "Shutdown"}]
    \cup Assignments

ToCoordinator ==
    [type : {"Register", "JoinRequest", "LeaveRequest"}]
    \cup [type : {"Error"}, worker_id : Int]
    \cup [type : {"PartitionResult"}, round : Nat, partition : Partitions]

Phases == {"accept", "loop", "solo", "collect", "peek", "prune", "merge", "join", "ok", "err"}
SelfWorkerStates == {"none", "reducing", "writing", "sent", "closed", "panicked"}
PeerStates == {"out", "waiting", "idle", "reducing", "leaving", "gone"}

CoordinatorTypes ==
    /\ cfg \in Configs
    /\ phase \in Phases
    /\ worker_streams \in Seq(Peers)
    /\ worker_ids \in Seq(Nat)
    /\ next_worker_id \in Nat
    /\ pending \in Seq(Peers)
    /\ net \in SUBSET Atoms
    /\ redexes \in BOOLEAN
    /\ rounds \in Nat
    /\ self_worker \in SelfWorkerStates
    /\ initial \in SUBSET Nat
    /\ last_acked \in SUBSET Nat

RoundTypes ==
    /\ \A s \in DOMAIN plan : plan[s] \in Partitions
    /\ phase \in {"collect", "peek"} => DOMAIN plan = Slots
    /\ cursor \in Nat
    /\ cursor >= 1
    /\ collected \in SUBSET Partitions
    /\ departing \in SUBSET Int

WireTypes ==
    /\ backlog \in SUBSET Peers
    /\ link \in [Peers -> {"none", "open", "closed"}]
    /\ inbox \in [Peers -> Seq(ToWorker)]
    /\ outbox \in [Peers -> Seq(ToCoordinator)]

PeerTypes ==
    /\ peer \in [Peers -> PeerStates]
    /\ task \in [Peers -> Assignments \cup {NoTask}]
    /\ \A p \in Peers : peer[p] = "reducing" => task[p] \in Assignments
    /\ granted \in [Peers -> Int]
    /\ promised \in [Peers -> (Nat \X Nat) \cup {NoPromise}]
    /\ withheld \in BOOLEAN

(* Every variable is in its type: during a round there is a partition for  *)
(* every slot, a peer that reduces has been assigned one, and every frame  *)
(* on the wire is one its reader knows.                                    *)
TypeOK == CoordinatorTypes /\ RoundTypes /\ WireTypes /\ PeerTypes

(* Identity travels with the stream (the parallel vectors of               *)
(* run_coordinator, QA-012 D): whatever joins and swap_removes happened,   *)
(* worker_ids[i] is the id that was given to the peer behind               *)
(* worker_streams[i], no peer and no id is active twice, every id is below *)
(* next_worker_id, and the self-partition's id 0 is never a remote's.      *)
IdentityTravelsWithStream ==
    /\ Len(worker_ids) = Len(worker_streams)
    /\ \A i \in DOMAIN worker_streams :
          /\ worker_ids[i] = granted[worker_streams[i]]
          /\ worker_ids[i] \in Offset .. next_worker_id - 1
    /\ \A i, j \in DOMAIN worker_streams : worker_ids[i] = worker_ids[j] => i = j

(* The BSP barrier: between two rounds no active worker still has work of  *)
(* the round that is over - in its inbox, in reduction or on the wire - so *)
(* the round check of the collect loop never fires on an active stream.    *)
HasAssignment(p) ==
    \/ peer[p] = "reducing"
    \/ \E k \in DOMAIN outbox[p] : outbox[p][k].type = "PartitionResult"
    \/ /\ peer[p] # "leaving"
       /\ \E k \in DOMAIN inbox[p] : inbox[p][k].type = "AssignPartition"

BarrierBetweenRounds ==
    phase \in {"merge", "join", "loop"} => \A p \in ActivePeers : ~HasAssignment(p)

(* D1 over the wire: nothing of the net is lost between the start and a    *)
(* successful return unless a worker departed without returning a result,  *)
(* whatever timeouts, joins and graceful departures happened.              *)
NetWholeUnlessWithheld ==
    phase \in {"loop", "ok"} /\ ~withheld => net = Atoms

(* R16 / R11a: the JoinAck of a joiner names the round and the slot of its *)
(* first partition, even when others join after it in the same window.     *)
JoinAckHonest ==
    phase = "loop" => \A i \in DOMAIN worker_streams :
        promised[worker_streams[i]] \in {NoPromise, <<rounds, SlotOf(i)>>}

(* The loop seen as a bulk-synchronous coordinator: a partition is         *)
(* answered by the very share that was sent out, or by the departure of    *)
(* the worker that holds it.                                               *)
Holder(s) == IF s < Offset THEN 0 ELSE worker_ids[s - Offset + 1]

Stage ==
    CASE phase \in {"accept", "loop", "solo", "join"} -> "idle"
      [] phase \in {"collect", "peek"}                -> "computing"
      [] phase \in {"prune", "merge"}                 -> "merging"
      [] phase = "ok"                                 -> "done"
      [] phase = "err"                                -> "failed"

Awaited ==
    IF Stage = "computing"
    THEN {s \in DOMAIN plan : plan[s] \notin collected /\ Holder(s) \notin departing}
    ELSE {}

Rounds == INSTANCE BSP WITH AllSlots <- 0 .. Cardinality(Peers), stage <- Stage,
                            round <- rounds, awaited <- Awaited

(* run_coordinator implements the bulk-synchronous coordinator: it merges  *)
(* only when every partition of the round is answered, although it counts  *)
(* streams (the cursor) and never the answers, and although late results,  *)
(* departures, joins and the self-worker move the streams about.           *)
ImplementsBSP == Rounds!Spec

(* R11: an id that was given to one peer is never given to another, even   *)
(* after the first one has left.                                           *)
IdsNeverReused ==
    [][\A p \in Peers : granted'[p] # granted[p] =>
          \A q \in Peers : granted'[p] # granted[q]]_vars

(* The coordinator waits for a task that waits for the coordinator: the    *)
(* self-worker was given up on and is still writing a long result.         *)
SelfBlocked == CollectDone /\ self_worker = "writing"

(* With max_rounds set, run_coordinator returns, whatever the peers do or  *)
(* fail to do, unless it gave up on a self-worker whose result does not    *)
(* fit the pipe between them.  (Without max_rounds a strict grid may go on *)
(* for ever.)                                                              *)
CoordinatorReturns == <>(phase \in {"ok", "err"} \/ SelfBlocked)

(* Once it has returned every peer that had connected returns too.         *)
PeersReleased ==
    phase \in {"ok", "err"} ~> \A p \in Peers : peer[p] \in {"out", "gone"}
=============================================================================
