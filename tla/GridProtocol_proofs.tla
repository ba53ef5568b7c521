------------------------ MODULE GridProtocol_proofs ------------------------
(***************************************************************************)
(* Proofs about GridProtocol: the type invariant, the identity of the      *)
(* worker behind each stream, and the freshness of worker ids, for every   *)
(* set of peers, every configuration and any number of rounds.             *)
(***************************************************************************)
EXTENDS GridProtocol, TLAPS

-----------------------------------------------------------------------------
(* Sending to and receiving from a channel keeps its type.                 *)
LEMMA SendType ==
    ASSUME NEW M, NEW chan \in [Peers -> Seq(M)], NEW p \in Peers, NEW m \in M
    PROVE  Send(chan, p, m) \in [Peers -> Seq(M)]
BY DEF Send

(* Receiving a frame keeps the type, and yields a frame of the channel.    *)
LEMMA ReceiveType ==
    ASSUME NEW M, NEW chan \in [Peers -> Seq(M)], NEW p \in Peers, chan[p] # <<>>
    PROVE  /\ Receive(chan, p) \in [Peers -> Seq(M)]
           /\ Head(chan[p]) \in M
BY DEF Receive

(* A message is of the record type its tag names.                          *)
LEMMA MessageTypes ==
    /\ \A id \in Nat : RegisterAck(id) \in ToWorker
    /\ \A id, slot, round \in Nat : JoinAck(id, slot, round) \in ToWorker
    /\ JoinNack \in ToWorker
    /\ LeaveAck \in ToWorker
    /\ Shutdown \in ToWorker
    /\ \A round \in Nat, part \in Partitions : AssignPartition(round, part) \in ToWorker
    /\ Register \in ToCoordinator
    /\ JoinRequest \in ToCoordinator
    /\ LeaveRequest \in ToCoordinator
    /\ \A id \in Int : Error(id) \in ToCoordinator
    /\ \A round \in Nat, part \in Partitions : PartitionResult(round, part) \in ToCoordinator
BY DEF ToWorker, ToCoordinator, Assignments, RegisterAck, JoinAck, JoinNack, LeaveAck,
       Shutdown, AssignPartition, Register, JoinRequest, LeaveRequest, Error, PartitionResult

(* A frame with the tag of a record type has its fields.                   *)
LEMMA TagTypes ==
    /\ \A m \in ToWorker : m.type = "AssignPartition" => m \in Assignments
    /\ \A m \in ToCoordinator :
          m.type = "PartitionResult" => m.round \in Nat /\ m.partition \in Partitions
    /\ \A m \in ToCoordinator : m.type = "Error" => m.worker_id \in Int
BY DEF ToWorker, ToCoordinator, Assignments

(* Closing connections keeps the type of link.                             *)
LEMMA CloseType ==
    ASSUME link \in [Peers -> {"none", "open", "closed"}]
    PROVE  /\ CloseAll \in [Peers -> {"none", "open", "closed"}]
           /\ \A p \in Peers : Close(p) \in [Peers -> {"none", "open", "closed"}]
BY DEF CloseAll, Close

(* Vec::push: one longer, the new element last, the others where they were.*)
LEMMA Push ==
    ASSUME NEW S, NEW s \in Seq(S), NEW e \in S
    PROVE  /\ Append(s, e) \in Seq(S)
           /\ Len(Append(s, e)) = Len(s) + 1
           /\ Append(s, e)[Len(s) + 1] = e
           /\ \A k \in 1 .. Len(s) : Append(s, e)[k] = s[k]
OBVIOUS

(* Vec::swap_remove(i): one shorter, the last element in the place of the  *)
(* removed one, every other element where it was.                          *)
LEMMA SwapRemove ==
    ASSUME NEW S, NEW s \in Seq(S), NEW i \in 1 .. Len(s)
    PROVE  /\ swap_remove(s, i) \in Seq(S)
           /\ Len(swap_remove(s, i)) = Len(s) - 1
           /\ \A k \in 1 .. Len(s) - 1 :
                 swap_remove(s, i)[k] = IF k = i THEN s[Len(s)] ELSE s[k]
<1> DEFINE t == [s EXCEPT ![i] = s[Len(s)]]
<1>1. /\ t \in Seq(S)
      /\ Len(t) = Len(s)
      /\ \A k \in 1 .. Len(s) : t[k] = IF k = i THEN s[Len(s)] ELSE s[k]
  OBVIOUS
<1>2. swap_remove(s, i) = SubSeq(t, 1, Len(s) - 1)
  BY DEF swap_remove
<1> HIDE DEF t
<1> QED
  BY <1>1, <1>2

(* The slots of a round are natural numbers, slot 0 among them in hybrid   *)
(* mode.                                                                   *)
LEMMA SlotsType ==
    ASSUME TypeOK
    PROVE  /\ Offset \in 0 .. 1
           /\ k_eff \in Nat
           /\ Slots \subseteq Nat
           /\ cfg.hybrid_coordinator => 0 \in Slots
           /\ \A i \in DOMAIN worker_streams : SlotOf(i) \in Slots
BY DEF TypeOK, CoordinatorTypes, Offset, k_eff, Slots, SlotOf

-----------------------------------------------------------------------------
(* The two vectors of run_coordinator are length-parallel (its             *)
(* debug_assert_eq), so the stream being polled has an id.                 *)
VectorsParallel ==
    /\ Len(worker_ids) = Len(worker_streams)
    /\ phase = "peek" => cursor <= Len(worker_streams)

TypeInv == TypeOK /\ VectorsParallel

(* The slots only depend on the configuration and the streams.             *)
LEMMA SlotsUnchanged ==
    ASSUME UNCHANGED cfg, UNCHANGED worker_streams
    PROVE  Slots' = Slots
BY DEF Slots, k_eff, Offset

(* handle_connection_loss and handle_phase_timeout keep every type.        *)
LEMMA LoseType ==
    ASSUME TypeInv, NEW id \in Int, Lose(id), phase = "collect",
           outbox' \in [Peers -> Seq(ToCoordinator)]
    PROVE  TypeInv'
<1>1. Slots' = Slots
  BY SlotsUnchanged DEF Lose
<1>2. link' \in [Peers -> {"none", "open", "closed"}]
  BY CloseType DEF Lose, TypeInv, TypeOK, WireTypes
<1>3. RoundTypes'
  <2>1. departing' \in SUBSET Int
    BY DEF Lose, TypeInv, TypeOK, RoundTypes
  <2>2. cursor' \in Nat /\ cursor' >= 1
    BY DEF Lose, TypeInv, TypeOK, RoundTypes
  <2>3. phase \in {"collect", "peek"} /\ UNCHANGED plan /\ UNCHANGED collected
    BY DEF Lose
  <2> QED
    BY <1>1, <2>1, <2>2, <2>3 DEF TypeInv, TypeOK, RoundTypes
<1>4. withheld' \in BOOLEAN
  BY Zenon DEF Lose, TypeInv, TypeOK, PeerTypes
<1>5. phase' \in {"collect", "err"}
  BY DEF Lose
<1>6. /\ cfg' = cfg /\ worker_streams' = worker_streams /\ worker_ids' = worker_ids
      /\ next_worker_id' = next_worker_id /\ pending' = pending /\ net' = net
      /\ redexes' = redexes /\ rounds' = rounds /\ self_worker' = self_worker
      /\ plan' = plan
      /\ collected' = collected /\ initial' = initial /\ last_acked' = last_acked
      /\ backlog' = backlog /\ inbox' = inbox /\ peer' = peer /\ task' = task
      /\ granted' = granted /\ promised' = promised
  BY DEF Lose, loopVars, retainedVars, peerVars
<1> QED
  BY <1>2, <1>3, <1>4, <1>5, <1>6
     DEF TypeInv, TypeOK, CoordinatorTypes, WireTypes, PeerTypes, VectorsParallel, Phases

(* The stream being polled is a peer's and has an id.                      *)
LEMMA PolledType ==
    ASSUME TypeInv, phase = "peek" \/ Polling
    PROVE  Polled \in Peers /\ worker_ids[cursor] \in Int
<1>1. cursor \in 1 .. Len(worker_streams) /\ cursor \in 1 .. Len(worker_ids)
  BY DEF TypeInv, TypeOK, CoordinatorTypes, RoundTypes, VectorsParallel, Polling
<1> QED
  BY <1>1 DEF TypeInv, TypeOK, CoordinatorTypes, Polled

(* Every way to lose the worker that is polled keeps the types.            *)
LEMMA LossType ==
    ASSUME TypeInv, CollectError \/ CollectBroken \/ CollectTimeout \/ CollectSelfTimeout
    PROVE  TypeInv'
<1>1. outbox \in [Peers -> Seq(ToCoordinator)]
  BY DEF TypeInv, TypeOK, WireTypes
<1>2. CASE CollectError
  <2>1. Polled \in Peers
    BY <1>2, PolledType DEF CollectError
  <2>2. outbox' \in [Peers -> Seq(ToCoordinator)] /\ Head(outbox[Polled]).worker_id \in Int
    BY <1>1, <1>2, <2>1, ReceiveType, TagTypes DEF CollectError, Heads
  <2> QED
    BY <1>2, <2>2, LoseType DEF CollectError, Polling
<1>3. CASE CollectBroken
  BY <1>1, <1>3, PolledType, LoseType DEF CollectBroken, Polling
<1>4. CASE CollectTimeout
  BY <1>1, <1>4, PolledType, LoseType DEF CollectTimeout, Polling
<1>5. CASE CollectSelfTimeout
  BY <1>1, <1>5, LoseType DEF CollectSelfTimeout, PollingSelf
<1> QED
  BY <1>2, <1>3, <1>4, <1>5

(* The inductive invariant under the types.                                 *)
LEMMA TypeInductive == Spec => []TypeInv
<1>1. Init => TypeInv
  <2> SUFFICES ASSUME Init PROVE TypeInv
    OBVIOUS
  <2>1. DOMAIN plan = {} /\ next_worker_id \in Nat
    BY DEF Init, Offset
  <2>2. /\ inbox \in [Peers -> Seq(ToWorker)]
        /\ outbox \in [Peers -> Seq(ToCoordinator)]
        /\ task \in [Peers -> Assignments \cup {NoTask}]
        /\ promised \in [Peers -> (Nat \X Nat) \cup {NoPromise}]
        /\ granted \in [Peers -> Int]
        /\ link \in [Peers -> {"none", "open", "closed"}]
        /\ peer \in [Peers -> PeerStates]
    BY DEF Init, PeerStates
  <2>3. /\ worker_streams \in Seq(Peers)
        /\ worker_ids \in Seq(Nat)
        /\ pending \in Seq(Peers)
    BY DEF Init
  <2>4. redexes \in BOOLEAN /\ withheld \in BOOLEAN
    BY Zenon DEF Init
  <2> QED
    BY <2>1, <2>2, <2>3, <2>4
       DEF Init, TypeInv, TypeOK, CoordinatorTypes, RoundTypes, WireTypes, PeerTypes,
           VectorsParallel, Phases, SelfWorkerStates
<1>2. TypeInv /\ [Next]_vars => TypeInv'
  <2> SUFFICES ASSUME TypeInv, [Next]_vars
               PROVE  TypeInv'
    OBVIOUS
  <2> USE DEF TypeInv, TypeOK, CoordinatorTypes, RoundTypes, WireTypes, PeerTypes,
              VectorsParallel, Phases, SelfWorkerStates, PeerStates
  <2>1. ASSUME NEW p \in Peers, AcceptWorker(p) PROVE TypeInv'
    <3>1. WireTypes'
      BY <2>1, SendType, ReceiveType, MessageTypes DEF AcceptWorker, Heads
    <3>2. CoordinatorTypes' /\ VectorsParallel'
      <4>1. worker_streams' \in Seq(Peers) /\ worker_ids' \in Seq(Nat)
        BY <2>1 DEF AcceptWorker
      <4>2. Len(worker_ids') = Len(worker_ids) + 1
        <5>1. /\ worker_ids \in Seq(Nat) /\ next_worker_id \in Nat
              /\ worker_ids' = Append(worker_ids, next_worker_id)
          BY <2>1 DEF AcceptWorker
        <5> QED
          BY ONLY <5>1, Push
      <4>3. Len(worker_streams') = Len(worker_streams) + 1
        BY <2>1 DEF AcceptWorker
      <4>4. next_worker_id' \in Nat
        BY <2>1 DEF AcceptWorker
      <4> QED
        BY <2>1, <4>1, <4>2, <4>3, <4>4 DEF AcceptWorker, loopVars, retainedVars
    <3>3. RoundTypes'
      BY <2>1 DEF AcceptWorker, roundVars
    <3>4. PeerTypes'
      BY <2>1 DEF AcceptWorker, peerVars
    <3> QED
      BY <3>1, <3>2, <3>3, <3>4 DEF TypeInv, TypeOK
  <2>2. ASSUME NEW p \in Peers, AcceptReject(p) PROVE TypeInv'
    BY <2>2, SendType, ReceiveType, MessageTypes, CloseType, SlotsUnchanged
       DEF AcceptReject, Heads, coordVars, loopVars, roundVars, retainedVars, peerVars,
           historyVars
  <2>3. CASE AcceptFail
    BY <2>3, CloseType, SlotsUnchanged
       DEF AcceptFail, loopVars, roundVars, retainedVars, peerVars, historyVars
  <2>4. CASE AcceptDone
    BY <2>4, SlotsUnchanged
       DEF AcceptDone, loopVars, roundVars, retainedVars, wireVars, peerVars, historyVars
  <2>5. CASE Finish
    BY <2>5, CloseType, MessageTypes, SlotsUnchanged
       DEF Finish, ActivePeers, loopVars, roundVars, retainedVars, peerVars, historyVars
  <2>6. CASE NoWorkers
    BY <2>6, CloseType, SlotsUnchanged
       DEF NoWorkers, Continues, loopVars, roundVars, retainedVars, peerVars, historyVars
  <2>7. ASSUME NEW p \in Peers, SoloAccept(p) PROVE TypeInv'
    <3>1. CoordinatorTypes' /\ VectorsParallel'
      BY <2>7, Push DEF SoloAccept, loopVars, roundVars, retainedVars
    <3>2. RoundTypes' /\ WireTypes' /\ PeerTypes'
      BY <2>7, SlotsUnchanged DEF SoloAccept, roundVars, peerVars, historyVars
    <3> QED
      BY <3>1, <3>2 DEF TypeInv, TypeOK
  <2>8. CASE SoloFinish
    BY <2>8, CloseType, SlotsUnchanged
       DEF SoloFinish, roundVars, retainedVars, peerVars, historyVars
  <2>9. ASSUME NEW sigma \in [net -> Slots], Dispatch(sigma) PROVE TypeInv'
    <3>1. plan' = [s \in Slots |-> PartitionOf(sigma, s)] /\ Slots' = Slots
      BY <2>9, SlotsUnchanged DEF Dispatch
    <3>2. \A s \in Slots : PartitionOf(sigma, s) \in Partitions
      BY SlotsType DEF PartitionOf, Partitions
    <3>3. ASSUME NEW p \in ActivePeers
          PROVE  AssignPartition(rounds, plan'[SlotOf(IndexOf(p))]) \in ToWorker
      <4>1. SlotOf(IndexOf(p)) \in Slots
        BY SlotsType DEF ActivePeers, IndexOf
      <4>2. plan'[SlotOf(IndexOf(p))] \in Partitions
        BY <3>1, <3>2, <4>1
      <4> QED
        BY <4>2, MessageTypes
    <3>4. ASSUME NEW p \in Peers
          PROVE  inbox'[p] \in Seq(ToWorker)
      <4>1. CASE p \in ActivePeers
        <5>1. inbox'[p] = Append(inbox[p], AssignPartition(rounds, plan'[SlotOf(IndexOf(p))]))
          BY <2>9, <4>1 DEF Dispatch
        <5> QED
          BY <3>3, <4>1, <5>1
      <4>2. CASE p \notin ActivePeers
        BY <2>9, <4>2 DEF Dispatch
      <4> QED
        BY <4>1, <4>2
    <3>5. inbox' = [p \in Peers |-> inbox'[p]]
      BY <2>9 DEF Dispatch
    <3>6. WireTypes'
      BY <2>9, <3>4, <3>5 DEF Dispatch
    <3>7. RoundTypes'
      BY <2>9, <3>1, <3>2 DEF Dispatch
    <3>8. CoordinatorTypes' /\ VectorsParallel'
      BY <2>9, SlotsType DEF Dispatch, loopVars
    <3>9. PeerTypes'
      BY <2>9 DEF Dispatch, peerVars
    <3> QED
      BY <3>6, <3>7, <3>8, <3>9 DEF TypeInv, TypeOK
  <2>10. CASE DispatchFail \/ SelfWorkerPanicked
    BY <2>10, CloseType, SlotsUnchanged
       DEF DispatchFail, SelfWorkerPanicked, loopVars, roundVars, retainedVars, peerVars,
           historyVars
  <2>11. CASE CollectResult
    <3>1. Polled \in Peers /\ worker_ids[cursor] \in Int
      BY <2>11, PolledType DEF CollectResult
    <3>2. outbox' \in [Peers -> Seq(ToCoordinator)] /\ Head(outbox[Polled]) \in ToCoordinator
      BY <2>11, <3>1, ReceiveType
         DEF CollectResult, Heads
    <3>3. /\ Head(outbox[Polled]).partition \in Partitions
          /\ Head(outbox[Polled]).partition.worker_id \in Nat
      BY <2>11, <3>2, TagTypes
         DEF CollectResult, Heads, Partitions
    <3>4. CoordinatorTypes' /\ VectorsParallel'
      BY <2>11, <3>3 DEF CollectResult, Polling, loopVars
    <3>5. RoundTypes'
      BY <2>11, <3>3, SlotsUnchanged DEF CollectResult, Polling
    <3>6. WireTypes' /\ PeerTypes'
      BY <2>11, <3>2, CloseType DEF CollectResult, peerVars, historyVars
    <3> QED
      BY <3>4, <3>5, <3>6 DEF TypeInv, TypeOK
  <2>12. CASE PeekLeave
    <3>1. Polled \in Peers /\ worker_ids[cursor] \in Int
      BY <2>12, PolledType DEF PeekLeave
    <3>2. WireTypes'
      BY <2>12, <3>1, SendType, ReceiveType, MessageTypes DEF PeekLeave, Heads
    <3>3. RoundTypes'
      <4>1. departing' \in SUBSET Int
        BY <2>12, <3>1 DEF PeekLeave
      <4>2. cursor' \in Nat /\ cursor' >= 1
        BY <2>12 DEF PeekLeave
      <4>3. UNCHANGED plan /\ UNCHANGED collected /\ UNCHANGED Slots /\ DOMAIN plan = Slots
        BY <2>12, SlotsUnchanged DEF PeekLeave, Polling
      <4> QED
        BY <4>1, <4>2, <4>3
    <3>4. CoordinatorTypes' /\ VectorsParallel'
      BY <2>12 DEF PeekLeave, Polling, loopVars, retainedVars
    <3>5. PeerTypes'
      BY <2>12 DEF PeekLeave, peerVars, historyVars
    <3> QED
      BY <3>2, <3>3, <3>4, <3>5 DEF TypeInv, TypeOK
  <2>13. CASE PeekNothing
    <3>1. CoordinatorTypes' /\ VectorsParallel'
      BY <2>13 DEF PeekNothing, loopVars, retainedVars
    <3>2. RoundTypes'
      BY <2>13, SlotsUnchanged DEF PeekNothing
    <3>3. WireTypes' /\ PeerTypes'
      BY <2>13 DEF PeekNothing, wireVars, peerVars, historyVars
    <3> QED
      BY <3>1, <3>2, <3>3 DEF TypeInv, TypeOK
  <2>14. CASE CollectLeave
    <3>1. Polled \in Peers /\ worker_ids[cursor] \in Int
      BY <2>14, PolledType DEF CollectLeave
    <3>2. WireTypes'
      BY <2>14, <3>1, SendType, ReceiveType, MessageTypes DEF CollectLeave, Heads
    <3>3. RoundTypes'
      <4>1. departing' \in SUBSET Int
        BY <2>14, <3>1 DEF CollectLeave
      <4>2. cursor' \in Nat /\ cursor' >= 1
        BY <2>14 DEF CollectLeave
      <4>3. UNCHANGED plan /\ UNCHANGED collected /\ UNCHANGED Slots /\ DOMAIN plan = Slots
        BY <2>14, SlotsUnchanged DEF CollectLeave, Polling
      <4> QED
        BY <4>1, <4>2, <4>3
    <3>4. CoordinatorTypes' /\ VectorsParallel'
      BY <2>14 DEF CollectLeave, Polling, loopVars, retainedVars
    <3>5. PeerTypes'
      BY <2>14 DEF CollectLeave, peerVars, historyVars
    <3> QED
      BY <3>2, <3>3, <3>4, <3>5 DEF TypeInv, TypeOK
  <2>15. CASE CollectError
    BY <2>15, LossType
  <2>16. CASE CollectBroken
    BY <2>16, LossType
  <2>17. CASE CollectTimeout
    BY <2>17, LossType
  <2>18. CASE CollectSelf
    <3>1. plan[0] \in Partitions
      BY <2>18, SlotsType
         DEF CollectSelf, PollingSelf
    <3> QED
      BY <2>18, <3>1, SlotsUnchanged
         DEF CollectSelf, PollingSelf, coordVars, loopVars, wireVars, peerVars,
             historyVars
  <2>19. CASE CollectSelfTimeout
    BY <2>19, LossType
  <2>20. ASSUME NEW p \in Peers, DrainAccept(p) PROVE TypeInv'
    BY <2>20, SlotsUnchanged
       DEF DrainAccept, CollectDone, loopVars, roundVars, retainedVars, peerVars,
           historyVars
  <2>21. CASE DrainEnd
    BY <2>21, SlotsUnchanged
       DEF DrainEnd, CollectDone, loopVars, roundVars, wireVars, peerVars, historyVars
  <2>22. ASSUME NEW i \in DOMAIN worker_ids, Prune(i) PROVE TypeInv'
    <3>1. i \in 1 .. Len(worker_ids) /\ i \in 1 .. Len(worker_streams)
      BY <2>22
    <3>2. worker_streams' \in Seq(Peers) /\ Len(worker_streams') = Len(worker_streams) - 1
      BY <2>22, <3>1, SwapRemove DEF Prune
    <3>3. worker_ids' \in Seq(Nat) /\ Len(worker_ids') = Len(worker_ids) - 1
      BY <2>22, <3>1, SwapRemove DEF Prune
    <3>4. CoordinatorTypes' /\ VectorsParallel'
      BY <2>22, <3>2, <3>3 DEF Prune, loopVars, retainedVars
    <3>5. RoundTypes'
      BY <2>22 DEF Prune, roundVars
    <3>6. WireTypes'
      BY <2>22, <3>1, CloseType DEF Prune
    <3>7. PeerTypes'
      BY <2>22 DEF Prune, peerVars, historyVars
    <3> QED
      BY <3>4, <3>5, <3>6, <3>7 DEF TypeInv, TypeOK
  <2>23. CASE PruneDone
    BY <2>23, CloseType, SlotsUnchanged
       DEF PruneDone, loopVars, roundVars, retainedVars, peerVars, historyVars
  <2>24. ASSUME NEW remain \in BOOLEAN, Merge(remain) PROVE TypeInv'
    <3>1. UNION {part.share : part \in collected} \subseteq Atoms
      BY <2>24
         DEF Partitions
    <3> QED
      BY <2>24, <3>1, SlotsUnchanged
         DEF Merge, MergedNet, roundVars, retainedVars, wireVars, peerVars, historyVars
  <2>25. ASSUME NEW p \in Peers, Join(p) PROVE TypeInv'
    <3>1. WireTypes'
      BY <2>25, SlotsType, SendType, ReceiveType, MessageTypes
         DEF Join, FirstRound, FirstSlot, Taken, Heads
    <3>2. CoordinatorTypes' /\ VectorsParallel'
      BY <2>25 DEF Join, Taken, loopVars
    <3>3. RoundTypes'
      BY <2>25 DEF Join, Taken, roundVars
    <3>4. PeerTypes'
      <4>1. granted' \in [Peers -> Int]
        BY <2>25 DEF Join
      <4>2. promised' \in [Peers -> (Nat \X Nat) \cup {NoPromise}]
        BY <2>25, SlotsType DEF Join, FirstRound, FirstSlot
      <4> QED
        BY <2>25, <4>1, <4>2 DEF Join, peerVars
    <3> QED
      BY <3>1, <3>2, <3>3, <3>4 DEF TypeInv, TypeOK
  <2>26. ASSUME NEW p \in Peers, JoinLost(p) PROVE TypeInv'
    <3>1. WireTypes'
      BY <2>26, ReceiveType DEF JoinLost, Taken, Heads
    <3>2. next_worker_id' \in Nat
      BY <2>26 DEF JoinLost
    <3>3. pending' \in Seq(Peers)
      BY <2>26 DEF JoinLost, Taken
    <3>4. CoordinatorTypes' /\ VectorsParallel'
      BY <2>26, <3>2, <3>3 DEF JoinLost, Taken, loopVars, retainedVars
    <3>5. RoundTypes' /\ PeerTypes'
      BY <2>26 DEF JoinLost, Taken, roundVars, peerVars, historyVars
    <3> QED
      BY <3>1, <3>4, <3>5 DEF TypeInv, TypeOK
  <2>27. ASSUME NEW p \in Peers, JoinExhausted(p) PROVE TypeInv'
    <3>1. inbox' \in [Peers -> Seq(ToWorker)] /\ outbox' \in [Peers -> Seq(ToCoordinator)]
      BY <2>27, SendType, ReceiveType, MessageTypes
         DEF JoinExhausted, Heads
    <3>2. pending' \in Seq(Peers) /\ backlog' \in SUBSET Peers /\ phase = "join"
      BY <2>27
         DEF JoinExhausted, Taken
    <3>3. link' \in [Peers -> {"none", "open", "closed"}]
      BY <2>27, CloseType
         DEF JoinExhausted
    <3> QED
      BY <2>27, <3>1, <3>2, <3>3, SlotsUnchanged
         DEF JoinExhausted, loopVars, roundVars, retainedVars, peerVars, historyVars
  <2>28. ASSUME NEW p \in Peers, JoinDropped(p) PROVE TypeInv'
    <3>1. WireTypes'
      BY <2>28, CloseType DEF JoinDropped, Taken
    <3>2. CoordinatorTypes' /\ VectorsParallel'
      BY <2>28 DEF JoinDropped, Taken, loopVars, retainedVars
    <3>3. RoundTypes' /\ PeerTypes'
      BY <2>28 DEF JoinDropped, Taken, roundVars, peerVars, historyVars
    <3> QED
      BY <3>1, <3>2, <3>3 DEF TypeInv, TypeOK
  <2>29. CASE JoinClose
    BY <2>29, SlotsUnchanged
       DEF JoinClose, loopVars, roundVars, retainedVars, wireVars, peerVars, historyVars
  <2>30. ASSUME NEW p \in Peers, Connect(p) PROVE TypeInv'
    BY <2>30, SendType, MessageTypes, SlotsUnchanged
       DEF Connect, coordVars, loopVars, roundVars, retainedVars, historyVars
  <2>31. ASSUME NEW p \in Peers, ReceiveAck(p) PROVE TypeInv'
    BY <2>31, ReceiveType, SlotsUnchanged
       DEF ReceiveAck, Heads, coordVars, loopVars, roundVars, retainedVars, historyVars
  <2>32. ASSUME NEW p \in Peers, ReceiveAssign(p) PROVE TypeInv'
    BY <2>32, ReceiveType, TagTypes, SlotsUnchanged
       DEF ReceiveAssign, Heads, coordVars, loopVars, roundVars, retainedVars,
           historyVars
  <2>33. ASSUME NEW p \in Peers, SendResult(p) PROVE TypeInv'
    <3>1. outbox' \in [Peers -> Seq(ToCoordinator)]
      BY <2>33, SendType, MessageTypes
         DEF SendResult, Assignments
    <3> QED
      BY <2>33, <3>1, SlotsUnchanged
         DEF SendResult, coordVars, loopVars, roundVars, retainedVars, historyVars
  <2>34. ASSUME NEW p \in Peers, Return(p) PROVE TypeInv'
    BY <2>34, CloseType, SlotsUnchanged
       DEF Return, coordVars, loopVars, roundVars, retainedVars, historyVars
  <2>35. ASSUME NEW p \in Peers, Leave(p) PROVE TypeInv'
    BY <2>35, SendType, MessageTypes, SlotsUnchanged
       DEF Leave, coordVars, loopVars, roundVars, retainedVars, historyVars
  <2>36. ASSUME NEW p \in Peers, ReportError(p) PROVE TypeInv'
    BY <2>36, SendType, MessageTypes, SlotsUnchanged
       DEF ReportError, coordVars, loopVars, roundVars, retainedVars, historyVars
  <2>37. ASSUME NEW p \in Peers, Crash(p) PROVE TypeInv'
    <3>1. link' \in [Peers -> {"none", "open", "closed"}]
      BY <2>37, CloseType DEF Crash
    <3>2. inbox' \in [Peers -> Seq(ToWorker)]
      BY <2>37 DEF Crash
    <3>3. outbox' \in [Peers -> Seq(ToCoordinator)]
      <4>1. CASE outbox' = outbox
        BY <4>1
      <4>2. CASE outbox' = [outbox EXCEPT ![p] = <<>>]
        BY <4>2
      <4> QED
        BY <2>37, <4>1, <4>2 DEF Crash
    <3>4. WireTypes'
      BY <2>37, <3>1, <3>2, <3>3 DEF Crash
    <3>5. CoordinatorTypes' /\ VectorsParallel'
      BY <2>37 DEF Crash, coordVars, loopVars, roundVars, retainedVars
    <3>6. RoundTypes'
      BY <2>37, SlotsUnchanged DEF Crash, coordVars, roundVars
    <3>7. PeerTypes'
      BY <2>37 DEF Crash, historyVars
    <3> QED
      BY <3>4, <3>5, <3>6, <3>7 DEF TypeInv, TypeOK
  <2>38. CASE SelfWorker
    BY <2>38, SlotsUnchanged
       DEF SelfWorker, SelfReduced, SelfFlush, PollingSelf, coordVars, roundVars,
           retainedVars, wireVars, peerVars, historyVars
  <2>39. CASE UNCHANGED vars
    BY <2>39, SlotsUnchanged
       DEF vars, coordVars, loopVars, roundVars,
           retainedVars, wireVars, peerVars, historyVars
  <2> QED
    BY <2>1, <2>2, <2>3, <2>4, <2>5, <2>6, <2>7, <2>8, <2>9, <2>10, <2>11, <2>12, <2>13,
       <2>14, <2>15, <2>16, <2>17, <2>18, <2>19, <2>20, <2>21, <2>22, <2>23, <2>24,
       <2>25, <2>26, <2>27, <2>28, <2>29, <2>30, <2>31, <2>32, <2>33, <2>34, <2>35,
       <2>36, <2>37, <2>38, <2>39
       DEF Next, Coordinator, Accepting, Collecting, Joining, Peer, WorkerLoop
<1> QED
  BY <1>1, <1>2, PTL DEF Spec

(* Type correctness: no sequence of accepts, rounds, departures, joins and *)
(* failures of run_coordinator and its peers leaves the type of a variable *)
(* (the two parallel vectors, the plan of the round, every frame queued).  *)
THEOREM TypeCorrect == Spec => []TypeOK
<1>1. TypeInv => TypeOK
  BY DEF TypeInv
<1> QED
  BY <1>1, TypeInductive, PTL

-----------------------------------------------------------------------------
(***************************************************************************)
(* Identity.  That worker_ids[i] is the id given to worker_streams[i] is   *)
(* not inductive: a peer admitted a second time would get a new id and     *)
(* leave the old one behind.  The strengthening is that a connection is in *)
(* one place, and that every id given is below next_worker_id.             *)
(***************************************************************************)
PendingPeers == {pending[k] : k \in DOMAIN pending}

(* A connection waits in the backlog or in the queue, or it is active.     *)
ConnectionInOnePlace ==
    /\ \A p \in Peers : peer[p] = "out" => p \notin backlog \cup PendingPeers \cup ActivePeers
    /\ \A p \in backlog : p \notin PendingPeers \cup ActivePeers
    /\ \A p \in PendingPeers : p \notin ActivePeers
    /\ \A k, l \in DOMAIN pending : pending[k] = pending[l] => k = l

GrantedBelow ==
    /\ Offset <= next_worker_id
    /\ \A p \in Peers : granted[p] < next_worker_id

IdentityInv ==
    /\ IdentityTravelsWithStream
    /\ ConnectionInOnePlace
    /\ GrantedBelow

Elements(s) == {s[k] : k \in DOMAIN s}
Distinct(s) == \A k, l \in DOMAIN s : s[k] = s[l] => k = l

(* What push and pop_front do to the elements of a queue.                  *)
LEMMA PushElements ==
    ASSUME NEW S, NEW s \in Seq(S), NEW e \in S
    PROVE  /\ Elements(Append(s, e)) = Elements(s) \cup {e}
           /\ Distinct(s) /\ e \notin Elements(s) => Distinct(Append(s, e))
<1>1. DOMAIN Append(s, e) = 1 .. Len(s) + 1 /\ DOMAIN s = 1 .. Len(s) /\ Len(s) \in Nat
  OBVIOUS
<1>2. Elements(Append(s, e)) = Elements(s) \cup {e}
  BY <1>1, Push DEF Elements
<1>3. Distinct(s) /\ e \notin Elements(s) => Distinct(Append(s, e))
  BY <1>1, Push DEF Elements, Distinct
<1> QED
  BY <1>2, <1>3

(* pop_front of a queue without duplicates.                                *)
LEMMA PopElements ==
    ASSUME NEW S, NEW s \in Seq(S), s # <<>>, Distinct(s)
    PROVE  /\ Elements(Tail(s)) = Elements(s) \ {Head(s)}
           /\ Distinct(Tail(s))
           /\ Head(s) \in Elements(s)
<1>1. /\ Len(s) \in Nat \ {0} /\ DOMAIN s = 1 .. Len(s)
      /\ DOMAIN Tail(s) = 1 .. Len(s) - 1
      /\ Head(s) = s[1]
      /\ \A k \in 1 .. Len(s) - 1 : Tail(s)[k] = s[k + 1]
  OBVIOUS
<1>2. Distinct(Tail(s))
  BY <1>1 DEF Distinct
<1>3. ASSUME NEW x \in Elements(Tail(s)) PROVE x \in Elements(s) \ {Head(s)}
  <2>1. PICK k \in 1 .. Len(s) - 1 : x = Tail(s)[k]
    BY <1>1 DEF Elements
  <2>2. x = s[k + 1] /\ k + 1 \in 1 .. Len(s) /\ k + 1 # 1 /\ 1 \in 1 .. Len(s)
    BY <1>1, <2>1
  <2> QED
    BY <1>1, <2>2 DEF Elements, Distinct
<1>4. ASSUME NEW x \in Elements(s), x # Head(s) PROVE x \in Elements(Tail(s))
  <2>1. PICK k \in 1 .. Len(s) : x = s[k]
    BY <1>1 DEF Elements
  <2>2. k - 1 \in 1 .. Len(s) - 1 /\ (k - 1) + 1 = k
    BY <1>1, <1>4, <2>1
  <2>3. x = Tail(s)[k - 1]
    BY <1>1, <2>1, <2>2
  <2> QED
    BY <1>1, <2>2, <2>3 DEF Elements
<1>5. Head(s) \in Elements(s)
  BY <1>1 DEF Elements
<1> QED
  BY <1>2, <1>3, <1>4, <1>5

(* The peer sets are the elements of the vectors.                          *)
LEMMA PeersAsElements ==
    /\ ActivePeers = Elements(worker_streams)
    /\ PendingPeers = Elements(pending)
    /\ ActivePeers' = Elements(worker_streams')
    /\ PendingPeers' = Elements(pending')
BY DEF ActivePeers, PendingPeers, Elements

(* Steps that touch no vector, no queue and no id.                         *)
LEMMA IdentityFrame ==
    ASSUME IdentityInv,
           UNCHANGED <<cfg, worker_streams, worker_ids, next_worker_id, pending, backlog,
                       granted>>,
           \A p \in Peers : peer'[p] = "out" => peer[p] = "out"
    PROVE  IdentityInv'
BY DEF IdentityInv, IdentityTravelsWithStream, ConnectionInOnePlace, GrantedBelow, Offset,
       PendingPeers, ActivePeers

(* Ids and streams stay; ids may be burnt.                                 *)
LEMMA IdentitySame ==
    ASSUME TypeInv, IdentityInv, UNCHANGED <<cfg, worker_streams, worker_ids, granted>>,
           next_worker_id' \in {next_worker_id, next_worker_id + 1}
    PROVE  IdentityTravelsWithStream' /\ GrantedBelow'
<1>1. next_worker_id \in Nat /\ granted \in [Peers -> Int] /\ Offset \in 0 .. 1
  BY SlotsType DEF TypeInv, TypeOK, CoordinatorTypes, PeerTypes
<1>2. Offset' = Offset
  BY DEF Offset
<1>3. GrantedBelow'
  BY <1>1, <1>2 DEF IdentityInv, GrantedBelow
<1>4. IdentityTravelsWithStream'
  BY <1>1, <1>2 DEF IdentityInv, IdentityTravelsWithStream
<1> QED
  BY <1>3, <1>4

(* Admitting p: its stream and a fresh id are pushed together.             *)
LEMMA Admission ==
    ASSUME TypeInv, IdentityInv, NEW p \in Peers, p \notin ActivePeers, UNCHANGED cfg,
           worker_streams' = Append(worker_streams, p),
           worker_ids' = Append(worker_ids, next_worker_id),
           next_worker_id' = next_worker_id + 1,
           granted' = [granted EXCEPT ![p] = next_worker_id]
    PROVE  /\ IdentityTravelsWithStream'
           /\ GrantedBelow'
           /\ ActivePeers' = ActivePeers \cup {p}
<1> DEFINE n == Len(worker_streams)
<1>1. /\ next_worker_id \in Nat /\ Offset \in 0 .. 1 /\ Offset <= next_worker_id
      /\ granted \in [Peers -> Int]
      /\ worker_streams \in Seq(Peers) /\ worker_ids \in Seq(Nat)
  BY SlotsType DEF TypeInv, TypeOK, CoordinatorTypes, PeerTypes, IdentityInv, GrantedBelow
<1>2. Offset' = Offset
  BY DEF Offset
<1>3. ActivePeers' = ActivePeers \cup {p}
  BY <1>1, PushElements, PeersAsElements
<1>4. GrantedBelow'
  <2>1. ASSUME NEW q \in Peers PROVE granted'[q] < next_worker_id'
    BY <1>1 DEF IdentityInv, GrantedBelow
  <2> QED
    BY <1>1, <1>2, <2>1 DEF GrantedBelow
<1>5. n \in Nat /\ Len(worker_ids) = n /\ DOMAIN worker_streams = 1 .. n
  BY <1>1 DEF IdentityInv, IdentityTravelsWithStream
<1>6. /\ DOMAIN worker_streams' = 1 .. n + 1
      /\ Len(worker_streams') = n + 1 /\ Len(worker_ids') = n + 1
      /\ worker_streams'[n + 1] = p
      /\ worker_ids'[n + 1] = next_worker_id
      /\ \A i \in 1 .. n : worker_streams'[i] = worker_streams[i]
      /\ \A i \in 1 .. n : worker_ids'[i] = worker_ids[i]
  BY <1>1, <1>5, Push
<1>7. ASSUME NEW i \in 1 .. n
      PROVE  /\ worker_streams[i] \in Peers /\ worker_streams[i] # p
             /\ worker_ids[i] = granted[worker_streams[i]]
             /\ worker_ids[i] \in Offset .. next_worker_id - 1
  <2>1. worker_streams[i] \in Peers
    BY <1>1
  <2>2. worker_streams[i] # p
    BY <1>5 DEF ActivePeers
  <2> QED
    BY <1>5, <2>1, <2>2 DEF IdentityInv, IdentityTravelsWithStream
<1>8. ASSUME NEW i \in 1 .. n + 1
      PROVE  /\ worker_ids'[i] = granted'[worker_streams'[i]]
             /\ worker_ids'[i] \in Offset' .. next_worker_id' - 1
  <2>1. CASE i = n + 1
    BY <1>1, <1>2, <1>6, <2>1
  <2>2. CASE i \in 1 .. n
    <3>1. worker_ids'[i] = granted'[worker_streams'[i]]
      BY <1>1, <1>6, <1>7, <2>2
    <3>2. worker_ids'[i] \in Offset' .. next_worker_id' - 1
      BY <1>1, <1>2, <1>6, <1>7, <2>2
    <3> QED
      BY <3>1, <3>2
  <2> QED
    BY <1>5, <2>1, <2>2
<1>9. ASSUME NEW i \in 1 .. n + 1, NEW j \in 1 .. n + 1, worker_ids'[i] = worker_ids'[j]
      PROVE  i = j
  <2>1. CASE i \in 1 .. n /\ j \in 1 .. n
    BY <1>5, <1>6, <1>9, <2>1 DEF IdentityInv, IdentityTravelsWithStream
  <2>2. CASE i = n + 1 /\ j \in 1 .. n
    BY <1>1, <1>6, <1>7, <1>9, <2>2
  <2>3. CASE i \in 1 .. n /\ j = n + 1
    BY <1>1, <1>6, <1>7, <1>9, <2>3
  <2> QED
    BY <1>5, <2>1, <2>2, <2>3
<1>10. IdentityTravelsWithStream'
  BY <1>6, <1>8, <1>9 DEF IdentityTravelsWithStream
<1> QED
  BY <1>3, <1>4, <1>10

(* Pruning index i: both vectors move the same last element.               *)
LEMMA Departure ==
    ASSUME TypeInv, IdentityInv, NEW i \in DOMAIN worker_ids,
           UNCHANGED <<cfg, next_worker_id, granted>>,
           worker_streams' = swap_remove(worker_streams, i),
           worker_ids' = swap_remove(worker_ids, i)
    PROVE  /\ IdentityTravelsWithStream'
           /\ GrantedBelow'
           /\ ActivePeers' \subseteq ActivePeers
<1> DEFINE n == Len(worker_streams)
<1> DEFINE from(k) == IF k = i THEN n ELSE k
<1>1. worker_streams \in Seq(Peers) /\ worker_ids \in Seq(Nat) /\ Len(worker_ids) = n
  BY DEF TypeInv, TypeOK, CoordinatorTypes, VectorsParallel
<1>2. n \in Nat /\ i \in 1 .. n /\ DOMAIN worker_streams = 1 .. n
  BY <1>1
<1>3. /\ Len(worker_streams') = n - 1 /\ Len(worker_ids') = n - 1
      /\ worker_streams' \in Seq(Peers)
      /\ \A k \in 1 .. n - 1 : worker_streams'[k] = worker_streams[from(k)]
      /\ \A k \in 1 .. n - 1 : worker_ids'[k] = worker_ids[from(k)]
  <2>1. /\ Len(worker_streams') = n - 1 /\ worker_streams' \in Seq(Peers)
        /\ \A k \in 1 .. n - 1 : worker_streams'[k] = worker_streams[from(k)]
    BY <1>1, <1>2, SwapRemove
  <2>2. i \in 1 .. Len(worker_ids)
    BY <1>1, <1>2
  <2>3. /\ Len(worker_ids') = Len(worker_ids) - 1
        /\ \A k \in 1 .. Len(worker_ids) - 1 :
              worker_ids'[k] = IF k = i THEN worker_ids[Len(worker_ids)] ELSE worker_ids[k]
    BY <1>1, <2>2, SwapRemove
  <2>4. \A k \in 1 .. n - 1 : worker_ids'[k] = worker_ids[from(k)]
    BY <1>1, <2>3
  <2> QED
    BY <1>1, <2>1, <2>3, <2>4
<1>4. DOMAIN worker_streams' = 1 .. n - 1
  BY <1>2, <1>3
<1>5. \A k \in 1 .. n - 1 : from(k) \in 1 .. n
  BY <1>2
<1>6. \A k, l \in 1 .. n - 1 : from(k) = from(l) => k = l
  BY <1>2
<1>7. Offset' = Offset
  BY DEF Offset
<1> HIDE DEF from
<1>8. ActivePeers' \subseteq ActivePeers
  BY <1>2, <1>3, <1>4, <1>5 DEF ActivePeers
<1>9. GrantedBelow'
  BY <1>7 DEF IdentityInv, GrantedBelow
<1>10. ASSUME NEW k \in 1 .. n - 1
       PROVE  /\ worker_ids'[k] = granted'[worker_streams'[k]]
              /\ worker_ids'[k] \in Offset' .. next_worker_id' - 1
  BY <1>2, <1>3, <1>5, <1>7 DEF IdentityInv, IdentityTravelsWithStream
<1>11. ASSUME NEW k \in 1 .. n - 1, NEW l \in 1 .. n - 1, worker_ids'[k] = worker_ids'[l]
       PROVE  k = l
  <2>1. from(k) = from(l)
    BY <1>2, <1>3, <1>5, <1>11 DEF IdentityInv, IdentityTravelsWithStream
  <2> QED
    BY <1>6, <2>1
<1>12. IdentityTravelsWithStream'
  BY <1>3, <1>4, <1>10, <1>11 DEF IdentityTravelsWithStream
<1> QED
  BY <1>8, <1>9, <1>12

(* A connection taken in the join window leaves its queue.                 *)
LEMMA TakenLeaves ==
    ASSUME TypeInv, ConnectionInOnePlace, NEW p \in Peers, Taken(p)
    PROVE  /\ p \notin ActivePeers /\ p \notin PendingPeers' /\ p \notin backlog'
           /\ peer[p] # "out"
           /\ PendingPeers' \subseteq PendingPeers /\ backlog' \subseteq backlog
           /\ Distinct(pending')
<1>1. pending \in Seq(Peers) /\ Distinct(pending)
  BY DEF TypeInv, TypeOK, CoordinatorTypes, ConnectionInOnePlace, Distinct
<1>2. CASE pending = <<>>
  <2>1. pending' = pending /\ p \in backlog /\ backlog' = backlog \ {p}
    BY <1>2 DEF Taken, Arrivals
  <2>2. PendingPeers' = PendingPeers
    BY <2>1 DEF PendingPeers
  <2> QED
    BY <1>1, <2>1, <2>2 DEF ConnectionInOnePlace, Distinct
<1>3. CASE pending # <<>>
  <2>1. pending' = Tail(pending) /\ p = Head(pending) /\ backlog' = backlog
    BY <1>3 DEF Taken, Arrivals
  <2>2. /\ PendingPeers' = PendingPeers \ {p} /\ p \in PendingPeers
        /\ Distinct(pending')
    BY <1>1, <1>3, <2>1, PopElements, PeersAsElements
  <2> QED
    BY <2>1, <2>2 DEF ConnectionInOnePlace
<1> QED
  BY <1>2, <1>3

(* A connection moved from the backlog to the queue stays in one place.    *)
LEMMA QueuedStays ==
    ASSUME TypeInv, ConnectionInOnePlace, NEW p \in backlog,
           backlog' = backlog \ {p}, pending' = Append(pending, p),
           UNCHANGED <<worker_streams, peer>>
    PROVE  ConnectionInOnePlace'
<1>1. pending \in Seq(Peers) /\ Distinct(pending) /\ p \in Peers
  BY DEF TypeInv, TypeOK, CoordinatorTypes, WireTypes, ConnectionInOnePlace, Distinct
<1>2. p \notin PendingPeers /\ p \notin ActivePeers /\ peer[p] # "out"
  BY <1>1 DEF ConnectionInOnePlace
<1>3. PendingPeers' = PendingPeers \cup {p} /\ Distinct(pending')
  BY <1>1, <1>2, PushElements, PeersAsElements
<1>4. ActivePeers' = ActivePeers
  BY DEF ActivePeers
<1> QED
  BY <1>1, <1>2, <1>3, <1>4 DEF ConnectionInOnePlace, Distinct

(* One step per action that touches the vectors, the queue or the ids;     *)
(* the others leave them alone.                                            *)
LEMMA IdentityStep == TypeInv /\ IdentityInv /\ [Next]_vars => IdentityInv'
<1> SUFFICES ASSUME TypeInv, IdentityInv, [Next]_vars
             PROVE  IdentityInv'
  OBVIOUS
<1>0. backlog \subseteq Peers /\ ConnectionInOnePlace
  BY DEF TypeInv, TypeOK, WireTypes, IdentityInv
<1>1. ASSUME NEW p \in Peers, AcceptWorker(p) PROVE IdentityInv'
  <2>1. p \in backlog /\ p \notin ActivePeers /\ p \notin PendingPeers /\ peer[p] # "out"
    BY <1>0, <1>1 DEF AcceptWorker, ConnectionInOnePlace
  <2>2. /\ IdentityTravelsWithStream' /\ GrantedBelow'
        /\ ActivePeers' = ActivePeers \cup {p}
    BY <1>1, <2>1, Admission DEF AcceptWorker
  <2>3. backlog' = backlog \ {p} /\ pending' = pending /\ peer' = peer
    BY <1>1 DEF AcceptWorker, peerVars
  <2>4. PendingPeers' = PendingPeers
    BY <2>3 DEF PendingPeers
  <2>5. ConnectionInOnePlace'
    BY <1>0, <2>1, <2>2, <2>3, <2>4 DEF ConnectionInOnePlace
  <2> QED
    BY <2>2, <2>5 DEF IdentityInv
<1>2. ASSUME NEW p \in Peers, AcceptReject(p) PROVE IdentityInv'
  <2>1. /\ UNCHANGED <<cfg, worker_streams, worker_ids, next_worker_id, pending, granted, peer>>
        /\ backlog' = backlog \ {p}
    BY <1>2 DEF AcceptReject, coordVars, peerVars, historyVars
  <2>2. ActivePeers' = ActivePeers /\ PendingPeers' = PendingPeers
    BY <2>1 DEF ActivePeers, PendingPeers
  <2>3. ConnectionInOnePlace'
    BY <1>0, <2>1, <2>2 DEF ConnectionInOnePlace
  <2> QED
    BY <2>1, <2>3, IdentitySame DEF IdentityInv
<1>3. ASSUME NEW p \in Peers, SoloAccept(p) \/ DrainAccept(p) PROVE IdentityInv'
  <2>1. /\ UNCHANGED <<cfg, worker_streams, worker_ids, next_worker_id, granted, peer>>
        /\ p \in backlog /\ backlog' = backlog \ {p} /\ pending' = Append(pending, p)
    BY <1>3 DEF SoloAccept, DrainAccept, peerVars, historyVars
  <2> QED
    BY <1>0, <2>1, QueuedStays, IdentitySame DEF IdentityInv
<1>4. ASSUME NEW i \in DOMAIN worker_ids, Prune(i) PROVE IdentityInv'
  <2>1. UNCHANGED <<cfg, next_worker_id, granted, backlog, pending, peer>>
    BY <1>4 DEF Prune, peerVars, historyVars
  <2>2. /\ IdentityTravelsWithStream' /\ GrantedBelow'
        /\ ActivePeers' \subseteq ActivePeers
    BY <1>4, <2>1, Departure DEF Prune
  <2>3. PendingPeers' = PendingPeers
    BY <2>1 DEF PendingPeers
  <2>4. ConnectionInOnePlace'
    BY <1>0, <2>1, <2>2, <2>3 DEF ConnectionInOnePlace
  <2> QED
    BY <2>2, <2>4 DEF IdentityInv
<1>5. ASSUME NEW p \in Peers, Join(p) PROVE IdentityInv'
  <2>1. /\ p \notin ActivePeers /\ p \notin PendingPeers' /\ p \notin backlog'
        /\ peer[p] # "out" /\ Distinct(pending')
        /\ PendingPeers' \subseteq PendingPeers /\ backlog' \subseteq backlog
    BY <1>0, <1>5, TakenLeaves DEF Join
  <2>2. /\ IdentityTravelsWithStream' /\ GrantedBelow'
        /\ ActivePeers' = ActivePeers \cup {p}
    BY <1>5, <2>1, Admission DEF Join
  <2>3. peer' = peer
    BY <1>5 DEF Join, peerVars
  <2>4. ConnectionInOnePlace'
    BY <1>0, <2>1, <2>2, <2>3 DEF ConnectionInOnePlace, Distinct
  <2> QED
    BY <2>2, <2>4 DEF IdentityInv
<1>6. ASSUME NEW p \in Peers, JoinLost(p) \/ JoinExhausted(p) \/ JoinDropped(p)
      PROVE  IdentityInv'
  <2>1. /\ UNCHANGED <<cfg, worker_streams, worker_ids, granted, peer>>
        /\ next_worker_id' \in {next_worker_id, next_worker_id + 1}
        /\ Taken(p)
    BY <1>6 DEF JoinLost, JoinExhausted, JoinDropped, peerVars, historyVars
  <2>2. /\ Distinct(pending')
        /\ PendingPeers' \subseteq PendingPeers /\ backlog' \subseteq backlog
    BY <1>0, <2>1, TakenLeaves
  <2>3. ActivePeers' = ActivePeers
    BY <2>1 DEF ActivePeers
  <2>4. ConnectionInOnePlace'
    BY <1>0, <2>1, <2>2, <2>3 DEF ConnectionInOnePlace, Distinct
  <2> QED
    BY <2>1, <2>4, IdentitySame DEF IdentityInv
<1>7. ASSUME NEW p \in Peers, Connect(p) PROVE IdentityInv'
  <2>1. /\ UNCHANGED <<cfg, worker_streams, worker_ids, next_worker_id, pending, granted>>
        /\ peer[p] = "out" /\ peer' = [peer EXCEPT ![p] = "waiting"]
        /\ backlog' = backlog \cup {p}
        /\ peer \in [Peers -> PeerStates]
    BY <1>7 DEF Connect, coordVars, historyVars, TypeInv, TypeOK, PeerTypes
  <2>2. ActivePeers' = ActivePeers /\ PendingPeers' = PendingPeers
    BY <2>1 DEF ActivePeers, PendingPeers
  <2>3. ConnectionInOnePlace'
    BY <1>0, <2>1, <2>2 DEF ConnectionInOnePlace
  <2> QED
    BY <2>1, <2>3, IdentitySame DEF IdentityInv
<1>8. ASSUME NEW p \in Peers,
             ReceiveAck(p) \/ ReceiveAssign(p) \/ SendResult(p) \/ Return(p) \/ Leave(p)
                \/ ReportError(p) \/ Crash(p)
      PROVE  IdentityInv'
  <2>1. UNCHANGED <<cfg, worker_streams, worker_ids, next_worker_id, pending, backlog, granted>>
    BY <1>8 DEF ReceiveAck, ReceiveAssign, SendResult, Return, Leave, ReportError, Crash,
                coordVars, historyVars
  <2>2. \E st \in {"idle", "reducing", "gone", "leaving"} : peer' = [peer EXCEPT ![p] = st]
    BY <1>8 DEF ReceiveAck, ReceiveAssign, SendResult, Return, Leave, ReportError, Crash
  <2>3. \A q \in Peers : peer'[q] = "out" => peer[q] = "out"
    BY <2>2 DEF TypeInv, TypeOK, PeerTypes
  <2> QED
    BY <2>1, <2>3, IdentityFrame
<1>9. ASSUME UNCHANGED <<cfg, worker_streams, worker_ids, next_worker_id, pending, backlog,
                         granted, peer>>
      PROVE  IdentityInv'
  BY <1>9, IdentityFrame
<1>10. CASE AcceptFail \/ AcceptDone \/ Finish \/ NoWorkers \/ SoloFinish \/ DispatchFail
            \/ SelfWorkerPanicked \/ \E sigma \in [net -> Slots] : Dispatch(sigma)
  BY <1>9, <1>10 DEF AcceptFail, AcceptDone, Finish, NoWorkers, SoloFinish, DispatchFail,
                     SelfWorkerPanicked, Dispatch, peerVars, historyVars, wireVars
<1>11. CASE CollectResult \/ PeekLeave \/ PeekNothing \/ CollectLeave \/ CollectError
            \/ CollectBroken \/ CollectTimeout \/ CollectSelf \/ CollectSelfTimeout
  BY <1>9, <1>11 DEF CollectResult, PeekLeave, PeekNothing, CollectLeave, CollectError,
                     CollectBroken, CollectTimeout, CollectSelf, CollectSelfTimeout, Lose,
                     coordVars, wireVars, peerVars, historyVars
<1>12. CASE DrainEnd \/ PruneDone \/ (\E remain \in BOOLEAN : Merge(remain)) \/ JoinClose
  BY <1>9, <1>12 DEF DrainEnd, PruneDone, Merge, JoinClose, wireVars, peerVars, historyVars
<1>13. CASE UNCHANGED vars
  BY <1>9, <1>13 DEF vars, coordVars, wireVars, peerVars, historyVars
<1>14. CASE SelfWorker
  BY <1>9, <1>14 DEF SelfWorker, SelfReduced, SelfFlush, coordVars, wireVars, peerVars,
                     historyVars
<1> QED
  BY <1>1, <1>2, <1>3, <1>4, <1>5, <1>6, <1>7, <1>8, <1>10, <1>11, <1>12, <1>13, <1>14
     DEF Next, Coordinator, Accepting, Collecting, Joining, Peer, WorkerLoop

(* The strengthened identity invariant holds of every run of the           *)
(* coordinator with its peers (types included).                            *)
THEOREM IdentityInductive == Spec => [](TypeInv /\ IdentityInv)
<1>1. Init => IdentityInv
  <2> SUFFICES ASSUME Init PROVE IdentityInv
    OBVIOUS
  <2>1. DOMAIN worker_streams = {} /\ DOMAIN pending = {} /\ backlog = {}
    BY DEF Init
  <2>2. ConnectionInOnePlace
    BY <2>1 DEF ConnectionInOnePlace, PendingPeers, ActivePeers
  <2>3. IdentityTravelsWithStream
    BY <2>1 DEF Init, IdentityTravelsWithStream
  <2>4. GrantedBelow
    BY DEF Init, GrantedBelow, Offset
  <2> QED
    BY <2>2, <2>3, <2>4 DEF IdentityInv
<1> QED
  BY <1>1, TypeInductive, IdentityStep, PTL DEF Spec

(* Whatever joins and swap_removes happen, worker_ids[i] is the id given   *)
(* to the peer behind worker_streams[i], no id is active twice and id 0 of *)
(* the self-partition is never a remote worker's.                          *)
THEOREM IdentityCorrect == Spec => []IdentityTravelsWithStream
<1>1. IdentityInv => IdentityTravelsWithStream
  BY DEF IdentityInv
<1> QED
  BY <1>1, IdentityInductive, PTL

(* R11: a WorkerId that was given once is never given again, however many  *)
(* workers leave and however many JoinAcks cannot be delivered.            *)
THEOREM IdsNeverReusedCorrect == Spec => IdsNeverReused
<1> DEFINE Fresh == \A p \in Peers : granted'[p] # granted[p] =>
                        \A q \in Peers : granted'[p] # granted[q]
<1>1. TypeInv /\ IdentityInv /\ [Next]_vars => [Fresh]_vars
  <2> SUFFICES ASSUME TypeInv, IdentityInv, [Next]_vars PROVE Fresh
    OBVIOUS
  <2>1. next_worker_id \in Nat /\ granted \in [Peers -> Int]
    BY DEF TypeInv, TypeOK, CoordinatorTypes, PeerTypes
  <2>2. \A q \in Peers : granted[q] < next_worker_id
    BY DEF IdentityInv, GrantedBelow
  <2>3. \/ granted' = granted
        \/ \E p \in Peers : granted' = [granted EXCEPT ![p] = next_worker_id]
    <3>1. CASE UNCHANGED vars
      BY <3>1 DEF vars, historyVars
    <3>2. CASE Accepting \/ Finish \/ NoWorkers \/ (\E p \in Peers : SoloAccept(p))
               \/ SoloFinish \/ (\E sigma \in [net -> Slots] : Dispatch(sigma)) \/ DispatchFail
      BY <3>2 DEF Accepting, AcceptWorker, AcceptReject, AcceptFail, AcceptDone, Finish,
                  NoWorkers, SoloAccept, SoloFinish, Dispatch, DispatchFail, historyVars
    <3>3. CASE Collecting
      BY <3>3 DEF Collecting, CollectResult, PeekLeave, PeekNothing, CollectLeave,
                  CollectError, CollectBroken, CollectTimeout, CollectSelf,
                  CollectSelfTimeout, DrainAccept, SelfWorkerPanicked, DrainEnd, Lose,
                  historyVars
    <3>4. CASE \/ \E i \in DOMAIN worker_ids : Prune(i)
               \/ PruneDone
               \/ \E remain \in BOOLEAN : Merge(remain)
      BY <3>4 DEF Prune, PruneDone, Merge, historyVars
    <3>5. CASE Joining
      BY <3>5 DEF Joining, Join, JoinLost, JoinExhausted, JoinDropped, JoinClose, historyVars
    <3>6. CASE \E p \in Peers : Peer(p)
      BY <3>6 DEF Peer, WorkerLoop, Connect, ReceiveAck, ReceiveAssign, SendResult, Return,
                  Leave, ReportError, Crash, historyVars
    <3>7. CASE SelfWorker
      BY <3>7 DEF SelfWorker, SelfReduced, SelfFlush, historyVars
    <3> QED
      BY <3>1, <3>2, <3>3, <3>4, <3>5, <3>6, <3>7 DEF Next, Coordinator
  <2> QED
    BY <2>1, <2>2, <2>3
<1> QED
  BY <1>1, IdentityInductive, PTL DEF Spec, IdsNeverReused
=============================================================================
