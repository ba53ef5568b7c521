------------------------- MODULE GridRounds_proofs --------------------------
(***************************************************************************)
(* Proofs about the rounds of GridProtocol: the barrier between them, the  *)
(* net that no timeout, join or graceful departure may shorten, the        *)
(* honesty of a JoinAck, and that run_coordinator implements the           *)
(* bulk-synchronous coordinator BSP - for every set of peers, every        *)
(* configuration, every net and any number of rounds.                      *)
(*                                                                         *)
(* The argument follows the work.  A peer never has more than one piece of *)
(* it (an assignment not read, a reduction, a result not collected), and   *)
(* in a round an active peer's piece is the partition planned for its      *)
(* slot.  So a result that is collected leaves its peer without work, and  *)
(* whoever is passed over is booked as departing and pruned.               *)
(***************************************************************************)
EXTENDS GridProtocol_proofs, FiniteSetTheorems, FunctionTheorems

-----------------------------------------------------------------------------
(* Frames of one kind in a channel.                                        *)
Has(s, type) == \E k \in DOMAIN s : s[k].type = type
AtMostOne(s, type) ==
    \A k, l \in DOMAIN s : s[k].type = type /\ s[l].type = type => k = l
AllAre(s, type, m) == \A k \in DOMAIN s : s[k].type = type => s[k] = m

(* A peer has at most one piece of work.                                   *)
InWork(p) == peer[p] # "leaving" /\ Has(inbox[p], "AssignPartition")
OutWork(p) == Has(outbox[p], "PartitionResult")

OneWork(p) ==
    /\ peer[p] # "leaving" => AtMostOne(inbox[p], "AssignPartition")
    /\ AtMostOne(outbox[p], "PartitionResult")
    /\ ~(InWork(p) /\ peer[p] = "reducing")
    /\ ~(InWork(p) /\ OutWork(p))
    /\ ~(peer[p] = "reducing" /\ OutWork(p))

(* What work it has is partition part of the given round.                  *)
Carries(p, round, part) ==
    /\ peer[p] # "leaving" =>
          AllAre(inbox[p], "AssignPartition", AssignPartition(round, part))
    /\ peer[p] = "reducing" => task[p] = AssignPartition(round, part)
    /\ AllAre(outbox[p], "PartitionResult", PartitionResult(round, part))

(* A peer that is not admitted yet was sent nothing and has only asked.    *)
Fresh(p) ==
    /\ peer[p] \in {"out", "waiting", "gone"}
    /\ inbox[p] = <<>>
    /\ ~Has(outbox[p], "PartitionResult")
    /\ ~Has(outbox[p], "Error")

Unadmitted ==
    \A p \in Peers : peer[p] = "out" \/ p \in backlog \/ p \in PendingPeers => Fresh(p)

(* An Error names the worker it comes from.                                *)
ErrorHonest ==
    \A p \in Peers : \A k \in DOMAIN outbox[p] :
        outbox[p][k].type = "Error" => outbox[p][k].worker_id = granted[p]

WorkInv ==
    /\ \A p \in Peers : OneWork(p)
    /\ Unadmitted
    /\ ErrorHonest

(* The stream at index i has been dealt with in this round.                *)
Settled(i) ==
    \/ worker_ids[i] \in departing
    \/ ~HasAssignment(worker_streams[i]) /\ plan[SlotOf(i)] \in collected

Collects == phase \in {"collect", "peek"}

RoundInv ==
    /\ phase \in {"accept", "loop", "merge", "join"} =>
          \A p \in ActivePeers : ~HasAssignment(p)
    /\ phase = "prune" => \A i \in DOMAIN worker_streams :
          worker_ids[i] \in departing \/ ~HasAssignment(worker_streams[i])
    /\ Collects => \A i \in DOMAIN worker_streams :
          Carries(worker_streams[i], rounds, plan[SlotOf(i)])
    /\ Collects => \A i \in DOMAIN worker_streams : i < cursor => Settled(i)
    /\ phase = "peek" =>
          ~HasAssignment(worker_streams[cursor]) /\ plan[SlotOf(cursor)] \in collected
    /\ phase = "collect" /\ cfg.hybrid_coordinator /\ cursor > Len(worker_streams) + 1 =>
          plan[0] \in collected \/ 0 \in departing

(* Nothing of the net is missing unless a worker withheld its share.       *)
Planned == phase \in {"collect", "peek", "prune", "merge"}

NetInv ==
    /\ Planned => \A s \in DOMAIN plan : plan[s].worker_id = s
    /\ ~withheld =>
          /\ net = Atoms
          /\ Planned => \A a \in Atoms : \E s \in DOMAIN plan : a \in plan[s].share
          /\ Collects => \A i \in DOMAIN worker_streams :
                i < cursor => plan[SlotOf(i)] \in collected
          /\ phase = "collect" /\ cfg.hybrid_coordinator /\ cursor > Len(worker_streams) + 1 =>
                plan[0] \in collected
          /\ phase \in {"prune", "merge"} => \A s \in DOMAIN plan : plan[s] \in collected

(* A JoinAck's promise stands until the partition it speaks of is sent.    *)
PromiseInv ==
    /\ phase \in {"join", "loop"} => \A i \in DOMAIN worker_streams :
          promised[worker_streams[i]] \in {NoPromise, <<rounds, SlotOf(i)>>}
    /\ phase = "accept" => \A p \in Peers : promised[p] = NoPromise
    /\ phase \in {"accept", "collect", "peek", "prune", "merge"} =>
          \A i \in DOMAIN worker_streams : promised[worker_streams[i]] = NoPromise

GridInv == TypeInv /\ IdentityInv /\ WorkInv /\ RoundInv /\ NetInv /\ PromiseInv

-----------------------------------------------------------------------------
(* Sending and receiving frames, seen by kind.                             *)
LEMMA AppendKind ==
    ASSUME NEW S, NEW s \in Seq(S), NEW e \in S, NEW type
    PROVE  /\ Has(Append(s, e), type) <=> Has(s, type) \/ e.type = type
           /\ e.type # type /\ AtMostOne(s, type) => AtMostOne(Append(s, e), type)
           /\ ~Has(s, type) => AtMostOne(Append(s, e), type)
<1> DEFINE t == Append(s, e)
<1>1. /\ Len(s) \in Nat /\ DOMAIN s = 1 .. Len(s)
      /\ DOMAIN t = 1 .. Len(s) + 1
      /\ t[Len(s) + 1] = e
      /\ \A k \in 1 .. Len(s) : t[k] = s[k]
  BY Push
<1> HIDE DEF t
<1>2. \A k \in DOMAIN t : k \in DOMAIN s \/ k = Len(s) + 1
  BY <1>1
<1>3. DOMAIN s \subseteq DOMAIN t /\ Len(s) + 1 \in DOMAIN t
  BY <1>1
<1>4. Has(t, type) <=> Has(s, type) \/ e.type = type
  BY <1>1, <1>2, <1>3 DEF Has
<1>5. e.type # type /\ AtMostOne(s, type) => AtMostOne(t, type)
  BY <1>1, <1>2 DEF AtMostOne
<1>6. ~Has(s, type) => AtMostOne(t, type)
  BY <1>1, <1>2 DEF AtMostOne, Has
<1> QED
  BY <1>4, <1>5, <1>6 DEF t

(* A frame is sent on a channel whose frames of a kind are all m.          *)
LEMMA AppendAll ==
    ASSUME NEW S, NEW s \in Seq(S), NEW e \in S, NEW type, NEW m,
           AllAre(s, type, m), e.type = type => e = m
    PROVE  AllAre(Append(s, e), type, m)
<1>1. \A k \in DOMAIN Append(s, e) :
         \/ k \in DOMAIN s /\ Append(s, e)[k] = s[k]
         \/ Append(s, e)[k] = e
  BY Push
<1> QED
  BY <1>1 DEF AllAre

(* The first frame is taken: no kind appears, and if it was the only one   *)
(* of its kind that kind is gone.                                          *)
LEMMA TailKind ==
    ASSUME NEW S, NEW s \in Seq(S), s # <<>>, NEW type
    PROVE  /\ Has(Tail(s), type) => Has(s, type)
           /\ AtMostOne(s, type) => AtMostOne(Tail(s), type)
           /\ AtMostOne(s, type) /\ Head(s).type = type => ~Has(Tail(s), type)
           /\ Head(s).type = type => Has(s, type)
<1> DEFINE t == Tail(s)
<1>1. /\ Len(s) \in Nat /\ Len(s) >= 1 /\ DOMAIN s = 1 .. Len(s)
      /\ DOMAIN t = 1 .. Len(s) - 1
      /\ \A k \in 1 .. Len(s) - 1 : t[k] = s[k + 1]
      /\ Head(s) = s[1]
  OBVIOUS
<1> HIDE DEF t
<1>2. \A k \in DOMAIN t : k + 1 \in DOMAIN s /\ k + 1 # 1 /\ t[k] = s[k + 1]
  BY <1>1
<1>3. 1 \in DOMAIN s
  BY <1>1
<1>4. \A k, l \in DOMAIN t : k + 1 = l + 1 => k = l
  BY <1>1
<1>5. AtMostOne(s, type) => AtMostOne(t, type)
  BY <1>2, <1>4 DEF AtMostOne
<1>6. AtMostOne(s, type) /\ Head(s).type = type => ~Has(t, type)
  BY <1>1, <1>2, <1>3 DEF AtMostOne, Has
<1>7. /\ Has(t, type) => Has(s, type)
      /\ Head(s).type = type => Has(s, type)
  BY <1>1, <1>2, <1>3 DEF Has
<1> QED
  BY <1>5, <1>6, <1>7 DEF t

(* The first frame of a channel whose frames of a kind are all m.          *)
LEMMA TailAll ==
    ASSUME NEW S, NEW s \in Seq(S), s # <<>>, NEW type, NEW m, AllAre(s, type, m)
    PROVE  /\ AllAre(Tail(s), type, m)
           /\ Head(s).type = type => Head(s) = m
<1>1. /\ \A k \in DOMAIN Tail(s) : k + 1 \in DOMAIN s /\ Tail(s)[k] = s[k + 1]
      /\ 1 \in DOMAIN s /\ Head(s) = s[1]
  OBVIOUS
<1> QED
  BY <1>1 DEF AllAre

(* The work of a peer, in terms of its channels.                           *)
LEMMA WorkParts ==
    ASSUME NEW p
    PROVE  /\ HasAssignment(p) <=> InWork(p) \/ peer[p] = "reducing" \/ OutWork(p)
           /\ HasAssignment(p)' <=> InWork(p)' \/ peer'[p] = "reducing" \/ OutWork(p)'
BY DEF HasAssignment, InWork, OutWork, Has

(* An empty channel has frames of no kind.                                 *)
LEMMA EmptyChannel ==
    ASSUME NEW type, NEW m
    PROVE  ~Has(<<>>, type) /\ AtMostOne(<<>>, type) /\ AllAre(<<>>, type, m)
BY DEF Has, AtMostOne, AllAre

-----------------------------------------------------------------------------
(* What run_coordinator does to a peer other than dispatching: it may send *)
(* it something that is no work, and may take a frame from it.             *)
Quiet(p) ==
    /\ peer'[p] = peer[p]
    /\ task'[p] = task[p]
    /\ \/ inbox'[p] = inbox[p]
       \/ \E m \in ToWorker :
             m.type # "AssignPartition" /\ inbox'[p] = Append(inbox[p], m)
    /\ \/ outbox'[p] = outbox[p]
       \/ outbox[p] # <<>> /\ outbox'[p] = Tail(outbox[p])

(* The work of p after a step is work it had before.                       *)
Conserves(p) ==
    /\ OneWork(p) => OneWork(p)'
    /\ HasAssignment(p)' => HasAssignment(p)
    /\ \A round, part : Carries(p, round, part) => Carries(p, round, part)'

(* A quiet step leaves a peer the work it had.                             *)
LEMMA QuietConserves ==
    ASSUME TypeInv, NEW p \in Peers, Quiet(p)
    PROVE  Conserves(p)
<1>1. inbox[p] \in Seq(ToWorker) /\ outbox[p] \in Seq(ToCoordinator)
  BY DEF TypeInv, TypeOK, WireTypes
<1>2. /\ Has(inbox'[p], "AssignPartition") => Has(inbox[p], "AssignPartition")
      /\ AtMostOne(inbox[p], "AssignPartition") => AtMostOne(inbox'[p], "AssignPartition")
      /\ \A m : AllAre(inbox[p], "AssignPartition", m) =>
                 AllAre(inbox'[p], "AssignPartition", m)
  <2>1. CASE inbox'[p] = inbox[p]
    BY <2>1
  <2>2. ASSUME NEW m \in ToWorker, m.type # "AssignPartition",
               inbox'[p] = Append(inbox[p], m)
        PROVE  /\ Has(inbox'[p], "AssignPartition") => Has(inbox[p], "AssignPartition")
               /\ AtMostOne(inbox[p], "AssignPartition") =>
                     AtMostOne(inbox'[p], "AssignPartition")
               /\ \A n : AllAre(inbox[p], "AssignPartition", n) =>
                          AllAre(inbox'[p], "AssignPartition", n)
    <3>1. inbox[p] \in Seq(ToWorker)
      BY <1>1
    <3> QED
      BY ONLY <2>2, <3>1, AppendKind, AppendAll
  <2> QED
    BY <2>1, <2>2 DEF Quiet
<1>3. /\ Has(outbox'[p], "PartitionResult") => Has(outbox[p], "PartitionResult")
      /\ AtMostOne(outbox[p], "PartitionResult") => AtMostOne(outbox'[p], "PartitionResult")
      /\ \A m : AllAre(outbox[p], "PartitionResult", m) =>
                 AllAre(outbox'[p], "PartitionResult", m)
  <2>1. CASE outbox'[p] = outbox[p]
    BY <2>1
  <2>2. CASE outbox[p] # <<>> /\ outbox'[p] = Tail(outbox[p])
    BY <1>1, <2>2, TailKind, TailAll
  <2> QED
    BY <2>1, <2>2 DEF Quiet
<1>4. peer'[p] = peer[p] /\ task'[p] = task[p]
  BY DEF Quiet
<1>5. HasAssignment(p)' => HasAssignment(p)
  BY <1>2, <1>3, <1>4, WorkParts DEF InWork, OutWork
<1>6. OneWork(p) => OneWork(p)'
  BY <1>2, <1>3, <1>4 DEF OneWork, InWork, OutWork
<1>7. \A round, part : Carries(p, round, part) => Carries(p, round, part)'
  BY <1>2, <1>3, <1>4 DEF Carries
<1> QED
  BY <1>5, <1>6, <1>7 DEF Conserves

(* A worker moves its piece of work on, or drops it; it never gets a       *)
(* second one.                                                             *)
LEMMA PeerConserves ==
    ASSUME TypeInv, NEW p \in Peers, NEW q \in Peers, Peer(q)
    PROVE  Conserves(p)
<1>1. /\ inbox \in [Peers -> Seq(ToWorker)] /\ outbox \in [Peers -> Seq(ToCoordinator)]
      /\ peer \in [Peers -> PeerStates] /\ task \in [Peers -> Assignments \cup {NoTask}]
      /\ inbox[p] \in Seq(ToWorker) /\ outbox[p] \in Seq(ToCoordinator)
  BY DEF TypeInv, TypeOK, WireTypes, PeerTypes
<1>2. CASE p # q
  <2>1. /\ peer'[p] = peer[p] /\ task'[p] = task[p]
        /\ inbox'[p] = inbox[p] /\ outbox'[p] = outbox[p]
    BY <1>1, <1>2 DEF Peer, WorkerLoop, Connect, ReceiveAck, ReceiveAssign, SendResult,
                      Return, Leave, ReportError, Crash, Send, Receive
  <2> QED
    BY <2>1, QuietConserves DEF Quiet
<1>3. CASE p = q /\ Connect(p)
  <2>1. /\ peer[p] = "out" /\ peer'[p] = "waiting" /\ inbox'[p] = inbox[p]
        /\ \E m \in ToCoordinator : m.type # "PartitionResult"
                                    /\ outbox'[p] = Append(outbox[p], m)
    BY <1>1, <1>3, MessageTypes DEF Connect, Send, Register, JoinRequest
  <2>2. /\ Has(outbox'[p], "PartitionResult") => Has(outbox[p], "PartitionResult")
        /\ AtMostOne(outbox[p], "PartitionResult") => AtMostOne(outbox'[p], "PartitionResult")
        /\ \A m : AllAre(outbox[p], "PartitionResult", m) =>
                   AllAre(outbox'[p], "PartitionResult", m)
    BY <1>1, <2>1, AppendKind, AppendAll
  <2>3. HasAssignment(p)' => HasAssignment(p)
    BY <2>1, <2>2, WorkParts DEF InWork, OutWork
  <2>4. OneWork(p) => OneWork(p)'
    BY <2>1, <2>2 DEF OneWork, InWork, OutWork
  <2>5. \A round, part : Carries(p, round, part) => Carries(p, round, part)'
    BY <2>1, <2>2 DEF Carries
  <2> QED
    BY <2>3, <2>4, <2>5 DEF Conserves
<1>4. CASE p = q /\ ReceiveAck(p)
  <2>1. /\ peer[p] = "waiting" /\ peer'[p] = "idle" /\ outbox'[p] = outbox[p]
        /\ inbox[p] # <<>> /\ inbox'[p] = Tail(inbox[p])
    BY <1>1, <1>4 DEF ReceiveAck, Receive, Heads
  <2>2. /\ Has(inbox'[p], "AssignPartition") => Has(inbox[p], "AssignPartition")
        /\ AtMostOne(inbox[p], "AssignPartition") => AtMostOne(inbox'[p], "AssignPartition")
        /\ \A m : AllAre(inbox[p], "AssignPartition", m) =>
                   AllAre(inbox'[p], "AssignPartition", m)
    BY <1>1, <2>1, TailKind, TailAll
  <2>3. HasAssignment(p)' => HasAssignment(p)
    BY <2>1, <2>2, WorkParts DEF InWork, OutWork
  <2>4. OneWork(p) => OneWork(p)'
    BY <2>1, <2>2 DEF OneWork, InWork, OutWork
  <2>5. \A round, part : Carries(p, round, part) => Carries(p, round, part)'
    BY <2>1, <2>2 DEF Carries
  <2> QED
    BY <2>3, <2>4, <2>5 DEF Conserves
<1>5. CASE p = q /\ ReceiveAssign(p)
  <2>1. /\ peer[p] = "idle" /\ peer'[p] = "reducing" /\ outbox'[p] = outbox[p]
        /\ inbox[p] # <<>> /\ inbox'[p] = Tail(inbox[p])
        /\ Head(inbox[p]).type = "AssignPartition" /\ task'[p] = Head(inbox[p])
    BY <1>1, <1>5 DEF ReceiveAssign, Receive, Heads
  <2>2. /\ Has(inbox[p], "AssignPartition")
        /\ AtMostOne(inbox[p], "AssignPartition") =>
              ~Has(inbox'[p], "AssignPartition") /\ AtMostOne(inbox'[p], "AssignPartition")
        /\ \A m : AllAre(inbox[p], "AssignPartition", m) =>
                   AllAre(inbox'[p], "AssignPartition", m) /\ Head(inbox[p]) = m
    BY <1>1, <2>1, TailKind, TailAll
  <2>3. HasAssignment(p)
    BY <2>1, <2>2, WorkParts DEF InWork
  <2>4. OneWork(p) => OneWork(p)'
    BY <2>1, <2>2 DEF OneWork, InWork, OutWork
  <2>5. \A round, part : Carries(p, round, part) => Carries(p, round, part)'
    BY <2>1, <2>2 DEF Carries
  <2> QED
    BY <2>3, <2>4, <2>5 DEF Conserves
<1>6. CASE p = q /\ SendResult(p)
  <2>1. /\ peer[p] = "reducing" /\ peer'[p] = "idle" /\ inbox'[p] = inbox[p]
        /\ outbox'[p] = Append(outbox[p], PartitionResult(task[p].round, task[p].partition))
    BY <1>1, <1>6 DEF SendResult, Send
  <2>2. task[p] \in Assignments
    BY <2>1 DEF TypeInv, TypeOK, PeerTypes
  <2>3. /\ PartitionResult(task[p].round, task[p].partition) \in ToCoordinator
        /\ PartitionResult(task[p].round, task[p].partition).type = "PartitionResult"
    BY <2>2, MessageTypes DEF Assignments, PartitionResult
  <2>4. ~Has(outbox[p], "PartitionResult") => AtMostOne(outbox'[p], "PartitionResult")
    BY <1>1, <2>1, <2>3, AppendKind, AppendAll
  <2>5. ASSUME NEW round, NEW part, Carries(p, round, part)
        PROVE  Carries(p, round, part)'
    <3>1. PartitionResult(task[p].round, task[p].partition) = PartitionResult(round, part)
      BY <2>1, <2>5 DEF Carries, AssignPartition
    <3>2. AllAre(outbox[p], "PartitionResult", PartitionResult(round, part)) =>
            AllAre(outbox'[p], "PartitionResult", PartitionResult(round, part))
      BY <1>1, <2>1, <2>3, <3>1, AppendKind, AppendAll
    <3> QED
      BY <2>1, <2>5, <3>2 DEF Carries
  <2>6. OneWork(p) => OneWork(p)'
    BY <2>1, <2>4 DEF OneWork, InWork, OutWork
  <2>7. HasAssignment(p)
    BY <2>1, WorkParts
  <2> QED
    BY <2>5, <2>6, <2>7 DEF Conserves
<1>7. CASE p = q /\ (Return(p) \/ Crash(p))
  <2>1. /\ peer'[p] = "gone" /\ inbox'[p] = <<>>
        /\ outbox'[p] = outbox[p] \/ outbox'[p] = <<>>
    BY <1>1, <1>7 DEF Return, Crash
  <2>2. HasAssignment(p)' => HasAssignment(p)
    BY <2>1, WorkParts, EmptyChannel DEF InWork, OutWork
  <2>3. OneWork(p) => OneWork(p)'
    BY <2>1, EmptyChannel DEF OneWork, InWork, OutWork
  <2>4. \A round, part : Carries(p, round, part) => Carries(p, round, part)'
    BY <2>1, EmptyChannel DEF Carries
  <2> QED
    BY <2>2, <2>3, <2>4 DEF Conserves
<1>8. CASE p = q /\ (Leave(p) \/ ReportError(p))
  <2>1. /\ peer'[p] = "leaving" /\ inbox'[p] = inbox[p]
        /\ \E m \in ToCoordinator : m.type # "PartitionResult"
                                    /\ outbox'[p] = Append(outbox[p], m)
    <3>1. granted[p] \in Int
      BY DEF TypeInv, TypeOK, PeerTypes
    <3> QED
      BY <1>1, <1>8, <3>1, MessageTypes DEF Leave, ReportError, Send, LeaveRequest, Error
  <2>2. /\ Has(outbox'[p], "PartitionResult") => Has(outbox[p], "PartitionResult")
        /\ AtMostOne(outbox[p], "PartitionResult") => AtMostOne(outbox'[p], "PartitionResult")
        /\ \A m : AllAre(outbox[p], "PartitionResult", m) =>
                   AllAre(outbox'[p], "PartitionResult", m)
    BY <1>1, <2>1, AppendKind, AppendAll
  <2>3. HasAssignment(p)' => HasAssignment(p)
    BY <2>1, <2>2, WorkParts DEF InWork, OutWork
  <2>4. OneWork(p) => OneWork(p)'
    BY <2>1, <2>2 DEF OneWork, InWork, OutWork
  <2>5. \A round, part : Carries(p, round, part) => Carries(p, round, part)'
    BY <2>1, <2>2 DEF Carries
  <2> QED
    BY <2>3, <2>4, <2>5 DEF Conserves
<1> QED
  BY <1>2, <1>3, <1>4, <1>5, <1>6, <1>7, <1>8 DEF Peer, WorkerLoop

(* Steps of run_coordinator that touch no channel, one channel, or all.    *)
LEMMA UntouchedQuiet ==
    ASSUME UNCHANGED <<inbox, outbox, peer, task>>, NEW p \in Peers
    PROVE  Quiet(p)
BY DEF Quiet

(* One peer is sent something that is no work, or a frame of it is taken.  *)
LEMMA TouchedQuiet ==
    ASSUME TypeInv, NEW p \in Peers, NEW q \in Peers, UNCHANGED <<peer, task>>,
           \/ inbox' = inbox
           \/ \E m \in ToWorker : m.type # "AssignPartition" /\ inbox' = Send(inbox, q, m),
           \/ outbox' = outbox
           \/ outbox[q] # <<>> /\ outbox' = Receive(outbox, q)
    PROVE  Quiet(p)
<1>1. inbox \in [Peers -> Seq(ToWorker)] /\ outbox \in [Peers -> Seq(ToCoordinator)]
  BY DEF TypeInv, TypeOK, WireTypes
<1> QED
  BY <1>1 DEF Quiet, Send, Receive

(* Only Dispatch hands out work.                                           *)
LEMMA CoordinatorQuiet ==
    ASSUME TypeInv, Coordinator, ~ \E sigma \in [net -> Slots] : Dispatch(sigma),
           NEW p \in Peers
    PROVE  Quiet(p)
<1>1. ASSUME NEW q \in Peers, AcceptWorker(q) PROVE Quiet(p)
  <2>1. RegisterAck(next_worker_id) \in ToWorker
        /\ RegisterAck(next_worker_id).type # "AssignPartition"
    BY MessageTypes DEF TypeInv, TypeOK, CoordinatorTypes, RegisterAck
  <2> QED
    BY <1>1, <2>1, TouchedQuiet DEF AcceptWorker, Heads, peerVars
<1>2. ASSUME NEW q \in Peers, AcceptReject(q) \/ JoinExhausted(q) PROVE Quiet(p)
  <2>1. JoinNack \in ToWorker /\ JoinNack.type # "AssignPartition"
    BY MessageTypes DEF JoinNack
  <2> QED
    BY <1>2, <2>1, TouchedQuiet DEF AcceptReject, JoinExhausted, Heads, peerVars
<1>3. CASE \/ AcceptFail \/ AcceptDone \/ NoWorkers \/ SoloFinish \/ DispatchFail
           \/ \E q \in Peers : SoloAccept(q)
  BY <1>3, UntouchedQuiet
     DEF AcceptFail, AcceptDone, NoWorkers, SoloFinish, DispatchFail, SoloAccept, peerVars,
         wireVars
<1>4. CASE Finish
  <2>1. Shutdown \in ToWorker /\ Shutdown.type # "AssignPartition"
    BY MessageTypes DEF Shutdown
  <2>2. inbox'[p] = inbox[p] \/ inbox'[p] = Append(inbox[p], Shutdown)
    BY <1>4 DEF Finish
  <2>3. UNCHANGED <<peer, task, outbox>>
    BY <1>4 DEF Finish, peerVars
  <2> QED
    BY <2>1, <2>2, <2>3 DEF Quiet
<1>5. CASE CollectResult
  <2>1. Polled \in Peers
    BY <1>5, PolledType DEF CollectResult
  <2> QED
    BY <1>5, <2>1, TouchedQuiet DEF CollectResult, Heads, peerVars
<1>6. CASE PeekLeave \/ CollectLeave
  <2>1. Polled \in Peers
    BY <1>6, PolledType DEF PeekLeave, CollectLeave
  <2>2. LeaveAck \in ToWorker /\ LeaveAck.type # "AssignPartition"
    BY MessageTypes DEF LeaveAck
  <2> QED
    BY <1>6, <2>1, <2>2, TouchedQuiet DEF PeekLeave, CollectLeave, Heads, peerVars
<1>7. CASE CollectError
  <2>1. Polled \in Peers
    BY <1>7, PolledType DEF CollectError
  <2> QED
    BY <1>7, <2>1, TouchedQuiet DEF CollectError, Lose, Heads, peerVars
<1>8. CASE CollectBroken \/ CollectTimeout \/ CollectSelfTimeout
  BY <1>8, UntouchedQuiet DEF CollectBroken, CollectTimeout, CollectSelfTimeout, Lose, peerVars
<1>9. CASE \/ PeekNothing \/ CollectSelf \/ SelfWorkerPanicked \/ DrainEnd
           \/ \E q \in Peers : DrainAccept(q)
  BY <1>9, UntouchedQuiet
     DEF PeekNothing, CollectSelf, SelfWorkerPanicked, DrainEnd, DrainAccept, peerVars, wireVars
<1>10. CASE \/ \E i \in DOMAIN worker_ids : Prune(i)
            \/ PruneDone
            \/ \E remain \in BOOLEAN : Merge(remain)
  BY <1>10, UntouchedQuiet DEF Prune, PruneDone, Merge, peerVars, wireVars
<1>11. ASSUME NEW q \in Peers, Join(q) PROVE Quiet(p)
  <2>1. /\ JoinAck(next_worker_id, FirstSlot, FirstRound) \in ToWorker
        /\ JoinAck(next_worker_id, FirstSlot, FirstRound).type # "AssignPartition"
    BY MessageTypes, SlotsType
       DEF TypeInv, TypeOK, CoordinatorTypes, JoinAck, FirstSlot, FirstRound
  <2> QED
    BY <1>11, <2>1, TouchedQuiet DEF Join, Heads, peerVars
<1>12. ASSUME NEW q \in Peers, JoinLost(q) PROVE Quiet(p)
  BY <1>12, TouchedQuiet DEF JoinLost, Heads, peerVars
<1>13. CASE JoinClose \/ \E q \in Peers : JoinDropped(q)
  BY <1>13, UntouchedQuiet DEF JoinClose, JoinDropped, peerVars, wireVars
<1> QED
  BY <1>1, <1>2, <1>3, <1>4, <1>5, <1>6, <1>7, <1>8, <1>9, <1>10, <1>11, <1>12, <1>13
     DEF Coordinator, Accepting, Collecting, Joining

(* Except by Dispatch no work appears anywhere.                            *)
LEMMA NoNewWork ==
    ASSUME TypeInv, [Next]_vars, ~ \E sigma \in [net -> Slots] : Dispatch(sigma),
           NEW p \in Peers
    PROVE  Conserves(p)
<1>1. CASE Coordinator
  BY <1>1, CoordinatorQuiet, QuietConserves
<1>2. CASE \E q \in Peers : Peer(q)
  BY <1>2, PeerConserves
<1>3. CASE UNCHANGED vars \/ SelfWorker
  BY <1>3, UntouchedQuiet, QuietConserves
     DEF vars, wireVars, peerVars, SelfWorker, SelfReduced, SelfFlush
<1> QED
  BY <1>1, <1>2, <1>3 DEF Next

-----------------------------------------------------------------------------
(* The stream of index i is found again by IndexOf: nobody is active twice.*)
LEMMA IndexOfStream ==
    ASSUME TypeInv, IdentityInv, NEW i \in DOMAIN worker_streams
    PROVE  /\ IndexOf(worker_streams[i]) = i
           /\ worker_streams[i] \in ActivePeers
           /\ worker_streams[i] \in Peers
<1>1. \A j \in DOMAIN worker_streams : worker_streams[j] = worker_streams[i] => j = i
  BY DEF IdentityInv, IdentityTravelsWithStream
<1>2. worker_streams[i] \in Peers
  BY DEF TypeInv, TypeOK, CoordinatorTypes
<1> QED
  BY <1>1, <1>2 DEF IndexOf, ActivePeers

(* distribute_partitions: one assignment to every stream, nothing else.    *)
LEMMA Dispatched ==
    ASSUME TypeInv, IdentityInv, NEW sigma \in [net -> Slots], Dispatch(sigma)
    PROVE  /\ UNCHANGED <<peer, task, outbox>>
           /\ \A p \in Peers : p \notin ActivePeers => inbox'[p] = inbox[p]
           /\ \A i \in DOMAIN worker_streams :
                 /\ AssignPartition(rounds, plan'[SlotOf(i)]) \in ToWorker
                 /\ inbox'[worker_streams[i]] =
                       Append(inbox[worker_streams[i]],
                              AssignPartition(rounds, plan'[SlotOf(i)]))
<1>1. UNCHANGED <<peer, task, outbox>>
  BY DEF Dispatch, peerVars
<1>2. \A p \in Peers : p \notin ActivePeers => inbox'[p] = inbox[p]
  BY DEF Dispatch
<1>3. ASSUME NEW i \in DOMAIN worker_streams
      PROVE  /\ AssignPartition(rounds, plan'[SlotOf(i)]) \in ToWorker
             /\ inbox'[worker_streams[i]] =
                   Append(inbox[worker_streams[i]], AssignPartition(rounds, plan'[SlotOf(i)]))
  <2>1. SlotOf(i) \in Slots /\ Slots \subseteq Nat
    BY SlotsType DEF TypeInv
  <2>2. plan'[SlotOf(i)] = PartitionOf(sigma, SlotOf(i))
    BY <2>1 DEF Dispatch
  <2>3. PartitionOf(sigma, SlotOf(i)) \in Partitions /\ rounds \in Nat
    BY <2>1 DEF PartitionOf, Partitions, TypeInv, TypeOK, CoordinatorTypes
  <2>4. inbox'[worker_streams[i]] =
           Append(inbox[worker_streams[i]],
                  AssignPartition(rounds, plan'[SlotOf(IndexOf(worker_streams[i]))]))
    BY IndexOfStream DEF Dispatch
  <2> QED
    BY <2>2, <2>3, <2>4, IndexOfStream, MessageTypes
<1> QED
  BY <1>1, <1>2, <1>3

(* A connection that the join window takes was waiting.                    *)
LEMMA TakenWaited ==
    ASSUME TypeInv, IdentityInv, NEW p \in Peers, Taken(p)
    PROVE  p \in backlog \/ p \in PendingPeers
<1>1. CASE pending = <<>>
  BY <1>1 DEF Taken, Arrivals
<1>2. CASE pending # <<>>
  <2>1. p = Head(pending) /\ pending \in Seq(Peers) /\ Distinct(pending)
    BY <1>2 DEF Taken, Arrivals, TypeInv, TypeOK, CoordinatorTypes, IdentityInv,
                ConnectionInOnePlace, Distinct
  <2> QED
    BY <1>2, <2>1, PopElements, PeersAsElements
<1> QED
  BY <1>1, <1>2

(* run_coordinator gives ids to waiting connections only, and whoever      *)
(* still waits after a step was sent nothing in it.                        *)
LEMMA OnlyWaitingAdmitted ==
    ASSUME TypeInv, IdentityInv, Coordinator, NEW p \in Peers
    PROVE  /\ peer' = peer
           /\ granted'[p] = granted[p] \/ p \in backlog \/ p \in PendingPeers
           /\ p \in backlog' \/ p \in PendingPeers' => p \in backlog \/ p \in PendingPeers
           /\ p \in backlog' \/ p \in PendingPeers' \/ peer[p] = "out" => inbox'[p] = inbox[p]
<1> DEFINE Goal ==
      /\ peer' = peer
      /\ granted'[p] = granted[p] \/ p \in backlog \/ p \in PendingPeers
      /\ p \in backlog' \/ p \in PendingPeers' => p \in backlog \/ p \in PendingPeers
      /\ p \in backlog' \/ p \in PendingPeers' \/ peer[p] = "out" => inbox'[p] = inbox[p]
<1>0. /\ inbox \in [Peers -> Seq(ToWorker)] /\ granted \in [Peers -> Int]
      /\ ConnectionInOnePlace
  BY DEF TypeInv, TypeOK, WireTypes, PeerTypes, IdentityInv
<1>1. ASSUME NEW q \in Peers, AcceptWorker(q) \/ AcceptReject(q) PROVE Goal
  <2>1. /\ q \in backlog /\ backlog' = backlog \ {q} /\ pending' = pending /\ peer' = peer
        /\ granted'[p] = granted[p] \/ p = q
        /\ inbox'[p] = inbox[p] \/ p = q
    BY <1>0, <1>1 DEF AcceptWorker, AcceptReject, coordVars, peerVars, historyVars, Send
  <2>2. PendingPeers' = PendingPeers
    BY <2>1 DEF PendingPeers
  <2> QED
    BY <1>0, <2>1, <2>2 DEF ConnectionInOnePlace
<1>2. ASSUME NEW q \in Peers, SoloAccept(q) \/ DrainAccept(q) PROVE Goal
  <2>1. /\ q \in backlog /\ backlog' = backlog \ {q} /\ pending' = Append(pending, q)
        /\ peer' = peer /\ granted' = granted /\ inbox' = inbox /\ pending \in Seq(Peers)
    BY <1>2 DEF SoloAccept, DrainAccept, peerVars, historyVars, TypeInv, TypeOK,
                CoordinatorTypes
  <2>2. PendingPeers' = PendingPeers \cup {q}
    BY <2>1, PushElements, PeersAsElements
  <2> QED
    BY <2>1, <2>2
<1>3. ASSUME NEW q \in Peers, Join(q) \/ JoinLost(q) \/ JoinExhausted(q) \/ JoinDropped(q)
      PROVE  Goal
  <2>1. /\ Taken(q) /\ peer' = peer
        /\ granted'[p] = granted[p] \/ p = q
        /\ inbox'[p] = inbox[p] \/ p = q
    BY <1>0, <1>3 DEF Join, JoinLost, JoinExhausted, JoinDropped, peerVars, historyVars, Send
  <2>2. /\ q \notin PendingPeers' /\ q \notin backlog' /\ peer[q] # "out"
        /\ PendingPeers' \subseteq PendingPeers /\ backlog' \subseteq backlog
    BY <1>0, <2>1, TakenLeaves
  <2>3. q \in backlog \/ q \in PendingPeers
    BY <2>1, TakenWaited
  <2> QED
    BY <2>1, <2>2, <2>3
<1>4. ASSUME backlog' = backlog, pending' = pending, peer' = peer, granted' = granted,
             inbox'[p] = inbox[p] \/ p \in ActivePeers
      PROVE  Goal
  <2>1. PendingPeers' = PendingPeers
    BY <1>4 DEF PendingPeers
  <2> QED
    BY <1>0, <1>4, <2>1 DEF ConnectionInOnePlace
<1>5. CASE AcceptFail \/ AcceptDone \/ NoWorkers \/ SoloFinish \/ DispatchFail
           \/ SelfWorkerPanicked \/ JoinClose
  BY <1>4, <1>5 DEF AcceptFail, AcceptDone, NoWorkers, SoloFinish, DispatchFail,
                    SelfWorkerPanicked, JoinClose, peerVars, historyVars, wireVars
<1>6. CASE Finish \/ \E sigma \in [net -> Slots] : Dispatch(sigma)
  BY <1>4, <1>6 DEF Finish, Dispatch, peerVars, historyVars
<1>7. CASE CollectResult \/ PeekNothing \/ CollectError \/ CollectBroken \/ CollectTimeout
           \/ CollectSelf \/ CollectSelfTimeout \/ DrainEnd
  BY <1>4, <1>7 DEF CollectResult, PeekNothing, CollectError, CollectBroken, CollectTimeout,
                    CollectSelf, CollectSelfTimeout, DrainEnd, Lose, coordVars, peerVars,
                    historyVars, wireVars
<1>8. CASE PeekLeave \/ CollectLeave
  <2>1. cursor \in DOMAIN worker_streams
    BY <1>8 DEF PeekLeave, CollectLeave, Polling, TypeInv, TypeOK, CoordinatorTypes,
                RoundTypes, VectorsParallel
  <2>2. Polled \in ActivePeers
    BY <2>1 DEF Polled, ActivePeers
  <2>3. inbox'[p] = inbox[p] \/ p = Polled
    BY <1>0, <1>8 DEF PeekLeave, CollectLeave, Send
  <2> QED
    BY <1>4, <1>8, <2>2, <2>3 DEF PeekLeave, CollectLeave, peerVars, historyVars
<1>9. CASE \/ \E i \in DOMAIN worker_ids : Prune(i)
           \/ PruneDone
           \/ \E remain \in BOOLEAN : Merge(remain)
  BY <1>4, <1>9 DEF Prune, PruneDone, Merge, peerVars, historyVars, wireVars
<1> QED
  BY <1>1, <1>2, <1>3, <1>5, <1>6, <1>7, <1>8, <1>9
     DEF Coordinator, Accepting, Collecting, Joining

-----------------------------------------------------------------------------
(* Every Error of a channel names the given id.                            *)
Honest(s, id) == \A k \in DOMAIN s : s[k].type = "Error" => s[k].worker_id = id

(* A channel stays honest when honest frames are sent and frames taken.    *)
LEMMA HonestChannel ==
    ASSUME NEW S, NEW s \in Seq(S), NEW id
    PROVE  /\ s # <<>> /\ Honest(s, id) => Honest(Tail(s), id)
           /\ \A e \in S : Honest(s, id) /\ (e.type = "Error" => e.worker_id = id) =>
                 Honest(Append(s, e), id)
           /\ Honest(<<>>, id)
           /\ ~Has(s, "Error") => Honest(s, id)
<1>1. s # <<>> => \A k \in DOMAIN Tail(s) : k + 1 \in DOMAIN s /\ Tail(s)[k] = s[k + 1]
  OBVIOUS
<1>2. \A e \in S : \A k \in DOMAIN Append(s, e) :
         \/ k \in DOMAIN s /\ Append(s, e)[k] = s[k]
         \/ Append(s, e)[k] = e
  BY Push
<1> QED
  BY <1>1, <1>2 DEF Honest, Has

(* A step of run_coordinator keeps the facts about unread frames.          *)
LEMMA CoordinatorWork ==
    ASSUME TypeInv, IdentityInv, Unadmitted, ErrorHonest, Coordinator
    PROVE  Unadmitted' /\ ErrorHonest'
<1>1. ASSUME NEW p \in Peers
      PROVE  outbox'[p] = outbox[p] \/ (outbox[p] # <<>> /\ outbox'[p] = Tail(outbox[p]))
  <2>1. CASE \E sigma \in [net -> Slots] : Dispatch(sigma)
    BY <2>1 DEF Dispatch
  <2>2. CASE ~ \E sigma \in [net -> Slots] : Dispatch(sigma)
    BY <2>2, CoordinatorQuiet DEF Quiet
  <2> QED
    BY <2>1, <2>2
<1>2. \A p \in Peers : outbox[p] \in Seq(ToCoordinator)
  BY DEF TypeInv, TypeOK, WireTypes
<1>3. ASSUME NEW p \in Peers, peer'[p] = "out" \/ p \in backlog' \/ p \in PendingPeers'
      PROVE  Fresh(p)'
  <2>1. Fresh(p) /\ peer'[p] = peer[p] /\ inbox'[p] = inbox[p]
    BY <1>3, OnlyWaitingAdmitted DEF Unadmitted
  <2>2. ~Has(outbox'[p], "PartitionResult") /\ ~Has(outbox'[p], "Error")
    BY <1>1, <1>2, <2>1, TailKind DEF Fresh
  <2> QED
    BY <2>1, <2>2 DEF Fresh
<1>4. ASSUME NEW p \in Peers PROVE Honest(outbox'[p], granted'[p])
  <2>1. Honest(outbox[p], granted[p])
    BY DEF ErrorHonest, Honest
  <2>2. granted'[p] = granted[p] \/ ~Has(outbox[p], "Error")
    BY OnlyWaitingAdmitted DEF Unadmitted, Fresh
  <2>3. Honest(outbox[p], granted'[p])
    BY <1>2, <2>1, <2>2, HonestChannel
  <2> QED
    BY <1>1, <1>2, <2>3, HonestChannel
<1> QED
  BY <1>3, <1>4 DEF Unadmitted, ErrorHonest, Honest

(* A step of a peer keeps them.                                            *)
LEMMA PeerWork ==
    ASSUME TypeInv, IdentityInv, Unadmitted, ErrorHonest, NEW q \in Peers, Peer(q)
    PROVE  Unadmitted' /\ ErrorHonest'
<1>0. /\ inbox \in [Peers -> Seq(ToWorker)] /\ outbox \in [Peers -> Seq(ToCoordinator)]
      /\ peer \in [Peers -> PeerStates] /\ granted \in [Peers -> Int]
      /\ \A p \in Peers : outbox[p] \in Seq(ToCoordinator)
  BY DEF TypeInv, TypeOK, WireTypes, PeerTypes
<1>1. granted' = granted /\ pending' = pending
  BY DEF Peer, WorkerLoop, Connect, ReceiveAck, ReceiveAssign, SendResult, Return, Leave,
         ReportError, Crash, coordVars, historyVars
<1>2. PendingPeers' = PendingPeers
  BY <1>1 DEF PendingPeers
<1>3. \A p \in Peers : p # q => /\ peer'[p] = peer[p] /\ inbox'[p] = inbox[p]
                                /\ outbox'[p] = outbox[p]
                                /\ p \in backlog' => p \in backlog
  BY <1>0 DEF Peer, WorkerLoop, Connect, ReceiveAck, ReceiveAssign, SendResult, Return, Leave,
              ReportError, Crash, Send, Receive
<1>4. /\ \E m \in ToCoordinator : /\ m.type = "Error" => m.worker_id = granted[q]
                                  /\ outbox'[q] = Append(outbox[q], m)
      \/ outbox'[q] = outbox[q]
      \/ outbox'[q] = <<>>
  <2>1. CASE Connect(q)
    BY <1>0, <2>1, MessageTypes DEF Connect, Send, Register, JoinRequest
  <2>2. CASE SendResult(q)
    <3>1. task[q] \in Assignments
      BY <2>2 DEF SendResult, TypeInv, TypeOK, PeerTypes
    <3>2. PartitionResult(task[q].round, task[q].partition) \in ToCoordinator
      BY <3>1, MessageTypes DEF Assignments
    <3> QED
      BY <1>0, <2>2, <3>2 DEF SendResult, Send, PartitionResult
  <2>3. CASE Leave(q) \/ ReportError(q)
    <3>1. granted[q] \in Int
      BY <1>0
    <3> QED
      BY <1>0, <2>3, <3>1, MessageTypes DEF Leave, ReportError, Send, LeaveRequest, Error
  <2>4. CASE ReceiveAck(q) \/ ReceiveAssign(q) \/ Return(q) \/ Crash(q)
    BY <1>0, <2>4 DEF ReceiveAck, ReceiveAssign, Return, Crash
  <2> QED
    BY <2>1, <2>2, <2>3, <2>4 DEF Peer, WorkerLoop
<1>5. ASSUME NEW p \in Peers PROVE Honest(outbox'[p], granted'[p])
  <2>1. Honest(outbox[p], granted[p])
    BY DEF ErrorHonest, Honest
  <2>2. CASE p # q
    BY <1>1, <1>3, <2>1, <2>2
  <2>3. CASE p = q
    <3>1. outbox[q] \in Seq(ToCoordinator) /\ Honest(outbox[q], granted[q])
      BY <1>0, <2>1, <2>3
    <3>2. Honest(outbox'[q], granted[q])
      <4>1. ASSUME NEW m \in ToCoordinator, m.type = "Error" => m.worker_id = granted[q],
                   outbox'[q] = Append(outbox[q], m)
            PROVE  Honest(outbox'[q], granted[q])
        BY ONLY <3>1, <4>1, HonestChannel
      <4>2. CASE outbox'[q] = <<>>
        BY <4>2 DEF Honest
      <4> QED
        BY <1>4, <3>1, <4>1, <4>2
    <3> QED
      BY <1>1, <2>3, <3>2
  <2> QED
    BY <2>2, <2>3
<1>6. ASSUME peer'[q] = "out" \/ q \in backlog' \/ q \in PendingPeers'
      PROVE  Fresh(q)'
  <2>1. CASE Connect(q)
    <3>1. /\ Fresh(q) /\ peer'[q] = "waiting" /\ inbox'[q] = inbox[q]
          /\ outbox'[q] = Append(outbox[q], IF q \in Joiners THEN JoinRequest ELSE Register)
      BY <1>0, <2>1 DEF Connect, Send, Unadmitted
    <3>2. \E m \in ToCoordinator : /\ m.type \notin {"PartitionResult", "Error"}
                                   /\ outbox'[q] = Append(outbox[q], m)
      BY <3>1, MessageTypes DEF Register, JoinRequest
    <3>3. ~Has(outbox'[q], "PartitionResult") /\ ~Has(outbox'[q], "Error")
      BY <1>0, <3>1, <3>2, AppendKind DEF Fresh
    <3> QED
      BY <3>1, <3>3 DEF Fresh
  <2>2. CASE Return(q) \/ Crash(q)
    <3>1. /\ peer'[q] = "gone" /\ inbox'[q] = <<>> /\ backlog' = backlog
          /\ outbox'[q] = outbox[q] \/ outbox'[q] = <<>>
      BY <1>0, <2>2 DEF Return, Crash
    <3>2. Fresh(q)
      BY <1>2, <1>6, <3>1 DEF Unadmitted
    <3> QED
      BY <3>1, <3>2, EmptyChannel DEF Fresh
  <2>3. CASE ReceiveAck(q) \/ ReceiveAssign(q) \/ SendResult(q) \/ Leave(q) \/ ReportError(q)
    <3>1. peer'[q] # "out" /\ backlog' = backlog /\ peer[q] # "out"
      BY <1>0, <2>3 DEF ReceiveAck, ReceiveAssign, SendResult, Leave, ReportError
    <3>2. Fresh(q)
      BY <1>2, <1>6, <3>1 DEF Unadmitted
    <3>3. inbox[q] # <<>> \/ peer[q] \in {"idle", "reducing"}
      BY <2>3 DEF ReceiveAck, ReceiveAssign, SendResult, Leave, ReportError, Heads
    <3> QED
      BY <3>2, <3>3 DEF Fresh
  <2> QED
    BY <2>1, <2>2, <2>3 DEF Peer, WorkerLoop
<1>7. ASSUME NEW p \in Peers, p # q, peer'[p] = "out" \/ p \in backlog' \/ p \in PendingPeers'
      PROVE  Fresh(p)'
  <2>1. Fresh(p)
    BY <1>2, <1>3, <1>7 DEF Unadmitted
  <2> QED
    BY <1>3, <1>7, <2>1 DEF Fresh
<1> QED
  BY <1>5, <1>6, <1>7 DEF Unadmitted, ErrorHonest, Honest

(* At the head of the loop nobody has work, so Dispatch gives everybody    *)
(* exactly one piece of it: its slot of the plan.                          *)
LEMMA DispatchWork ==
    ASSUME TypeInv, IdentityInv, WorkInv, RoundInv, NEW sigma \in [net -> Slots],
           Dispatch(sigma)
    PROVE  /\ \A p \in Peers : OneWork(p)'
           /\ \A i \in DOMAIN worker_streams :
                 Carries(worker_streams[i], rounds, plan[SlotOf(i)])'
<1>0. UNCHANGED <<rounds, cfg, worker_streams>>
  BY DEF Dispatch, loopVars
<1>1. ASSUME NEW p \in Peers, p \notin ActivePeers
      PROVE  OneWork(p)'
  <2>1. OneWork(p) /\ Quiet(p)
    BY <1>1, Dispatched DEF WorkInv, Quiet
  <2> QED
    BY <2>1, QuietConserves DEF Conserves
<1>2. ASSUME NEW i \in DOMAIN worker_streams, NEW p, p = worker_streams[i], NEW part,
             part = plan'[SlotOf(i)], NEW round, round = rounds
      PROVE  /\ OneWork(p)'
             /\ Carries(p, round, part)'
  <2> DEFINE m == AssignPartition(round, part)
  <2>1. p \in Peers /\ p \in ActivePeers
    BY <1>2, IndexOfStream
  <2>2. ~HasAssignment(p) /\ OneWork(p)
    BY <2>1 DEF WorkInv, RoundInv, Dispatch, Continues
  <2>3. /\ inbox'[p] = Append(inbox[p], m) /\ m \in ToWorker
        /\ peer'[p] = peer[p] /\ outbox'[p] = outbox[p] /\ inbox[p] \in Seq(ToWorker)
    BY <1>2, <2>1, Dispatched DEF TypeInv, TypeOK, WireTypes
  <2> HIDE DEF m
  <2>5. /\ ~Has(inbox[p], "AssignPartition") =>
             /\ AtMostOne(inbox'[p], "AssignPartition")
             /\ AllAre(inbox'[p], "AssignPartition", m)
    <3>1. ~Has(inbox[p], "AssignPartition") => AllAre(inbox[p], "AssignPartition", m)
      BY DEF Has, AllAre
    <3> QED
      BY <2>3, <3>1, AppendKind, AppendAll
  <2>6. peer[p] # "reducing" /\ ~OutWork(p) /\ ~InWork(p)
    BY <2>2, WorkParts
  <2>7. OneWork(p)'
    BY <2>2, <2>3, <2>5, <2>6 DEF OneWork, InWork, OutWork
  <2>8. AllAre(outbox'[p], "PartitionResult", PartitionResult(round, part))
    BY <2>3, <2>6 DEF OutWork, Has, AllAre
  <2>9. Carries(p, round, part)'
    BY <2>3, <2>5, <2>6, <2>8 DEF Carries, InWork, m
  <2> QED
    BY <2>7, <2>9
<1>3. ASSUME NEW i \in DOMAIN worker_streams
      PROVE  Carries(worker_streams[i], rounds, plan[SlotOf(i)])'
  <2>1. SlotOf(i)' = SlotOf(i)
    BY <1>0 DEF SlotOf, Offset
  <2>2. PICK p, part, round : p = worker_streams[i] /\ part = plan'[SlotOf(i)] /\ round = rounds
    OBVIOUS
  <2>3. Carries(p, round, part)'
    BY <1>2, <2>2
  <2>4. worker_streams'[i] = p /\ rounds' = round /\ (plan[SlotOf(i)])' = part
    BY <1>0, <2>1, <2>2
  <2> QED
    BY <2>3, <2>4 DEF Carries
<1> QED
  BY <1>0, <1>1, <1>2, <1>3 DEF ActivePeers

(* Every step keeps the facts about work.                                  *)
LEMMA WorkStep ==
    ASSUME TypeInv, IdentityInv, WorkInv, RoundInv, [Next]_vars
    PROVE  WorkInv'
<1>1. \A p \in Peers : OneWork(p)'
  <2>1. CASE \E sigma \in [net -> Slots] : Dispatch(sigma)
    BY <2>1, DispatchWork
  <2>2. CASE ~ \E sigma \in [net -> Slots] : Dispatch(sigma)
    BY <2>2, NoNewWork DEF Conserves, WorkInv
  <2> QED
    BY <2>1, <2>2
<1>2. Unadmitted' /\ ErrorHonest'
  <2>1. CASE UNCHANGED vars \/ SelfWorker
    BY <2>1 DEF vars, coordVars, wireVars, peerVars, historyVars, WorkInv, Unadmitted,
                ErrorHonest, Fresh, PendingPeers, SelfWorker, SelfReduced, SelfFlush
  <2> QED
    BY <2>1, CoordinatorWork, PeerWork DEF WorkInv, Next
<1> QED
  BY <1>1, <1>2 DEF WorkInv

-----------------------------------------------------------------------------
(***************************************************************************)
(* The rounds.  What a step leaves alone, by the phase it is taken in.     *)
(***************************************************************************)
(* Where the round's vectors stay and nothing new is assigned, streams     *)
(* keep carrying their slot and stay settled.                              *)
LEMMA StillSettled ==
    ASSUME TypeInv, \A p \in Peers : Conserves(p),
           UNCHANGED <<cfg, worker_streams, worker_ids, rounds, plan>>,
           collected \subseteq collected', departing \subseteq departing',
           NEW i \in DOMAIN worker_streams
    PROVE  /\ Carries(worker_streams[i], rounds, plan[SlotOf(i)]) =>
                 Carries(worker_streams[i], rounds, plan[SlotOf(i)])'
           /\ HasAssignment(worker_streams[i])' => HasAssignment(worker_streams[i])
           /\ Settled(i) => Settled(i)'
<1>1. SlotOf(i)' = SlotOf(i)
  BY DEF SlotOf, Offset
<1>2. PICK p, part, round : p = worker_streams[i] /\ part = plan[SlotOf(i)] /\ round = rounds
  OBVIOUS
<1>3. worker_streams'[i] = p /\ rounds' = round /\ (plan[SlotOf(i)])' = part
  BY <1>1, <1>2
<1>4. p \in Peers
  BY <1>2 DEF TypeInv, TypeOK, CoordinatorTypes
<1>5. /\ Carries(p, round, part) => Carries(p, round, part)'
      /\ HasAssignment(p)' => HasAssignment(p)
  BY <1>4 DEF Conserves
<1>6. HasAssignment(worker_streams[i])' => HasAssignment(worker_streams[i])
  BY <1>2, <1>3, <1>5 DEF HasAssignment
<1>7. Carries(worker_streams[i], rounds, plan[SlotOf(i)]) =>
         Carries(worker_streams[i], rounds, plan[SlotOf(i)])'
  BY <1>2, <1>3, <1>5 DEF Carries
<1>8. Settled(i) => Settled(i)'
  BY <1>2, <1>3, <1>6 DEF Settled
<1> QED
  BY <1>6, <1>7, <1>8

(* A step that stays in its phase and touches neither vectors nor cursor.  *)
LEMMA RoundSame ==
    ASSUME TypeInv, RoundInv, \A p \in Peers : Conserves(p),
           UNCHANGED <<cfg, phase, worker_streams, worker_ids, rounds, plan, cursor,
                       collected, departing>>
    PROVE  RoundInv'
<1>1. \A p \in ActivePeers : p \in Peers
  BY DEF ActivePeers, TypeInv, TypeOK, CoordinatorTypes
<1>2. ActivePeers' = ActivePeers
  BY DEF ActivePeers
<1>3. (phase \in {"accept", "loop", "merge", "join"} =>
          \A p \in ActivePeers : ~HasAssignment(p))'
  BY <1>1, <1>2 DEF RoundInv, Conserves
<1>4. phase = "peek" => cursor \in DOMAIN worker_streams
  BY DEF TypeInv, TypeOK, CoordinatorTypes, RoundTypes, VectorsParallel
<1>5. (phase = "peek" =>
          ~HasAssignment(worker_streams[cursor]) /\ plan[SlotOf(cursor)] \in collected)'
  <2> SUFFICES ASSUME phase = "peek"
               PROVE  /\ ~HasAssignment(worker_streams[cursor])'
                      /\ (plan[SlotOf(cursor)])' \in collected'
    OBVIOUS
  <2>1. PICK i : i = cursor
    OBVIOUS
  <2>2. ~HasAssignment(worker_streams[i])' /\ cursor' = i
    BY <1>4, <2>1, StillSettled DEF RoundInv
  <2>3. SlotOf(cursor)' = SlotOf(cursor)
    BY DEF SlotOf, Offset
  <2> QED
    BY <2>1, <2>2, <2>3 DEF RoundInv, HasAssignment
<1>6. (phase = "prune" => \A i \in DOMAIN worker_streams :
          worker_ids[i] \in departing \/ ~HasAssignment(worker_streams[i]))'
  BY StillSettled DEF RoundInv
<1>7. (Collects => \A i \in DOMAIN worker_streams :
          Carries(worker_streams[i], rounds, plan[SlotOf(i)]))'
  BY StillSettled DEF RoundInv, Collects
<1>8. (Collects => \A i \in DOMAIN worker_streams : i < cursor => Settled(i))'
  BY StillSettled DEF RoundInv, Collects
<1>9. (phase = "collect" /\ cfg.hybrid_coordinator /\ cursor > Len(worker_streams) + 1 =>
          plan[0] \in collected \/ 0 \in departing)'
  BY DEF RoundInv
<1> QED
  BY <1>3, <1>5, <1>6, <1>7, <1>8, <1>9 DEF RoundInv

(* Nothing is asked of a run that is over or solo.                         *)
LEMMA RoundOver ==
    ASSUME phase' \in {"ok", "err", "solo"}
    PROVE  RoundInv'
BY DEF RoundInv, Collects

(* A step that ends in a phase between rounds.                             *)
LEMMA RoundIdle ==
    ASSUME phase' \in {"accept", "loop", "merge", "join"},
           \A p \in Peers : Conserves(p),
           \A p \in ActivePeers' : p \in Peers /\ ~HasAssignment(p)
    PROVE  RoundInv'
<1>1. \A p \in ActivePeers' : ~HasAssignment(p)'
  BY DEF Conserves
<1> QED
  BY <1>1 DEF RoundInv, Collects

(* A step that moves the cursor past a stream it has settled, or past the  *)
(* self-worker.                                                            *)
LEMMA RoundMovesOn ==
    ASSUME TypeInv, RoundInv, \A p \in Peers : Conserves(p), Collects, phase' = "collect",
           UNCHANGED <<cfg, worker_streams, worker_ids, rounds, plan>>,
           collected \subseteq collected', departing \subseteq departing',
           cursor' = cursor + 1, NEW c, c = cursor,
           c \in DOMAIN worker_streams => Settled(c)',
           cursor > Len(worker_streams) /\ cfg.hybrid_coordinator =>
              plan[0] \in collected' \/ 0 \in departing'
    PROVE  RoundInv'
<1>1. /\ cursor \in Nat /\ Len(worker_streams) \in Nat
      /\ DOMAIN worker_streams = 1 .. Len(worker_streams)
  BY DEF TypeInv, TypeOK, CoordinatorTypes, RoundTypes
<1>2. ASSUME NEW i \in DOMAIN worker_streams, i < cursor'
      PROVE  Settled(i)'
  <2>1. CASE i < cursor
    BY <2>1, StillSettled DEF RoundInv
  <2>2. CASE i = cursor
    BY <2>2
  <2> QED
    BY <1>1, <1>2, <2>1, <2>2
<1>3. \A i \in DOMAIN worker_streams' : Carries(worker_streams[i], rounds, plan[SlotOf(i)])'
  BY StillSettled DEF RoundInv
<1>4. cfg.hybrid_coordinator /\ cursor' > Len(worker_streams') + 1 =>
         plan'[0] \in collected' \/ 0 \in departing'
  BY <1>1
<1> QED
  BY <1>2, <1>3, <1>4 DEF RoundInv, Collects

(* The collect loop, at a stream: the index is in both vectors.            *)
LEMMA PolledIndex ==
    ASSUME TypeInv, phase = "peek" \/ Polling
    PROVE  /\ cursor \in DOMAIN worker_streams /\ cursor \in DOMAIN worker_ids
           /\ cursor \in Nat /\ cursor <= Len(worker_streams) /\ Collects
           /\ Polled \in Peers
BY PolledType DEF TypeInv, TypeOK, CoordinatorTypes, RoundTypes, VectorsParallel, Polling,
                  Collects

(* The result that is read is the one that was asked for: the round check  *)
(* passes, the partition is the slot's, and the worker is left idle.       *)
LEMMA ResultCollected ==
    ASSUME TypeInv, IdentityInv, WorkInv, RoundInv, CollectResult, NEW p, p = Polled
    PROVE  /\ phase' = "peek"
           /\ collected' = collected \cup {plan[SlotOf(cursor)]}
           /\ UNCHANGED <<cfg, worker_streams, worker_ids, rounds, plan, cursor, departing,
                          withheld, net, promised>>
           /\ ~HasAssignment(p)'
<1>1. Polling /\ Heads(outbox, p, "PartitionResult") /\ outbox' = Receive(outbox, p)
  BY DEF CollectResult
<1>2. p \in Peers /\ cursor \in DOMAIN worker_streams /\ Collects /\ p = worker_streams[cursor]
  BY <1>1, PolledIndex DEF Polled
<1>3. /\ outbox[p] \in Seq(ToCoordinator) /\ outbox[p] # <<>>
      /\ Head(outbox[p]).type = "PartitionResult" /\ outbox'[p] = Tail(outbox[p])
  BY <1>1, <1>2 DEF Heads, Receive, TypeInv, TypeOK, WireTypes
<1>4. Carries(p, rounds, plan[SlotOf(cursor)]) /\ OneWork(p)
  BY <1>2 DEF RoundInv, WorkInv
<1>5. Head(outbox[p]) = PartitionResult(rounds, plan[SlotOf(cursor)])
  BY <1>3, <1>4, TailAll DEF Carries
<1>6. Head(outbox[p]).round = rounds /\ Head(outbox[p]).partition = plan[SlotOf(cursor)]
  BY <1>5 DEF PartitionResult
<1>7. OutWork(p) /\ ~Has(outbox'[p], "PartitionResult")
  BY <1>3, <1>4, TailKind DEF OneWork, OutWork
<1>8. peer'[p] = peer[p] /\ inbox'[p] = inbox[p]
  BY DEF CollectResult, peerVars
<1>9. ~HasAssignment(p)'
  BY <1>4, <1>7, <1>8, WorkParts DEF OneWork, InWork, OutWork
<1>10. phase' = "peek" /\ collected' = collected \cup {plan[SlotOf(cursor)]}
  BY <1>6 DEF CollectResult
<1> QED
  BY <1>9, <1>10 DEF CollectResult, loopVars, historyVars

(* Whatever way the polled worker is lost, it is lost under its own id.    *)
LEMMA LostUnderItsId ==
    ASSUME TypeInv, IdentityInv, WorkInv, CollectError \/ CollectBroken \/ CollectTimeout
    PROVE  Polling /\ Lose(worker_ids[cursor])
<1>1. CASE CollectError
  <2>1. Polling /\ Heads(outbox, Polled, "Error")
    BY <1>1 DEF CollectError
  <2>2. Polled \in Peers /\ cursor \in DOMAIN worker_streams
    BY <2>1, PolledIndex
  <2>3. outbox[Polled] \in Seq(ToCoordinator) /\ outbox[Polled] # <<>>
    BY <2>1, <2>2 DEF Heads, TypeInv, TypeOK, WireTypes
  <2>4. 1 \in DOMAIN outbox[Polled] /\ Head(outbox[Polled]) = outbox[Polled][1]
    BY <2>3
  <2>5. Head(outbox[Polled]).worker_id = granted[Polled]
    BY <2>1, <2>2, <2>4 DEF Heads, WorkInv, ErrorHonest
  <2>6. worker_ids[cursor] = granted[Polled]
    BY <2>2 DEF IdentityInv, IdentityTravelsWithStream, Polled
  <2> QED
    BY <1>1, <2>1, <2>5, <2>6 DEF CollectError
<1>2. CASE CollectBroken \/ CollectTimeout
  BY <1>2 DEF CollectBroken, CollectTimeout
<1> QED
  BY <1>1, <1>2

(* Pruning keeps the other streams with their ids.                         *)
LEMMA Pruned ==
    ASSUME TypeInv, NEW i \in DOMAIN worker_ids, Prune(i), NEW k \in DOMAIN worker_streams'
    PROVE  \E j \in DOMAIN worker_streams : /\ worker_streams'[k] = worker_streams[j]
                                            /\ worker_ids'[k] = worker_ids[j]
<1> DEFINE n == Len(worker_streams)
<1>1. /\ worker_streams \in Seq(Peers) /\ worker_ids \in Seq(Nat) /\ Len(worker_ids) = n
      /\ n \in Nat /\ DOMAIN worker_streams = 1 .. n /\ DOMAIN worker_ids = 1 .. n
  BY DEF TypeInv, TypeOK, CoordinatorTypes, VectorsParallel
<1>2. i \in 1 .. n
  BY <1>1
<1>3. /\ Len(worker_streams') = n - 1 /\ worker_streams' \in Seq(Peers)
      /\ \A l \in 1 .. n - 1 : worker_streams'[l] = worker_streams[IF l = i THEN n ELSE l]
  BY <1>1, <1>2, SwapRemove DEF Prune
<1>4. i \in 1 .. Len(worker_ids)
  BY <1>1, <1>2
<1>5. \A l \in 1 .. Len(worker_ids) - 1 :
         worker_ids'[l] = IF l = i THEN worker_ids[Len(worker_ids)] ELSE worker_ids[l]
  BY <1>1, <1>4, SwapRemove DEF Prune
<1>6. k \in 1 .. n - 1
  BY <1>3
<1>7. \A l \in 1 .. n - 1 : worker_ids'[l] = worker_ids[IF l = i THEN n ELSE l]
  BY <1>1, <1>5
<1>8. (IF k = i THEN n ELSE k) \in DOMAIN worker_streams
  BY <1>1, <1>2, <1>6
<1> QED
  BY <1>3, <1>6, <1>7, <1>8

(* A peer that waits has no work.                                          *)
LEMMA WaitingIdle ==
    ASSUME WorkInv, NEW p \in Peers, p \in backlog \/ p \in PendingPeers
    PROVE  ~HasAssignment(p)
<1>1. Fresh(p)
  BY DEF WorkInv, Unadmitted
<1>2. ~InWork(p) /\ ~OutWork(p) /\ peer[p] # "reducing"
  BY <1>1, EmptyChannel DEF Fresh, InWork, OutWork
<1> QED
  BY <1>2, WorkParts

-----------------------------------------------------------------------------
(* One step per action; Dispatch begins the round, the collect steps move  *)
(* through it, and DrainEnd ends it with every stream settled.             *)
LEMMA RoundStep ==
    ASSUME TypeInv, IdentityInv, WorkInv, RoundInv, [Next]_vars
    PROVE  RoundInv'
<1>1. ASSUME NEW sigma \in [net -> Slots], Dispatch(sigma) PROVE RoundInv'
  <2>1. phase' = "collect" /\ cursor' = 1 /\ worker_streams' = worker_streams
    BY <1>1 DEF Dispatch
  <2>2. Len(worker_streams) \in Nat /\ DOMAIN worker_streams = 1 .. Len(worker_streams)
    BY DEF TypeInv, TypeOK, CoordinatorTypes
  <2>3. \A i \in DOMAIN worker_streams' : Carries(worker_streams[i], rounds, plan[SlotOf(i)])'
    BY <1>1, <2>1, DispatchWork
  <2>4. ~ cursor' > Len(worker_streams') + 1 /\ \A i \in DOMAIN worker_streams' : ~ i < cursor'
    BY <2>1, <2>2
  <2> QED
    BY <2>1, <2>3, <2>4 DEF RoundInv, Collects
<1> SUFFICES ASSUME ~ \E sigma \in [net -> Slots] : Dispatch(sigma)
             PROVE  RoundInv'
  BY <1>1
<1>2. \A p \in Peers : Conserves(p)
  BY NoNewWork
<1>3. \A p \in ActivePeers : p \in Peers
  BY DEF ActivePeers, TypeInv, TypeOK, CoordinatorTypes
<1>4. CASE UNCHANGED vars \/ SelfWorker \/ \E p \in Peers : Peer(p)
  BY <1>2, <1>4, RoundSame
     DEF vars, coordVars, loopVars, roundVars, Peer, WorkerLoop, Connect, ReceiveAck,
         ReceiveAssign, SendResult, Return, Leave, ReportError, Crash,
         SelfWorker, SelfReduced, SelfFlush
<1>5. ASSUME NEW p \in Peers,
             \/ AcceptReject(p) \/ SoloAccept(p) \/ DrainAccept(p)
             \/ JoinLost(p) \/ JoinExhausted(p) \/ JoinDropped(p)
      PROVE  RoundInv'
  BY <1>2, <1>5, RoundSame
     DEF coordVars, loopVars, roundVars, AcceptReject, SoloAccept, DrainAccept, JoinLost,
         JoinExhausted, JoinDropped
<1>6. CASE \/ AcceptFail \/ Finish \/ NoWorkers \/ SoloFinish \/ DispatchFail
           \/ SelfWorkerPanicked
  BY <1>6, RoundOver DEF AcceptFail, Finish, NoWorkers, SoloFinish, DispatchFail,
                         SelfWorkerPanicked
<1>7. ASSUME NEW p \in Peers, AcceptWorker(p) \/ Join(p) PROVE RoundInv'
  <2>1. /\ p \in backlog \/ p \in PendingPeers
        /\ phase' \in {"accept", "join"} /\ phase' = phase
        /\ worker_streams' = Append(worker_streams, p)
    BY <1>7, TakenWaited DEF AcceptWorker, Join, Taken
  <2>2. ActivePeers' = ActivePeers \cup {p}
    BY <2>1, PushElements, PeersAsElements DEF TypeInv, TypeOK, CoordinatorTypes
  <2>3. ~HasAssignment(p)
    BY <2>1, WaitingIdle
  <2> QED
    BY <1>2, <1>3, <2>1, <2>2, <2>3, RoundIdle DEF RoundInv
<1>8. CASE AcceptDone \/ JoinClose \/ \E remain \in BOOLEAN : Merge(remain)
  <2>1. /\ worker_streams' = worker_streams /\ phase \in {"accept", "join", "merge"}
        /\ phase' \in {"join", "loop"}
    BY <1>8 DEF AcceptDone, JoinClose, Merge
  <2>2. ActivePeers' = ActivePeers
    BY <2>1 DEF ActivePeers
  <2> QED
    BY <1>2, <1>3, <2>1, <2>2, RoundIdle DEF RoundInv
<1>9. CASE CollectResult
  <2>1. PICK p, c : p = Polled /\ c = cursor
    OBVIOUS
  <2>2. /\ phase' = "peek" /\ collected' = collected \cup {plan[SlotOf(cursor)]}
        /\ UNCHANGED <<cfg, worker_streams, worker_ids, rounds, plan, cursor, departing>>
        /\ ~HasAssignment(p)'
    BY <1>9, <2>1, ResultCollected
  <2>3. Collects /\ c \in DOMAIN worker_streams
    BY <1>9, <2>1, PolledIndex DEF CollectResult
  <2>4. \A i \in DOMAIN worker_streams' :
           /\ Carries(worker_streams[i], rounds, plan[SlotOf(i)])'
           /\ i < cursor' => Settled(i)'
    BY <1>2, <2>2, <2>3, StillSettled DEF RoundInv
  <2>5. worker_streams'[cursor'] = p /\ SlotOf(cursor)' = SlotOf(cursor)
    BY <2>1, <2>2 DEF Polled, SlotOf, Offset
  <2>6. (plan[SlotOf(cursor)])' \in collected' /\ ~HasAssignment(worker_streams[cursor])'
    BY <2>2, <2>5 DEF HasAssignment
  <2> QED
    BY <2>2, <2>4, <2>6 DEF RoundInv, Collects
<1>10. CASE PeekLeave \/ PeekNothing
  <2>1. PICK c : c = cursor
    OBVIOUS
  <2>2. /\ phase = "peek" /\ phase' = "collect" /\ cursor' = cursor + 1
        /\ UNCHANGED <<cfg, worker_streams, worker_ids, rounds, plan>>
        /\ collected \subseteq collected' /\ departing \subseteq departing'
    BY <1>10 DEF PeekLeave, PeekNothing, loopVars
  <2>3. Collects /\ c \in DOMAIN worker_streams /\ ~ cursor > Len(worker_streams)
    BY <2>1, <2>2, PolledIndex
  <2>4. Settled(c)
    BY <2>1, <2>2 DEF RoundInv, Settled
  <2>5. Settled(c)'
    BY <1>2, <2>2, <2>3, <2>4, StillSettled
  <2> QED
    BY <1>2, <2>1, <2>2, <2>3, <2>5, RoundMovesOn
<1>11. CASE CollectLeave
  <2>1. PICK c : c = cursor
    OBVIOUS
  <2>2. /\ Polling /\ phase' = "collect" /\ cursor' = cursor + 1
        /\ UNCHANGED <<cfg, worker_streams, worker_ids, rounds, plan>>
        /\ collected \subseteq collected' /\ departing \subseteq departing'
        /\ worker_ids[cursor] \in departing'
    BY <1>11 DEF CollectLeave, Polling, loopVars
  <2>3. Collects /\ c \in DOMAIN worker_streams /\ ~ cursor > Len(worker_streams)
    BY <2>1, <2>2, PolledIndex
  <2>4. Settled(c)'
    BY <2>1, <2>2 DEF Settled
  <2> QED
    BY <1>2, <2>1, <2>2, <2>3, <2>4, RoundMovesOn
<1>12. CASE CollectError \/ CollectBroken \/ CollectTimeout
  <2>1. PICK c : c = cursor
    OBVIOUS
  <2>2. Polling /\ Lose(worker_ids[cursor])
    BY <1>12, LostUnderItsId
  <2>3. CASE cfg.elastic_departure
    <3>1. /\ phase' = "collect" /\ cursor' = cursor + 1
          /\ UNCHANGED <<cfg, worker_streams, worker_ids, rounds, plan>>
          /\ collected \subseteq collected' /\ departing \subseteq departing'
          /\ worker_ids[cursor] \in departing'
      BY <2>2, <2>3 DEF Lose, Polling, loopVars
    <3>2. Collects /\ c \in DOMAIN worker_streams /\ ~ cursor > Len(worker_streams)
      BY <2>1, <2>2, PolledIndex
    <3>3. Settled(c)'
      BY <2>1, <3>1 DEF Settled
    <3> QED
      BY <1>2, <2>1, <3>1, <3>2, <3>3, RoundMovesOn
  <2>4. CASE ~cfg.elastic_departure
    BY <2>2, <2>4, RoundOver DEF Lose
  <2> QED
    BY <2>3, <2>4
<1>13. CASE CollectSelf \/ CollectSelfTimeout
  <2>1. PICK c : c = cursor
    OBVIOUS
  <2>2. PollingSelf /\ Collects /\ c \notin DOMAIN worker_streams
    BY <1>13, <2>1 DEF CollectSelf, CollectSelfTimeout, PollingSelf, Collects, TypeInv, TypeOK,
                       CoordinatorTypes
  <2>3. \/ phase' = "err"
        \/ /\ phase' = "collect" /\ cursor' = cursor + 1
           /\ UNCHANGED <<cfg, worker_streams, worker_ids, rounds, plan>>
           /\ collected \subseteq collected' /\ departing \subseteq departing'
           /\ plan[0] \in collected' \/ 0 \in departing'
    BY <1>13 DEF CollectSelf, CollectSelfTimeout, PollingSelf, Lose, coordVars, loopVars
  <2> QED
    BY <1>2, <2>1, <2>2, <2>3, RoundMovesOn, RoundOver
<1>14. CASE DrainEnd
  <2>1. /\ phase = "collect" /\ cursor > k_eff /\ phase' = "prune"
        /\ UNCHANGED <<cfg, worker_streams, worker_ids, rounds, plan, collected, departing>>
    BY <1>14 DEF DrainEnd, CollectDone, loopVars, roundVars
  <2>2. \A i \in DOMAIN worker_streams : i < cursor
    BY <2>1 DEF k_eff, Offset, TypeInv, TypeOK, CoordinatorTypes, RoundTypes
  <2>3. \A i \in DOMAIN worker_streams' :
           worker_ids'[i] \in departing' \/ ~HasAssignment(worker_streams[i])'
    BY <1>2, <2>1, <2>2, StillSettled DEF RoundInv, Collects, Settled
  <2> QED
    BY <2>1, <2>3 DEF RoundInv, Collects
<1>15. ASSUME NEW i \in DOMAIN worker_ids, Prune(i) PROVE RoundInv'
  <2>1. phase = "prune" /\ phase' = "prune" /\ departing' = departing
    BY <1>15 DEF Prune, roundVars
  <2>2. ASSUME NEW k \in DOMAIN worker_streams'
        PROVE  worker_ids'[k] \in departing' \/ ~HasAssignment(worker_streams[k])'
    <3>1. PICK j \in DOMAIN worker_streams : /\ worker_streams'[k] = worker_streams[j]
                                             /\ worker_ids'[k] = worker_ids[j]
      BY <1>15, Pruned
    <3>2. PICK p : p = worker_streams[j]
      OBVIOUS
    <3>3. p \in Peers /\ (HasAssignment(p)' => HasAssignment(p))
      BY <1>2, <3>2 DEF Conserves, TypeInv, TypeOK, CoordinatorTypes
    <3>4. worker_ids[j] \in departing \/ ~HasAssignment(worker_streams[j])
      BY <2>1 DEF RoundInv
    <3> QED
      BY <2>1, <3>1, <3>2, <3>3, <3>4 DEF HasAssignment
  <2> QED
    BY <2>1, <2>2 DEF RoundInv, Collects
<1>16. CASE PruneDone
  <2>1. /\ phase = "prune" /\ phase' \in {"err", "merge"} /\ DepartedIndices = {}
        /\ worker_streams' = worker_streams
    BY <1>16 DEF PruneDone
  <2>2. DOMAIN worker_ids = DOMAIN worker_streams
    BY DEF TypeInv, TypeOK, CoordinatorTypes, VectorsParallel
  <2>3. \A i \in DOMAIN worker_streams : ~HasAssignment(worker_streams[i])
    BY <2>1, <2>2 DEF RoundInv, DepartedIndices
  <2>4. \A p \in ActivePeers' : p \in Peers /\ ~HasAssignment(p)
    BY <1>3, <2>1, <2>3 DEF ActivePeers
  <2> QED
    BY <1>2, <2>1, <2>4, RoundIdle, RoundOver
<1> QED
  BY <1>4, <1>5, <1>6, <1>7, <1>8, <1>9, <1>10, <1>11, <1>12, <1>13, <1>14, <1>15, <1>16
     DEF Next, Coordinator, Accepting, Collecting, Joining

-----------------------------------------------------------------------------
(***************************************************************************)
(* The net.                                                                *)
(***************************************************************************)

(* A step that leaves the round where it is.                               *)
LEMMA NetSame ==
    ASSUME NetInv,
           UNCHANGED <<cfg, phase, plan, cursor, collected, net, withheld>>,
           Collects => UNCHANGED worker_streams
    PROVE  NetInv'
<1>1. \A i : SlotOf(i)' = SlotOf(i)
  BY DEF SlotOf, Offset
<1> QED
  BY <1>1 DEF NetInv, Planned, Collects

(* A step to a phase in which no plan stands.                              *)
LEMMA NetIdle ==
    ASSUME phase' \notin {"collect", "peek", "prune", "merge"}, ~withheld' => net' = Atoms
    PROVE  NetInv'
BY DEF NetInv, Planned, Collects

(* A step that withholds: only the plan's numbering is left to keep.       *)
LEMMA NetWithheld ==
    ASSUME NetInv, withheld', Planned, UNCHANGED plan
    PROVE  NetInv'
BY DEF NetInv, Planned

(* One step per action that touches the net, the plan or the cursor.       *)
LEMMA NetStep ==
    ASSUME TypeInv, IdentityInv, WorkInv, RoundInv, NetInv, [Next]_vars
    PROVE  NetInv'
<1>0. /\ cursor \in Nat /\ Len(worker_streams) \in Nat
      /\ DOMAIN worker_streams = 1 .. Len(worker_streams)
  BY DEF TypeInv, TypeOK, CoordinatorTypes, RoundTypes
<1>1. CASE UNCHANGED vars \/ SelfWorker \/ \E p \in Peers : Peer(p)
  BY <1>1, NetSame
     DEF vars, coordVars, loopVars, roundVars, historyVars, Peer, WorkerLoop, Connect,
         ReceiveAck, ReceiveAssign, SendResult, Return, Leave, ReportError, Crash,
         SelfWorker, SelfReduced, SelfFlush
<1>2. ASSUME NEW p \in Peers,
             \/ AcceptReject(p) \/ SoloAccept(p) \/ DrainAccept(p)
             \/ JoinLost(p) \/ JoinExhausted(p) \/ JoinDropped(p)
      PROVE  NetInv'
  BY <1>2, NetSame
     DEF coordVars, loopVars, roundVars, historyVars, AcceptReject, SoloAccept, DrainAccept,
         JoinLost, JoinExhausted, JoinDropped
<1>3. CASE \/ AcceptFail \/ AcceptDone \/ Finish \/ NoWorkers \/ SoloFinish \/ DispatchFail
           \/ SelfWorkerPanicked \/ JoinClose
           \/ \E p \in Peers : AcceptWorker(p) \/ Join(p)
  <2>1. /\ UNCHANGED <<net, withheld>>
        /\ phase' \notin {"collect", "peek", "prune", "merge"}
    BY <1>3 DEF AcceptFail, AcceptDone, Finish, NoWorkers, SoloFinish, DispatchFail,
                SelfWorkerPanicked, JoinClose, AcceptWorker, Join, Taken, loopVars, historyVars
  <2> QED
    BY <2>1, NetIdle DEF NetInv
<1>4. ASSUME NEW sigma \in [net -> Slots], Dispatch(sigma) PROVE NetInv'
  <2>1. /\ plan' = [s \in Slots |-> PartitionOf(sigma, s)]
        /\ phase' = "collect" /\ cursor' = 1 /\ UNCHANGED <<net, withheld, worker_streams>>
    BY <1>4 DEF Dispatch, loopVars
  <2>2. /\ DOMAIN plan' = Slots
        /\ \A s \in Slots : plan'[s].worker_id = s /\ plan'[s].share = {a \in net : sigma[a] = s}
    BY <2>1 DEF PartitionOf
  <2>3. ASSUME net = Atoms, NEW a \in Atoms
        PROVE  \E s \in DOMAIN plan' : a \in plan'[s].share
    <3>1. sigma[a] \in Slots
      BY <2>3
    <3> QED
      BY <2>2, <2>3, <3>1
  <2>4. ~ cursor' > Len(worker_streams') + 1 /\ \A i \in DOMAIN worker_streams' : ~ i < cursor'
    BY <1>0, <2>1
  <2> QED
    BY <2>1, <2>2, <2>3, <2>4 DEF NetInv, Planned, Collects
<1>5. CASE CollectResult
  <2>1. /\ phase' = "peek" /\ collected' = collected \cup {plan[SlotOf(cursor)]}
        /\ UNCHANGED <<cfg, worker_streams, plan, cursor, withheld, net>>
    <3>1. PICK p : p = Polled
      OBVIOUS
    <3> QED
      BY <1>5, <3>1, ResultCollected
  <2>2. phase = "collect" /\ Planned /\ Collects
    BY <1>5 DEF CollectResult, Polling, Planned, Collects
  <2>3. \A i : SlotOf(i)' = SlotOf(i)
    BY <2>1 DEF SlotOf, Offset
  <2> QED
    BY <2>1, <2>2, <2>3 DEF NetInv, Planned, Collects
<1>6. CASE PeekLeave \/ PeekNothing
  <2>1. /\ phase = "peek" /\ phase' = "collect" /\ cursor' = cursor + 1
        /\ UNCHANGED <<cfg, worker_streams, plan, collected, withheld, net>>
    BY <1>6 DEF PeekLeave, PeekNothing, loopVars, historyVars
  <2>2. Planned /\ Collects /\ cursor <= Len(worker_streams)
    BY <2>1, PolledIndex DEF Planned
  <2>3. \A i : SlotOf(i)' = SlotOf(i)
    BY <2>1 DEF SlotOf, Offset
  <2>4. plan[SlotOf(cursor)] \in collected
    BY <2>1 DEF RoundInv
  <2>5. \A i \in DOMAIN worker_streams : i < cursor' => i < cursor \/ i = cursor
    BY <1>0, <2>1
  <2>6. ~ cursor' > Len(worker_streams') + 1
    BY <1>0, <2>1, <2>2
  <2> QED
    BY <2>1, <2>2, <2>3, <2>4, <2>5, <2>6 DEF NetInv, Planned, Collects
<1>7. CASE CollectLeave \/ CollectError \/ CollectBroken \/ CollectTimeout \/ CollectSelfTimeout
  <2>1. /\ phase = "collect" /\ UNCHANGED <<plan, net>>
        /\ withheld' \/ (phase' = "err" /\ UNCHANGED withheld)
    BY <1>7 DEF CollectLeave, CollectError, CollectBroken, CollectTimeout, CollectSelfTimeout,
                Lose, Polling, PollingSelf, loopVars
  <2> QED
    BY <2>1, NetWithheld, NetIdle DEF NetInv, Planned
<1>8. CASE CollectSelf
  <2>1. /\ phase = "collect" /\ phase' = phase /\ cursor = Len(worker_streams) + 1
        /\ cursor' = cursor + 1 /\ collected' = collected \cup {plan[0]}
        /\ UNCHANGED <<cfg, worker_streams, plan, withheld, net>>
    BY <1>8 DEF CollectSelf, PollingSelf, coordVars, loopVars, historyVars
  <2>2. \A i : SlotOf(i)' = SlotOf(i)
    BY <2>1 DEF SlotOf, Offset
  <2>3. \A i \in DOMAIN worker_streams : i < cursor
    BY <1>0, <2>1
  <2> QED
    BY <2>1, <2>2, <2>3 DEF NetInv, Planned, Collects
<1>9. CASE DrainEnd
  <2>1. /\ phase = "collect" /\ cursor > k_eff /\ phase' = "prune"
        /\ UNCHANGED <<plan, collected, withheld, net>>
    BY <1>9 DEF DrainEnd, CollectDone, loopVars, roundVars, historyVars
  <2>2. ASSUME ~withheld, NEW s \in DOMAIN plan
        PROVE  plan[s] \in collected
    <3>1. s \in 0 .. k_eff - 1
      BY <2>1 DEF TypeInv, TypeOK, RoundTypes, Slots
    <3>2. CASE s < Offset
      <4>1. cfg.hybrid_coordinator /\ s = 0 /\ k_eff = Len(worker_streams) + 1
        BY <3>1, <3>2 DEF Offset, k_eff
      <4> QED
        BY <2>1, <2>2, <4>1 DEF NetInv
    <3>3. CASE ~ s < Offset
      <4>1. PICK i : i = s - Offset + 1
        OBVIOUS
      <4>2. i \in DOMAIN worker_streams /\ SlotOf(i) = s /\ i < cursor
        BY <1>0, <2>1, <3>1, <3>3, <4>1 DEF k_eff, SlotOf, Offset
      <4> QED
        BY <2>1, <2>2, <4>2 DEF NetInv, Collects
    <3> QED
      BY <3>2, <3>3
  <2> QED
    BY <2>1, <2>2 DEF NetInv, Planned, Collects
<1>10. CASE PruneDone \/ \E i \in DOMAIN worker_ids : Prune(i)
  <2>1. /\ phase = "prune" /\ phase' \in {"prune", "merge", "err"}
        /\ UNCHANGED <<plan, collected, net, withheld>>
    BY <1>10 DEF PruneDone, Prune, loopVars, roundVars, historyVars
  <2> QED
    BY <2>1 DEF NetInv, Planned, Collects
<1>11. ASSUME NEW remain \in BOOLEAN, Merge(remain) PROVE NetInv'
  <2>1. /\ phase = "merge" /\ phase' \in {"join", "loop"}
        /\ net' = MergedNet /\ UNCHANGED withheld
    BY <1>11 DEF Merge, historyVars
  <2>2. MergedNet \subseteq Atoms
    BY DEF MergedNet, TypeInv, TypeOK, RoundTypes, Partitions
  <2>3. ASSUME ~withheld PROVE Atoms \subseteq MergedNet
    BY <2>1, <2>3 DEF NetInv, Planned, MergedNet
  <2> QED
    BY <2>1, <2>2, <2>3, NetIdle
<1> QED
  BY <1>1, <1>2, <1>3, <1>4, <1>5, <1>6, <1>7, <1>8, <1>9, <1>10, <1>11
     DEF Next, Coordinator, Accepting, Collecting, Joining

-----------------------------------------------------------------------------
(***************************************************************************)
(* The promise of a JoinAck.                                               *)
(***************************************************************************)
(* Nothing moves but perhaps the phase, from between rounds to the loop.   *)
LEMMA PromiseSame ==
    ASSUME PromiseInv, UNCHANGED <<cfg, worker_streams, promised>>,
           \/ phase' \in {"ok", "err", "solo"}
           \/ phase' = phase /\ rounds' = rounds
           \/ /\ phase \in {"collect", "peek", "prune"}
              /\ phase' \in {"collect", "peek", "prune", "merge"}
           \/ phase \in {"accept", "merge"} /\ phase' \in {"join", "loop"}
           \/ phase = "join" /\ phase' = "loop" /\ rounds' = rounds
    PROVE  PromiseInv'
<1>1. \A i : SlotOf(i)' = SlotOf(i)
  BY DEF SlotOf, Offset
<1> QED
  BY <1>1 DEF PromiseInv

(* One step per action that admits, prunes or dispatches.                  *)
LEMMA PromiseStep ==
    ASSUME TypeInv, IdentityInv, PromiseInv, [Next]_vars
    PROVE  PromiseInv'
<1>0. /\ worker_streams \in Seq(Peers) /\ Len(worker_streams) \in Nat
      /\ DOMAIN worker_streams = 1 .. Len(worker_streams)
      /\ promised \in [Peers -> (Nat \X Nat) \cup {NoPromise}]
  BY DEF TypeInv, TypeOK, CoordinatorTypes, PeerTypes
<1>1. CASE UNCHANGED vars \/ SelfWorker \/ \E p \in Peers : Peer(p)
  BY <1>1, PromiseSame
     DEF vars, coordVars, loopVars, historyVars, Peer, WorkerLoop, Connect,
         ReceiveAck, ReceiveAssign, SendResult, Return, Leave, ReportError, Crash,
         SelfWorker, SelfReduced, SelfFlush
<1>2. ASSUME NEW p \in Peers,
             \/ AcceptReject(p) \/ SoloAccept(p) \/ DrainAccept(p)
             \/ JoinLost(p) \/ JoinExhausted(p) \/ JoinDropped(p)
      PROVE  PromiseInv'
  BY <1>2, PromiseSame
     DEF coordVars, loopVars, historyVars, AcceptReject, SoloAccept, DrainAccept,
         JoinLost, JoinExhausted, JoinDropped
<1>3. CASE \/ AcceptFail \/ AcceptDone \/ Finish \/ NoWorkers \/ SoloFinish \/ DispatchFail
           \/ SelfWorkerPanicked \/ JoinClose \/ PruneDone
           \/ \E remain \in BOOLEAN : Merge(remain)
  BY <1>3, PromiseSame
     DEF AcceptFail, AcceptDone, Finish, NoWorkers, SoloFinish, DispatchFail,
         SelfWorkerPanicked, JoinClose, PruneDone, Merge, loopVars, historyVars
<1>4. CASE \/ CollectResult \/ PeekLeave \/ PeekNothing \/ CollectLeave \/ CollectError
           \/ CollectBroken \/ CollectTimeout \/ CollectSelf \/ CollectSelfTimeout \/ DrainEnd
  <2>1. /\ phase \in {"collect", "peek"} /\ phase' \in {"collect", "peek", "prune", "err"}
        /\ UNCHANGED <<cfg, worker_streams, promised>>
    BY <1>4 DEF CollectResult, PeekLeave, PeekNothing, CollectLeave, CollectError, CollectBroken,
                CollectTimeout, CollectSelf, CollectSelfTimeout, DrainEnd, CollectDone, Lose,
                Polling, PollingSelf, coordVars, historyVars
  <2> QED
    BY <2>1, PromiseSame
<1>5. ASSUME NEW sigma \in [net -> Slots], Dispatch(sigma) PROVE PromiseInv'
  <2>1. /\ phase' = "collect" /\ worker_streams' = worker_streams
        /\ promised' = [p \in Peers |-> IF p \in ActivePeers THEN NoPromise ELSE promised[p]]
    BY <1>5 DEF Dispatch
  <2>2. \A i \in DOMAIN worker_streams : promised'[worker_streams[i]] = NoPromise
    BY <1>0, <2>1 DEF ActivePeers
  <2> QED
    BY <2>1, <2>2 DEF PromiseInv
<1>6. ASSUME NEW p \in Peers, AcceptWorker(p) PROVE PromiseInv'
  <2>1. phase = "accept" /\ phase' = "accept" /\ promised' = promised
    BY <1>6 DEF AcceptWorker
  <2>2. worker_streams' \in Seq(Peers)
    BY <1>0, <1>6 DEF AcceptWorker
  <2>3. \A i \in DOMAIN worker_streams' : worker_streams'[i] \in Peers
    BY <2>2
  <2> QED
    BY <2>1, <2>3 DEF PromiseInv
<1>7. ASSUME NEW i \in DOMAIN worker_ids, Prune(i) PROVE PromiseInv'
  <2>1. phase = "prune" /\ phase' = "prune" /\ promised' = promised
    BY <1>7 DEF Prune, historyVars
  <2>2. \A k \in DOMAIN worker_streams' : \E j \in DOMAIN worker_streams :
           worker_streams'[k] = worker_streams[j]
    BY <1>7, Pruned
  <2> QED
    BY <2>1, <2>2 DEF PromiseInv
<1>8. ASSUME NEW p \in Peers, Join(p) PROVE PromiseInv'
  <2> DEFINE n == Len(worker_streams)
  <2>1. /\ phase = "join" /\ phase' = "join" /\ UNCHANGED <<cfg, rounds>>
        /\ worker_streams' = Append(worker_streams, p)
        /\ promised' = [promised EXCEPT ![p] = <<rounds, k_eff>>]
    BY <1>8 DEF Join, Taken, FirstRound, FirstSlot, loopVars
  <2>2. /\ DOMAIN worker_streams' = 1 .. n + 1
        /\ worker_streams'[n + 1] = p
        /\ \A i \in 1 .. n : worker_streams'[i] = worker_streams[i]
    BY <1>0, <2>1, Push
  <2>3. p \notin ActivePeers
    BY <1>8, TakenLeaves DEF Join, IdentityInv
  <2>4. \A i : SlotOf(i)' = SlotOf(i)
    BY <2>1 DEF SlotOf, Offset
  <2>5. SlotOf(n + 1) = k_eff
    BY <1>0 DEF SlotOf, k_eff, Offset
  <2>6. ASSUME NEW i \in DOMAIN worker_streams'
        PROVE  promised'[worker_streams'[i]] \in {NoPromise, <<rounds', SlotOf(i)'>>}
    <3>1. CASE i = n + 1
      BY <1>0, <2>1, <2>2, <2>4, <2>5, <3>1
    <3>2. CASE i \in 1 .. n
      <4>1. worker_streams[i] # p /\ worker_streams[i] \in Peers
        BY <1>0, <2>3, <3>2 DEF ActivePeers
      <4>2. promised'[worker_streams'[i]] = promised[worker_streams[i]]
        BY <1>0, <2>1, <2>2, <3>2, <4>1
      <4>3. promised[worker_streams[i]] \in {NoPromise, <<rounds, SlotOf(i)>>}
        BY <1>0, <2>1, <3>2 DEF PromiseInv
      <4> QED
        BY <2>1, <2>4, <4>2, <4>3
    <3> QED
      BY <1>0, <2>2, <3>1, <3>2
  <2> QED
    BY <2>1, <2>6 DEF PromiseInv
<1> QED
  BY <1>1, <1>2, <1>3, <1>4, <1>5, <1>6, <1>7, <1>8
     DEF Next, Coordinator, Accepting, Collecting, Joining

-----------------------------------------------------------------------------
(* The inductive invariant of the rounds.                                  *)
THEOREM GridInductive == Spec => []GridInv
<1>1. Init => WorkInv /\ RoundInv /\ NetInv /\ PromiseInv
  <2> SUFFICES ASSUME Init PROVE WorkInv /\ RoundInv /\ NetInv /\ PromiseInv
    OBVIOUS
  <2>1. /\ phase = "accept" /\ ActivePeers = {} /\ PendingPeers = {} /\ backlog = {}
        /\ DOMAIN worker_streams = {}
    BY DEF Init, ActivePeers, PendingPeers
  <2>2. \A p \in Peers : /\ inbox[p] = <<>> /\ outbox[p] = <<>> /\ peer[p] = "out"
                         /\ promised[p] = NoPromise
    BY DEF Init
  <2>3. \A p \in Peers : OneWork(p) /\ Fresh(p)
    BY <2>2, EmptyChannel DEF OneWork, Fresh, InWork, OutWork
  <2>4. WorkInv
    BY <2>2, <2>3 DEF WorkInv, Unadmitted, ErrorHonest
  <2>5. RoundInv /\ PromiseInv
    BY <2>1, <2>2 DEF RoundInv, Collects, PromiseInv
  <2>6. NetInv
    BY <2>1 DEF Init, NetInv, Planned, Collects
  <2> QED
    BY <2>4, <2>5, <2>6
<1>2. GridInv /\ [Next]_vars => WorkInv' /\ RoundInv' /\ NetInv' /\ PromiseInv'
  BY WorkStep, RoundStep, NetStep, PromiseStep DEF GridInv
<1>3. GridInv <=> TypeInv /\ IdentityInv /\ WorkInv /\ RoundInv /\ NetInv /\ PromiseInv
  BY DEF GridInv
<1> QED
  BY <1>1, <1>2, <1>3, IdentityInductive, PTL DEF Spec

(* The BSP barrier: between two rounds no active worker still has work of  *)
(* the round that is over, so that the round check of the collect loop     *)
(* never fires on an active stream.                                        *)
THEOREM BarrierCorrect == Spec => []BarrierBetweenRounds
<1>1. GridInv => BarrierBetweenRounds
  BY DEF GridInv, RoundInv, BarrierBetweenRounds
<1> QED
  BY <1>1, GridInductive, PTL

(* D1 over the wire: whatever timeouts, joins and graceful departures      *)
(* happen, the net is whole unless a worker left without its result.       *)
THEOREM NetWholeCorrect == Spec => []NetWholeUnlessWithheld
<1>1. GridInv => NetWholeUnlessWithheld
  BY DEF GridInv, NetInv, NetWholeUnlessWithheld
<1> QED
  BY <1>1, GridInductive, PTL

(* R16 / R11a: a JoinAck names the round and the slot of the first         *)
(* partition the joiner is sent.                                           *)
THEOREM JoinAckCorrect == Spec => []JoinAckHonest
<1>1. GridInv => JoinAckHonest
  BY DEF GridInv, PromiseInv, JoinAckHonest
<1> QED
  BY <1>1, GridInductive, PTL

-----------------------------------------------------------------------------
(***************************************************************************)
(* run_coordinator implements BSP.                                         *)
(***************************************************************************)
(* Nobody is active twice, so there are no more streams than peers.        *)
LEMMA SlotsBounded ==
    ASSUME TypeInv, IdentityInv
    PROVE  Slots \subseteq 0 .. Cardinality(Peers)
<1> DEFINE n == Len(worker_streams)
<1>1. /\ worker_streams \in Seq(Peers) /\ n \in Nat
      /\ DOMAIN worker_streams = 1 .. n /\ worker_streams \in [1 .. n -> Peers]
  BY DEF TypeInv, TypeOK, CoordinatorTypes
<1>2. \A i, j \in 1 .. n : worker_streams[i] = worker_streams[j] => i = j
  BY <1>1 DEF IdentityInv, IdentityTravelsWithStream
<1>3. worker_streams \in Injection(1 .. n, Peers)
  BY <1>1, <1>2, Fun_IsInj
<1>4. IsFiniteSet(Peers)
  BY ProtocolAssumption
<1>5. Cardinality(1 .. n) <= Cardinality(Peers)
  BY <1>3, <1>4, FS_Injection
<1>6. Cardinality(1 .. n) = n
  BY <1>1, FS_Interval
<1>7. Cardinality(Peers) \in Nat
  BY <1>4, FS_CardinalityType
<1> QED
  BY <1>1, <1>5, <1>6, <1>7 DEF Slots, k_eff, Offset

(* The stage by phase, before and after a step.                            *)
LEMMA StageByPhase ==
    ASSUME phase \in Phases, phase' \in Phases
    PROVE  /\ phase \in {"accept", "loop", "solo", "join"} => Stage = "idle"
           /\ phase \in {"collect", "peek"} <=> Stage = "computing"
           /\ phase \in {"prune", "merge"} => Stage = "merging"
           /\ phase = "ok" => Stage = "done"
           /\ phase = "err" => Stage = "failed"
           /\ phase' \in {"accept", "loop", "solo", "join"} => Stage' = "idle"
           /\ phase' \in {"collect", "peek"} <=> Stage' = "computing"
           /\ phase' \in {"prune", "merge"} => Stage' = "merging"
           /\ phase' = "ok" => Stage' = "done"
           /\ phase' = "err" => Stage' = "failed"
BY DEF Stage, Phases

(* A step outside the collect phase that changes no stage and no round.    *)
LEMMA Stutters ==
    ASSUME phase \in Phases, phase' \in Phases, rounds' = rounds,
           \/ /\ phase \in {"accept", "loop", "solo", "join"}
              /\ phase' \in {"accept", "loop", "solo", "join"}
           \/ phase \in {"prune", "merge"} /\ phase' \in {"prune", "merge"}
    PROVE  UNCHANGED Rounds!vars
<1>1. Stage' = Stage /\ Stage # "computing" /\ Stage' # "computing"
  BY StageByPhase
<1>2. Awaited = {} /\ Awaited' = {}
  BY <1>1 DEF Awaited
<1> QED
  BY <1>1, <1>2 DEF Rounds!vars

(* A step inside the collect phase that answers nothing.                   *)
LEMMA CollectStutters ==
    ASSUME phase \in Phases, phase' \in Phases, Collects, Collects', Awaited' = Awaited,
           rounds' = rounds
    PROVE  UNCHANGED Rounds!vars
<1>1. Stage' = Stage
  BY StageByPhase DEF Collects
<1> QED
  BY <1>1 DEF Rounds!vars

(* A step inside the collect phase that deals with slot s: it answers it,  *)
(* or repeats an answer (a LeaveRequest behind the result).                *)
LEMMA Answers ==
    ASSUME TypeInv, IdentityInv, phase' \in Phases, Collects, Collects', rounds' = rounds,
           NEW s \in Slots, Awaited' = Awaited \ {s}
    PROVE  [Rounds!Next]_(Rounds!vars)
<1>1. Stage = "computing" /\ Stage' = "computing" /\ phase \in Phases
  BY StageByPhase DEF Collects, TypeInv, TypeOK, CoordinatorTypes
<1>2. CASE s \in Awaited
  <2>1. Rounds!Answer(s)
    BY <1>1, <1>2 DEF Rounds!Answer
  <2>2. s \in 0 .. Cardinality(Peers)
    BY SlotsBounded
  <2> QED
    BY <2>1, <2>2 DEF Rounds!Next
<1>3. CASE s \notin Awaited
  <2>1. Awaited' = Awaited
    BY <1>3
  <2> QED
    BY <1>1, <2>1 DEF Rounds!vars
<1> QED
  BY <1>2, <1>3

(* The run fails.                                                          *)
LEMMA Fails ==
    ASSUME phase \in Phases, phase \notin {"ok", "err"}, phase' = "err", rounds' = rounds
    PROVE  Rounds!Next
<1>1. Stage \notin {"done", "failed"} /\ Stage' = "failed" /\ phase' \in Phases
  BY StageByPhase DEF Stage, Phases
<1>2. Awaited' = {}
  BY <1>1 DEF Awaited
<1> QED
  BY <1>1, <1>2 DEF Rounds!Next, Rounds!Fail

(* Holders are distinct: the ids are, and slot 0 of the self-worker is     *)
(* nobody else's.                                                          *)
LEMMA HoldersDistinct ==
    ASSUME TypeInv, IdentityInv, NEW i \in DOMAIN worker_streams
    PROVE  /\ SlotOf(i) \in Slots
           /\ Holder(SlotOf(i)) = worker_ids[i]
           /\ \A t \in Slots : Holder(t) = worker_ids[i] => t = SlotOf(i)
<1>1. /\ Len(worker_streams) \in Nat /\ DOMAIN worker_streams = 1 .. Len(worker_streams)
      /\ Offset \in {0, 1} /\ i \in 1 .. Len(worker_streams)
  BY DEF TypeInv, TypeOK, CoordinatorTypes, Offset
<1>2. SlotOf(i) \in Slots /\ Holder(SlotOf(i)) = worker_ids[i]
  <2>1. /\ SlotOf(i) = i - 1 + Offset /\ ~ SlotOf(i) < Offset
        /\ SlotOf(i) - Offset + 1 = i /\ SlotOf(i) \in Slots
    BY <1>1 DEF SlotOf, Slots, k_eff
  <2> QED
    BY <2>1 DEF Holder
<1>3. ASSUME NEW t \in Slots, Holder(t) = worker_ids[i]
      PROVE  t = SlotOf(i)
  <2>1. worker_ids[i] >= Offset /\ worker_ids[i] \in Int
    BY DEF IdentityInv, IdentityTravelsWithStream, TypeInv, TypeOK, CoordinatorTypes, Offset
  <2>2. ~ t < Offset
    BY <1>1, <1>3, <2>1 DEF Holder, Slots, k_eff
  <2>3. t - Offset + 1 \in DOMAIN worker_streams
    BY <1>1, <2>2 DEF Slots, k_eff
  <2>4. t - Offset + 1 = i
    BY <1>3, <2>2, <2>3 DEF Holder, IdentityInv, IdentityTravelsWithStream
  <2> QED
    BY <1>1, <2>4 DEF SlotOf, Slots, k_eff
<1> QED
  BY <1>2, <1>3

(* What is awaited while the vectors stay: less what is new in collected   *)
(* and in departing.                                                       *)
LEMMA AwaitedLess ==
    ASSUME TypeInv, phase' \in Phases, Collects, Collects',
           UNCHANGED <<cfg, worker_streams, worker_ids, plan>>,
           NEW s \in Slots,
           \/ /\ departing' = departing
              /\ collected' = collected \cup {plan[s]}
              /\ \A t \in Slots : plan[t] = plan[s] => t = s
           \/ /\ collected' = collected
              /\ departing' = departing \cup {Holder(s)}
              /\ \A t \in Slots : Holder(t) = Holder(s) => t = s
    PROVE  Awaited' = Awaited \ {s}
<1>1. Stage = "computing" /\ Stage' = "computing"
  BY StageByPhase DEF Collects, TypeInv, TypeOK, CoordinatorTypes
<1>2. DOMAIN plan = Slots /\ DOMAIN plan' = Slots
  BY DEF Collects, TypeInv, TypeOK, RoundTypes
<1>3. \A t : Holder(t)' = Holder(t)
  BY DEF Holder, Offset
<1>4. /\ Awaited = {t \in Slots : plan[t] \notin collected /\ Holder(t) \notin departing}
      /\ Awaited' = {t \in Slots : plan[t] \notin collected' /\ Holder(t) \notin departing'}
  BY <1>1, <1>2, <1>3 DEF Awaited
<1> QED
  BY <1>4

(* Every step of the coordinator and its peers is a step of BSP or none.   *)
LEMMA BSPStep ==
    ASSUME GridInv, TypeInv', [Next]_vars
    PROVE  [Rounds!Next]_(Rounds!vars)
<1>0. /\ TypeInv /\ IdentityInv /\ WorkInv /\ RoundInv /\ NetInv
      /\ phase \in Phases /\ phase' \in Phases /\ rounds \in Nat
  BY DEF GridInv, TypeInv, TypeOK, CoordinatorTypes
<1>1. ASSUME UNCHANGED <<cfg, phase, worker_ids, rounds, plan, collected, departing>>
      PROVE  UNCHANGED Rounds!vars
  <2>1. Stage' = Stage
    BY <1>1 DEF Stage
  <2>2. Awaited' = Awaited
    BY <1>1, <2>1 DEF Awaited, Holder, Offset
  <2> QED
    BY <1>1, <2>1, <2>2 DEF Rounds!vars
<1>2. CASE UNCHANGED vars \/ SelfWorker \/ \E p \in Peers : Peer(p)
  BY <1>1, <1>2
     DEF vars, coordVars, loopVars, roundVars, Peer, WorkerLoop, Connect, ReceiveAck,
         ReceiveAssign, SendResult, Return, Leave, ReportError, Crash,
         SelfWorker, SelfReduced, SelfFlush
<1>3. ASSUME NEW p \in Peers,
             \/ AcceptWorker(p) \/ AcceptReject(p) \/ SoloAccept(p)
             \/ Join(p) \/ JoinLost(p) \/ JoinExhausted(p) \/ JoinDropped(p)
      PROVE  UNCHANGED Rounds!vars
  <2>1. phase \in {"accept", "solo", "join"} /\ phase' = phase /\ rounds' = rounds
    BY <1>3 DEF AcceptWorker, AcceptReject, SoloAccept, Join, JoinLost, JoinExhausted,
                JoinDropped, Taken, coordVars, loopVars
  <2> QED
    BY <1>0, <2>1, Stutters
<1>4. ASSUME NEW p \in Peers, DrainAccept(p) PROVE UNCHANGED Rounds!vars
  BY <1>1, <1>4 DEF DrainAccept, loopVars, roundVars
<1>5. CASE AcceptFail \/ DispatchFail \/ SelfWorkerPanicked
  BY <1>0, <1>5, Fails DEF AcceptFail, DispatchFail, SelfWorkerPanicked, Continues, CollectDone,
                           loopVars
<1>6. CASE AcceptDone \/ JoinClose
  BY <1>0, <1>6, Stutters DEF AcceptDone, JoinClose, loopVars
<1>7. CASE NoWorkers
  <2>1. phase = "loop" /\ phase' \in {"solo", "err"} /\ rounds' = rounds
    BY <1>7 DEF NoWorkers, Continues, loopVars
  <2> QED
    BY <1>0, <2>1, Stutters, Fails
<1>8. CASE Finish \/ SoloFinish
  <2>1. phase \in {"loop", "solo"} /\ phase' = "ok" /\ rounds' = rounds
    BY <1>8 DEF Finish, SoloFinish, loopVars
  <2>2. Stage = "idle" /\ Stage' = "done"
    BY <1>0, <2>1, StageByPhase
  <2>3. Awaited' = {}
    BY <2>2 DEF Awaited
  <2> QED
    BY <2>1, <2>2, <2>3 DEF Rounds!Next, Rounds!Finish
<1>9. ASSUME NEW sigma \in [net -> Slots], Dispatch(sigma) PROVE Rounds!Next
  <2>1. /\ phase = "loop" /\ phase' = "collect" /\ rounds' = rounds /\ worker_streams # <<>>
        /\ plan' = [s \in Slots |-> PartitionOf(sigma, s)]
        /\ collected' = {} /\ departing' = {}
    BY <1>9 DEF Dispatch, Continues, loopVars
  <2>2. Stage = "idle" /\ Stage' = "computing"
    BY <1>0, <2>1, StageByPhase
  <2>3. Awaited' = Slots
    BY <2>1, <2>2 DEF Awaited
  <2>4. Slots # {}
    <3>1. 1 \in DOMAIN worker_streams
      BY <1>0, <2>1 DEF TypeInv, TypeOK, CoordinatorTypes
    <3> QED
      BY <1>0, <3>1, HoldersDistinct
  <2>5. Rounds!Begin(Slots) /\ Slots \in SUBSET (0 .. Cardinality(Peers))
    BY <1>0, <2>1, <2>2, <2>3, <2>4, SlotsBounded DEF Rounds!Begin
  <2> QED
    BY <2>5 DEF Rounds!Next
<1>10. CASE CollectResult
  <2>1. /\ Collects /\ Collects' /\ departing' = departing
        /\ collected' = collected \cup {plan[SlotOf(cursor)]}
        /\ UNCHANGED <<cfg, worker_streams, worker_ids, rounds, plan>>
    <3>1. PICK p : p = Polled
      OBVIOUS
    <3> QED
      BY <1>0, <1>10, <3>1, ResultCollected, PolledIndex DEF CollectResult, Collects
  <2>2. PICK s \in Slots : s = SlotOf(cursor)
    BY <1>0, <1>10, PolledIndex, HoldersDistinct DEF CollectResult
  <2>3. DOMAIN plan = Slots
    BY <1>0, <2>1 DEF Collects, TypeInv, TypeOK, RoundTypes
  <2>4. \A t \in Slots : plan[t] = plan[s] => t = s
    BY <1>0, <2>1, <2>3 DEF NetInv, Planned, Collects
  <2>5. Awaited' = Awaited \ {s}
    BY <1>0, <2>1, <2>2, <2>4, AwaitedLess
  <2> QED
    BY <1>0, <2>1, <2>5, Answers
<1>11. ASSUME phase = "peek" \/ Polling, Collects',
              UNCHANGED <<cfg, worker_streams, worker_ids, rounds, plan, collected>>,
              departing' = departing \cup {worker_ids[cursor]}
       PROVE  [Rounds!Next]_(Rounds!vars)
  <2>1. Collects /\ cursor \in DOMAIN worker_streams
    BY <1>0, <1>11, PolledIndex
  <2>2. PICK s \in Slots : s = SlotOf(cursor)
    BY <1>0, <2>1, HoldersDistinct
  <2>3. Holder(s) = worker_ids[cursor] /\ \A t \in Slots : Holder(t) = Holder(s) => t = s
    BY <1>0, <2>1, <2>2, HoldersDistinct
  <2>4. Awaited' = Awaited \ {s}
    BY <1>0, <1>11, <2>1, <2>3, AwaitedLess
  <2> QED
    BY <1>0, <1>11, <2>1, <2>4, Answers
<1>12. CASE PeekLeave \/ CollectLeave
  BY <1>11, <1>12 DEF PeekLeave, CollectLeave, Polling, Collects, loopVars
<1>13. CASE PeekNothing
  <2>1. /\ Collects /\ Collects'
        /\ UNCHANGED <<cfg, worker_ids, rounds, plan, collected, departing>>
    BY <1>13 DEF PeekNothing, Collects, loopVars
  <2>2. Stage' = Stage
    BY <1>0, <2>1, StageByPhase DEF Collects
  <2>3. Awaited' = Awaited
    BY <2>1, <2>2 DEF Awaited, Holder, Offset
  <2> QED
    BY <1>0, <2>1, <2>3, CollectStutters
<1>14. CASE CollectError \/ CollectBroken \/ CollectTimeout
  <2>1. Polling /\ Lose(worker_ids[cursor])
    BY <1>0, <1>14, LostUnderItsId
  <2>2. CASE cfg.elastic_departure
    BY <1>11, <2>1, <2>2 DEF Lose, Polling, Collects, loopVars
  <2>3. CASE ~cfg.elastic_departure
    BY <1>0, <2>1, <2>3, Fails DEF Lose, Polling, loopVars
  <2> QED
    BY <2>2, <2>3
<1>15. CASE CollectSelf \/ CollectSelfTimeout
  <2>1. PollingSelf /\ Collects /\ cfg.hybrid_coordinator
    BY <1>15 DEF CollectSelf, CollectSelfTimeout, PollingSelf, Collects
  <2>2. PICK s \in Slots : s = 0
    BY <1>0, <2>1, SlotsType DEF TypeInv
  <2>3. Offset = 1 /\ Holder(s) = 0
    BY <2>1, <2>2 DEF Offset, Holder
  <2>4. \A t \in Slots : Holder(t) = Holder(s) => t = s
    <3> SUFFICES ASSUME NEW t \in Slots, t # 0 PROVE Holder(t) # 0
      BY <2>2, <2>3
    <3>1. /\ t \in 1 .. Len(worker_streams) /\ t - Offset + 1 = t /\ ~ t < Offset
          /\ t \in DOMAIN worker_streams
      BY <1>0, <2>3 DEF Slots, k_eff, TypeInv, TypeOK, CoordinatorTypes
    <3>2. worker_ids[t] >= 1
      BY <1>0, <2>3, <3>1 DEF IdentityInv, IdentityTravelsWithStream, TypeInv, TypeOK,
                              CoordinatorTypes
    <3> QED
      BY <3>1, <3>2 DEF Holder
  <2>5. DOMAIN plan = Slots /\ \A t \in Slots : plan[t] = plan[s] => t = s
    <3>1. DOMAIN plan = Slots
      BY <1>0, <2>1 DEF Collects, TypeInv, TypeOK, RoundTypes
    <3> QED
      BY <1>0, <2>1, <3>1 DEF NetInv, Planned, Collects
  <2>6. CASE phase' = "err"
    BY <1>0, <1>15, <2>1, <2>6, Fails
       DEF CollectSelf, CollectSelfTimeout, PollingSelf, Lose, loopVars
  <2>7. CASE phase' # "err"
    <3>1. /\ Collects' /\ UNCHANGED <<cfg, worker_streams, worker_ids, rounds, plan>>
          /\ \/ departing' = departing /\ collected' = collected \cup {plan[0]}
             \/ collected' = collected /\ departing' = departing \cup {0}
      BY <1>15, <2>1, <2>7 DEF CollectSelf, CollectSelfTimeout, PollingSelf, Lose, Collects,
                               coordVars, loopVars
    <3>2. Awaited' = Awaited \ {s}
      BY <1>0, <2>1, <2>2, <2>3, <2>4, <2>5, <3>1, AwaitedLess
    <3> QED
      BY <1>0, <2>1, <3>1, <3>2, Answers
  <2> QED
    BY <2>6, <2>7
<1>16. CASE DrainEnd
  <2>1. /\ phase = "collect" /\ cursor > k_eff /\ phase' = "prune" /\ rounds' = rounds
        /\ Collects
    BY <1>16 DEF DrainEnd, CollectDone, Collects, loopVars
  <2>2. Stage = "computing" /\ Stage' = "merging"
    BY <1>0, <2>1, StageByPhase
  <2>3. ASSUME NEW s \in DOMAIN plan
        PROVE  plan[s] \in collected \/ Holder(s) \in departing
    <3>0. /\ s \in 0 .. k_eff - 1 /\ cursor \in Nat /\ Len(worker_streams) \in Nat
          /\ DOMAIN worker_streams = 1 .. Len(worker_streams)
      BY <1>0, <2>1 DEF TypeInv, TypeOK, RoundTypes, Slots, CoordinatorTypes
    <3>1. CASE s < Offset
      <4>1. cfg.hybrid_coordinator /\ s = 0 /\ k_eff = Len(worker_streams) + 1
        BY <3>0, <3>1 DEF Offset, k_eff
      <4>2. plan[0] \in collected \/ 0 \in departing
        BY <1>0, <2>1, <4>1 DEF RoundInv
      <4> QED
        BY <3>1, <4>1, <4>2 DEF Holder
    <3>2. CASE ~ s < Offset
      <4>1. PICK i : i = s - Offset + 1
        OBVIOUS
      <4>2. i \in DOMAIN worker_streams /\ SlotOf(i) = s /\ i < cursor
        BY <2>1, <3>0, <3>2, <4>1 DEF k_eff, SlotOf, Offset
      <4>3. Settled(i) /\ Holder(s) = worker_ids[i]
        BY <1>0, <2>1, <3>2, <4>1, <4>2 DEF RoundInv, Holder
      <4> QED
        BY <4>2, <4>3 DEF Settled
    <3> QED
      BY <3>1, <3>2
  <2>4. Awaited = {} /\ Awaited' = {}
    BY <2>2, <2>3 DEF Awaited
  <2> QED
    BY <2>1, <2>2, <2>4 DEF Rounds!Next, Rounds!Barrier
<1>17. CASE PruneDone \/ \E i \in DOMAIN worker_ids : Prune(i)
  <2>1. phase = "prune" /\ phase' \in {"prune", "merge", "err"} /\ rounds' = rounds
    BY <1>17 DEF PruneDone, Prune, loopVars
  <2> QED
    BY <1>0, <2>1, Stutters, Fails
<1>18. ASSUME NEW remain \in BOOLEAN, Merge(remain) PROVE Rounds!Next
  <2>1. phase = "merge" /\ phase' \in {"join", "loop"} /\ rounds' = rounds + 1
    BY <1>18 DEF Merge
  <2>2. Stage = "merging" /\ Stage' = "idle"
    BY <1>0, <2>1, StageByPhase
  <2>3. Awaited' = {}
    BY <2>2 DEF Awaited
  <2> QED
    BY <2>1, <2>2, <2>3 DEF Rounds!Next, Rounds!Merge
<1> QED
  BY <1>2, <1>3, <1>4, <1>5, <1>6, <1>7, <1>8, <1>9, <1>10, <1>12, <1>13, <1>14, <1>15, <1>16,
     <1>17, <1>18
     DEF Next, Coordinator, Accepting, Collecting, Joining

(* run_coordinator implements the bulk-synchronous coordinator: it merges  *)
(* only when every partition of the round is answered, by its result or by *)
(* the departure of its holder, although it never counts the answers.      *)
THEOREM ImplementsBSPCorrect == Spec => ImplementsBSP
<1>1. Init => Rounds!Init
  <2> SUFFICES ASSUME Init PROVE Rounds!Init
    OBVIOUS
  <2>1. phase = "accept" /\ rounds = 0
    BY DEF Init
  <2>2. Stage = "idle"
    BY <2>1 DEF Stage
  <2>3. Awaited = {}
    BY <2>2 DEF Awaited
  <2> QED
    BY <2>1, <2>2, <2>3 DEF Rounds!Init
<1>2. GridInv /\ GridInv' /\ [Next]_vars => [Rounds!Next]_(Rounds!vars)
  BY BSPStep DEF GridInv
<1> QED
  BY <1>1, <1>2, GridInductive, PTL DEF Spec, ImplementsBSP, Rounds!Spec
=============================================================================
