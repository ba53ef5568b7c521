--------------------------- MODULE PushFSM_proofs ---------------------------
(***************************************************************************)
(* Proofs about PushFSM: the two pure state machines of SPEC-13 implement  *)
(* the bulk-synchronous coordinator BSP, and a collect timer only ends the *)
(* round that started it - for any number of workers, rounds and faults.   *)
(*                                                                         *)
(* The coordinator compares neither the sender nor the round of a result,  *)
(* so the argument follows each partition: there is at most one piece of   *)
(* work for a slot anywhere (to be dispatched, in an inbox, in reduction,  *)
(* in the event queue, collected), all of this round.  A round merges when *)
(* as many results are collected as there are slots, hence one of every    *)
(* slot, hence nothing is left behind for the next round.                  *)
(***************************************************************************)
EXTENDS PushFSM, FiniteSetTheorems, FunctionTheorems, TLAPS

-----------------------------------------------------------------------------
(* Members of a set in a queue.                                            *)
Some(s, M) == \E k \in DOMAIN s : s[k] \in M
Every(s, M) == \A k \in DOMAIN s : s[k] \in M
AtMostOne(s, M) == \A k, l \in DOMAIN s : s[k] \in M /\ s[l] \in M => k = l
Precede(s, M, N) == \A k, l \in DOMAIN s : s[k] \in M /\ s[l] \in N => k < l

-----------------------------------------------------------------------------
(* Types.                                                                  *)
Pieces == [round : Nat, slot : Slots]

Events ==
    [type : {"ConfigLoaded", "AllDispatched", "FatalError"}]
    \cup [type : {"WorkerConnected", "WorkerJoined", "WorkerLeft", "WorkerConnectionLost"},
          worker_id : Workers]
    \cup [type : {"SplitComplete"}, parts : {MinWorkers}]
    \cup [type : {"PartitionReturned"}, worker_id : Workers, round : Nat, partition : Pieces]
    \cup [type : {"PhaseTimeout"}, started : Nat]
    \cup [type : {"MergeComplete"}, is_normal_form : BOOLEAN]

Messages ==
    [type : {"Shutdown", "ConnectionLost"}]
    \cup [type : {"ReceivePartition"}, partition : Pieces]

Jobs ==
    [kind : {"none"}]
    \cup [kind : {"split"}, num_workers : {MinWorkers}, round : Nat]
    \cup [kind : {"dispatch"}, left : Seq(Pieces)]
    \cup [kind : {"merge"}, parts : Seq(Pieces)]

CoordinatorStates == {"Init", "WaitingForWorkers"} \cup ActiveRound \cup Ended
WorkerStates == {"Init", "Idle", "Reducing", "Returning", "Done", "Error"}

Contexts ==
    [state : CoordinatorStates, connected_workers : Nat, total_workers : {MinWorkers},
     partitions_received : Nat, collected_partitions : Seq(Pieces), round : Nat, net : BOOLEAN]

FSMTypes ==
    /\ ctx \in Contexts
    /\ worker \in [Workers -> [state : WorkerStates, round : Nat]]
    /\ events \in Seq(Events)
    /\ job \in Jobs
    /\ timer \in Nat
    /\ open \in SUBSET Workers
    /\ inbox \in [Workers -> Seq(Messages)]
    /\ part \in [Workers -> Pieces]
    /\ faults \in Nat
    /\ ctx.state \in {"Init", "WaitingForWorkers"} =>
          ctx.connected_workers < MinWorkers /\ ctx.net

Kind(type) == {e \in Events : e.type = type}
Returned(s) == {e \in Kind("PartitionReturned") : e.partition.slot = s}
Assigned == {m \in Messages : m.type = "ReceivePartition"}
OfSlot(s) == {p \in Pieces : p.slot = s}

-----------------------------------------------------------------------------
(* The places a piece of work can be in.                                   *)
InJob(s) == job.kind = "dispatch" /\ Some(job.left, OfSlot(s))
InInbox(s) == Some(inbox[s], Assigned)
InWorker(s) == worker[s].state = "Reducing"
InEvents(s) == Some(events, Returned(s))
InHand(s) == Some(ctx.collected_partitions, OfSlot(s))

HasPiece(s) == InJob(s) \/ InInbox(s) \/ InWorker(s) \/ InEvents(s) \/ InHand(s)

(* There is at most one piece of a slot.                                   *)
OnePiece(s) ==
    /\ job.kind = "dispatch" => AtMostOne(job.left, OfSlot(s))
    /\ AtMostOne(inbox[s], Assigned)
    /\ AtMostOne(events, Returned(s))
    /\ AtMostOne(ctx.collected_partitions, OfSlot(s))
    /\ InJob(s) => ~InInbox(s) /\ ~InWorker(s) /\ ~InEvents(s) /\ ~InHand(s)
    /\ InInbox(s) => ~InWorker(s) /\ ~InEvents(s) /\ ~InHand(s)
    /\ InWorker(s) => ~InEvents(s) /\ ~InHand(s)
    /\ InEvents(s) => ~InHand(s)

(* Every piece is of the given round, and with the worker of its slot.     *)
PieceOf(round, s) == [round |-> round, slot |-> s]
PiecesOf(round) == {p \in Pieces : p.round = round}
AssignsOf(round, w) ==
    {m \in Messages : m.type = "ReceivePartition" => m.partition = PieceOf(round, w)}
ReturnsOf(round) ==
    {e \in Events : e.type = "PartitionReturned" => e.partition.round = round}

OfRound(round) ==
    /\ job.kind = "dispatch" => Every(job.left, PiecesOf(round))
    /\ \A w \in Workers : Every(inbox[w], AssignsOf(round, w))
    /\ \A w \in Workers : InWorker(w) => part[w] = PieceOf(round, w)
    /\ Every(events, ReturnsOf(round))
    /\ Every(ctx.collected_partitions, PiecesOf(round))

Outstanding == ctx.state \in {"Dispatching", "WaitingForResults"}

PieceInv ==
    /\ \A s \in Slots : OnePiece(s)
    /\ OfRound(ctx.round)
    /\ ~Outstanding => \A s \in Slots : ~HasPiece(s)

-----------------------------------------------------------------------------
(* The coordinator has one thing to wait for.                              *)
Tokens == Kind("SplitComplete") \cup Kind("AllDispatched") \cup Kind("MergeComplete")

Waits(kind, type) ==
    \/ job.kind = kind /\ ~Some(events, Tokens)
    \/ job.kind = "none" /\ AtMostOne(events, Tokens) /\ Some(events, Kind(type))

TokenInv ==
    /\ ctx.state \in {"Init", "WaitingForWorkers", "WaitingForResults", "Done"} =>
          job.kind = "none" /\ ~Some(events, Tokens)
    /\ ctx.state = "Partitioning" => Waits("split", "SplitComplete")
    /\ ctx.state = "Dispatching" => Waits("dispatch", "AllDispatched")
    /\ ctx.state = "Merging" => Waits("merge", "MergeComplete")

(* What is in hand of the cohort.                                          *)
CountInv ==
    /\ ctx.state # "WaitingForResults" => ctx.collected_partitions = <<>>
    /\ ctx.state = "WaitingForResults" =>
          ctx.partitions_received = Len(ctx.collected_partitions)
    /\ job.kind = "merge" => \A s \in Slots : \E i \in DOMAIN job.parts :
          job.parts[i] = PieceOf(ctx.round, s)

(* A reduction that failed is missing from the round.                      *)
FatalInv ==
    Some(events, Kind("FatalError")) => Outstanding /\ \E s \in Slots : ~HasPiece(s)

(* A timer is this round's, and its timeout is read before the next one.   *)
TimeInv ==
    /\ timer # Off => ctx.state = "WaitingForResults" /\ timer = ctx.round
    /\ ctx.state \notin {"WaitingForResults", "Merging", "Done"} =>
          ~Some(events, Kind("PhaseTimeout"))
    /\ Every(events, {e \in Events : e.type = "PhaseTimeout" => e.started = ctx.round})
    /\ Precede(events, Kind("PhaseTimeout"), Kind("MergeComplete"))

LiveInv == PieceInv /\ TokenInv /\ CountInv /\ FatalInv /\ TimeInv

FSMInv == FSMTypes /\ (ctx.state # "Error" => LiveInv)

-----------------------------------------------------------------------------
(* Posting an event or a message.                                          *)
LEMMA AppendMembers ==
    ASSUME NEW S, NEW s \in Seq(S), NEW e \in S, NEW M
    PROVE  /\ Append(s, e) \in Seq(S)
           /\ Some(Append(s, e), M) <=> Some(s, M) \/ e \in M
           /\ e \notin M /\ AtMostOne(s, M) => AtMostOne(Append(s, e), M)
           /\ ~Some(s, M) => AtMostOne(Append(s, e), M)
           /\ Every(Append(s, e), M) <=> Every(s, M) /\ e \in M
<1> DEFINE t == Append(s, e)
<1>1. /\ Len(s) \in Nat /\ DOMAIN s = 1 .. Len(s)
      /\ DOMAIN t = 1 .. Len(s) + 1 /\ t \in Seq(S)
      /\ t[Len(s) + 1] = e
      /\ \A k \in 1 .. Len(s) : t[k] = s[k]
  OBVIOUS
<1> HIDE DEF t
<1>2. /\ \A k \in DOMAIN t : k \in DOMAIN s \/ k = Len(s) + 1
      /\ DOMAIN s \subseteq DOMAIN t /\ Len(s) + 1 \in DOMAIN t
      /\ \A k \in DOMAIN s : t[k] = s[k]
  BY <1>1
<1>3. Some(t, M) <=> Some(s, M) \/ e \in M
  BY <1>1, <1>2 DEF Some
<1>4. e \notin M /\ AtMostOne(s, M) => AtMostOne(t, M)
  BY <1>1, <1>2 DEF AtMostOne
<1>5. ~Some(s, M) => AtMostOne(t, M)
  BY <1>1, <1>2 DEF AtMostOne, Some
<1>6. Every(t, M) <=> Every(s, M) /\ e \in M
  BY <1>1, <1>2 DEF Every
<1> QED
  BY <1>1, <1>3, <1>4, <1>5, <1>6 DEF t

(* Taking the first one.                                                   *)
LEMMA TailMembers ==
    ASSUME NEW S, NEW s \in Seq(S), s # <<>>, NEW M
    PROVE  /\ Tail(s) \in Seq(S) /\ Head(s) \in S
           /\ Some(s, M) <=> Some(Tail(s), M) \/ Head(s) \in M
           /\ AtMostOne(s, M) => AtMostOne(Tail(s), M)
           /\ AtMostOne(s, M) /\ Head(s) \in M => ~Some(Tail(s), M)
           /\ Every(s, M) => Every(Tail(s), M) /\ Head(s) \in M
<1> DEFINE t == Tail(s)
<1>1. /\ Len(s) \in Nat /\ Len(s) >= 1 /\ DOMAIN s = 1 .. Len(s)
      /\ DOMAIN t = 1 .. Len(s) - 1 /\ t \in Seq(S)
      /\ \A k \in 1 .. Len(s) - 1 : t[k] = s[k + 1]
      /\ Head(s) = s[1] /\ Head(s) \in S
  OBVIOUS
<1> HIDE DEF t
<1>2. /\ \A k \in DOMAIN t : k + 1 \in DOMAIN s /\ k + 1 # 1 /\ t[k] = s[k + 1]
      /\ 1 \in DOMAIN s
      /\ \A k, l \in DOMAIN t : k + 1 = l + 1 => k = l
  BY <1>1
<1>3. \A k \in DOMAIN s : k # 1 => k - 1 \in DOMAIN t /\ s[k] = t[k - 1]
  BY <1>1
<1>4. Some(s, M) <=> Some(t, M) \/ Head(s) \in M
  BY <1>1, <1>2, <1>3 DEF Some
<1>5. AtMostOne(s, M) => AtMostOne(t, M)
  BY <1>2 DEF AtMostOne
<1>6. AtMostOne(s, M) /\ Head(s) \in M => ~Some(t, M)
  BY <1>1, <1>2 DEF AtMostOne, Some
<1>7. Every(s, M) => Every(t, M) /\ Head(s) \in M
  BY <1>1, <1>2 DEF Every
<1> QED
  BY <1>1, <1>4, <1>5, <1>6, <1>7 DEF t

(* What precedes what.                                                     *)
LEMMA OrderKept ==
    ASSUME NEW S, NEW s \in Seq(S), NEW M, NEW N
    PROVE  /\ s # <<>> /\ Precede(s, M, N) => Precede(Tail(s), M, N)
           /\ s # <<>> /\ Precede(s, M, N) /\ Head(s) \in N => ~Some(s, M)
           /\ \A e \in S : Precede(s, M, N) /\ e \notin M \cup N => Precede(Append(s, e), M, N)
           /\ \A e \in S : ~Some(s, N) /\ e \notin M => Precede(Append(s, e), M, N)
           /\ \A e \in S : ~Some(s, N) /\ e \notin N => Precede(Append(s, e), M, N)
<1>1. s # <<>> => /\ Len(s) \in Nat /\ DOMAIN s = 1 .. Len(s)
                  /\ \A k \in DOMAIN Tail(s) : k \in Nat /\ k + 1 \in DOMAIN s
                                               /\ Tail(s)[k] = s[k + 1]
                  /\ 1 \in DOMAIN s /\ Head(s) = s[1]
  OBVIOUS
<1>2. ASSUME NEW e \in S
      PROVE  /\ Len(s) \in Nat /\ DOMAIN s = 1 .. Len(s)
             /\ \A k \in DOMAIN Append(s, e) :
                   \/ k \in DOMAIN s /\ Append(s, e)[k] = s[k]
                   \/ k = Len(s) + 1 /\ Append(s, e)[k] = e
  OBVIOUS
<1>3. s # <<>> /\ Precede(s, M, N) => Precede(Tail(s), M, N)
  BY <1>1 DEF Precede
<1>4. s # <<>> /\ Precede(s, M, N) /\ Head(s) \in N => ~Some(s, M)
  BY <1>1 DEF Precede, Some
<1>5. ASSUME NEW e \in S, Precede(s, M, N), e \notin M \cup N
      PROVE  Precede(Append(s, e), M, N)
  BY <1>2, <1>5 DEF Precede
<1>6. ASSUME NEW e \in S, ~Some(s, N)
      PROVE  /\ e \notin M => Precede(Append(s, e), M, N)
             /\ e \notin N => Precede(Append(s, e), M, N)
  BY <1>2, <1>6 DEF Precede, Some
<1> QED
  BY <1>3, <1>4, <1>5, <1>6

(* Events, messages and jobs are of the record type their tag names.       *)
LEMMA EventTypes ==
    /\ \A t \in {"ConfigLoaded", "AllDispatched", "FatalError"} : Event(t) \in Events
    /\ \A t \in {"WorkerConnected", "WorkerJoined", "WorkerLeft", "WorkerConnectionLost"},
          w \in Workers : From(t, w) \in Events
    /\ [type |-> "SplitComplete", parts |-> MinWorkers] \in Events
    /\ \A w \in Workers, r \in Nat, p \in Pieces : PartitionReturned(w, r, p) \in Events
    /\ \A r \in Nat : PhaseTimeout(r) \in Events
    /\ \A nf \in BOOLEAN : MergeComplete(nf) \in Events
    /\ Event("Shutdown") \in Messages /\ Event("ConnectionLost") \in Messages
    /\ \A p \in Pieces : [type |-> "ReceivePartition", partition |-> p] \in Messages
BY DEF Events, Messages, Event, From, PartitionReturned, PhaseTimeout, MergeComplete

(* The fields a tag tells of.                                              *)
LEMMA EventFields ==
    /\ \A e \in Events : e.type = "PartitionReturned" => e.partition \in Pieces
    /\ \A e \in Events : e.type = "SplitComplete" => e.parts = MinWorkers
    /\ \A e \in Events : e.type = "PhaseTimeout" => e.started \in Nat
    /\ \A e \in Events : e.type \in {"WorkerJoined", "WorkerLeft"} => e.worker_id \in Workers
    /\ \A m \in Messages : m.type = "ReceivePartition" => m.partition \in Pieces
    /\ \A j \in Jobs : j.kind = "dispatch" => j.left \in Seq(Pieces)
    /\ \A j \in Jobs : j.kind = "merge" => j.parts \in Seq(Pieces)
    /\ \A j \in Jobs : j.kind = "split" => j.num_workers = MinWorkers
BY DEF Events, Messages, Jobs

-----------------------------------------------------------------------------
(* Constants.                                                              *)
LEMMA ConstantFacts ==
    /\ MinWorkers \in Nat /\ MinWorkers >= 1 /\ MaxRound \in Nat /\ Off \in Nat
    /\ Slots \subseteq Workers /\ Late \in Workers /\ Late \notin Slots /\ Slots \subseteq Nat
    /\ \A w \in Workers : w \in Slots \/ w = Late
    /\ NoPart \in Pieces
BY FSMAssumption DEF Off, Slots, Workers, Late, NoPart, Pieces

(* The coordinator's context, field by field.                              *)
LEMMA ContextFields ==
    ASSUME FSMTypes
    PROVE  /\ ctx.state \in CoordinatorStates /\ ctx.connected_workers \in Nat
           /\ ctx.total_workers = MinWorkers /\ ctx.partitions_received \in Nat
           /\ ctx.collected_partitions \in Seq(Pieces) /\ ctx.round \in Nat
BY DEF FSMTypes, Contexts

(* Shutdown and ConnectionLost behind what is in the inboxes.              *)
LEMMA ShutdownAllType ==
    ASSUME FSMTypes, ShutdownAll
    PROVE  /\ inbox' \in [Workers -> Seq(Messages)] /\ open' \in SUBSET Workers
           /\ \A w \in Workers : Some(inbox'[w], Assigned) => Some(inbox[w], Assigned)
<1>1. ASSUME NEW w \in Workers
      PROVE  /\ inbox'[w] \in Seq(Messages)
             /\ Some(inbox'[w], Assigned) => Some(inbox[w], Assigned)
  <2>1. inbox[w] \in Seq(Messages)
    BY DEF FSMTypes
  <2>2. CASE w \notin open
    BY <2>1, <2>2 DEF ShutdownAll
  <2>3. CASE w \in open
    <3> DEFINE s1 == Append(inbox[w], Event("Shutdown"))
    <3> DEFINE s2 == Append(s1, Event("ConnectionLost"))
    <3>1. inbox'[w] = inbox[w] \o <<Event("Shutdown"), Event("ConnectionLost")>>
      BY <2>3 DEF ShutdownAll
    <3>2. Event("Shutdown") \in Messages /\ Event("ConnectionLost") \in Messages
      BY EventTypes
    <3>3. s1 \in Seq(Messages) /\ s2 \in Seq(Messages)
      BY <2>1, <3>2
    <3>4. inbox'[w] = s2
      BY <2>1, <3>1, <3>2
    <3>5. Event("Shutdown") \notin Assigned /\ Event("ConnectionLost") \notin Assigned
      BY DEF Event, Assigned
    <3>6. Some(s1, Assigned) => Some(inbox[w], Assigned)
      BY <2>1, <3>2, <3>5, AppendMembers
    <3> HIDE DEF s1
    <3>7. Some(s2, Assigned) => Some(s1, Assigned)
      BY <3>2, <3>3, <3>5, AppendMembers
    <3> QED
      BY <3>3, <3>4, <3>6, <3>7
  <2> QED
    BY <2>2, <2>3
<1>2. inbox' = [w \in Workers |-> inbox'[w]] /\ open' = {}
  BY DEF ShutdownAll
<1> QED
  BY <1>1, <1>2

(* Every step keeps the types.                                             *)
LEMMA TypesStep ==
    ASSUME FSMTypes, [Next]_vars
    PROVE  FSMTypes'
<1> USE DEF CoordinatorStates, ActiveRound, Ended
<1>0. /\ events \in Seq(Events) /\ inbox \in [Workers -> Seq(Messages)] /\ ctx \in Contexts
      /\ worker \in [Workers -> [state : WorkerStates, round : Nat]]
      /\ part \in [Workers -> Pieces] /\ timer \in Nat /\ job \in Jobs /\ open \in SUBSET Workers
      /\ faults \in Nat
      /\ ctx.state \in {"Init", "WaitingForWorkers"} =>
            ctx.connected_workers < MinWorkers /\ ctx.net
  BY DEF FSMTypes
<1>t. /\ events # <<>> => Tail(events) \in Seq(Events) /\ Head(events) \in Events
      /\ \A e \in Events : Append(events, e) \in Seq(Events)
  BY <1>0
<1>s. \A st \in CoordinatorStates :
         [ctx EXCEPT !.state = st] \in Contexts /\ [ctx EXCEPT !.state = st].state = st
  BY <1>0 DEF Contexts
<1>c. [ctx EXCEPT !.state = "WaitingForWorkers"].connected_workers = ctx.connected_workers
  BY <1>0 DEF Contexts
<1>n. [ctx EXCEPT !.state = "WaitingForWorkers"].net <=> ctx.net
  BY <1>0, Zenon DEF Contexts
<1>1. CASE OnConfigLoaded
  <2>1. ctx' = [ctx EXCEPT !.state = "WaitingForWorkers"] /\ ctx.state = "Init"
    BY <1>1 DEF OnConfigLoaded, Takes
  <2>2. ctx' \in Contexts /\ ctx'.connected_workers < MinWorkers
    BY <1>0, <1>c, <1>s, <2>1
  <2>3. ctx'.net
    BY <1>0, <1>n, <2>1
  <2> QED
    BY <1>0, <1>1, <1>t, <2>2, <2>3
       DEF FSMTypes, OnConfigLoaded, Takes, workerVars, NoShutdown
<1>2. CASE OnWorkerJoined \/ OnUnexpected
  BY <1>0, <1>2, <1>t
     DEF FSMTypes, OnWorkerJoined, OnUnexpected, Takes, workerVars, NoShutdown
<1>3. CASE OnWorkerConnected
  <2> DEFINE c == ctx.connected_workers + 1
  <2>1. c \in Nat /\ ctx.state = "WaitingForWorkers" /\ c <= MinWorkers
        /\ MinWorkers \in Nat /\ ctx.total_workers = MinWorkers /\ ctx.net
        /\ events' = Tail(events) /\ events # <<>>
        /\ UNCHANGED <<worker, part, timer, open, inbox, faults>>
    BY <1>0, <1>3, ContextFields, ConstantFacts
       DEF OnWorkerConnected, Takes, workerVars, NoShutdown
  <2>2. CASE c >= MinWorkers
    <3>0. c = MinWorkers
      BY <2>1, <2>2
    <3>1. ctx' = [ctx EXCEPT !.connected_workers = MinWorkers, !.total_workers = MinWorkers,
                             !.state = "Partitioning", !.net = ctx.net /\ FALSE]
      BY <1>3, <2>2, <3>0 DEF OnWorkerConnected
    <3>2. (ctx.net /\ FALSE) \in BOOLEAN
      BY Zenon
    <3>3. ctx' \in Contexts /\ ctx'.state = "Partitioning"
      BY <1>0, <2>1, <3>1, <3>2 DEF Contexts
    <3>4. job' = InvokeSplit(MinWorkers, ctx.round)
      BY <1>3, <2>1, <2>2, <3>0 DEF OnWorkerConnected
    <3>5. job' \in Jobs
      BY <3>4, ContextFields DEF InvokeSplit, Jobs
    <3> QED
      BY <1>0, <1>t, <2>1, <3>3, <3>5 DEF FSMTypes
  <2>3. CASE ~(c >= MinWorkers)
    <3>1. ctx' = [ctx EXCEPT !.connected_workers = c, !.total_workers = ctx.total_workers,
                             !.state = ctx.state, !.net = ctx.net /\ TRUE]
      BY <1>3, <2>3 DEF OnWorkerConnected
    <3>2. (ctx.net /\ TRUE) \in BOOLEAN /\ (ctx.net /\ TRUE)
      BY <2>1, Zenon
    <3> HIDE DEF c
    <3>3. ctx' \in Contexts /\ ctx'.connected_workers = c
      BY <1>0, <2>1, <3>1, <3>2 DEF Contexts
    <3>4. ctx'.net
      BY <1>0, <3>1, <3>2, Zenon DEF Contexts
    <3>5. job' = job
      BY <1>3, <2>3 DEF OnWorkerConnected, c
    <3>6. c < MinWorkers
      BY <2>1, <2>3
    <3> QED
      BY <1>0, <1>t, <2>1, <3>3, <3>4, <3>5, <3>6 DEF FSMTypes
  <2> QED
    BY <2>2, <2>3
<1>4. CASE OnSplitComplete
  <2> DEFINE g == [i \in 1 .. MinWorkers |-> [round |-> ctx.round, slot |-> i - 1]]
  <2>1. Head(events).parts = MinWorkers
    BY <1>4, <1>t, EventFields DEF OnSplitComplete, Takes
  <2>2. \A i \in 1 .. MinWorkers : [round |-> ctx.round, slot |-> i - 1] \in Pieces
    BY ContextFields, ConstantFacts DEF Pieces, Slots
  <2>3. g \in [1 .. MinWorkers -> Pieces]
    BY <2>2
  <2>4. job' = [kind |-> "dispatch", left |-> g]
    BY <1>4, <2>1 DEF OnSplitComplete
  <2> HIDE DEF g
  <2>5. g \in Seq(Pieces)
    BY <2>3, ConstantFacts
  <2>6. job' \in Jobs
    BY <2>4, <2>5 DEF Jobs
  <2>7. ctx' \in Contexts /\ ctx'.state = "Dispatching"
    BY <1>4, <1>s DEF OnSplitComplete
  <2> QED
    BY <1>0, <1>4, <1>t, <2>6, <2>7
       DEF FSMTypes, OnSplitComplete, Takes, workerVars, NoShutdown
<1>5. CASE OnAllDispatched
  <2>1. <<>> \in Seq(Pieces)
    OBVIOUS
  <2>2. ctx' \in Contexts /\ ctx'.state = "WaitingForResults"
    BY <1>0, <1>5, <2>1 DEF OnAllDispatched, Contexts
  <2> QED
    BY <1>0, <1>5, <1>t, <2>2, ContextFields
       DEF FSMTypes, OnAllDispatched, Takes, workerVars, NoShutdown
<1>6. CASE OnPartitionReturned
  <2> DEFINE got == Append(ctx.collected_partitions, Head(events).partition)
             n == ctx.partitions_received + 1
  <2>1. Head(events).partition \in Pieces /\ ctx.state = "WaitingForResults"
        /\ events' = Tail(events) /\ events # <<>>
        /\ UNCHANGED <<worker, part, open, inbox, faults>>
    BY <1>6, <1>t, EventFields DEF OnPartitionReturned, Takes, workerVars, NoShutdown
  <2>2. got \in Seq(Pieces) /\ <<>> \in Seq(Pieces) /\ n \in Nat
    BY <2>1, ContextFields
  <2>3. PICK c \in Seq(Pieces), st \in {"Merging", "WaitingForResults"} :
           ctx' = [ctx EXCEPT !.partitions_received = n, !.collected_partitions = c,
                              !.state = st]
    <3>1. CASE n >= ctx.total_workers
      <4>1. ctx' = [ctx EXCEPT !.partitions_received = n, !.collected_partitions = <<>>,
                               !.state = "Merging"]
        BY <1>6, <3>1 DEF OnPartitionReturned
      <4> QED
        BY <2>2, <4>1
    <3>2. CASE ~(n >= ctx.total_workers)
      <4>1. ctx' = [ctx EXCEPT !.partitions_received = n, !.collected_partitions = got,
                               !.state = ctx.state]
        BY <1>6, <3>2 DEF OnPartitionReturned
      <4> QED
        BY <2>1, <2>2, <4>1
    <3> QED
      BY <3>1, <3>2
  <2>4. job' \in Jobs
    <3>1. [kind |-> "merge", parts |-> got] \in Jobs
      BY <2>2 DEF Jobs
    <3> QED
      BY <1>0, <1>6, <3>1 DEF OnPartitionReturned
  <2>5. timer' \in Nat
    BY <1>0, <1>6, ConstantFacts DEF OnPartitionReturned
  <2> HIDE DEF n, got
  <2>6. ctx' \in Contexts /\ ctx'.state \in {"Merging", "WaitingForResults"}
    BY <1>0, <2>2, <2>3 DEF Contexts
  <2> QED
    BY <1>0, <1>t, <2>1, <2>4, <2>5, <2>6 DEF FSMTypes
<1>7. CASE OnPhaseTimeout \/ OnFatalError
  <2>1. ctx' \in Contexts /\ ctx'.state = "Error"
    BY <1>7, <1>s DEF OnPhaseTimeout, OnFatalError
  <2>2. inbox' \in [Workers -> Seq(Messages)] /\ open' \in SUBSET Workers
    BY <1>7, ShutdownAllType DEF OnPhaseTimeout, OnFatalError
  <2> QED
    BY <1>0, <1>7, <1>t, <2>1, <2>2
       DEF FSMTypes, OnPhaseTimeout, OnFatalError, Takes, workerVars
<1>8. CASE OnMergeComplete
  <2>1. ctx' \in Contexts /\ ctx'.state \in {"Done", "Partitioning"}
    <3>1. ctx.round + 1 \in Nat
      BY ContextFields
    <3>2. ctx' = [ctx EXCEPT !.state = "Done"]
          \/ ctx' = [ctx EXCEPT !.state = "Partitioning", !.round = ctx.round + 1]
      BY <1>8 DEF OnMergeComplete
    <3> QED
      BY <1>0, <3>1, <3>2 DEF Contexts
  <2>2. job' \in Jobs
    <3>1. InvokeSplit(ctx.total_workers, ctx.round + 1) \in Jobs
      BY ContextFields DEF InvokeSplit, Jobs
    <3> QED
      BY <1>0, <1>8, <3>1 DEF OnMergeComplete
  <2>3. inbox' \in [Workers -> Seq(Messages)] /\ open' \in SUBSET Workers
    BY <1>0, <1>8, ShutdownAllType DEF OnMergeComplete, NoShutdown
  <2> QED
    BY <1>0, <1>8, <1>t, <2>1, <2>2, <2>3
       DEF FSMTypes, OnMergeComplete, Takes, workerVars
<1>9. CASE OnWorkerLeft
  BY <1>0, <1>9, <1>t DEF FSMTypes, OnWorkerLeft, Takes, workerVars
<1>j. NoJob \in Jobs
  BY DEF NoJob, Jobs
<1>10. CASE RunSplit
  <2>1. events' \in Seq(Events)
    BY <1>0, <1>10, <1>t, EventTypes, EventFields DEF RunSplit, Post
  <2> QED
    BY <1>0, <1>10, <1>j, <2>1 DEF FSMTypes, RunSplit, workerVars
<1>11. CASE RunDispatch
  <2>1. UNCHANGED <<ctx, worker, part, timer, open, faults>>
    BY <1>11 DEF RunDispatch, workerVars
  <2>2. CASE job.left = <<>>
    <3>1. events' \in Seq(Events) /\ job' = NoJob /\ inbox' = inbox
      BY <1>11, <1>t, <2>2, EventTypes DEF RunDispatch, Post
    <3> QED
      BY <1>0, <1>j, <2>1, <3>1 DEF FSMTypes
  <2>3. CASE job.left # <<>>
    <3>1. job \in [kind : {"dispatch"}, left : Seq(Pieces)]
      BY <1>0, <1>11 DEF RunDispatch, Jobs
    <3>2. Head(job.left) \in Pieces /\ Tail(job.left) \in Seq(Pieces)
      BY <2>3, <3>1
    <3>3. job' = [job EXCEPT !.left = Tail(@)] /\ events' = events
      BY <1>11, <2>3 DEF RunDispatch
    <3>4. job' \in [kind : {"dispatch"}, left : Seq(Pieces)]
      BY <3>1, <3>2, <3>3
    <3>5. job' \in Jobs
      BY <3>4 DEF Jobs
    <3>6. PICK p \in Pieces : p = Head(job.left)
      BY <3>2
    <3>7. \/ inbox' = inbox
          \/ inbox' = [inbox EXCEPT ![p.slot] =
                          Append(@, [type |-> "ReceivePartition", partition |-> p])]
      BY <1>11, <2>3, <3>6 DEF RunDispatch
    <3>8. [type |-> "ReceivePartition", partition |-> p] \in Messages /\ p.slot \in Workers
      BY EventTypes, ConstantFacts DEF Pieces
    <3>9. inbox' \in [Workers -> Seq(Messages)]
      <4>1. PICK m \in Messages, w \in Workers :
               inbox' = inbox \/ inbox' = [inbox EXCEPT ![w] = Append(inbox[w], m)]
        BY <3>7, <3>8
      <4>2. Append(inbox[w], m) \in Seq(Messages)
        BY <1>0
      <4> QED
        BY <1>0, <4>1, <4>2
    <3> QED
      BY <1>0, <2>1, <3>3, <3>5, <3>9 DEF FSMTypes
  <2> QED
    BY <2>2, <2>3
<1>12. CASE \E nf \in BOOLEAN : RunMerge(nf)
  <2>1. events' \in Seq(Events)
    BY <1>0, <1>12, <1>t, EventTypes DEF RunMerge, Post
  <2> QED
    BY <1>0, <1>12, <1>j, <2>1 DEF FSMTypes, RunMerge, workerVars
<1>13. CASE TimerFires
  BY <1>0, <1>13, <1>t, EventTypes, ConstantFacts DEF FSMTypes, TimerFires, Post, workerVars
<1>14. ASSUME NEW w \in Workers, Connected(w)
       PROVE  FSMTypes'
  <2>1. From(IF w = Late THEN "WorkerJoined" ELSE "WorkerConnected", w) \in Events
    BY EventTypes
  <2>2. worker' \in [Workers -> [state : WorkerStates, round : Nat]]
    BY <1>0, <1>14 DEF Connected, WorkerStates
  <2> QED
    BY <1>0, <1>14, <1>t, <2>1, <2>2 DEF FSMTypes, Connected, Post
<1>i. ASSUME NEW w \in Workers, NEW ty, Arrives(w, ty)
      PROVE  inbox' \in [Workers -> Seq(Messages)] /\ Head(inbox[w]) \in Messages
  BY <1>0, <1>i DEF Arrives
<1>w. ASSUME NEW w \in Workers, NEW st \in WorkerStates,
             worker' = [worker EXCEPT ![w].state = st]
      PROVE  worker' \in [Workers -> [state : WorkerStates, round : Nat]]
  BY <1>0, <1>w
<1>p. \A w \in Workers : [part EXCEPT ![w] = NoPart] \in [Workers -> Pieces]
  BY <1>0, ConstantFacts
<1>15. ASSUME NEW w \in Workers, ReceivePartition(w)
       PROVE  FSMTypes'
  <2>1. /\ Head(inbox[w]).type = "ReceivePartition"
        /\ inbox' \in [Workers -> Seq(Messages)] /\ Head(inbox[w]) \in Messages
    BY <1>15, <1>i DEF ReceivePartition, Arrives
  <2>2. Head(inbox[w]).partition \in Pieces
    BY <2>1, EventFields
  <2>3. worker' \in [Workers -> [state : WorkerStates, round : Nat]]
    BY <1>15, <1>w DEF ReceivePartition, WorkerStates
  <2>4. part' \in [Workers -> Pieces]
    BY <1>0, <1>15, <2>2 DEF ReceivePartition
  <2> QED
    BY <1>0, <1>15, <2>1, <2>3, <2>4 DEF FSMTypes, ReceivePartition
<1>16. ASSUME NEW w \in Workers, ReductionComplete(w)
       PROVE  FSMTypes'
  <2>1. PartitionReturned(w, worker[w].round, part[w]) \in Events
    BY <1>0, EventTypes
  <2>2. worker' \in [Workers -> [state : WorkerStates, round : Nat]]
    BY <1>16, <1>w DEF ReductionComplete, WorkerStates
  <2> QED
    BY <1>0, <1>16, <1>p, <1>t, <2>1, <2>2 DEF FSMTypes, ReductionComplete
<1>17. ASSUME NEW w \in Workers, SendComplete(w) \/ WorkerShutdown(w) \/ ConnectionLost(w)
       PROVE  FSMTypes'
  <2>1. worker' \in [Workers -> [state : WorkerStates, round : Nat]]
    BY <1>17, <1>w DEF SendComplete, WorkerShutdown, ConnectionLost, WorkerStates
  <2>2. inbox' \in [Workers -> Seq(Messages)]
    BY <1>0, <1>17, <1>i DEF SendComplete, WorkerShutdown, ConnectionLost
  <2>3. part' \in [Workers -> Pieces]
    BY <1>0, <1>17, <1>p DEF SendComplete, WorkerShutdown, ConnectionLost
  <2> QED
    BY <1>0, <1>17, <2>1, <2>2, <2>3
       DEF FSMTypes, SendComplete, WorkerShutdown, ConnectionLost
<1>18. ASSUME NEW w \in Workers, WorkerIgnores(w)
       PROVE  FSMTypes'
  <2>1. inbox' \in [Workers -> Seq(Messages)]
    BY <1>18, <1>i DEF WorkerIgnores
  <2> QED
    BY <1>0, <1>18, <2>1 DEF FSMTypes, WorkerIgnores, workerVars
<1>19. ASSUME NEW w \in Workers, ReductionError(w)
       PROVE  FSMTypes'
  <2>1. worker' \in [Workers -> [state : WorkerStates, round : Nat]]
    BY <1>19, <1>w DEF ReductionError, WorkerStates
  <2>2. Event("FatalError") \in Events
    BY EventTypes
  <2> QED
    BY <1>0, <1>19, <1>p, <1>t, <2>1, <2>2 DEF FSMTypes, ReductionError
<1>20. ASSUME NEW w \in Workers, Breaks(w) \/ Leaves(w)
       PROVE  FSMTypes'
  <2>1. From("WorkerConnectionLost", w) \in Events /\ From("WorkerLeft", w) \in Events
        /\ Event("ConnectionLost") \in Messages
    BY EventTypes
  <2>2. PICK kept \in {inbox[w], <<>>} :
           inbox' = [inbox EXCEPT ![w] = Append(kept, Event("ConnectionLost"))]
    <3>1. CASE Breaks(w)
      BY <3>1 DEF Breaks
    <3>2. CASE Leaves(w)
      BY <3>2 DEF Leaves
    <3> QED
      BY <1>20, <3>1, <3>2
  <2>3. inbox' \in [Workers -> Seq(Messages)]
    <3>1. inbox[w] \in Seq(Messages) /\ <<>> \in Seq(Messages)
      BY <1>0
    <3>2. kept \in Seq(Messages)
      BY <2>2, <3>1
    <3>3. Append(kept, Event("ConnectionLost")) \in Seq(Messages)
      BY <2>1, <3>2
    <3> QED
      BY <1>0, <2>2, <3>3
  <2>4. /\ events' \in Seq(Events) /\ open' \in SUBSET Workers /\ faults' \in Nat
        /\ UNCHANGED <<ctx, worker, part, job, timer>>
    <3>1. CASE Breaks(w)
      BY <1>0, <1>t, <2>1, <3>1 DEF Breaks, Post, workerVars
    <3>2. CASE Leaves(w)
      BY <1>0, <1>t, <2>1, <3>2 DEF Leaves, Post, workerVars
    <3> QED
      BY <1>20, <3>1, <3>2
  <2> QED
    BY <1>0, <2>3, <2>4 DEF FSMTypes
<1>21. CASE UNCHANGED vars
  BY <1>0, <1>21 DEF FSMTypes, vars
<1> HIDE DEF CoordinatorStates, ActiveRound, Ended
<1> QED
  BY <1>1, <1>2, <1>3, <1>4, <1>5, <1>6, <1>7, <1>8, <1>9, <1>10, <1>11, <1>12, <1>13, <1>14,
     <1>15, <1>16, <1>17, <1>18, <1>19, <1>20, <1>21
     DEF Next, CoordinatorTransition, Runtime, WorkerTransition, Fault

-----------------------------------------------------------------------------
(***************************************************************************)
(* What a step does to the pieces.  A place keeps its pieces when it gains *)
(* none; a step moves one piece from a place to the next, or loses it.     *)
(***************************************************************************)
Fewer(s, t, M) ==
    /\ Some(t, M) => Some(s, M)
    /\ AtMostOne(s, M) => AtMostOne(t, M)

EventsKeep ==
    /\ \A s \in Slots : Fewer(events, events', Returned(s))
    /\ \A r \in Nat : Every(events, ReturnsOf(r)) => Every(events', ReturnsOf(r))

MessagesKeep(q, t, w) ==
    /\ Fewer(q, t, Assigned)
    /\ \A r \in Nat : Every(q, AssignsOf(r, w)) => Every(t, AssignsOf(r, w))

InboxKeep == \A w \in Workers : MessagesKeep(inbox[w], inbox'[w], w)

WorkerKeep ==
    \A w \in Workers : worker'[w].state = "Reducing" =>
        worker[w].state = "Reducing" /\ part'[w] = part[w]

JobKeep == job'.kind = "dispatch" => job' = job

HandKeep == ctx'.collected_partitions \in {ctx.collected_partitions, <<>>}

(* The event queue gains no result unless one is posted.                   *)
LEMMA EventsKept ==
    ASSUME FSMTypes,
           \/ events' = events
           \/ events # <<>> /\ events' = Tail(events)
           \/ \E e \in Events : e.type # "PartitionReturned" /\ events' = Append(events, e)
    PROVE  EventsKeep
<1>1. events \in Seq(Events)
  BY DEF FSMTypes
<1>2. CASE events' = events
  BY <1>2 DEF EventsKeep, Fewer
<1>3. CASE events # <<>> /\ events' = Tail(events)
  BY <1>1, <1>3, TailMembers DEF EventsKeep, Fewer
<1>4. ASSUME NEW e \in Events, e.type # "PartitionReturned", events' = Append(events, e)
      PROVE  EventsKeep
  <2>1. \A s \in Slots : e \notin Returned(s)
    BY <1>4 DEF Returned, Kind
  <2>2. \A r \in Nat : e \in ReturnsOf(r)
    BY <1>4 DEF ReturnsOf
  <2> QED
    BY <1>1, <1>4, <2>1, <2>2, AppendMembers DEF EventsKeep, Fewer
<1> QED
  BY <1>2, <1>3, <1>4

(* An inbox gains no piece unless one is assigned.                         *)
LEMMA MessagesKept ==
    ASSUME NEW q \in Seq(Messages), NEW w
    PROVE  /\ MessagesKeep(q, q, w) /\ MessagesKeep(q, <<>>, w)
           /\ q # <<>> => MessagesKeep(q, Tail(q), w)
           /\ \A t \in {"Shutdown", "ConnectionLost"} : MessagesKeep(q, Append(q, Event(t)), w)
<1>1. MessagesKeep(q, q, w) /\ MessagesKeep(q, <<>>, w)
  BY DEF MessagesKeep, Fewer, Some, AtMostOne, Every
<1>2. q # <<>> => MessagesKeep(q, Tail(q), w)
  BY TailMembers DEF MessagesKeep, Fewer
<1>3. ASSUME NEW t \in {"Shutdown", "ConnectionLost"}
      PROVE  MessagesKeep(q, Append(q, Event(t)), w)
  <2>1. Event(t) \in Messages
    BY EventTypes
  <2>2. Event(t) \notin Assigned /\ \A r \in Nat : Event(t) \in AssignsOf(r, w)
    BY <2>1 DEF Assigned, AssignsOf, Event
  <2> QED
    BY <2>1, <2>2, AppendMembers DEF MessagesKeep, Fewer
<1> QED
  BY <1>1, <1>2, <1>3

(* Nothing gained anywhere.                                                *)
LEMMA NothingGained ==
    ASSUME EventsKeep, InboxKeep, WorkerKeep, JobKeep, HandKeep
    PROVE  /\ \A s \in Slots : OnePiece(s) => OnePiece(s)'
           /\ \A s \in Slots : HasPiece(s)' => HasPiece(s)
           /\ \A r \in Nat : OfRound(r) => OfRound(r)'
<1>0. Slots \subseteq Workers
  BY ConstantFacts
<1>1. ASSUME NEW s \in Slots
      PROVE  (OnePiece(s) => OnePiece(s)') /\ (HasPiece(s)' => HasPiece(s))
  <2>1. /\ InJob(s)' => InJob(s)
        /\ (job.kind = "dispatch" => AtMostOne(job.left, OfSlot(s)))
              => (job.kind = "dispatch" => AtMostOne(job.left, OfSlot(s)))'
    BY DEF InJob, JobKeep
  <2>2. /\ InInbox(s)' => InInbox(s)
        /\ AtMostOne(inbox[s], Assigned) => AtMostOne(inbox[s], Assigned)'
    BY <1>0 DEF InInbox, InboxKeep, MessagesKeep, Fewer
  <2>3. InWorker(s)' => InWorker(s)
    BY <1>0 DEF InWorker, WorkerKeep
  <2>4. /\ InEvents(s)' => InEvents(s)
        /\ AtMostOne(events, Returned(s)) => AtMostOne(events, Returned(s))'
    BY DEF InEvents, EventsKeep, Fewer
  <2>5. /\ InHand(s)' => InHand(s)
        /\ AtMostOne(ctx.collected_partitions, OfSlot(s))
              => AtMostOne(ctx.collected_partitions, OfSlot(s))'
    BY DEF InHand, HandKeep, Some, AtMostOne
  <2> QED
    BY <2>1, <2>2, <2>3, <2>4, <2>5 DEF OnePiece, HasPiece
<1>2. ASSUME NEW r \in Nat, OfRound(r)
      PROVE  OfRound(r)'
  <2>1. (job.kind = "dispatch" => Every(job.left, PiecesOf(r)))'
    BY <1>2 DEF OfRound, JobKeep
  <2>2. (\A w \in Workers : Every(inbox[w], AssignsOf(r, w)))'
    BY <1>2 DEF OfRound, InboxKeep, MessagesKeep
  <2>3. (\A w \in Workers : InWorker(w) => part[w] = PieceOf(r, w))'
    BY <1>2 DEF OfRound, InWorker, WorkerKeep
  <2>4. Every(events, ReturnsOf(r))'
    BY <1>2 DEF OfRound, EventsKeep
  <2>5. Every(ctx.collected_partitions, PiecesOf(r))'
    BY <1>2 DEF OfRound, HandKeep, Every
  <2> QED
    BY <2>1, <2>2, <2>3, <2>4, <2>5 DEF OfRound
<1> QED
  BY <1>1, <1>2

(* A coordinator's transition other than the two that move pieces.         *)
LEMMA CoordinatorQuiet ==
    ASSUME FSMTypes,
           \/ OnConfigLoaded \/ OnWorkerConnected \/ OnAllDispatched \/ OnPhaseTimeout
           \/ OnMergeComplete \/ OnFatalError \/ OnWorkerJoined \/ OnWorkerLeft \/ OnUnexpected
    PROVE  EventsKeep /\ InboxKeep /\ WorkerKeep /\ JobKeep /\ HandKeep
<1> USE DEF Takes
<1>0. ctx \in Contexts /\ inbox \in [Workers -> Seq(Messages)]
  BY DEF FSMTypes
<1>1. events # <<>> /\ events' = Tail(events)
  BY DEF OnConfigLoaded, OnWorkerConnected, OnAllDispatched, OnPhaseTimeout, OnMergeComplete,
         OnFatalError, OnWorkerJoined, OnWorkerLeft, OnUnexpected
<1>2. EventsKeep
  BY <1>1, EventsKept
<1>3. InboxKeep
  <2>1. inbox' = inbox \/ ShutdownAll
    BY DEF OnConfigLoaded, OnWorkerConnected, OnAllDispatched, OnPhaseTimeout, OnMergeComplete,
           OnFatalError, OnWorkerJoined, OnWorkerLeft, OnUnexpected, NoShutdown
  <2>2. CASE inbox' = inbox
    BY <1>0, <2>2, MessagesKept DEF InboxKeep
  <2>3. CASE ShutdownAll
    <3>1. ASSUME NEW w \in Workers
          PROVE  MessagesKeep(inbox[w], inbox'[w], w)
      <4>1. inbox[w] \in Seq(Messages)
        BY <1>0
      <4>2. CASE w \notin open
        BY <2>3, <4>1, <4>2, MessagesKept DEF ShutdownAll
      <4>3. CASE w \in open
        <5> DEFINE q == Append(inbox[w], Event("Shutdown"))
        <5>1. Event("Shutdown") \in Messages /\ Event("ConnectionLost") \in Messages
          BY EventTypes
        <5>2. q \in Seq(Messages)
          BY <4>1, <5>1
        <5>3. inbox'[w] = inbox[w] \o <<Event("Shutdown"), Event("ConnectionLost")>>
          BY <2>3, <4>3 DEF ShutdownAll
        <5>4. inbox'[w] = Append(q, Event("ConnectionLost"))
          BY <4>1, <5>1, <5>3
        <5>5. MessagesKeep(inbox[w], q, w)
          BY <4>1, MessagesKept
        <5> HIDE DEF q
        <5>6. MessagesKeep(q, inbox'[w], w)
          BY <5>2, <5>4, MessagesKept
        <5> QED
          BY <5>5, <5>6 DEF MessagesKeep, Fewer
      <4> QED
        BY <4>2, <4>3
    <3> QED
      BY <3>1 DEF InboxKeep
  <2> QED
    BY <2>1, <2>2, <2>3
<1>4. WorkerKeep
  BY DEF WorkerKeep, OnConfigLoaded, OnWorkerConnected, OnAllDispatched, OnPhaseTimeout,
         OnMergeComplete, OnFatalError, OnWorkerJoined, OnWorkerLeft, OnUnexpected, workerVars
<1>5. JobKeep
  BY DEF JobKeep, OnConfigLoaded, OnWorkerConnected, OnAllDispatched, OnPhaseTimeout,
         OnMergeComplete, OnFatalError, OnWorkerJoined, OnWorkerLeft, OnUnexpected, InvokeSplit
<1>6. HandKeep
  <2>1. CASE OnWorkerConnected
    BY <1>0, <2>1 DEF HandKeep, OnWorkerConnected, Contexts
  <2>2. CASE OnAllDispatched
    BY <1>0, <2>2 DEF HandKeep, OnAllDispatched, Contexts
  <2>3. CASE ~OnWorkerConnected /\ ~OnAllDispatched
    BY <1>0, <2>3 DEF HandKeep, OnConfigLoaded, OnPhaseTimeout, OnMergeComplete, OnFatalError,
                      OnWorkerJoined, OnWorkerLeft, OnUnexpected, Contexts
  <2> QED
    BY <2>1, <2>2, <2>3
<1> QED
  BY <1>2, <1>3, <1>4, <1>5, <1>6

(* A job or a timer that ends posts an event that is no result.            *)
LEMMA RuntimeQuiet ==
    ASSUME FSMTypes,
           \/ RunSplit \/ (\E nf \in BOOLEAN : RunMerge(nf)) \/ TimerFires
           \/ RunDispatch /\ job.left = <<>>
    PROVE  EventsKeep /\ InboxKeep /\ WorkerKeep /\ JobKeep /\ HandKeep
<1>0. inbox \in [Workers -> Seq(Messages)] /\ job \in Jobs /\ timer \in Nat
  BY DEF FSMTypes
<1>1. \E e \in Events : e.type # "PartitionReturned" /\ events' = Append(events, e)
  <2>1. CASE RunSplit
    <3>1. events' = Append(events, [type |-> "SplitComplete", parts |-> MinWorkers])
      BY <1>0, <2>1, EventFields DEF RunSplit, Post
    <3> QED
      BY <3>1, EventTypes
  <2>2. CASE \E nf \in BOOLEAN : RunMerge(nf)
    <3>1. PICK nf \in BOOLEAN : events' = Append(events, MergeComplete(nf))
      BY <2>2 DEF RunMerge, Post
    <3>2. MergeComplete(nf).type # "PartitionReturned"
      BY DEF MergeComplete
    <3> QED
      BY <3>1, <3>2, EventTypes
  <2>3. CASE TimerFires
    <3>1. events' = Append(events, PhaseTimeout(timer))
      BY <2>3 DEF TimerFires, Post
    <3>2. PhaseTimeout(timer).type # "PartitionReturned"
      BY DEF PhaseTimeout
    <3> QED
      BY <1>0, <3>1, <3>2, EventTypes
  <2>4. CASE RunDispatch /\ job.left = <<>>
    <3>1. events' = Append(events, Event("AllDispatched"))
      BY <2>4 DEF RunDispatch, Post
    <3>2. Event("AllDispatched").type # "PartitionReturned"
      BY DEF Event
    <3> QED
      BY <3>1, <3>2, EventTypes
  <2> QED
    BY <2>1, <2>2, <2>3, <2>4
<1>2. EventsKeep
  BY <1>1, EventsKept
<1>3. inbox' = inbox /\ worker' = worker /\ part' = part /\ ctx' = ctx
      /\ (job' = job \/ job' = NoJob)
  BY DEF RunSplit, RunMerge, TimerFires, RunDispatch, workerVars
<1> QED
  BY <1>0, <1>2, <1>3, MessagesKept DEF InboxKeep, WorkerKeep, JobKeep, HandKeep, NoJob

(* A worker's step other than the two that move its piece.                 *)
LEMMA WorkerQuiet ==
    ASSUME FSMTypes, NEW w \in Workers,
           \/ Connected(w) \/ SendComplete(w) \/ WorkerShutdown(w) \/ ConnectionLost(w)
           \/ WorkerIgnores(w) \/ ReductionError(w) \/ Breaks(w) \/ Leaves(w)
    PROVE  EventsKeep /\ InboxKeep /\ WorkerKeep /\ JobKeep /\ HandKeep
<1>0. /\ inbox \in [Workers -> Seq(Messages)] /\ part \in [Workers -> Pieces]
      /\ worker \in [Workers -> [state : WorkerStates, round : Nat]]
      /\ inbox[w] \in Seq(Messages)
  BY DEF FSMTypes
<1>1. \/ events' = events
      \/ \E e \in Events : e.type # "PartitionReturned" /\ events' = Append(events, e)
  <2>1. CASE Connected(w)
    <3> DEFINE e == From(IF w = Late THEN "WorkerJoined" ELSE "WorkerConnected", w)
    <3>1. e \in Events /\ e.type # "PartitionReturned" /\ events' = Append(events, e)
      BY <2>1, EventTypes DEF Connected, Post, From
    <3> QED
      BY <3>1
  <2>2. CASE ReductionError(w)
    <3>1. Event("FatalError") \in Events /\ Event("FatalError").type # "PartitionReturned"
      BY EventTypes DEF Event
    <3> QED
      BY <2>2, <3>1 DEF ReductionError
  <2>3. CASE Breaks(w) \/ Leaves(w)
    <3>1. /\ From("WorkerConnectionLost", w) \in Events /\ From("WorkerLeft", w) \in Events
          /\ From("WorkerConnectionLost", w).type # "PartitionReturned"
          /\ From("WorkerLeft", w).type # "PartitionReturned"
      BY EventTypes DEF From
    <3> QED
      BY <2>3, <3>1 DEF Breaks, Leaves, Post
  <2> QED
    BY <2>1, <2>2, <2>3 DEF SendComplete, WorkerShutdown, ConnectionLost, WorkerIgnores
<1>2. EventsKeep
  BY <1>1, EventsKept
<1>3. InboxKeep
  <2>1. PICK q : inbox' = [inbox EXCEPT ![w] = q] /\ MessagesKeep(inbox[w], q, w)
    <3>1. CASE Connected(w) \/ SendComplete(w) \/ ReductionError(w)
      <4>1. inbox' = [inbox EXCEPT ![w] = inbox[w]]
        BY <1>0, <3>1 DEF Connected, SendComplete, ReductionError
      <4> QED
        BY <1>0, <4>1, MessagesKept
    <3>2. CASE WorkerShutdown(w) \/ ConnectionLost(w) \/ WorkerIgnores(w)
      <4>1. inbox' = [inbox EXCEPT ![w] = Tail(inbox[w])] /\ inbox[w] # <<>>
        BY <3>2 DEF WorkerShutdown, ConnectionLost, WorkerIgnores, Arrives
      <4> QED
        BY <1>0, <4>1, MessagesKept
    <3>3. CASE Breaks(w)
      <4>1. PICK kept \in {inbox[w], <<>>} :
               inbox' = [inbox EXCEPT ![w] = Append(kept, Event("ConnectionLost"))]
        BY <3>3 DEF Breaks
      <4>5. <<>> \in Seq(Messages)
        OBVIOUS
      <4>6. MessagesKeep(inbox[w], inbox[w], w) /\ MessagesKeep(inbox[w], <<>>, w)
        BY <1>0, MessagesKept
      <4>2. kept \in Seq(Messages) /\ MessagesKeep(inbox[w], kept, w)
        BY <1>0, <4>1, <4>5, <4>6
      <4>3. MessagesKeep(kept, Append(kept, Event("ConnectionLost")), w)
        BY <4>2, MessagesKept
      <4>4. MessagesKeep(inbox[w], Append(kept, Event("ConnectionLost")), w)
        BY <4>2, <4>3 DEF MessagesKeep, Fewer
      <4> QED
        BY <4>1, <4>4
    <3>4. CASE Leaves(w)
      <4>1. inbox' = [inbox EXCEPT ![w] = Append(inbox[w], Event("ConnectionLost"))]
        BY <3>4 DEF Leaves
      <4> QED
        BY <1>0, <4>1, MessagesKept
    <3> QED
      BY <3>1, <3>2, <3>3, <3>4
  <2>2. \A v \in Workers : inbox[v] \in Seq(Messages) /\ inbox'[v] = IF v = w THEN q ELSE inbox[v]
    BY <1>0, <2>1
  <2> QED
    BY <2>1, <2>2, MessagesKept DEF InboxKeep
<1>4. WorkerKeep
  <2>1. CASE Connected(w) \/ SendComplete(w) \/ WorkerShutdown(w)
    BY <1>0, <2>1 DEF WorkerKeep, Connected, SendComplete, WorkerShutdown
  <2>2. CASE ConnectionLost(w) \/ ReductionError(w)
    BY <1>0, <2>2 DEF WorkerKeep, ConnectionLost, ReductionError
  <2>3. CASE WorkerIgnores(w) \/ Breaks(w) \/ Leaves(w)
    BY <1>0, <2>3 DEF WorkerKeep, WorkerIgnores, Breaks, Leaves, workerVars
  <2> QED
    BY <2>1, <2>2, <2>3
<1>5. job' = job /\ ctx' = ctx
  BY DEF Connected, SendComplete, WorkerShutdown, ConnectionLost, WorkerIgnores, ReductionError,
         Breaks, Leaves
<1> QED
  BY <1>2, <1>3, <1>4, <1>5 DEF JobKeep, HandKeep

(* The facts about pieces every step but the split keeps.                  *)
Conserved(r) ==
    /\ \A s \in Slots : OnePiece(s) => OnePiece(s)'
    /\ \A s \in Slots : HasPiece(s)' => HasPiece(s)
    /\ OfRound(r)'

(* A result is collected: from the event queue to the coordinator's hand.  *)
LEMMA Collects ==
    ASSUME FSMTypes, NEW r \in Nat, OfRound(r), OnPartitionReturned
    PROVE  Conserved(r)
<1> DEFINE p == Head(events).partition
           hand == ctx.collected_partitions
<1>0. /\ events \in Seq(Events) /\ events # <<>> /\ events' = Tail(events)
      /\ Head(events) \in Events /\ Head(events).type = "PartitionReturned"
      /\ p \in Pieces /\ hand \in Seq(Pieces) /\ ctx \in Contexts
  BY EventFields, TailMembers, ContextFields DEF FSMTypes, OnPartitionReturned, Takes
<1>1. EventsKeep
  BY <1>0, EventsKept
<1>2. inbox' = inbox /\ worker' = worker /\ part' = part
      /\ (job' = job \/ job'.kind = "merge")
  BY DEF OnPartitionReturned, NoShutdown, workerVars
<1>3. JobKeep /\ WorkerKeep
  BY <1>2 DEF JobKeep, WorkerKeep
<1>4. InboxKeep
  BY <1>2, MessagesKept DEF InboxKeep, FSMTypes
<1>5. CASE ctx.partitions_received + 1 >= ctx.total_workers
  <2>1. HandKeep
    BY <1>0, <1>5 DEF HandKeep, OnPartitionReturned, Contexts
  <2> QED
    BY <1>1, <1>3, <1>4, <2>1, NothingGained DEF Conserved
<1>6. CASE ~(ctx.partitions_received + 1 >= ctx.total_workers)
  <2>1. ctx'.collected_partitions = Append(hand, p) /\ job' = job
    BY <1>0, <1>6 DEF OnPartitionReturned, Contexts
  <2>2. ASSUME NEW s \in Slots
        PROVE  (OnePiece(s) => OnePiece(s)') /\ (HasPiece(s)' => HasPiece(s))
    <3>1. s \in Workers
      BY ConstantFacts
    <3>2. (InJob(s)' <=> InJob(s)) /\ (InInbox(s)' <=> InInbox(s)) /\ (InWorker(s)' <=> InWorker(s))
      BY <1>2, <2>1 DEF InJob, InInbox, InWorker
    <3>3. CASE p.slot = s
      <4>1. Head(events) \in Returned(s) /\ p \in OfSlot(s)
        BY <1>0, <3>3 DEF Returned, Kind, OfSlot
      <4>2. InEvents(s)
        BY <1>0, <4>1, TailMembers DEF InEvents
      <4>3. AtMostOne(events, Returned(s)) => ~InEvents(s)' /\ AtMostOne(events', Returned(s))
        BY <1>0, <4>1, TailMembers DEF InEvents
      <4>4. ~InHand(s) => AtMostOne(ctx'.collected_partitions, OfSlot(s))
        BY <1>0, <2>1, AppendMembers DEF InHand
      <4> QED
        BY <1>2, <2>1, <3>2, <4>2, <4>3, <4>4 DEF OnePiece, HasPiece
    <3>4. CASE p.slot # s
      <4>1. p \notin OfSlot(s)
        BY <3>4 DEF OfSlot
      <4>2. /\ InHand(s)' <=> InHand(s)
            /\ AtMostOne(hand, OfSlot(s)) => AtMostOne(ctx'.collected_partitions, OfSlot(s))
        BY <1>0, <2>1, <4>1, AppendMembers DEF InHand
      <4>3. /\ InEvents(s)' => InEvents(s)
            /\ AtMostOne(events, Returned(s)) => AtMostOne(events', Returned(s))
        BY <1>1 DEF EventsKeep, Fewer, InEvents
      <4> QED
        BY <1>2, <2>1, <3>2, <4>2, <4>3 DEF OnePiece, HasPiece
    <3> QED
      BY <3>3, <3>4
  <2>3. OfRound(r)'
    <3>1. Head(events) \in ReturnsOf(r)
      BY <1>0, TailMembers DEF OfRound
    <3>2. p \in PiecesOf(r)
      BY <1>0, <3>1 DEF ReturnsOf, PiecesOf
    <3>3. Every(ctx'.collected_partitions, PiecesOf(r))
      BY <1>0, <2>1, <3>2, AppendMembers DEF OfRound
    <3>4. Every(events', ReturnsOf(r))
      BY <1>1 DEF OfRound, EventsKeep
    <3> QED
      BY <1>2, <2>1, <3>3, <3>4 DEF OfRound, InWorker
  <2> QED
    BY <2>2, <2>3 DEF Conserved
<1> QED
  BY <1>5, <1>6

(* A partition is sent: from the dispatch job to its worker's inbox.       *)
LEMMA Dispatches ==
    ASSUME FSMTypes, NEW r \in Nat, OfRound(r), RunDispatch
    PROVE  Conserved(r)
<1>1. CASE job.left = <<>>
  BY <1>1, RuntimeQuiet, NothingGained DEF Conserved
<1>2. CASE job.left # <<>>
  <2>1. /\ job \in [kind : {"dispatch"}, left : Seq(Pieces)]
        /\ inbox \in [Workers -> Seq(Messages)]
    BY DEF FSMTypes, RunDispatch, Jobs
  <2>2. /\ Head(job.left) \in Pieces /\ Tail(job.left) \in Seq(Pieces) /\ job.left \in Seq(Pieces)
    BY <1>2, <2>1
  <2>3. /\ job' = [job EXCEPT !.left = Tail(@)] /\ events' = events
        /\ ctx' = ctx /\ worker' = worker /\ part' = part
    BY <1>2 DEF RunDispatch, workerVars
  <2>4. job'.kind = "dispatch" /\ job'.left = Tail(job.left)
    BY <2>1, <2>2, <2>3
  <2>5. PICK p \in Pieces : p = Head(job.left)
    BY <2>2
  <2> DEFINE m == [type |-> "ReceivePartition", partition |-> p]
  <2>6. m \in Messages /\ m \in Assigned /\ p.slot \in Slots /\ p.slot \in Workers
    BY EventTypes, ConstantFacts DEF Pieces, Assigned
  <2>7. inbox' = inbox \/ inbox' = [inbox EXCEPT ![p.slot] = Append(@, m)]
    BY <1>2, <2>5 DEF RunDispatch
  <2>8. p \in PiecesOf(r) /\ Every(Tail(job.left), PiecesOf(r))
    BY <1>2, <2>1, <2>2, <2>5, TailMembers DEF OfRound
  <2>9. m \in AssignsOf(r, p.slot)
    BY <2>6, <2>8 DEF AssignsOf, PieceOf, PiecesOf, Pieces
  <2> HIDE DEF m
  <2>10. ASSUME NEW s \in Slots
         PROVE  (OnePiece(s) => OnePiece(s)') /\ (HasPiece(s)' => HasPiece(s))
    <3>1. s \in Workers /\ inbox[s] \in Seq(Messages)
      BY <2>1, ConstantFacts
    <3>2. (InWorker(s)' <=> InWorker(s)) /\ (InEvents(s)' <=> InEvents(s)) /\ (InHand(s)' <=> InHand(s))
      BY <2>3 DEF InWorker, InEvents, InHand
    <3>3. CASE p.slot = s
      <4>1. p \in OfSlot(s)
        BY <3>3 DEF OfSlot
      <4>2. InJob(s)
        BY <1>2, <2>1, <2>2, <2>5, <4>1, TailMembers DEF InJob
      <4>3. AtMostOne(job.left, OfSlot(s)) => ~InJob(s)' /\ AtMostOne(job'.left, OfSlot(s))
        BY <1>2, <2>2, <2>4, <2>5, <4>1, TailMembers DEF InJob
      <4>4. ~InInbox(s) => AtMostOne(inbox'[s], Assigned)
        <5>1. inbox'[s] = inbox[s] \/ inbox'[s] = Append(inbox[s], m)
          BY <2>1, <2>7, <3>1, <3>3
        <5>2. ~InInbox(s) => AtMostOne(inbox[s], Assigned)
          BY DEF InInbox, Some, AtMostOne
        <5>3. ~InInbox(s) => AtMostOne(Append(inbox[s], m), Assigned)
          BY <2>6, <3>1, AppendMembers DEF InInbox
        <5> QED
          BY <5>1, <5>2, <5>3
      <4> QED
        BY <2>1, <2>3, <3>2, <4>2, <4>3, <4>4 DEF OnePiece, HasPiece
    <3>4. CASE p.slot # s
      <4>1. inbox'[s] = inbox[s]
        BY <2>1, <2>7, <3>1, <3>4
      <4>2. InInbox(s)' <=> InInbox(s)
        BY <4>1 DEF InInbox
      <4>3. /\ InJob(s)' => InJob(s)
            /\ AtMostOne(job.left, OfSlot(s)) => AtMostOne(job'.left, OfSlot(s))
        BY <1>2, <2>1, <2>2, <2>4, TailMembers DEF InJob
      <4> QED
        BY <2>1, <2>3, <3>2, <4>1, <4>2, <4>3 DEF OnePiece, HasPiece
    <3> QED
      BY <3>3, <3>4
  <2>11. OfRound(r)'
    <3>1. ASSUME NEW w \in Workers
          PROVE  Every(inbox'[w], AssignsOf(r, w))
      <4>1. inbox'[w] = inbox[w] \/ (w = p.slot /\ inbox'[w] = Append(inbox[w], m))
        BY <2>1, <2>7
      <4>2. Every(inbox[w], AssignsOf(r, w)) /\ inbox[w] \in Seq(Messages)
        BY <2>1 DEF OfRound
      <4>3. w = p.slot => Every(Append(inbox[w], m), AssignsOf(r, w))
        BY <2>6, <2>9, <4>2, AppendMembers
      <4> QED
        BY <4>1, <4>2, <4>3
    <3> QED
      BY <2>3, <2>4, <2>8, <3>1 DEF OfRound, InWorker
  <2> QED
    BY <2>10, <2>11 DEF Conserved
<1> QED
  BY <1>1, <1>2

(* A partition arrives: from the inbox to the worker.                      *)
LEMMA Receives ==
    ASSUME FSMTypes, NEW r \in Nat, OfRound(r), NEW w \in Workers, ReceivePartition(w)
    PROVE  Conserved(r) /\ w \in Slots
<1>0. /\ inbox \in [Workers -> Seq(Messages)] /\ inbox[w] \in Seq(Messages) /\ inbox[w] # <<>>
      /\ worker \in [Workers -> [state : WorkerStates, round : Nat]]
      /\ part \in [Workers -> Pieces]
      /\ Head(inbox[w]).type = "ReceivePartition" /\ worker[w].state = "Idle"
  BY DEF FSMTypes, ReceivePartition, Arrives
<1>1. /\ inbox' = [inbox EXCEPT ![w] = Tail(@)]
      /\ worker' = [worker EXCEPT ![w].state = "Reducing"]
      /\ part' = [part EXCEPT ![w] = Head(inbox[w]).partition]
      /\ UNCHANGED <<ctx, events, job>>
  BY DEF ReceivePartition, Arrives
<1>2. PICK m \in Messages : m = Head(inbox[w])
  BY <1>0
<1>3. m \in AssignsOf(r, w)
  BY <1>0, <1>2, TailMembers DEF OfRound
<1>4. m \in Assigned /\ m.partition = PieceOf(r, w) /\ m.partition \in Pieces
  BY <1>0, <1>2, <1>3, EventFields DEF Assigned, AssignsOf
<1>5. w \in Slots
  BY <1>4 DEF PieceOf, Pieces
<1>6. InboxKeep
  <2>1. \A v \in Workers : inbox'[v] = IF v = w THEN Tail(inbox[w]) ELSE inbox[v]
    BY <1>0, <1>1
  <2> QED
    BY <1>0, <2>1, MessagesKept DEF InboxKeep
<1>7. ASSUME NEW s \in Slots
      PROVE  (OnePiece(s) => OnePiece(s)') /\ (HasPiece(s)' => HasPiece(s))
  <2>1. s \in Workers
    BY ConstantFacts
  <2>2. (InJob(s)' <=> InJob(s)) /\ (InEvents(s)' <=> InEvents(s)) /\ (InHand(s)' <=> InHand(s))
    BY <1>1 DEF InJob, InEvents, InHand
  <2>3. AtMostOne(inbox[s], Assigned) => AtMostOne(inbox'[s], Assigned)
    BY <1>6, <2>1 DEF InboxKeep, MessagesKeep, Fewer
  <2>4. CASE s = w
    <3>1. InInbox(s)
      BY <1>0, <1>2, <1>4, <2>4, TailMembers DEF InInbox
    <3>2. AtMostOne(inbox[s], Assigned) => ~InInbox(s)'
      BY <1>0, <1>1, <1>2, <1>4, <2>4, TailMembers DEF InInbox
    <3> QED
      BY <1>1, <2>2, <2>3, <3>1, <3>2 DEF OnePiece, HasPiece
  <2>5. CASE s # w
    <3>1. inbox'[s] = inbox[s] /\ worker'[s] = worker[s]
      BY <1>0, <1>1, <2>1, <2>5
    <3>2. (InInbox(s)' <=> InInbox(s)) /\ (InWorker(s)' <=> InWorker(s))
      BY <3>1 DEF InInbox, InWorker
    <3> QED
      BY <1>1, <2>2, <2>3, <3>2 DEF OnePiece, HasPiece
  <2> QED
    BY <2>4, <2>5
<1>8. OfRound(r)'
  <2>1. \A v \in Workers : Every(inbox'[v], AssignsOf(r, v))
    BY <1>6 DEF OfRound, InboxKeep, MessagesKeep
  <2>2. \A v \in Workers : worker'[v].state = "Reducing" => part'[v] = PieceOf(r, v)
    BY <1>0, <1>1, <1>2, <1>4 DEF OfRound, InWorker
  <2> QED
    BY <1>1, <2>1, <2>2 DEF OfRound, InWorker
<1> QED
  BY <1>5, <1>7, <1>8 DEF Conserved

(* A reduction ends: from the worker to the event queue, or nowhere.       *)
LEMMA Completes ==
    ASSUME FSMTypes, NEW r \in Nat, OfRound(r), NEW w \in Workers, ReductionComplete(w)
    PROVE  Conserved(r) /\ w \in Slots
<1>0. /\ worker \in [Workers -> [state : WorkerStates, round : Nat]]
      /\ part \in [Workers -> Pieces] /\ events \in Seq(Events)
      /\ worker[w].state = "Reducing"
  BY DEF FSMTypes, ReductionComplete
<1>1. /\ worker' = [worker EXCEPT ![w].state = "Returning"]
      /\ part' = [part EXCEPT ![w] = NoPart]
      /\ UNCHANGED <<ctx, inbox, job>>
  BY DEF ReductionComplete
<1>2. part[w] = PieceOf(r, w) /\ part[w] \in Pieces
  BY <1>0 DEF OfRound, InWorker
<1>3. w \in Slots
  BY <1>2 DEF PieceOf, Pieces
<1>4. PICK e \in Events : e = PartitionReturned(w, worker[w].round, part[w])
  BY <1>0, EventTypes
<1>5. events' = events \/ events' = Append(events, e)
  BY <1>4 DEF ReductionComplete
<1>6. e.type = "PartitionReturned" /\ e.partition = PieceOf(r, w)
  BY <1>2, <1>4 DEF PartitionReturned
<1>7. e \in ReturnsOf(r) /\ \A s \in Slots : e \in Returned(s) <=> s = w
  BY <1>3, <1>6 DEF ReturnsOf, Returned, Kind, PieceOf
<1>8. ASSUME NEW s \in Slots
      PROVE  (OnePiece(s) => OnePiece(s)') /\ (HasPiece(s)' => HasPiece(s))
  <2>1. s \in Workers
    BY ConstantFacts
  <2>2. (InJob(s)' <=> InJob(s)) /\ (InInbox(s)' <=> InInbox(s)) /\ (InHand(s)' <=> InHand(s))
    BY <1>1 DEF InJob, InInbox, InHand
  <2>3. Some(Append(events, e), Returned(s)) <=> Some(events, Returned(s)) \/ s = w
    BY <1>0, <1>7, AppendMembers
  <2>4. CASE s = w
    <3>1. InWorker(s) /\ ~InWorker(s)'
      BY <1>0, <1>1, <2>1, <2>4 DEF InWorker
    <3>2. ~InEvents(s) => AtMostOne(events, Returned(s))
      BY DEF InEvents, Some, AtMostOne
    <3>3. ~InEvents(s) => AtMostOne(Append(events, e), Returned(s))
      BY <1>0, AppendMembers DEF InEvents
    <3>4. ~InEvents(s) => AtMostOne(events', Returned(s))
      BY <1>5, <3>2, <3>3
    <3> QED
      BY <1>1, <2>2, <3>1, <3>4 DEF OnePiece, HasPiece
  <2>5. CASE s # w
    <3>1. worker'[s] = worker[s]
      BY <1>0, <1>1, <2>1, <2>5
    <3>2. InWorker(s)' <=> InWorker(s)
      BY <3>1 DEF InWorker
    <3>3. InEvents(s)' <=> InEvents(s)
      BY <1>5, <2>3, <2>5 DEF InEvents
    <3>4. AtMostOne(events, Returned(s)) => AtMostOne(Append(events, e), Returned(s))
      BY <1>0, <1>7, <2>5, AppendMembers
    <3>5. AtMostOne(events, Returned(s)) => AtMostOne(events', Returned(s))
      BY <1>5, <3>4
    <3> QED
      BY <1>1, <2>2, <3>2, <3>3, <3>5 DEF OnePiece, HasPiece
  <2> QED
    BY <2>4, <2>5
<1>9. OfRound(r)'
  <2>1. Every(Append(events, e), ReturnsOf(r))
    BY <1>0, <1>7, AppendMembers DEF OfRound
  <2>2. Every(events', ReturnsOf(r))
    BY <1>5, <2>1 DEF OfRound
  <2>3. \A v \in Workers : worker'[v].state = "Reducing" => part'[v] = PieceOf(r, v)
    BY <1>0, <1>1 DEF OfRound, InWorker
  <2> QED
    BY <1>1, <2>2, <2>3 DEF OfRound, InWorker
<1> QED
  BY <1>3, <1>8, <1>9 DEF Conserved

(* Every step but the split.                                               *)
LEMMA Conserves ==
    ASSUME FSMTypes, NEW r \in Nat, OfRound(r), [Next]_vars, ~OnSplitComplete
    PROVE  Conserved(r)
<1>1. CASE \/ OnConfigLoaded \/ OnWorkerConnected \/ OnAllDispatched \/ OnPhaseTimeout
           \/ OnMergeComplete \/ OnFatalError \/ OnWorkerJoined \/ OnWorkerLeft \/ OnUnexpected
  BY <1>1, CoordinatorQuiet, NothingGained DEF Conserved
<1>2. CASE RunSplit \/ (\E nf \in BOOLEAN : RunMerge(nf)) \/ TimerFires
  BY <1>2, RuntimeQuiet, NothingGained DEF Conserved
<1>3. ASSUME NEW w \in Workers,
             \/ Connected(w) \/ SendComplete(w) \/ WorkerShutdown(w) \/ ConnectionLost(w)
             \/ WorkerIgnores(w) \/ ReductionError(w) \/ Breaks(w) \/ Leaves(w)
      PROVE  Conserved(r)
  BY <1>3, WorkerQuiet, NothingGained DEF Conserved
<1>4. CASE UNCHANGED vars
  BY <1>4 DEF vars, Conserved, OnePiece, HasPiece, OfRound, InJob, InInbox, InWorker, InEvents,
              InHand
<1>5. CASE OnPartitionReturned \/ RunDispatch
  BY <1>5, Collects, Dispatches
<1>6. ASSUME NEW w \in Workers, ReceivePartition(w) \/ ReductionComplete(w)
      PROVE  Conserved(r)
  BY <1>6, Receives, Completes
<1> QED
  BY <1>1, <1>2, <1>3, <1>4, <1>5, <1>6
     DEF Next, CoordinatorTransition, Runtime, WorkerTransition, Fault

-----------------------------------------------------------------------------
(***************************************************************************)
(* The coordinator's thread of control: a job runs, or its event is queued *)
(* and is the next one that changes the state.                             *)
(***************************************************************************)

(* A job belongs to one state, and runs when no event of a job is queued.  *)
LEMMA JobState ==
    ASSUME FSMTypes, TokenInv, ctx.state # "Error"
    PROVE  /\ job.kind = "split" => ctx.state = "Partitioning" /\ ~Some(events, Tokens)
           /\ job.kind = "dispatch" => ctx.state = "Dispatching" /\ ~Some(events, Tokens)
           /\ job.kind = "merge" => ctx.state = "Merging" /\ ~Some(events, Tokens)
BY ContextFields DEF TokenInv, Waits, CoordinatorStates, ActiveRound, Ended

(* The event of a job is read in the state that waits for it.              *)
LEMMA HeadToken ==
    ASSUME FSMTypes, TokenInv, ctx.state # "Error", events # <<>>, Head(events) \in Tokens
    PROVE  /\ job.kind = "none" /\ ~Some(Tail(events), Tokens)
           /\ \/ ctx.state = "Partitioning" /\ Head(events) \in Kind("SplitComplete")
              \/ ctx.state = "Dispatching" /\ Head(events) \in Kind("AllDispatched")
              \/ ctx.state = "Merging" /\ Head(events) \in Kind("MergeComplete")
<1>1. events \in Seq(Events)
  BY DEF FSMTypes
<1>2. Some(events, Tokens) /\ 1 \in DOMAIN events /\ Head(events) = events[1]
  BY <1>1, TailMembers
<1>3. ASSUME NEW k, NEW t, Waits(k, t), Kind(t) \subseteq Tokens
      PROVE  job.kind = "none" /\ ~Some(Tail(events), Tokens) /\ Head(events) \in Kind(t)
  <2>1. job.kind = "none" /\ AtMostOne(events, Tokens) /\ Some(events, Kind(t))
    BY <1>2, <1>3 DEF Waits
  <2>2. ~Some(Tail(events), Tokens)
    BY <1>1, <2>1, TailMembers
  <2>3. Head(events) \in Kind(t)
    BY <1>2, <1>3, <2>1 DEF Some, AtMostOne
  <2> QED
    BY <2>1, <2>2, <2>3
<1>4. /\ Kind("SplitComplete") \subseteq Tokens /\ Kind("AllDispatched") \subseteq Tokens
      /\ Kind("MergeComplete") \subseteq Tokens
  BY DEF Tokens
<1>5. ctx.state \in {"Partitioning", "Dispatching", "Merging"}
  BY <1>2, ContextFields DEF TokenInv, CoordinatorStates, ActiveRound, Ended
<1>6. CASE ctx.state = "Partitioning"
  BY <1>3, <1>4, <1>6 DEF TokenInv
<1>7. CASE ctx.state = "Dispatching"
  BY <1>3, <1>4, <1>7 DEF TokenInv
<1>8. CASE ctx.state = "Merging"
  BY <1>3, <1>4, <1>8 DEF TokenInv
<1> QED
  BY <1>5, <1>6, <1>7, <1>8

(* The queue keeps its tokens when none is posted or read.                 *)
QuietEvents ==
    \/ events' = events
    \/ events # <<>> /\ Head(events) \notin Tokens /\ events' = Tail(events)
    \/ \E e \in Events : e \notin Tokens /\ events' = Append(events, e)

(* What is queued of the jobs stays queued, and nothing is added.          *)
LEMMA TokensQueued ==
    ASSUME FSMTypes, QuietEvents
    PROVE  /\ Some(events', Tokens) <=> Some(events, Tokens)
           /\ AtMostOne(events, Tokens) => AtMostOne(events', Tokens)
           /\ \A t \in {"SplitComplete", "AllDispatched", "MergeComplete"} :
                 Some(events', Kind(t)) <=> Some(events, Kind(t))
<1>1. events \in Seq(Events)
  BY DEF FSMTypes
<1>2. \A t \in {"SplitComplete", "AllDispatched", "MergeComplete"} : Kind(t) \subseteq Tokens
  BY DEF Tokens
<1>3. CASE events' = events
  BY <1>3
<1>4. CASE events # <<>> /\ Head(events) \notin Tokens /\ events' = Tail(events)
  <2>1. \A t \in {"SplitComplete", "AllDispatched", "MergeComplete"} : Head(events) \notin Kind(t)
    BY <1>2, <1>4
  <2> QED
    BY <1>1, <1>4, <2>1, TailMembers
<1>5. ASSUME NEW e \in Events, e \notin Tokens, events' = Append(events, e)
      PROVE  /\ Some(events', Tokens) <=> Some(events, Tokens)
             /\ AtMostOne(events, Tokens) => AtMostOne(events', Tokens)
             /\ \A t \in {"SplitComplete", "AllDispatched", "MergeComplete"} :
                   Some(events', Kind(t)) <=> Some(events, Kind(t))
  <2>1. \A t \in {"SplitComplete", "AllDispatched", "MergeComplete"} : e \notin Kind(t)
    BY <1>2, <1>5
  <2> QED
    BY <1>1, <1>5, <2>1, AppendMembers
<1> QED
  BY <1>3, <1>4, <1>5 DEF QuietEvents

(* A step that is not of the thread of control.                            *)
LEMMA ThreadKept ==
    ASSUME FSMTypes, TokenInv, QuietEvents, ctx'.state = ctx.state, job'.kind = job.kind
    PROVE  TokenInv'
BY TokensQueued DEF TokenInv, Waits

(* Which steps are not: the event they post or read is of no job.          *)
LEMMA QuietSteps ==
    ASSUME FSMTypes, TokenInv, ctx.state # "Error",
           \/ OnConfigLoaded \/ OnWorkerConnected \/ OnPartitionReturned \/ OnPhaseTimeout
           \/ OnWorkerJoined \/ OnWorkerLeft \/ OnUnexpected \/ OnFatalError
           \/ TimerFires
           \/ RunDispatch /\ job.left # <<>>
           \/ \E w \in Workers : Connected(w) \/ WorkerTransition(w) \/ Fault(w)
           \/ UNCHANGED vars
    PROVE  QuietEvents
<1>0. /\ events \in Seq(Events) /\ timer \in Nat /\ part \in [Workers -> Pieces]
      /\ worker \in [Workers -> [state : WorkerStates, round : Nat]]
  BY DEF FSMTypes
<1>t. \A e \in Events : e \in Tokens <=>
          e.type \in {"SplitComplete", "AllDispatched", "MergeComplete"}
  BY DEF Tokens, Kind
<1>h. events # <<>> => Head(events) \in Events
  BY <1>0
<1>1. CASE \/ OnConfigLoaded \/ OnWorkerConnected \/ OnPartitionReturned \/ OnPhaseTimeout
           \/ OnWorkerJoined \/ OnWorkerLeft \/ OnFatalError
  BY <1>1, <1>h, <1>t DEF QuietEvents, Takes, OnConfigLoaded, OnWorkerConnected, OnFatalError,
     OnPartitionReturned, OnPhaseTimeout, OnWorkerJoined, OnWorkerLeft
<1>2. CASE OnUnexpected
  <2>1. events # <<>> /\ events' = Tail(events) /\ ctx.state \notin Handled(Head(events).type)
    BY <1>2 DEF OnUnexpected
  <2>2. Head(events) \notin Tokens
    <3> SUFFICES ASSUME Head(events) \in Tokens PROVE FALSE
      OBVIOUS
    <3>1. \/ ctx.state = "Partitioning" /\ Head(events).type = "SplitComplete"
          \/ ctx.state = "Dispatching" /\ Head(events).type = "AllDispatched"
          \/ ctx.state = "Merging" /\ Head(events).type = "MergeComplete"
      BY <2>1, HeadToken DEF Kind
    <3> QED
      BY <2>1, <3>1 DEF Handled
  <2> QED
    BY <2>1, <2>2 DEF QuietEvents
<1>3. CASE TimerFires
  <2>1. PhaseTimeout(timer) \in Events /\ PhaseTimeout(timer) \notin Tokens
    BY <1>0, <1>t, EventTypes DEF PhaseTimeout
  <2> QED
    BY <1>3, <2>1 DEF TimerFires, Post, QuietEvents
<1>4. CASE (RunDispatch /\ job.left # <<>>) \/ UNCHANGED vars
  BY <1>4 DEF RunDispatch, vars, QuietEvents
<1>5. ASSUME NEW w \in Workers, Connected(w) \/ WorkerTransition(w) \/ Fault(w)
      PROVE  QuietEvents
  <2>1. CASE Connected(w)
    <3> DEFINE e == From(IF w = Late THEN "WorkerJoined" ELSE "WorkerConnected", w)
    <3>1. e \in Events /\ e \notin Tokens /\ events' = Append(events, e)
      BY <1>t, <2>1, EventTypes DEF Connected, Post, From
    <3> QED
      BY <3>1 DEF QuietEvents
  <2>2. CASE Fault(w)
    <3>1. /\ Event("FatalError") \in Events /\ Event("FatalError") \notin Tokens
          /\ From("WorkerConnectionLost", w) \in Events /\ From("WorkerLeft", w) \in Events
          /\ From("WorkerConnectionLost", w) \notin Tokens /\ From("WorkerLeft", w) \notin Tokens
      BY <1>t, EventTypes DEF Event, From
    <3> QED
      BY <2>2, <3>1 DEF Fault, ReductionError, Breaks, Leaves, Post, QuietEvents
  <2>3. CASE ReductionComplete(w)
    <3>1. PICK e \in Events : e = PartitionReturned(w, worker[w].round, part[w])
      BY <1>0, EventTypes
    <3>2. e \notin Tokens
      BY <1>t, <3>1 DEF PartitionReturned
    <3> QED
      BY <2>3, <3>1, <3>2 DEF ReductionComplete, QuietEvents
  <2>4. CASE WorkerTransition(w) /\ ~ReductionComplete(w)
    BY <2>4 DEF WorkerTransition, ReceivePartition, SendComplete, WorkerShutdown, ConnectionLost,
                WorkerIgnores, QuietEvents
  <2> QED
    BY <1>5, <2>1, <2>2, <2>3, <2>4
<1> QED
  BY <1>1, <1>2, <1>3, <1>4, <1>5

(* The coordinator's context after each of its transitions.                *)
LEMMA ContextSteps ==
    ASSUME FSMTypes
    PROVE  /\ OnConfigLoaded \/ OnWorkerConnected \/ OnSplitComplete \/ OnPhaseTimeout
                 \/ OnFatalError =>
              /\ ctx'.round = ctx.round
              /\ ctx'.collected_partitions = ctx.collected_partitions
              /\ ctx'.partitions_received = ctx.partitions_received
           /\ OnConfigLoaded => ctx'.state = "WaitingForWorkers"
           /\ OnWorkerConnected =>
                 \/ ctx'.state = ctx.state /\ job' = job
                 \/ ctx'.state = "Partitioning" /\ job'.kind = "split"
           /\ OnSplitComplete => ctx'.state = "Dispatching"
           /\ OnPhaseTimeout \/ OnFatalError => ctx'.state = "Error"
           /\ OnAllDispatched =>
                 /\ ctx'.state = "WaitingForResults" /\ ctx'.round = ctx.round
                 /\ ctx'.collected_partitions = <<>> /\ ctx'.partitions_received = 0
           /\ OnPartitionReturned =>
                 /\ ctx'.round = ctx.round
                 /\ ctx'.partitions_received = ctx.partitions_received + 1
           /\ OnMergeComplete =>
                 /\ ctx'.collected_partitions = ctx.collected_partitions
                 /\ \/ ctx'.state = "Done" /\ ctx'.round = ctx.round /\ job' = job
                    \/ /\ ctx'.state = "Partitioning" /\ ctx'.round = ctx.round + 1
                       /\ job'.kind = "split"
<1>0. ctx \in Contexts
  BY DEF FSMTypes
<1>2. OnWorkerConnected =>
        /\ ctx'.round = ctx.round
        /\ ctx'.collected_partitions = ctx.collected_partitions
        /\ ctx'.partitions_received = ctx.partitions_received
        /\ \/ ctx'.state = ctx.state /\ job' = job
           \/ ctx'.state = "Partitioning" /\ job'.kind = "split"
  <2> SUFFICES ASSUME OnWorkerConnected
               PROVE  /\ ctx'.round = ctx.round
                      /\ ctx'.collected_partitions = ctx.collected_partitions
                      /\ ctx'.partitions_received = ctx.partitions_received
                      /\ \/ ctx'.state = ctx.state /\ job' = job
                         \/ ctx'.state = "Partitioning" /\ job'.kind = "split"
    OBVIOUS
  <2>1. /\ ctx'.round = ctx.round
        /\ ctx'.collected_partitions = ctx.collected_partitions
        /\ ctx'.partitions_received = ctx.partitions_received
        /\ ctx'.state = IF ctx.connected_workers + 1 >= MinWorkers THEN "Partitioning" ELSE ctx.state
    BY <1>0 DEF OnWorkerConnected, Contexts
  <2>2. ctx.net
    BY DEF FSMTypes, OnWorkerConnected, Takes
  <2>3. job' = IF ctx.connected_workers + 1 >= MinWorkers
               THEN InvokeSplit(ctx.connected_workers + 1, ctx.round) ELSE job
    BY <2>2 DEF OnWorkerConnected
  <2> QED
    BY <2>1, <2>3 DEF InvokeSplit
<1>3. OnConfigLoaded \/ OnSplitComplete \/ OnPhaseTimeout \/ OnFatalError =>
        /\ ctx'.round = ctx.round
        /\ ctx'.collected_partitions = ctx.collected_partitions
        /\ ctx'.partitions_received = ctx.partitions_received
        /\ OnConfigLoaded => ctx'.state = "WaitingForWorkers"
        /\ OnSplitComplete => ctx'.state = "Dispatching"
        /\ OnPhaseTimeout \/ OnFatalError => ctx'.state = "Error"
  BY <1>0 DEF OnConfigLoaded, OnSplitComplete, OnPhaseTimeout, OnFatalError, Contexts
<1>4. OnAllDispatched =>
        /\ ctx'.state = "WaitingForResults" /\ ctx'.round = ctx.round
        /\ ctx'.collected_partitions = <<>> /\ ctx'.partitions_received = 0
  BY <1>0 DEF OnAllDispatched, Contexts
<1>5. OnPartitionReturned =>
        ctx'.round = ctx.round /\ ctx'.partitions_received = ctx.partitions_received + 1
  BY <1>0 DEF OnPartitionReturned, Contexts
<1>6. OnMergeComplete =>
        /\ ctx'.collected_partitions = ctx.collected_partitions
        /\ \/ ctx'.state = "Done" /\ ctx'.round = ctx.round /\ job' = job
           \/ /\ ctx'.state = "Partitioning" /\ ctx'.round = ctx.round + 1
              /\ job'.kind = "split"
  BY <1>0 DEF OnMergeComplete, Contexts, InvokeSplit
<1> QED
  BY <1>2, <1>3, <1>4, <1>5, <1>6

(* Collecting a result: the round goes on, or goes to the merge.           *)
LEMMA CollectStep ==
    ASSUME FSMTypes, OnPartitionReturned
    PROVE  LET got == Append(ctx.collected_partitions, Head(events).partition)
               all == ctx.partitions_received + 1 >= MinWorkers
           IN  /\ all => /\ ctx'.state = "Merging" /\ ctx'.collected_partitions = <<>>
                         /\ job' = [kind |-> "merge", parts |-> got] /\ timer' = Off
               /\ ~all => /\ ctx'.state = "WaitingForResults" /\ ctx'.collected_partitions = got
                          /\ job' = job /\ timer' = timer
<1>1. ctx \in Contexts /\ ctx.total_workers = MinWorkers /\ ctx.state = "WaitingForResults"
  BY ContextFields DEF FSMTypes, OnPartitionReturned, Takes
<1> QED
  BY <1>1 DEF OnPartitionReturned, Contexts

(* The steps that leave the coordinator and its jobs alone.                *)
LEMMA Steady ==
    ASSUME \/ OnWorkerJoined \/ OnWorkerLeft \/ OnUnexpected \/ TimerFires
           \/ \E w \in Workers : Connected(w) \/ WorkerTransition(w) \/ Fault(w)
           \/ UNCHANGED vars
    PROVE  ctx' = ctx /\ job' = job
BY DEF OnWorkerJoined, OnWorkerLeft, OnUnexpected, TimerFires, Connected, WorkerTransition, Fault,
       ReceivePartition, ReductionComplete, SendComplete, WorkerShutdown, ConnectionLost,
       WorkerIgnores, ReductionError, Breaks, Leaves, vars

(* Every step keeps the thread of control.                                 *)
LEMMA TokenStep ==
    ASSUME FSMTypes, TokenInv, ctx.state # "Error", [Next]_vars, ctx'.state # "Error"
    PROVE  TokenInv'
<1>0. events \in Seq(Events) /\ job \in Jobs
  BY DEF FSMTypes
<1>k. \A e \in Events : e.type \in {"SplitComplete", "AllDispatched", "MergeComplete"} =>
          e \in Tokens /\ e \in Kind(e.type)
  BY DEF Tokens, Kind
<1>1. CASE \/ OnWorkerJoined \/ OnWorkerLeft \/ OnUnexpected \/ TimerFires
           \/ \E w \in Workers : Connected(w) \/ WorkerTransition(w) \/ Fault(w)
           \/ UNCHANGED vars
  <2>1. ctx' = ctx /\ job' = job
    BY <1>1, Steady
  <2>2. QuietEvents
    <3>1. CASE OnWorkerJoined \/ OnWorkerLeft \/ OnUnexpected \/ TimerFires
      BY <3>1, QuietSteps
    <3>2. CASE \E w \in Workers : Connected(w) \/ WorkerTransition(w) \/ Fault(w)
      BY <3>2, QuietSteps
    <3>3. CASE UNCHANGED vars
      BY <3>3 DEF vars, QuietEvents
    <3> QED
      BY <1>1, <3>1, <3>2, <3>3
  <2> QED
    BY <2>1, <2>2, ThreadKept
<1>2. CASE OnConfigLoaded
  <2>1. ctx.state = "Init" /\ ctx'.state = "WaitingForWorkers" /\ job' = job
    BY <1>2, ContextSteps DEF OnConfigLoaded, Takes
  <2>2. QuietEvents
    BY <1>2, QuietSteps
  <2>3. job'.kind = "none" /\ ~Some(events', Tokens)
    BY <2>1, <2>2, TokensQueued DEF TokenInv
  <2> QED
    BY <2>1, <2>3 DEF TokenInv
<1>3. CASE OnWorkerConnected
  <2>1. ctx.state = "WaitingForWorkers"
    BY <1>3 DEF OnWorkerConnected, Takes
  <2>2. QuietEvents
    BY <1>3, QuietSteps
  <2>3. CASE ctx'.state = ctx.state /\ job' = job
    BY <2>2, <2>3, ThreadKept
  <2>4. CASE ctx'.state = "Partitioning" /\ job'.kind = "split"
    BY <2>1, <2>2, <2>4, TokensQueued DEF TokenInv, Waits
  <2> QED
    BY <1>3, <2>3, <2>4, ContextSteps
<1>4. CASE OnSplitComplete \/ OnAllDispatched \/ OnMergeComplete
  <2>1. /\ events # <<>> /\ events' = Tail(events)
        /\ Head(events).type \in {"SplitComplete", "AllDispatched", "MergeComplete"}
    BY <1>4 DEF OnSplitComplete, OnAllDispatched, OnMergeComplete, Takes
  <2>2. job.kind = "none" /\ ~Some(events', Tokens)
    BY <1>0, <1>k, <2>1, HeadToken
  <2>3. CASE OnSplitComplete
    BY <2>2, <2>3, ContextSteps DEF OnSplitComplete, TokenInv, Waits
  <2>4. CASE OnAllDispatched
    BY <2>2, <2>4, ContextSteps DEF OnAllDispatched, TokenInv
  <2>5. CASE OnMergeComplete
    BY <2>2, <2>5, ContextSteps DEF TokenInv, Waits
  <2> QED
    BY <1>4, <2>3, <2>4, <2>5
<1>5. CASE OnPartitionReturned
  <2>1. ctx.state = "WaitingForResults"
    BY <1>5 DEF OnPartitionReturned, Takes
  <2>2. QuietEvents
    BY <1>5, QuietSteps
  <2>3. CASE ctx'.state = ctx.state /\ job' = job
    BY <2>2, <2>3, ThreadKept
  <2>4. CASE ctx'.state = "Merging" /\ job'.kind = "merge"
    BY <2>1, <2>2, <2>4, TokensQueued DEF TokenInv, Waits
  <2> QED
    BY <1>5, <2>1, <2>3, <2>4, CollectStep
<1>6. CASE OnPhaseTimeout \/ OnFatalError
  BY <1>6, ContextSteps
<1>7. CASE RunDispatch /\ job.left # <<>>
  <2>1. job \in [kind : {"dispatch"}, left : Seq(Pieces)]
    BY <1>0, <1>7 DEF RunDispatch, Jobs
  <2>2. job'.kind = job.kind /\ ctx' = ctx
    BY <1>7, <2>1 DEF RunDispatch
  <2>3. QuietEvents
    BY <1>7, QuietSteps
  <2> QED
    BY <2>2, <2>3, ThreadKept
<1>8. ASSUME NEW e \in Events, events' = Append(events, e), ctx' = ctx, job' = NoJob,
             \/ job.kind = "split" /\ e.type = "SplitComplete"
             \/ job.kind = "dispatch" /\ e.type = "AllDispatched"
             \/ job.kind = "merge" /\ e.type = "MergeComplete"
      PROVE  TokenInv'
  <2>1. /\ ~Some(events, Tokens)
        /\ \/ ctx.state = "Partitioning" /\ e.type = "SplitComplete"
           \/ ctx.state = "Dispatching" /\ e.type = "AllDispatched"
           \/ ctx.state = "Merging" /\ e.type = "MergeComplete"
    BY <1>8, JobState
  <2>2. AtMostOne(events', Tokens)
    BY <1>0, <1>8, <2>1, AppendMembers
  <2>3. Some(events', Kind(e.type))
    BY <1>0, <1>8, <1>k, AppendMembers
  <2> QED
    BY <1>8, <2>1, <2>2, <2>3 DEF TokenInv, Waits, NoJob
<1>9. CASE RunSplit
  <2>1. [type |-> "SplitComplete", parts |-> job.num_workers] \in Events
    BY <1>0, <1>9, EventTypes, EventFields DEF RunSplit
  <2> QED
    BY <1>8, <1>9, <2>1 DEF RunSplit, Post
<1>10. CASE RunDispatch /\ job.left = <<>>
  <2>1. Event("AllDispatched") \in Events /\ Event("AllDispatched").type = "AllDispatched"
    BY EventTypes DEF Event
  <2> QED
    BY <1>8, <1>10, <2>1 DEF RunDispatch, Post
<1>11. CASE \E nf \in BOOLEAN : RunMerge(nf)
  <2>1. PICK nf \in BOOLEAN : RunMerge(nf)
    BY <1>11
  <2>2. MergeComplete(nf) \in Events /\ MergeComplete(nf).type = "MergeComplete"
    BY EventTypes DEF MergeComplete
  <2> QED
    BY <1>8, <2>1, <2>2 DEF RunMerge, Post
<1> QED
  BY <1>1, <1>2, <1>3, <1>4, <1>5, <1>6, <1>7, <1>9, <1>10, <1>11
     DEF Next, CoordinatorTransition, Runtime

(* How the coordinator's state advances, short of an error.                *)
LEMMA StateFlow ==
    ASSUME FSMTypes, [Next]_vars, ctx'.state # "Error"
    PROVE  \/ ctx'.state = ctx.state /\ ctx'.round = ctx.round
           \/ /\ OnConfigLoaded \/ OnWorkerConnected
              /\ ctx.state \in {"Init", "WaitingForWorkers"}
              /\ ctx'.state \in {"WaitingForWorkers", "Partitioning"} /\ ctx'.round = ctx.round
           \/ /\ OnSplitComplete /\ ctx.state = "Partitioning"
              /\ ctx'.state = "Dispatching" /\ ctx'.round = ctx.round
           \/ /\ OnAllDispatched /\ ctx.state = "Dispatching"
              /\ ctx'.state = "WaitingForResults" /\ ctx'.round = ctx.round
           \/ /\ OnPartitionReturned /\ ctx.state = "WaitingForResults"
              /\ ctx'.state = "Merging" /\ ctx'.round = ctx.round
           \/ /\ OnMergeComplete /\ ctx.state = "Merging"
              /\ \/ ctx'.state = "Done" /\ ctx'.round = ctx.round
                 \/ ctx'.state = "Partitioning" /\ ctx'.round = ctx.round + 1
<1>1. CASE \/ OnWorkerJoined \/ OnWorkerLeft \/ OnUnexpected \/ TimerFires
           \/ \E w \in Workers : Connected(w) \/ WorkerTransition(w) \/ Fault(w)
           \/ UNCHANGED vars
  BY <1>1, Steady
<1>2. CASE RunSplit \/ RunDispatch \/ (\E nf \in BOOLEAN : RunMerge(nf))
  BY <1>2 DEF RunSplit, RunDispatch, RunMerge
<1>3. CASE OnPhaseTimeout \/ OnFatalError
  BY <1>3, ContextSteps
<1>4. CASE OnConfigLoaded \/ OnWorkerConnected
  <2>1. ctx.state \in {"Init", "WaitingForWorkers"}
    BY <1>4 DEF OnConfigLoaded, OnWorkerConnected, Takes
  <2> QED
    BY <1>4, <2>1, ContextSteps
<1>5. CASE OnSplitComplete
  BY <1>5, ContextSteps DEF OnSplitComplete, Takes
<1>6. CASE OnAllDispatched
  BY <1>6, ContextSteps DEF OnAllDispatched, Takes
<1>7. CASE OnPartitionReturned
  <2>1. ctx.state = "WaitingForResults"
    BY <1>7 DEF OnPartitionReturned, Takes
  <2> QED
    BY <1>7, <2>1, ContextSteps, CollectStep
<1>8. CASE OnMergeComplete
  <2>1. ctx.state = "Merging"
    BY <1>8 DEF OnMergeComplete, Takes
  <2> QED
    BY <1>8, <2>1, ContextSteps
<1> QED
  BY <1>1, <1>2, <1>3, <1>4, <1>5, <1>6, <1>7, <1>8 DEF Next, CoordinatorTransition, Runtime

(* Where the events that matter come from.                                 *)
LEMMA EventStep ==
    ASSUME FSMTypes, [Next]_vars
    PROVE  \/ events' = events
           \/ events # <<>> /\ events' = Tail(events)
           \/ \E e \in Events :
                 /\ events' = Append(events, e) /\ ctx' = ctx
                 /\ e.type = "FatalError" => \E w \in Workers : ReductionError(w)
                 /\ e.type = "PhaseTimeout" => TimerFires /\ e.started = timer
                 /\ e.type = "MergeComplete" => job.kind = "merge"
<1>0. /\ job \in Jobs /\ timer \in Nat /\ part \in [Workers -> Pieces]
      /\ worker \in [Workers -> [state : WorkerStates, round : Nat]]
  BY DEF FSMTypes
<1> DEFINE Posted(e) ==
        /\ events' = Append(events, e) /\ ctx' = ctx
        /\ e.type = "FatalError" => \E w \in Workers : ReductionError(w)
        /\ e.type = "PhaseTimeout" => TimerFires /\ e.started = timer
        /\ e.type = "MergeComplete" => job.kind = "merge"
<1>1. CASE CoordinatorTransition \/ UNCHANGED vars
  BY <1>1 DEF CoordinatorTransition, OnConfigLoaded, OnWorkerConnected, OnSplitComplete,
     OnAllDispatched, OnPartitionReturned, OnPhaseTimeout, OnMergeComplete, OnFatalError,
     OnWorkerJoined, OnWorkerLeft, OnUnexpected, Takes, vars
<1>2. CASE RunSplit
  <2> DEFINE e == [type |-> "SplitComplete", parts |-> job.num_workers]
  <2>1. e \in Events
    BY <1>0, <1>2, EventTypes, EventFields DEF RunSplit
  <2>2. Posted(e)
    BY <1>2 DEF RunSplit, Post
  <2> QED
    BY <2>1, <2>2
<1>3. CASE RunDispatch
  <2>1. Event("AllDispatched") \in Events /\ Event("AllDispatched").type = "AllDispatched"
    BY EventTypes DEF Event
  <2>2. events' = events \/ Posted(Event("AllDispatched"))
    BY <1>3, <2>1 DEF RunDispatch, Post
  <2> QED
    BY <2>1, <2>2
<1>4. ASSUME NEW nf \in BOOLEAN, RunMerge(nf)
      PROVE  \E e \in Events : Posted(e)
  <2>1. MergeComplete(nf) \in Events /\ MergeComplete(nf).type = "MergeComplete"
    BY EventTypes DEF MergeComplete
  <2>2. Posted(MergeComplete(nf))
    BY <1>4, <2>1 DEF RunMerge, Post
  <2> QED
    BY <2>1, <2>2
<1>5. CASE TimerFires
  <2>1. /\ PhaseTimeout(timer) \in Events /\ PhaseTimeout(timer).type = "PhaseTimeout"
        /\ PhaseTimeout(timer).started = timer
    BY <1>0, EventTypes DEF PhaseTimeout
  <2>2. events' = Append(events, PhaseTimeout(timer)) /\ ctx' = ctx
    BY <1>5 DEF TimerFires, Post
  <2>3. Posted(PhaseTimeout(timer))
    BY <1>5, <2>1, <2>2
  <2> QED
    BY <2>1, <2>3
<1>6. ASSUME NEW w \in Workers, Connected(w) \/ WorkerTransition(w) \/ Fault(w)
      PROVE  events' = events \/ \E e \in Events : Posted(e)
  <2>1. CASE Connected(w)
    <3> DEFINE e == From(IF w = Late THEN "WorkerJoined" ELSE "WorkerConnected", w)
    <3>1. e \in Events /\ e.type \in {"WorkerJoined", "WorkerConnected"}
      BY EventTypes DEF From
    <3>2. Posted(e)
      BY <2>1, <3>1 DEF Connected, Post
    <3> QED
      BY <3>1, <3>2
  <2>2. CASE ReductionError(w)
    <3>1. Event("FatalError") \in Events /\ Event("FatalError").type = "FatalError"
      BY EventTypes DEF Event
    <3>2. events' = events \/ (events' = Append(events, Event("FatalError")) /\ ctx' = ctx)
      BY <2>2 DEF ReductionError
    <3>3. events' = events \/ Posted(Event("FatalError"))
      BY <2>2, <3>1, <3>2
    <3> QED
      BY <3>1, <3>3
  <2>3. CASE Breaks(w)
    <3>1. From("WorkerConnectionLost", w) \in Events
          /\ From("WorkerConnectionLost", w).type = "WorkerConnectionLost"
      BY EventTypes DEF From
    <3>2. Posted(From("WorkerConnectionLost", w))
      BY <2>3, <3>1 DEF Breaks, Post
    <3> QED
      BY <3>1, <3>2
  <2>4. CASE Leaves(w)
    <3>1. From("WorkerLeft", w) \in Events /\ From("WorkerLeft", w).type = "WorkerLeft"
      BY EventTypes DEF From
    <3>2. Posted(From("WorkerLeft", w))
      BY <2>4, <3>1 DEF Leaves, Post
    <3> QED
      BY <3>1, <3>2
  <2>5. CASE ReductionComplete(w)
    <3>1. PICK e \in Events : e = PartitionReturned(w, worker[w].round, part[w])
      BY <1>0, EventTypes
    <3>2. e.type = "PartitionReturned"
      BY <3>1 DEF PartitionReturned
    <3>3. events' = events \/ Posted(e)
      BY <2>5, <3>1, <3>2 DEF ReductionComplete
    <3> QED
      BY <3>3
  <2>6. CASE WorkerTransition(w) /\ ~ReductionComplete(w)
    BY <2>6 DEF WorkerTransition, ReceivePartition, SendComplete, WorkerShutdown, ConnectionLost,
                WorkerIgnores
  <2> QED
    BY <1>6, <2>1, <2>2, <2>3, <2>4, <2>5, <2>6 DEF Fault
<1> QED
  BY <1>1, <1>2, <1>3, <1>4, <1>5, <1>6 DEF Next, Runtime

-----------------------------------------------------------------------------
(***************************************************************************)
(* The barrier.                                                            *)
(***************************************************************************)

(* When as many results are in as there are slots, each slot's is in.      *)
LEMMA AllCollected ==
    ASSUME FSMTypes, PieceInv, CountInv, OnPartitionReturned,
           ctx.partitions_received + 1 >= MinWorkers
    PROVE  \A s \in Slots :
              /\ \E i \in DOMAIN Append(ctx.collected_partitions, Head(events).partition) :
                    Append(ctx.collected_partitions, Head(events).partition)[i]
                       = PieceOf(ctx.round, s)
              /\ InHand(s) \/ Head(events) \in Returned(s)
<1> DEFINE hand == ctx.collected_partitions
           p == Head(events).partition
           got == Append(hand, p)
           n == Len(hand)
<1>1. /\ events \in Seq(Events) /\ events # <<>> /\ Head(events) \in Events
      /\ Head(events).type = "PartitionReturned" /\ ctx.state = "WaitingForResults"
      /\ hand \in Seq(Pieces) /\ p \in Pieces
  BY EventFields, TailMembers, ContextFields DEF FSMTypes, OnPartitionReturned, Takes
<1>2. MinWorkers \in Nat /\ n \in Nat /\ n + 1 >= MinWorkers
  BY <1>1, ConstantFacts DEF CountInv
<1>3. /\ DOMAIN got = 1 .. n + 1 /\ DOMAIN hand = 1 .. n /\ got[n + 1] = p
      /\ \A i \in 1 .. n : got[i] = hand[i] /\ hand[i] \in Pieces
  BY <1>1
<1>4. p \in PiecesOf(ctx.round) /\ Every(hand, PiecesOf(ctx.round))
  <2>1. Head(events) \in ReturnsOf(ctx.round) /\ Every(hand, PiecesOf(ctx.round))
    BY <1>1, TailMembers DEF PieceInv, OfRound
  <2> QED
    BY <1>1, <2>1 DEF ReturnsOf, PiecesOf
<1>5. \A i \in 1 .. n + 1 : got[i] \in PiecesOf(ctx.round)
  BY <1>2, <1>3, <1>4 DEF Every
<1>6. \A i \in 1 .. n + 1 : got[i].slot \in Slots /\ got[i] = PieceOf(ctx.round, got[i].slot)
  BY <1>5 DEF PiecesOf, Pieces, PieceOf
<1>7. ASSUME NEW i \in 1 .. n, got[i].slot = p.slot
      PROVE  FALSE
  <2>1. p.slot \in Slots /\ OnePiece(p.slot)
    BY <1>1 DEF PieceInv, Pieces
  <2>2. InHand(p.slot)
    BY <1>3, <1>7 DEF InHand, Some, OfSlot
  <2>3. Head(events) \in Returned(p.slot)
    BY <1>1 DEF Returned, Kind
  <2>4. InEvents(p.slot)
    BY <1>1, <2>3, TailMembers DEF InEvents
  <2> QED
    BY <2>1, <2>2, <2>4 DEF OnePiece
<1>8. ASSUME NEW i \in 1 .. n, NEW j \in 1 .. n, got[i].slot = got[j].slot
      PROVE  i = j
  <2>1. PICK s \in Slots : s = got[i].slot
    BY <1>2, <1>6
  <2>2. AtMostOne(hand, OfSlot(s))
    BY DEF PieceInv, OnePiece
  <2>3. hand[i] \in OfSlot(s) /\ hand[j] \in OfSlot(s)
    BY <1>3, <1>8, <2>1 DEF OfSlot
  <2> QED
    BY <1>3, <2>2, <2>3 DEF AtMostOne
<1> DEFINE f == [i \in 1 .. n + 1 |-> got[i].slot]
<1>9. f \in Injection(1 .. n + 1, Slots)
  <2>1. f \in [1 .. n + 1 -> Slots]
    BY <1>6
  <2>2. ASSUME NEW i \in 1 .. n + 1, NEW j \in 1 .. n + 1, f[i] = f[j]
        PROVE  i = j
    <3> HIDE DEF n, got, p
    <3>1. got[i].slot = got[j].slot
      BY <2>2
    <3>2. i \in 1 .. n \/ i = n + 1
      BY <1>2
    <3>3. j \in 1 .. n \/ j = n + 1
      BY <1>2
    <3> QED
      BY <1>3, <1>7, <1>8, <3>1, <3>2, <3>3
  <2> HIDE DEF f
  <2> QED
    BY <2>1, <2>2 DEF Injection, IsInjective
<1> HIDE DEF f
<1>10. Slots = 0 .. MinWorkers - 1
  BY DEF Slots
<1>11. /\ IsFiniteSet(Slots) /\ IsFiniteSet(1 .. n + 1)
       /\ Cardinality(Slots) = MinWorkers /\ Cardinality(1 .. n + 1) = n + 1
  <2>1. 0 \in Int /\ MinWorkers - 1 \in Int /\ 1 \in Int /\ n + 1 \in Int
    BY <1>2
  <2>2. /\ IsFiniteSet(0 .. MinWorkers - 1)
        /\ Cardinality(0 .. MinWorkers - 1)
              = IF 0 > MinWorkers - 1 THEN 0 ELSE (MinWorkers - 1) - 0 + 1
    BY <2>1, FS_Interval
  <2>3. /\ IsFiniteSet(1 .. n + 1)
        /\ Cardinality(1 .. n + 1) = IF 1 > n + 1 THEN 0 ELSE (n + 1) - 1 + 1
    BY <2>1, FS_Interval
  <2> QED
    BY <1>2, <1>10, <2>2, <2>3, ConstantFacts
<1>12. f \in Surjection(1 .. n + 1, Slots)
  <2>1. Cardinality(1 .. n + 1) <= Cardinality(Slots)
    BY <1>9, <1>11, FS_Injection
  <2>2. Cardinality(1 .. n + 1) = Cardinality(Slots)
    BY <1>2, <1>11, <2>1
  <2> QED
    BY <1>9, <1>11, <2>2, FS_Injection
<1>13. \A s \in Slots : \E i \in 1 .. n + 1 : f[i] = s
  BY <1>12 DEF Surjection
<1>14. ASSUME NEW s \in Slots
       PROVE  /\ \E i \in DOMAIN got : got[i] = PieceOf(ctx.round, s)
              /\ InHand(s) \/ Head(events) \in Returned(s)
  <2>1. PICK i \in 1 .. n + 1 : got[i].slot = s
    BY <1>13 DEF f
  <2>2. got[i] = PieceOf(ctx.round, s)
    BY <1>6, <2>1
  <2>3. CASE i = n + 1
    <3>1. p.slot = s
      BY <1>3, <2>1, <2>3
    <3> QED
      BY <1>1, <1>3, <2>2, <3>1 DEF Returned, Kind
  <2>4. CASE i \in 1 .. n
    <3>1. hand[i] \in OfSlot(s) /\ i \in DOMAIN hand
      BY <1>3, <2>1, <2>4 DEF OfSlot
    <3>2. InHand(s)
      BY <3>1 DEF InHand, Some
    <3> QED
      BY <1>3, <2>2, <3>2
  <2>5. i = n + 1 \/ i \in 1 .. n
    BY <1>2
  <2> QED
    BY <2>3, <2>4, <2>5
<1> QED
  BY <1>14

(* A net that is split: one piece of every slot, all to be dispatched.     *)
LEMMA SplitPieces ==
    ASSUME FSMTypes, PieceInv, OnSplitComplete
    PROVE  (\A s \in Slots : OnePiece(s)') /\ OfRound(ctx.round)'
<1> DEFINE g == [i \in 1 .. MinWorkers |-> PieceOf(ctx.round, i - 1)]
<1>1. /\ ctx.state = "Partitioning" /\ events # <<>> /\ events' = Tail(events)
      /\ Head(events).type = "SplitComplete"
      /\ inbox' = inbox /\ worker' = worker /\ part' = part
  BY DEF OnSplitComplete, Takes, NoShutdown, workerVars
<1>2. Head(events).parts = MinWorkers
  BY <1>1, EventFields, TailMembers DEF FSMTypes
<1>3. job'.kind = "dispatch" /\ job'.left = g
  BY <1>2 DEF OnSplitComplete, PieceOf
<1>4. /\ ctx'.collected_partitions = ctx.collected_partitions /\ ctx'.round = ctx.round
  BY ContextSteps
<1>5. \A s \in Slots : ~HasPiece(s)
  BY <1>1 DEF PieceInv, Outstanding
<1>6. EventsKeep
  BY <1>1, EventsKept
<1>7. /\ DOMAIN g = 1 .. MinWorkers
      /\ \A i \in 1 .. MinWorkers : g[i] \in PiecesOf(ctx.round) /\ g[i].slot = i - 1
  BY ContextFields, ConstantFacts DEF PieceOf, PiecesOf, Pieces, Slots
<1> HIDE DEF g
<1>8. ASSUME NEW s \in Slots
      PROVE  OnePiece(s)'
  <2>1. (InInbox(s)' <=> InInbox(s)) /\ (InWorker(s)' <=> InWorker(s)) /\ (InHand(s)' <=> InHand(s))
    BY <1>1, <1>4 DEF InInbox, InWorker, InHand
  <2>2. InEvents(s)' => InEvents(s)
    BY <1>6 DEF EventsKeep, Fewer, InEvents
  <2>3. ~InInbox(s)' /\ ~InWorker(s)' /\ ~InHand(s)' /\ ~InEvents(s)'
    BY <1>5, <2>1, <2>2 DEF HasPiece
  <2>4. /\ AtMostOne(inbox'[s], Assigned)
        /\ AtMostOne(ctx'.collected_partitions, OfSlot(s))
        /\ AtMostOne(events', Returned(s))
    BY <2>3 DEF InInbox, InHand, InEvents, Some, AtMostOne
  <2>5. AtMostOne(job'.left, OfSlot(s))
    <3>1. \A k \in 1 .. MinWorkers : g[k] \in OfSlot(s) => k = s + 1
      BY <1>7, ConstantFacts DEF OfSlot
    <3> QED
      BY <1>3, <1>7, <3>1 DEF AtMostOne
  <2> QED
    BY <2>3, <2>4, <2>5 DEF OnePiece
<1>9. PICK r \in Nat : r = ctx.round
  BY ContextFields
<1>10. OfRound(r)'
  <2>1. OfRound(r)
    BY <1>9 DEF PieceInv
  <2>2. Every(job'.left, PiecesOf(r))
    BY <1>3, <1>7, <1>9 DEF Every
  <2>3. Every(events', ReturnsOf(r))
    BY <1>6, <2>1 DEF EventsKeep, OfRound
  <2> QED
    BY <1>1, <1>4, <2>1, <2>2, <2>3 DEF OfRound, InWorker
<1> QED
  BY <1>4, <1>8, <1>9, <1>10

(* Where there is no piece, there is none of another round.                *)
LEMMA NoPieceOfAnother ==
    ASSUME FSMTypes, NEW r0 \in Nat, OfRound(r0), \A s \in Slots : ~HasPiece(s), NEW r \in Nat
    PROVE  OfRound(r)
<1>0. /\ inbox \in [Workers -> Seq(Messages)] /\ part \in [Workers -> Pieces]
      /\ events \in Seq(Events) /\ job \in Jobs /\ ctx.collected_partitions \in Seq(Pieces)
  BY ContextFields DEF FSMTypes
<1>1. job.kind = "dispatch" => Every(job.left, PiecesOf(r))
  <2> SUFFICES ASSUME job.kind = "dispatch", NEW k \in DOMAIN job.left
               PROVE  job.left[k] \in PiecesOf(r)
    BY DEF Every
  <2>1. job.left[k] \in Pieces
    BY <1>0, EventFields
  <2>2. job.left[k].slot \in Slots /\ InJob(job.left[k].slot)
    BY <2>1 DEF InJob, Some, OfSlot, Pieces
  <2> QED
    BY <2>2 DEF HasPiece
<1>2. ASSUME NEW w \in Workers
      PROVE  Every(inbox[w], AssignsOf(r, w)) /\ ~InWorker(w)
  <2>1. CASE w \in Slots
    <3>1. ~InInbox(w) /\ ~InWorker(w)
      BY <2>1 DEF HasPiece
    <3> QED
      BY <1>0, <3>1 DEF InInbox, Some, Assigned, Every, AssignsOf
  <2>2. CASE w \notin Slots
    <3>1. PieceOf(r0, w) \notin Pieces
      BY <2>2 DEF PieceOf, Pieces
    <3>2. ~InWorker(w)
      BY <1>0, <3>1 DEF OfRound
    <3>3. ASSUME NEW k \in DOMAIN inbox[w]
          PROVE  inbox[w][k] \in AssignsOf(r, w)
      <4>1. inbox[w][k] \in Messages /\ inbox[w][k] \in AssignsOf(r0, w)
        BY <1>0 DEF OfRound, Every
      <4>2. inbox[w][k].type # "ReceivePartition"
        BY <3>1, <4>1, EventFields DEF AssignsOf
      <4> QED
        BY <4>1, <4>2 DEF AssignsOf
    <3> QED
      BY <3>2, <3>3 DEF Every
  <2> QED
    BY <2>1, <2>2
<1>3. Every(events, ReturnsOf(r))
  <2> SUFFICES ASSUME NEW k \in DOMAIN events PROVE events[k] \in ReturnsOf(r)
    BY DEF Every
  <2>1. events[k] \in Events
    BY <1>0
  <2>2. CASE events[k].type = "PartitionReturned"
    <3>1. events[k].partition \in Pieces
      BY <2>1, <2>2, EventFields
    <3>2. events[k].partition.slot \in Slots /\ InEvents(events[k].partition.slot)
      BY <2>1, <2>2, <3>1 DEF InEvents, Some, Returned, Kind, Pieces
    <3> QED
      BY <3>2 DEF HasPiece
  <2> QED
    BY <2>1, <2>2 DEF ReturnsOf
<1>4. Every(ctx.collected_partitions, PiecesOf(r))
  <2> SUFFICES ASSUME NEW k \in DOMAIN ctx.collected_partitions PROVE FALSE
    BY DEF Every
  <2>1. PICK q \in Pieces : q = ctx.collected_partitions[k]
    BY <1>0
  <2>2. q.slot \in Slots /\ InHand(q.slot)
    BY <2>1 DEF InHand, Some, OfSlot, Pieces
  <2> QED
    BY <2>2 DEF HasPiece
<1> QED
  BY <1>1, <1>2, <1>3, <1>4 DEF OfRound

(* A round that goes to the merge leaves nothing behind.                   *)
LEMMA NothingLeft ==
    ASSUME FSMTypes, PieceInv, TokenInv, CountInv, OnPartitionReturned, ctx'.state = "Merging"
    PROVE  \A s \in Slots : HasPiece(s) /\ ~HasPiece(s)'
<1>0. /\ events \in Seq(Events) /\ events # <<>> /\ events' = Tail(events)
      /\ inbox' = inbox /\ worker' = worker
  BY DEF FSMTypes, OnPartitionReturned, Takes, NoShutdown, workerVars
<1>1. /\ ctx.partitions_received + 1 >= MinWorkers
      /\ ctx'.collected_partitions = <<>> /\ job'.kind = "merge"
  BY CollectStep
<1>2. ASSUME NEW s \in Slots
      PROVE  HasPiece(s) /\ ~HasPiece(s)'
  <2>1. InHand(s) \/ Head(events) \in Returned(s)
    BY <1>1, AllCollected
  <2>2. Head(events) \in Returned(s) => InEvents(s)
    BY <1>0, TailMembers DEF InEvents
  <2>3. OnePiece(s)
    BY DEF PieceInv
  <2>4. ~InInbox(s) /\ ~InWorker(s)
    BY <2>1, <2>2, <2>3 DEF OnePiece
  <2>5. ~InEvents(s)'
    <3>1. CASE Head(events) \in Returned(s)
      BY <1>0, <2>3, <3>1, TailMembers DEF OnePiece, InEvents
    <3>2. CASE InHand(s)
      BY <1>0, <2>3, <3>2, TailMembers DEF OnePiece, InEvents
    <3> QED
      BY <2>1, <3>1, <3>2
  <2>6. ~InInbox(s)' /\ ~InWorker(s)' /\ ~InJob(s)' /\ ~InHand(s)'
    BY <1>0, <1>1, <2>4 DEF InInbox, InWorker, InJob, InHand, Some
  <2> QED
    BY <2>1, <2>2, <2>5, <2>6 DEF HasPiece
<1> QED
  BY <1>2

-----------------------------------------------------------------------------
(***************************************************************************)
(* Every step keeps the invariant, one part after the other.               *)
(***************************************************************************)

(* The pieces.                                                             *)
LEMMA PieceStep ==
    ASSUME FSMTypes, ctx.state # "Error", LiveInv, [Next]_vars, ctx'.state # "Error"
    PROVE  PieceInv'
<1>0. PieceInv /\ TokenInv /\ CountInv /\ ctx.round \in Nat
  BY ContextFields DEF LiveInv
<1>1. CASE OnSplitComplete
  <2>1. ctx'.state = "Dispatching"
    BY <1>1, ContextSteps
  <2> QED
    BY <1>0, <1>1, <2>1, SplitPieces DEF PieceInv, Outstanding
<1>2. CASE ~OnSplitComplete
  <2>1. PICK r \in Nat : r = ctx.round
    BY <1>0
  <2>2. Conserved(r)
    BY <1>0, <1>2, <2>1, Conserves DEF PieceInv
  <2>3. \A s \in Slots : OnePiece(s)'
    BY <1>0, <2>2 DEF PieceInv, Conserved
  <2>4. OfRound(ctx.round)'
    <3>1. CASE ctx'.round = ctx.round
      BY <2>1, <2>2, <3>1 DEF Conserved
    <3>2. CASE ctx'.round # ctx.round
      <4>1. ctx.state = "Merging" /\ ctx'.round = ctx.round + 1
        BY <3>2, StateFlow
      <4>2. \A s \in Slots : ~HasPiece(s)
        BY <1>0, <4>1 DEF PieceInv, Outstanding
      <4>3. PICK q \in Nat : q = ctx.round + 1
        BY <1>0
      <4>4. OfRound(q)
        BY <1>0, <2>1, <4>2, NoPieceOfAnother DEF PieceInv
      <4>5. Conserved(q)
        BY <1>2, <4>4, Conserves
      <4> QED
        BY <4>1, <4>3, <4>5 DEF Conserved
    <3> QED
      BY <3>1, <3>2
  <2>5. ASSUME ~Outstanding', NEW s \in Slots
        PROVE  ~HasPiece(s)'
    <3>1. CASE ~Outstanding
      BY <1>0, <2>2, <3>1 DEF PieceInv, Conserved
    <3>2. CASE Outstanding
      <4>1. OnPartitionReturned /\ ctx'.state = "Merging"
        BY <2>5, <3>2, StateFlow DEF Outstanding
      <4> QED
        BY <1>0, <4>1, NothingLeft
    <3> QED
      BY <3>1, <3>2
  <2> QED
    BY <2>3, <2>4, <2>5 DEF PieceInv
<1> QED
  BY <1>1, <1>2

(* The counts, and what is merged.                                         *)
LEMMA CountStep ==
    ASSUME FSMTypes, ctx.state # "Error", LiveInv, [Next]_vars, ctx'.state # "Error"
    PROVE  CountInv'
<1>0. PieceInv /\ TokenInv /\ CountInv /\ ctx.round \in Nat
  BY ContextFields DEF LiveInv
<1>1. CASE OnPartitionReturned
  <2> DEFINE got == Append(ctx.collected_partitions, Head(events).partition)
  <2>1. /\ ctx.state = "WaitingForResults" /\ ctx.collected_partitions \in Seq(Pieces)
        /\ Head(events).partition \in Pieces /\ job.kind = "none"
        /\ ctx.partitions_received = Len(ctx.collected_partitions)
    BY <1>0, <1>1, EventFields, TailMembers, ContextFields
       DEF FSMTypes, OnPartitionReturned, Takes, TokenInv, CountInv
  <2>2. ctx'.round = ctx.round /\ ctx'.partitions_received = ctx.partitions_received + 1
    BY <1>1, ContextSteps
  <2>3. CASE ctx.partitions_received + 1 >= MinWorkers
    <3>1. /\ ctx'.state = "Merging" /\ ctx'.collected_partitions = <<>>
          /\ job' = [kind |-> "merge", parts |-> got]
      BY <1>1, <2>3, CollectStep
    <3>2. \A s \in Slots : \E i \in DOMAIN got : got[i] = PieceOf(ctx.round, s)
      BY <1>0, <1>1, <2>3, AllCollected
    <3> HIDE DEF got
    <3>3. job'.parts = got
      BY <3>1
    <3> QED
      BY <2>2, <3>1, <3>2, <3>3 DEF CountInv
  <2>4. CASE ~(ctx.partitions_received + 1 >= MinWorkers)
    <3>1. /\ ctx'.state = "WaitingForResults" /\ ctx'.collected_partitions = got /\ job' = job
      BY <1>1, <2>4, CollectStep
    <3>2. Len(got) = Len(ctx.collected_partitions) + 1
      BY <2>1
    <3> QED
      BY <2>1, <2>2, <3>1, <3>2 DEF CountInv
  <2> QED
    BY <2>3, <2>4
<1>2. CASE OnAllDispatched
  <2>1. /\ ctx'.state = "WaitingForResults" /\ ctx'.round = ctx.round /\ job' = job
        /\ ctx'.collected_partitions = <<>> /\ ctx'.partitions_received = 0
    BY <1>2, ContextSteps DEF OnAllDispatched
  <2> QED
    BY <1>0, <2>1 DEF CountInv
<1>3. CASE OnConfigLoaded \/ OnWorkerConnected \/ OnSplitComplete \/ OnMergeComplete
  <2>1. /\ ctx.state # "WaitingForResults" /\ ctx'.state # "WaitingForResults"
        /\ ctx'.collected_partitions = ctx.collected_partitions
    BY <1>3, ContextSteps DEF OnConfigLoaded, OnWorkerConnected, OnSplitComplete,
                              OnMergeComplete, Takes
  <2>2. job'.kind # "merge"
    <3>1. CASE OnMergeComplete
      <4>1. events \in Seq(Events) /\ events # <<>> /\ Head(events) \in Kind("MergeComplete")
        BY <3>1, TailMembers DEF FSMTypes, OnMergeComplete, Takes, Kind
      <4>2. job.kind = "none"
        BY <1>0, <4>1, HeadToken DEF Tokens
      <4> QED
        BY <3>1, <4>2, ContextSteps
    <3>2. CASE OnConfigLoaded \/ OnWorkerConnected
      <4>1. job.kind = "none"
        BY <1>0, <3>2 DEF OnConfigLoaded, OnWorkerConnected, Takes, TokenInv
      <4> QED
        BY <3>2, <4>1, ContextSteps DEF OnConfigLoaded
    <3>3. CASE OnSplitComplete
      BY <3>3 DEF OnSplitComplete
    <3> QED
      BY <1>3, <3>1, <3>2, <3>3
  <2> QED
    BY <1>0, <2>1, <2>2 DEF CountInv
<1>4. CASE OnPhaseTimeout \/ OnFatalError
  BY <1>4, ContextSteps
<1>5. CASE RunSplit \/ RunDispatch \/ (\E nf \in BOOLEAN : RunMerge(nf))
  <2>1. ctx' = ctx /\ job'.kind # "merge"
    <3>1. CASE RunDispatch /\ job.left # <<>>
      <4>1. job \in [kind : {"dispatch"}, left : Seq(Pieces)]
        BY <3>1 DEF RunDispatch, Jobs, FSMTypes
      <4> QED
        BY <3>1, <4>1 DEF RunDispatch
    <3> QED
      BY <1>5, <3>1 DEF RunSplit, RunDispatch, RunMerge, NoJob
  <2> QED
    BY <1>0, <2>1 DEF CountInv
<1>6. CASE \/ OnWorkerJoined \/ OnWorkerLeft \/ OnUnexpected \/ TimerFires
           \/ \E w \in Workers : Connected(w) \/ WorkerTransition(w) \/ Fault(w)
           \/ UNCHANGED vars
  <2>1. ctx' = ctx /\ job' = job
    BY <1>6, Steady
  <2> QED
    BY <1>0, <2>1 DEF CountInv
<1> QED
  BY <1>1, <1>2, <1>3, <1>4, <1>5, <1>6 DEF Next, CoordinatorTransition, Runtime

(* A failed reduction keeps the round open until its error is read.        *)
LEMMA FatalStep ==
    ASSUME FSMTypes, ctx.state # "Error", LiveInv, [Next]_vars, ctx'.state # "Error"
    PROVE  FatalInv'
<1>0. /\ PieceInv /\ TokenInv /\ CountInv /\ FatalInv /\ ctx.round \in Nat
      /\ events \in Seq(Events)
  BY ContextFields DEF LiveInv, FSMTypes
<1> SUFFICES ASSUME Some(events', Kind("FatalError"))
             PROVE  Outstanding' /\ \E s \in Slots : ~HasPiece(s)'
  BY DEF FatalInv
<1>1. CASE Some(events, Kind("FatalError"))
  <2>1. PICK s \in Slots : ~HasPiece(s)
    BY <1>0, <1>1 DEF FatalInv
  <2>2. Outstanding
    BY <1>0, <1>1 DEF FatalInv
  <2>3. ~OnSplitComplete
    BY <2>2 DEF Outstanding, OnSplitComplete, Takes
  <2>4. PICK r \in Nat : r = ctx.round
    BY <1>0
  <2>5. Conserved(r)
    BY <1>0, <2>3, <2>4, Conserves DEF PieceInv
  <2>6. ~HasPiece(s)'
    BY <2>1, <2>5 DEF Conserved
  <2>7. ~(OnPartitionReturned /\ ctx'.state = "Merging")
    BY <1>0, <2>1, NothingLeft
  <2>8. Outstanding'
    BY <2>2, <2>7, StateFlow DEF Outstanding
  <2> QED
    BY <2>6, <2>8
<1>2. CASE ~Some(events, Kind("FatalError"))
  <2>1. PICK w \in Workers : ReductionError(w)
    <3>1. events' # events
      BY <1>2
    <3>2. ~(events # <<>> /\ events' = Tail(events))
      BY <1>0, <1>2, TailMembers
    <3>3. PICK e \in Events : /\ events' = Append(events, e)
                              /\ e.type = "FatalError" => \E w \in Workers : ReductionError(w)
      BY <3>1, <3>2, EventStep
    <3>4. e \in Kind("FatalError")
      BY <1>0, <1>2, <3>3, AppendMembers
    <3> QED
      BY <3>3, <3>4 DEF Kind
  <2>2. InWorker(w) /\ worker \in [Workers -> [state : WorkerStates, round : Nat]]
    BY <2>1 DEF ReductionError, InWorker, FSMTypes
  <2>3. w \in Slots
    <3>1. part[w] = PieceOf(ctx.round, w) /\ part[w] \in Pieces
      BY <1>0, <2>2 DEF PieceInv, OfRound, FSMTypes
    <3> QED
      BY <3>1 DEF PieceOf, Pieces
  <2>4. OnePiece(w)
    BY <1>0, <2>3 DEF PieceInv
  <2>5. ~InWorker(w)'
    BY <2>1, <2>2 DEF ReductionError, InWorker
  <2>6. EventsKeep /\ InboxKeep /\ JobKeep /\ ctx' = ctx
    BY <2>1, WorkerQuiet DEF ReductionError
  <2>7. /\ InJob(w)' => InJob(w)
        /\ InInbox(w)' => InInbox(w)
        /\ InEvents(w)' => InEvents(w)
        /\ InHand(w)' => InHand(w)
    BY <2>3, <2>6 DEF EventsKeep, InboxKeep, MessagesKeep, JobKeep, Fewer, InJob, InInbox,
                      InEvents, InHand
  <2>8. ~HasPiece(w)'
    BY <2>2, <2>4, <2>5, <2>7 DEF OnePiece, HasPiece
  <2>9. Outstanding'
    BY <1>0, <2>2, <2>3, <2>6 DEF PieceInv, HasPiece, Outstanding
  <2> QED
    BY <2>3, <2>8, <2>9
<1> QED
  BY <1>1, <1>2

(* The timer, and the timeouts that are queued.                            *)
LEMMA TimeStep ==
    ASSUME FSMTypes, ctx.state # "Error", LiveInv, [Next]_vars, ctx'.state # "Error"
    PROVE  TimeInv'
<1> DEFINE Timeouts == Kind("PhaseTimeout")
           Ends == Kind("MergeComplete")
           InRound(r) == {e \in Events : e.type = "PhaseTimeout" => e.started = r}
<1>0. /\ TokenInv /\ TimeInv /\ ctx.round \in Nat /\ events \in Seq(Events)
      /\ ctx.state \in CoordinatorStates
  BY ContextFields DEF LiveInv, FSMTypes
<1>1. timer' # Off => ctx'.state = "WaitingForResults" /\ timer' = ctx'.round
  <2>1. CASE OnAllDispatched
    BY <2>1, ContextSteps DEF OnAllDispatched
  <2>2. CASE OnPartitionReturned
    <3>1. ctx.state = "WaitingForResults" /\ ctx'.round = ctx.round
      BY <2>2, ContextSteps DEF OnPartitionReturned, Takes
    <3> QED
      BY <1>0, <2>2, <3>1, CollectStep DEF TimeInv
  <2>3. CASE ~OnAllDispatched /\ ~OnPartitionReturned
    <3>1. timer' = timer \/ timer' = Off
      BY <2>3 DEF Next, CoordinatorTransition, OnConfigLoaded, OnWorkerConnected, OnSplitComplete,
         OnPhaseTimeout, OnMergeComplete, OnFatalError, OnWorkerJoined, OnWorkerLeft, OnUnexpected,
         Runtime, RunSplit, RunDispatch, RunMerge, TimerFires, Connected, WorkerTransition, Fault,
         ReceivePartition, ReductionComplete, SendComplete, WorkerShutdown, ConnectionLost,
         WorkerIgnores, ReductionError, Breaks, Leaves, vars
    <3>2. ctx.state = "WaitingForResults" => ctx'.state = ctx.state /\ ctx'.round = ctx.round
      BY <2>3, StateFlow
    <3> QED
      BY <1>0, <3>1, <3>2 DEF TimeInv
  <2> QED
    BY <2>1, <2>2, <2>3
<1>2. CASE OnMergeComplete
  <2>1. /\ events # <<>> /\ Head(events) \in Ends /\ events' = Tail(events)
    BY <1>0, <1>2, TailMembers DEF OnMergeComplete, Takes, Kind
  <2>2. ~Some(events', Timeouts)
    BY <1>0, <2>1, OrderKept, TailMembers DEF TimeInv
  <2>3. ~Some(events', Ends)
    <3>1. Some(events', Ends) => Some(events', Tokens)
      BY DEF Some, Tokens
    <3>2. Head(events) \in Tokens
      BY <2>1 DEF Tokens
    <3> QED
      BY <1>0, <2>1, <3>1, <3>2, HeadToken
  <2>4. events' \in Seq(Events)
    BY <1>0, <2>1, TailMembers
  <2>5. Every(events', InRound(ctx'.round)) /\ Precede(events', Timeouts, Ends)
    BY <2>2, <2>3, <2>4 DEF Every, Precede, Some, Kind
  <2> QED
    BY <1>1, <2>2, <2>5 DEF TimeInv
<1>3. CASE ~OnMergeComplete
  <2>0. ctx'.round = ctx.round
    BY <1>3, StateFlow
  <2>1. ctx'.state \notin {"WaitingForResults", "Merging", "Done"} =>
           ctx.state \notin {"WaitingForResults", "Merging", "Done"}
    BY <1>3, StateFlow
  <2>2. CASE events' = events
    BY <1>0, <1>1, <2>0, <2>1, <2>2 DEF TimeInv
  <2>3. CASE events # <<>> /\ events' = Tail(events)
    <3>1. Some(events', Timeouts) => Some(events, Timeouts)
      BY <1>0, <2>3, TailMembers
    <3>2. Every(events', InRound(ctx.round))
      BY <1>0, <2>3, TailMembers DEF TimeInv
    <3>3. Precede(events', Timeouts, Ends)
      BY <1>0, <2>3, OrderKept DEF TimeInv
    <3> QED
      BY <1>0, <1>1, <2>0, <2>1, <3>1, <3>2, <3>3 DEF TimeInv
  <2>4. ASSUME NEW e \in Events, events' = Append(events, e), ctx' = ctx,
               e.type = "PhaseTimeout" => TimerFires /\ e.started = timer,
               e.type = "MergeComplete" => job.kind = "merge"
        PROVE  TimeInv'
    <3>1. Some(events', Timeouts) => Some(events, Timeouts) \/ e.type = "PhaseTimeout"
      BY <1>0, <2>4, AppendMembers DEF Kind
    <3>2. e.type = "PhaseTimeout" => ctx.state = "WaitingForResults" /\ e.started = ctx.round
      BY <1>0, <2>4 DEF TimerFires, TimeInv
    <3>3. e \in InRound(ctx.round)
      BY <3>2
    <3>4. Every(events', InRound(ctx.round))
      BY <1>0, <2>4, <3>3, AppendMembers DEF TimeInv
    <3>5. Some(events, Ends) => Some(events, Tokens)
      BY DEF Some, Tokens
    <3>6. Precede(events', Timeouts, Ends)
      <4>1. CASE e.type = "PhaseTimeout"
        <5>1. ~Some(events, Ends) /\ e \notin Ends
          BY <1>0, <3>2, <3>5, <4>1 DEF TokenInv, Kind
        <5> QED
          BY <1>0, <2>4, <5>1, OrderKept
      <4>2. CASE e.type = "MergeComplete"
        <5>1. ~Some(events, Ends) /\ e \notin Timeouts
          BY <1>0, <2>4, <3>5, <4>2, JobState DEF Kind
        <5> QED
          BY <1>0, <2>4, <5>1, OrderKept
      <4>3. CASE e.type \notin {"PhaseTimeout", "MergeComplete"}
        <5>1. e \notin Timeouts \cup Ends
          BY <4>3 DEF Kind
        <5> QED
          BY <1>0, <2>4, <5>1, OrderKept DEF TimeInv
      <4> QED
        BY <4>1, <4>2, <4>3
    <3> QED
      BY <1>0, <1>1, <2>4, <3>1, <3>2, <3>4, <3>6 DEF TimeInv
  <2> QED
    BY <2>2, <2>3, <2>4, EventStep
<1> QED
  BY <1>2, <1>3

(* An error is final.                                                      *)
LEMMA ErrorStays ==
    ASSUME FSMTypes, [Next]_vars, ctx.state = "Error"
    PROVE  ctx'.state = "Error" /\ ctx'.round = ctx.round
<1>1. CASE OnPhaseTimeout \/ OnFatalError
  BY <1>1, ContextSteps
<1>2. CASE ctx'.state # "Error"
  BY <1>2, StateFlow
<1>3. CASE ctx'.state = "Error" /\ ~OnPhaseTimeout /\ ~OnFatalError
  <2>1. CASE \/ OnWorkerJoined \/ OnWorkerLeft \/ OnUnexpected \/ TimerFires
             \/ \E w \in Workers : Connected(w) \/ WorkerTransition(w) \/ Fault(w)
             \/ UNCHANGED vars
    BY <1>3, <2>1, Steady
  <2>2. CASE Runtime
    BY <1>3, <2>2 DEF Runtime, RunSplit, RunDispatch, RunMerge, TimerFires
  <2>3. CASE OnConfigLoaded \/ OnWorkerConnected \/ OnSplitComplete \/ OnAllDispatched
                \/ OnPartitionReturned \/ OnMergeComplete
    BY <2>3 DEF OnConfigLoaded, OnWorkerConnected, OnSplitComplete, OnAllDispatched,
                OnPartitionReturned, OnMergeComplete, Takes
  <2> QED
    BY <1>3, <2>1, <2>2, <2>3 DEF Next, CoordinatorTransition
<1> QED
  BY <1>1, <1>2, <1>3

(* Initially there is nothing but ConfigLoaded.                            *)
LEMMA InitInv == Init => FSMInv
<1> SUFFICES ASSUME Init PROVE FSMInv
  OBVIOUS
<1>0. /\ ctx.state = "Init" /\ ctx.collected_partitions = <<>> /\ ctx.round = 0
      /\ ctx.connected_workers = 0
      /\ events = <<Event("ConfigLoaded")>> /\ job = NoJob /\ timer = Off
      /\ inbox = [w \in Workers |-> <<>>]
      /\ worker = [w \in Workers |-> [state |-> "Init", round |-> 0]]
  BY DEF Init
<1>1. Event("ConfigLoaded") \in Events /\ Event("ConfigLoaded").type = "ConfigLoaded"
  BY EventTypes DEF Event
<1>2. /\ events \in Seq(Events) /\ DOMAIN events = {1} /\ events[1] = Event("ConfigLoaded")
  BY <1>0, <1>1
<1>3. FSMTypes
  <2>1. ctx \in Contexts
    BY ConstantFacts DEF Init, Contexts, CoordinatorStates
  <2>2. ctx.net
    BY Zenon DEF Init
  <2>3. job \in Jobs
    BY <1>0 DEF NoJob, Jobs
  <2>4. inbox \in [Workers -> Seq(Messages)]
    BY <1>0
  <2>5. worker \in [Workers -> [state : WorkerStates, round : Nat]]
    BY <1>0 DEF WorkerStates
  <2>6. part \in [Workers -> Pieces]
    BY ConstantFacts DEF Init
  <2> QED
    BY <1>0, <1>2, <2>1, <2>2, <2>3, <2>4, <2>5, <2>6, ConstantFacts DEF Init, FSMTypes
<1>4. \A M : Some(events, M) => Event("ConfigLoaded") \in M
  BY <1>2 DEF Some
<1>5. ASSUME NEW w \in Workers
      PROVE  ~InInbox(w) /\ ~InWorker(w) /\ Every(inbox[w], AssignsOf(0, w))
  BY <1>0 DEF InInbox, InWorker, Some, Every
<1>6. ASSUME NEW s \in Slots
      PROVE  ~HasPiece(s) /\ OnePiece(s)
  <2>1. ~InJob(s) /\ ~InHand(s)
    BY <1>0 DEF InJob, InHand, NoJob, Some
  <2>2. ~InEvents(s)
    BY <1>1, <1>4 DEF InEvents, Returned, Kind
  <2>3. ~InInbox(s) /\ ~InWorker(s)
    BY <1>5, ConstantFacts
  <2>4. /\ AtMostOne(inbox[s], Assigned) /\ AtMostOne(events, Returned(s))
        /\ AtMostOne(ctx.collected_partitions, OfSlot(s)) /\ job.kind # "dispatch"
    BY <1>0, <2>1, <2>2, <2>3 DEF InHand, InEvents, InInbox, Some, AtMostOne, NoJob
  <2> QED
    BY <2>1, <2>2, <2>3, <2>4 DEF HasPiece, OnePiece
<1>7. OfRound(0)
  BY <1>0, <1>1, <1>2, <1>5 DEF OfRound, NoJob, Every, ReturnsOf
<1>8. PieceInv /\ FatalInv
  BY <1>0, <1>1, <1>4, <1>6, <1>7 DEF PieceInv, FatalInv, Outstanding, Kind
<1>9. TokenInv
  BY <1>0, <1>1, <1>4 DEF TokenInv, Tokens, Kind, NoJob
<1>10. CountInv
  BY <1>0 DEF CountInv, NoJob
<1>11. TimeInv
  BY <1>0, <1>1, <1>2, <1>4 DEF TimeInv, Kind, Every, Precede
<1> QED
  BY <1>3, <1>8, <1>9, <1>10, <1>11 DEF FSMInv, LiveInv

(* Every step keeps the invariant.                                         *)
LEMMA FSMStep ==
    ASSUME FSMInv, [Next]_vars
    PROVE  FSMInv'
<1>1. FSMTypes /\ FSMTypes'
  BY TypesStep DEF FSMInv
<1>2. CASE ctx'.state # "Error"
  <2>1. ctx.state # "Error"
    BY <1>1, <1>2, ErrorStays
  <2>2. LiveInv
    BY <2>1 DEF FSMInv
  <2>3. PieceInv' /\ CountInv' /\ FatalInv' /\ TimeInv'
    BY <1>1, <1>2, <2>1, <2>2, PieceStep, CountStep, FatalStep, TimeStep
  <2>4. TokenInv'
    BY <1>1, <1>2, <2>1, <2>2, TokenStep DEF LiveInv
  <2> QED
    BY <1>1, <2>3, <2>4 DEF FSMInv, LiveInv
<1>3. CASE ctx'.state = "Error"
  BY <1>1, <1>3 DEF FSMInv
<1> QED
  BY <1>2, <1>3

(* The invariant of the two machines.                                      *)
THEOREM FSMInductive == Spec => []FSMInv
<1>1. FSMInv /\ [Next]_vars => FSMInv'
  BY FSMStep
<1> QED
  BY <1>1, InitInv, PTL DEF Spec

-----------------------------------------------------------------------------
(***************************************************************************)
(* The refinement: where the coordinator stands, and what it awaits.       *)
(***************************************************************************)
StageFacts ==
    /\ ctx.state \in {"Init", "WaitingForWorkers", "Partitioning"} =>
          Stage = "idle" /\ Awaited = {}
    /\ ctx.state = "Dispatching" => Stage = "computing" /\ Awaited = Slots
    /\ ctx.state = "WaitingForResults" =>
          Stage = "computing" /\ Awaited = {s \in Slots : ~InHand(s)}
    /\ ctx.state = "Merging" /\ job.kind = "merge" => Stage = "computing" /\ Awaited = {}
    /\ ctx.state = "Merging" /\ job.kind # "merge" => Stage = "merging" /\ Awaited = {}
    /\ ctx.state = "Done" => Stage = "done" /\ Awaited = {}
    /\ ctx.state = "Error" => Stage = "failed" /\ Awaited = {}

(* The abstract state in each state of the machine.                        *)
LEMMA StageOf == FSMInv => StageFacts
<1> SUFFICES ASSUME FSMInv PROVE StageFacts
  OBVIOUS
<1>0. FSMTypes /\ (ctx.state # "Error" => LiveInv)
  BY DEF FSMInv
<1>1. CASE ctx.state \in {"Init", "WaitingForWorkers", "Partitioning", "Done", "Error"}
  BY <1>1 DEF StageFacts, Stage, Awaited
<1>2. CASE ctx.state = "Dispatching"
  <2>1. job.kind # "merge"
    BY <1>0, <1>2 DEF LiveInv, TokenInv, Waits
  <2>2. Held = {} /\ Stage = "computing"
    BY <1>2, <2>1 DEF Held, Stage
  <2> QED
    BY <1>2, <2>2 DEF StageFacts, Awaited
<1>3. CASE ctx.state = "WaitingForResults"
  <2>1. job.kind # "merge"
    BY <1>0, <1>3 DEF LiveInv, TokenInv
  <2>2. Stage = "computing"
        /\ Held = {ctx.collected_partitions[i] : i \in DOMAIN ctx.collected_partitions}
    BY <1>3, <2>1 DEF Held, Stage
  <2>3. Every(ctx.collected_partitions, PiecesOf(ctx.round))
    BY <1>0, <1>3 DEF LiveInv, PieceInv, OfRound
  <2>4. ASSUME NEW s \in Slots
        PROVE  InHand(s) <=> PieceOf(ctx.round, s) \in Held
    <3>1. ASSUME NEW i \in DOMAIN ctx.collected_partitions
          PROVE  ctx.collected_partitions[i] \in OfSlot(s)
                    <=> ctx.collected_partitions[i] = PieceOf(ctx.round, s)
      <4>1. ctx.collected_partitions[i] \in PiecesOf(ctx.round)
        BY <2>3 DEF Every
      <4> QED
        BY <4>1, ContextFields, <1>0 DEF PiecesOf, Pieces, OfSlot, PieceOf
    <3> QED
      BY <2>2, <3>1 DEF InHand, Some
  <2>5. Awaited = {s \in Slots : ~InHand(s)}
    BY <2>2, <2>4 DEF Awaited, PieceOf
  <2> QED
    BY <1>3, <2>2, <2>5 DEF StageFacts
<1>4. CASE ctx.state = "Merging" /\ job.kind = "merge"
  <2>1. Stage = "computing" /\ Held = {job.parts[i] : i \in DOMAIN job.parts}
    BY <1>4 DEF Stage, Held
  <2>2. \A s \in Slots : PieceOf(ctx.round, s) \in Held
    BY <1>0, <1>4, <2>1 DEF LiveInv, CountInv
  <2>3. Awaited = {}
    BY <2>1, <2>2 DEF Awaited, PieceOf
  <2> QED
    BY <1>4, <2>1, <2>3 DEF StageFacts
<1>5. CASE ctx.state = "Merging" /\ job.kind # "merge"
  BY <1>5 DEF StageFacts, Stage, Awaited
<1> QED
  BY <1>0, <1>1, <1>2, <1>3, <1>4, <1>5, ContextFields
     DEF CoordinatorStates, ActiveRound, Ended

(* Every step of the machines is a step of the abstract coordinator, or    *)
(* changes nothing it can see.                                             *)
LEMMA BSPStep ==
    ASSUME FSMInv, FSMInv', StageFacts, StageFacts', [Next]_vars
    PROVE  [Rounds!Next]_(Rounds!vars)
<1>0. /\ FSMTypes /\ FSMTypes' /\ (ctx.state # "Error" => LiveInv)
      /\ (ctx'.state # "Error" => LiveInv')
      /\ ctx.state \in CoordinatorStates
  BY ContextFields DEF FSMInv
<1>1. CASE ctx.state = "Error"
  <2>1. ctx'.state = "Error" /\ ctx'.round = ctx.round
    BY <1>0, <1>1, ErrorStays
  <2> QED
    BY <1>1, <2>1 DEF StageFacts, Rounds!vars
<1>2. CASE ctx.state # "Error" /\ ctx'.state = "Error"
  <2>1. OnPhaseTimeout \/ OnFatalError
    <3>1. CASE \/ OnWorkerJoined \/ OnWorkerLeft \/ OnUnexpected \/ TimerFires
               \/ \E w \in Workers : Connected(w) \/ WorkerTransition(w) \/ Fault(w)
               \/ UNCHANGED vars
      BY <1>2, <3>1, Steady
    <3>2. CASE Runtime
      BY <1>2, <3>2 DEF Runtime, RunSplit, RunDispatch, RunMerge, TimerFires
    <3>3. CASE OnConfigLoaded \/ OnWorkerConnected \/ OnSplitComplete \/ OnAllDispatched
      BY <1>0, <1>2, <3>3, ContextSteps
    <3>4. CASE OnPartitionReturned
      BY <1>0, <1>2, <3>4, CollectStep
    <3>5. CASE OnMergeComplete
      BY <1>0, <1>2, <3>5, ContextSteps
    <3> QED
      BY <3>1, <3>2, <3>3, <3>4, <3>5 DEF Next, CoordinatorTransition
  <2>2. ctx.state # "Done"
    <3>1. CASE OnPhaseTimeout
      BY <3>1 DEF OnPhaseTimeout, Takes
    <3>2. CASE OnFatalError
      <4>1. events \in Seq(Events) /\ events # <<>> /\ Head(events) \in Kind("FatalError")
        BY <1>0, <3>2, TailMembers DEF FSMTypes, OnFatalError, Takes, Kind
      <4>2. Some(events, Kind("FatalError"))
        BY <4>1, TailMembers
      <4> QED
        BY <1>0, <1>2, <4>2 DEF LiveInv, FatalInv, Outstanding
    <3> QED
      BY <2>1, <3>1, <3>2
  <2>3. ctx'.round = ctx.round
    BY <1>0, <2>1, ContextSteps
  <2>4. Stage \notin {"done", "failed"}
    BY <1>0, <1>2, <2>2 DEF StageFacts, CoordinatorStates, ActiveRound, Ended
  <2>5. Rounds!Fail
    BY <1>2, <2>3, <2>4 DEF StageFacts, Rounds!Fail
  <2> QED
    BY <2>5 DEF Rounds!Next
<1>3. CASE ctx'.state # "Error" /\ ctx.state # "Error"
  <2>0. /\ PieceInv /\ TokenInv /\ CountInv /\ TokenInv'
    BY <1>0, <1>3 DEF LiveInv
  <2>1. CASE OnSplitComplete
    <3>1. /\ ctx.state = "Partitioning" /\ ctx'.state = "Dispatching"
          /\ ctx'.round = ctx.round
      BY <1>0, <2>1, ContextSteps DEF OnSplitComplete, Takes
    <3>2. Slots # {}
      BY ConstantFacts DEF Slots
    <3>3. Rounds!Begin(Slots)
      BY <3>1, <3>2 DEF StageFacts, Rounds!Begin
    <3> QED
      BY <3>3 DEF Rounds!Next
  <2>2. CASE OnPartitionReturned
    <3> DEFINE hand == ctx.collected_partitions
               p == Head(events).partition
    <3>1. /\ events \in Seq(Events) /\ events # <<>> /\ Head(events) \in Events
          /\ Head(events).type = "PartitionReturned" /\ ctx.state = "WaitingForResults"
          /\ hand \in Seq(Pieces) /\ p \in Pieces /\ ctx'.round = ctx.round
      BY <1>0, <2>2, EventFields, TailMembers, ContextFields, ContextSteps
         DEF FSMTypes, OnPartitionReturned, Takes
    <3>2. PICK s \in Slots : s = p.slot
      BY <3>1 DEF Pieces
    <3>3. Head(events) \in Returned(s) /\ p \in OfSlot(s)
      BY <3>1, <3>2 DEF Returned, Kind, OfSlot
    <3>4. ~InHand(s)
      <4>1. InEvents(s)
        BY <3>1, <3>3, TailMembers DEF InEvents
      <4> QED
        BY <2>0, <4>1 DEF PieceInv, OnePiece
    <3>5. Stage = "computing" /\ s \in Awaited /\ Awaited = {t \in Slots : ~InHand(t)}
      BY <3>1, <3>4 DEF StageFacts
    <3>6. Stage' = "computing" /\ Awaited' = Awaited \ {s}
      <4>1. CASE ctx.partitions_received + 1 >= MinWorkers
        <5>1. ctx'.state = "Merging" /\ job'.kind = "merge"
          BY <1>0, <2>2, <4>1, CollectStep
        <5>2. \A t \in Slots : InHand(t) \/ Head(events) \in Returned(t)
          BY <1>0, <2>0, <2>2, <4>1, AllCollected
        <5>3. \A t \in Slots : InHand(t) \/ t = s
          BY <3>2, <5>2 DEF Returned
        <5> QED
          BY <3>5, <5>1, <5>3 DEF StageFacts
      <4>2. CASE ~(ctx.partitions_received + 1 >= MinWorkers)
        <5>1. ctx'.state = "WaitingForResults" /\ ctx'.collected_partitions = Append(hand, p)
          BY <1>0, <2>2, <4>2, CollectStep
        <5>2. ASSUME NEW t \in Slots
              PROVE  InHand(t)' <=> InHand(t) \/ t = s
          <6>1. p \in OfSlot(t) <=> t = s
            BY <3>1, <3>2 DEF OfSlot
          <6> QED
            BY <3>1, <5>1, <6>1, AppendMembers DEF InHand
        <5>3. Stage' = "computing" /\ Awaited' = {t \in Slots : ~InHand(t)'}
          BY <5>1 DEF StageFacts
        <5> QED
          BY <3>5, <5>2, <5>3
      <4> QED
        BY <4>1, <4>2
    <3>7. Rounds!Answer(s)
      BY <3>1, <3>5, <3>6 DEF Rounds!Answer
    <3> QED
      BY <3>7 DEF Rounds!Next
  <2>3. CASE OnMergeComplete
    <3>1. /\ events \in Seq(Events) /\ events # <<>> /\ Head(events) \in Kind("MergeComplete")
          /\ ctx.state = "Merging"
      BY <1>0, <2>3, TailMembers DEF FSMTypes, OnMergeComplete, Takes, Kind
    <3>2. job.kind = "none"
      BY <1>0, <1>3, <2>0, <3>1, HeadToken DEF Tokens
    <3>3. Stage = "merging" /\ Awaited = {}
      BY <3>1, <3>2 DEF StageFacts
    <3>4. CASE ctx'.state = "Done" /\ ctx'.round = ctx.round
      <4>1. Rounds!Finish
        BY <3>3, <3>4 DEF StageFacts, Rounds!Finish
      <4> QED
        BY <4>1 DEF Rounds!Next
    <3>5. CASE ctx'.state = "Partitioning" /\ ctx'.round = ctx.round + 1
      <4>1. Rounds!Merge
        BY <3>3, <3>5 DEF StageFacts, Rounds!Merge
      <4> QED
        BY <4>1 DEF Rounds!Next
    <3> QED
      BY <1>0, <2>3, <3>4, <3>5, ContextSteps
  <2>4. CASE \E nf \in BOOLEAN : RunMerge(nf)
    <3>1. ctx' = ctx /\ job.kind = "merge" /\ job'.kind # "merge"
      BY <2>4 DEF RunMerge, NoJob
    <3>2. ctx.state = "Merging"
      BY <1>0, <1>3, <2>0, <3>1, JobState
    <3>3. Rounds!Barrier
      BY <3>1, <3>2 DEF StageFacts, Rounds!Barrier
    <3> QED
      BY <3>3 DEF Rounds!Next
  <2>5. CASE OnAllDispatched
    <3>1. /\ ctx.state = "Dispatching" /\ ctx'.state = "WaitingForResults"
          /\ ctx'.round = ctx.round /\ ctx'.collected_partitions = <<>>
      BY <1>0, <2>5, ContextSteps DEF OnAllDispatched, Takes
    <3>2. \A s \in Slots : ~InHand(s)'
      BY <3>1 DEF InHand, Some
    <3>3. Stage' = Stage /\ Awaited' = Slots /\ Awaited = Slots
      BY <3>1, <3>2 DEF StageFacts
    <3> QED
      BY <3>1, <3>3 DEF Rounds!vars
  <2>6. CASE OnConfigLoaded \/ OnWorkerConnected
    <3>1. /\ ctx.state \in {"Init", "WaitingForWorkers"}
          /\ ctx'.state \in {"WaitingForWorkers", "Partitioning"} /\ ctx'.round = ctx.round
      BY <1>0, <2>6, ContextSteps DEF OnConfigLoaded, OnWorkerConnected, Takes
    <3> QED
      BY <3>1 DEF StageFacts, Rounds!vars
  <2>7. CASE OnPhaseTimeout \/ OnFatalError
    BY <1>0, <1>3, <2>7, ContextSteps
  <2>8. ASSUME ctx' = ctx, job'.kind = "merge" <=> job.kind = "merge"
        PROVE  UNCHANGED Rounds!vars
    <3>1. \A s \in Slots : InHand(s)' <=> InHand(s)
      BY <2>8 DEF InHand
    <3>2. {s \in Slots : ~InHand(s)'} = {s \in Slots : ~InHand(s)}
      BY <3>1
    <3>3. CASE ctx.state = "WaitingForResults"
      BY <2>8, <3>2, <3>3 DEF StageFacts, Rounds!vars
    <3>4. CASE ctx.state # "WaitingForResults"
      BY <1>0, <2>8, <3>4 DEF StageFacts, Rounds!vars, CoordinatorStates, ActiveRound, Ended
    <3> QED
      BY <3>3, <3>4
  <2>9. CASE RunSplit \/ RunDispatch
    <3>1. CASE RunDispatch /\ job.left # <<>>
      <4>1. job \in [kind : {"dispatch"}, left : Seq(Pieces)]
        BY <1>0, <3>1 DEF RunDispatch, Jobs, FSMTypes
      <4>2. ctx' = ctx /\ job'.kind # "merge" /\ job.kind # "merge"
        BY <3>1, <4>1 DEF RunDispatch
      <4> QED
        BY <2>8, <4>2
    <3>2. CASE RunSplit \/ (RunDispatch /\ job.left = <<>>)
      <4>1. ctx' = ctx /\ job'.kind # "merge" /\ job.kind # "merge"
        BY <3>2 DEF RunSplit, RunDispatch, NoJob
      <4> QED
        BY <2>8, <4>1
    <3> QED
      BY <2>9, <3>1, <3>2
  <2>10. CASE \/ OnWorkerJoined \/ OnWorkerLeft \/ OnUnexpected \/ TimerFires
              \/ \E w \in Workers : Connected(w) \/ WorkerTransition(w) \/ Fault(w)
              \/ UNCHANGED vars
    <3>1. ctx' = ctx /\ job' = job
      BY <2>10, Steady
    <3> QED
      BY <2>8, <3>1
  <2> QED
    BY <2>1, <2>2, <2>3, <2>4, <2>5, <2>6, <2>7, <2>9, <2>10
       DEF Next, CoordinatorTransition, Runtime
<1> QED
  BY <1>1, <1>2, <1>3

(* The pair of machines implements the bulk-synchronous coordinator: a     *)
(* merge starts exactly when every partition of the round has come back    *)
(* once, although neither the sender nor the round of a result is looked   *)
(* at, and a failed round is never merged.                                 *)
THEOREM ImplementsBSPCorrect == Spec => ImplementsBSP
<1>1. Init => Rounds!Init
  <2> SUFFICES ASSUME Init PROVE Rounds!Init
    OBVIOUS
  <2>1. ctx.state = "Init" /\ ctx.round = 0
    BY DEF Init
  <2>2. StageFacts
    BY InitInv, StageOf
  <2> QED
    BY <2>1, <2>2 DEF StageFacts, Rounds!Init
<1>2. FSMInv /\ FSMInv' /\ StageFacts /\ StageFacts' /\ [Next]_vars
         => [Rounds!Next]_(Rounds!vars)
  BY BSPStep
<1> QED
  BY <1>1, <1>2, FSMInductive, StageOf, PTL DEF Spec, ImplementsBSP, Rounds!Spec

(* A collect timeout that is acted on is the one of the round it ends:     *)
(* none is left over from an earlier round, whenever the timer fired.      *)
THEOREM TimeoutOfThisRoundCorrect == Spec => TimeoutOfThisRound
<1>1. FSMInv /\ [Next]_vars =>
         [ctx.state = "WaitingForResults" /\ ctx'.state = "Error"
             /\ Head(events).type = "PhaseTimeout" => Head(events).started = ctx.round]_vars
  <2> SUFFICES ASSUME FSMInv, [Next]_vars, vars' # vars, ctx.state = "WaitingForResults",
                      ctx'.state = "Error", Head(events).type = "PhaseTimeout"
               PROVE  Head(events).started = ctx.round
    OBVIOUS
  <2>1. /\ FSMTypes /\ TimeInv /\ events \in Seq(Events)
    BY DEF FSMInv, LiveInv, FSMTypes
  <2>2. OnPhaseTimeout \/ OnFatalError
    <3>1. CASE \/ OnWorkerJoined \/ OnWorkerLeft \/ OnUnexpected \/ TimerFires
               \/ \E w \in Workers : Connected(w) \/ WorkerTransition(w) \/ Fault(w)
      BY <3>1, Steady
    <3>2. CASE Runtime
      BY <3>2 DEF Runtime, RunSplit, RunDispatch, RunMerge, TimerFires
    <3>3. CASE OnPartitionReturned
      BY <2>1, <3>3, CollectStep
    <3>4. CASE OnConfigLoaded \/ OnWorkerConnected \/ OnSplitComplete \/ OnAllDispatched
                  \/ OnMergeComplete
      BY <3>4 DEF OnConfigLoaded, OnWorkerConnected, OnSplitComplete, OnAllDispatched,
                  OnMergeComplete, Takes
    <3> QED
      BY <3>1, <3>2, <3>3, <3>4 DEF Next, CoordinatorTransition
  <2>3. events # <<>>
    BY <2>2 DEF OnPhaseTimeout, OnFatalError, Takes
  <2>4. Head(events) \in {e \in Events : e.type = "PhaseTimeout" => e.started = ctx.round}
    BY <2>1, <2>3, TailMembers DEF TimeInv
  <2> QED
    BY <2>4
<1> QED
  BY <1>1, FSMInductive, PTL DEF Spec, TimeoutOfThisRound
=============================================================================
