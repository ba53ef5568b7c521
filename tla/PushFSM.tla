------------------------------- MODULE PushFSM ------------------------------
(***************************************************************************)
(* The two pure state machines of SPEC-13: transition of coordinator.rs    *)
(* and transition of worker.rs, composed through the runtime their actions *)
(* and events suppose: one FIFO event queue at the coordinator, one        *)
(* ordered connection per worker, jobs (split, dispatch, merge) that run   *)
(* beside the event loop, one collect timer.  That runtime is external:    *)
(* run_coordinator (GridProtocol) is a loop of its own.                    *)
(*                                                                         *)
(* A partition is named by its round and its slot, so that a merge of      *)
(* something else than the round's partitions is visible.                  *)
(***************************************************************************)
EXTENDS Naturals, Sequences, FiniteSets

CONSTANTS
    MinWorkers,     \* CoordinatorContext.min_workers
    MaxRound,       \* the net is in normal form by this round
    MaxFaults       \* connections that may break, departures included

ASSUME FSMAssumption ==
    /\ MinWorkers \in Nat \ {0}
    /\ MaxRound \in Nat
    /\ MaxFaults \in Nat

(* Worker MinWorkers is a late one: it joins while a round is running.     *)
Late == MinWorkers
Workers == 0 .. MinWorkers
Slots == 0 .. MinWorkers - 1
Partitions == [round : 0 .. MaxRound, slot : Slots]

VARIABLES
    ctx,            \* CoordinatorContext
    worker,         \* WorkerContext of every worker
    events,         \* the coordinator's event queue
    job,            \* what the coordinator's runtime is executing
    timer,          \* the collect timer: the round that started it, or Off
    open,           \* workers whose connection is open at the coordinator
    queued,         \* QueueWorkerForNextWindow
    inbox,          \* events on their way to a worker
    part,           \* the partition a worker's runtime is reducing
    faults

vars == <<ctx, worker, events, job, timer, open, queued, inbox, part, faults>>
workerVars == <<worker, part>>

Off == MaxRound + 1
NoPart == [round |-> Off, slot |-> 0]
NoJob == [kind |-> "none"]

Ended == {"Done", "Error"}
ActiveRound == {"Partitioning", "Dispatching", "WaitingForResults", "Merging"}

(* Events, and the jobs of the actions that fire them back.                *)
Event(type) == [type |-> type]
From(type, w) == [type |-> type, worker_id |-> w]
PartitionReturned(w, round, p) ==
    [type |-> "PartitionReturned", worker_id |-> w, round |-> round, partition |-> p]
PhaseTimeout(round) == [type |-> "PhaseTimeout", started |-> round]
MergeComplete(nf) == [type |-> "MergeComplete", is_normal_form |-> nf]

Init ==
    /\ ctx = [state |-> "Init", connected_workers |-> 0, total_workers |-> MinWorkers,
              partitions_received |-> 0, collected_partitions |-> <<>>, round |-> 0,
              net |-> TRUE]
    /\ worker = [w \in Workers |-> [state |-> "Init", round |-> 0]]
    /\ events = <<Event("ConfigLoaded")>>
    /\ job = NoJob
    /\ timer = Off
    /\ open = {}
    /\ queued = {}
    /\ inbox = [w \in Workers |-> <<>>]
    /\ part = [w \in Workers |-> NoPart]
    /\ faults = 0

-----------------------------------------------------------------------------
(***************************************************************************)
(* transition of coordinator.rs, one action per row.  Each consumes the    *)
(* event at the head of the queue.                                         *)
(***************************************************************************)
Takes(type, states) ==
    /\ events # <<>>
    /\ Head(events).type = type
    /\ ctx.state \in states
    /\ events' = Tail(events)

(* ShutdownAll: Shutdown to every worker, then the connections close.      *)
ShutdownAll ==
    /\ inbox' = [w \in Workers |-> IF w \in open
                    THEN inbox[w] \o <<Event("Shutdown"), Event("ConnectionLost")>>
                    ELSE inbox[w]]
    /\ open' = {}

NoShutdown == UNCHANGED <<inbox, open>>

InvokeSplit(k, round) == [kind |-> "split", num_workers |-> k, round |-> round]

OnConfigLoaded ==
    /\ Takes("ConfigLoaded", {"Init"})
    /\ ctx' = [ctx EXCEPT !.state = "WaitingForWorkers"]
    /\ NoShutdown
    /\ UNCHANGED <<workerVars, job, timer, queued, faults>>

(* The net is taken when the cohort is complete.                           *)
OnWorkerConnected ==
    LET connected == ctx.connected_workers + 1
        complete  == connected >= MinWorkers
    IN  /\ Takes("WorkerConnected", {"WaitingForWorkers"})
        /\ ctx' = [ctx EXCEPT !.connected_workers = connected,
                              !.total_workers = IF complete THEN connected ELSE @,
                              !.state = IF complete THEN "Partitioning" ELSE @,
                              !.net = @ /\ ~complete]
        /\ job' = IF complete /\ ctx.net THEN InvokeSplit(connected, ctx.round) ELSE job
        /\ NoShutdown
        /\ UNCHANGED <<workerVars, timer, queued, faults>>

(* One SendMessage per partition, to the worker of its index.              *)
OnSplitComplete ==
    /\ Takes("SplitComplete", {"Partitioning"})
    /\ ctx' = [ctx EXCEPT !.state = "Dispatching"]
    /\ job' = [kind |-> "dispatch",
               left |-> [i \in 1 .. Head(events).parts |->
                            [round |-> ctx.round, slot |-> i - 1]]]
    /\ NoShutdown
    /\ UNCHANGED <<workerVars, timer, queued, faults>>

(* Mutant of OnAllDispatched: no collect timer.                            *)
OnAllDispatchedNoTimer ==
    /\ Takes("AllDispatched", {"Dispatching"})
    /\ ctx' = [ctx EXCEPT !.state = "WaitingForResults",
                          !.partitions_received = 0,
                          !.collected_partitions = <<>>]
    /\ NoShutdown
    /\ UNCHANGED <<workerVars, job, timer, queued, faults>>

OnAllDispatched ==
    /\ Takes("AllDispatched", {"Dispatching"})
    /\ ctx' = [ctx EXCEPT !.state = "WaitingForResults",
                          !.partitions_received = 0,
                          !.collected_partitions = <<>>]
    /\ timer' = ctx.round
    /\ NoShutdown
    /\ UNCHANGED <<workerVars, job, queued, faults>>

(* Mutant of OnPartitionReturned: the collect timer is not cancelled.      *)
OnPartitionReturnedTimerRuns ==
    LET received == ctx.partitions_received + 1
        got      == Append(ctx.collected_partitions, Head(events).partition)
        all      == received >= ctx.total_workers
    IN  /\ Takes("PartitionReturned", {"WaitingForResults"})
        /\ ctx' = [ctx EXCEPT !.partitions_received = received,
                              !.collected_partitions = IF all THEN <<>> ELSE got,
                              !.state = IF all THEN "Merging" ELSE @]
        /\ job' = IF all THEN [kind |-> "merge", parts |-> got] ELSE job
        /\ NoShutdown
        /\ UNCHANGED <<workerVars, timer, queued, faults>>

(* Neither the sender nor the round of a result is looked at.              *)
OnPartitionReturned ==
    LET received == ctx.partitions_received + 1
        got      == Append(ctx.collected_partitions, Head(events).partition)
        all      == received >= ctx.total_workers
    IN  /\ Takes("PartitionReturned", {"WaitingForResults"})
        /\ ctx' = [ctx EXCEPT !.partitions_received = received,
                              !.collected_partitions = IF all THEN <<>> ELSE got,
                              !.state = IF all THEN "Merging" ELSE @]
        /\ job' = IF all THEN [kind |-> "merge", parts |-> got] ELSE job
        /\ timer' = IF all THEN Off ELSE timer
        /\ NoShutdown
        /\ UNCHANGED <<workerVars, queued, faults>>

OnPhaseTimeout ==
    /\ Takes("PhaseTimeout", {"WaitingForResults"})
    /\ ctx' = [ctx EXCEPT !.state = "Error"]
    /\ ShutdownAll
    /\ UNCHANGED <<workerVars, job, timer, queued, faults>>

(* Mutant of OnMergeComplete: the round is not counted.                    *)
OnMergeCompleteSameRound ==
    LET nf == Head(events).is_normal_form
    IN  /\ Takes("MergeComplete", {"Merging"})
        /\ ctx' = [ctx EXCEPT !.state = IF nf THEN "Done" ELSE "Partitioning"]
        /\ job' = IF nf THEN job ELSE InvokeSplit(ctx.total_workers, ctx.round)
        /\ IF nf THEN ShutdownAll ELSE NoShutdown
        /\ UNCHANGED <<workerVars, timer, queued, faults>>

(* CheckTermination is passed through: Done, or the next round.            *)
OnMergeComplete ==
    LET nf == Head(events).is_normal_form
    IN  /\ Takes("MergeComplete", {"Merging"})
        /\ ctx' = IF nf THEN [ctx EXCEPT !.state = "Done"]
                  ELSE [ctx EXCEPT !.state = "Partitioning", !.round = @ + 1]
        /\ job' = IF nf THEN job ELSE InvokeSplit(ctx.total_workers, ctx.round + 1)
        /\ IF nf THEN ShutdownAll ELSE NoShutdown
        /\ UNCHANGED <<workerVars, timer, queued, faults>>

(* Mutant of OnFatalError: the workers are not shut down.                  *)
OnFatalErrorSilent ==
    /\ events # <<>>
    /\ Takes("FatalError", {ctx.state})
    /\ ctx' = [ctx EXCEPT !.state = "Error"]
    /\ NoShutdown
    /\ UNCHANGED <<workerVars, job, timer, queued, faults>>

OnFatalError ==
    /\ events # <<>>
    /\ Takes("FatalError", {ctx.state})
    /\ ctx' = [ctx EXCEPT !.state = "Error"]
    /\ ShutdownAll
    /\ UNCHANGED <<workerVars, job, timer, queued, faults>>

(* R10b, R22b: joins are queued and departures booked in the same state;   *)
(* total_workers is not touched.                                           *)
OnWorkerJoined ==
    /\ Takes("WorkerJoined", ActiveRound)
    /\ queued' = queued \cup {Head(events).worker_id}
    /\ NoShutdown
    /\ UNCHANGED <<ctx, workerVars, job, timer, faults>>

OnWorkerLeft ==
    /\ Takes("WorkerLeft", ActiveRound)
    /\ open' = open \ {Head(events).worker_id}
    /\ UNCHANGED <<ctx, workerVars, job, timer, queued, inbox, faults>>

(* The wildcard: logged and ignored.                                       *)
Handled(type) ==
    CASE type = "ConfigLoaded"      -> {"Init"}
      [] type = "WorkerConnected"   -> {"WaitingForWorkers"}
      [] type = "SplitComplete"     -> {"Partitioning"}
      [] type = "AllDispatched"     -> {"Dispatching"}
      [] type = "PartitionReturned" -> {"WaitingForResults"}
      [] type = "PhaseTimeout"      -> {"WaitingForResults"}
      [] type = "MergeComplete"     -> {"Merging"}
      [] type \in {"WorkerJoined", "WorkerLeft"} -> ActiveRound
      [] type = "FatalError"        -> {ctx.state}
      [] OTHER                      -> {}

OnUnexpected ==
    /\ events # <<>>
    /\ ctx.state \notin Handled(Head(events).type)
    /\ events' = Tail(events)
    /\ UNCHANGED <<ctx, workerVars, job, timer, open, queued, inbox, faults>>

CoordinatorTransition ==
    \/ OnConfigLoaded
    \/ OnWorkerConnected
    \/ OnSplitComplete
    \/ OnAllDispatched
    \/ OnPartitionReturned
    \/ OnPhaseTimeout
    \/ OnMergeComplete
    \/ OnFatalError
    \/ OnWorkerJoined
    \/ OnWorkerLeft
    \/ OnUnexpected

-----------------------------------------------------------------------------
(***************************************************************************)
(* The coordinator's runtime.                                              *)
(***************************************************************************)
Post(e) == events' = Append(events, e)

(* split of a net yields one partition per worker.                         *)
RunSplit ==
    /\ job.kind = "split"
    /\ Post([type |-> "SplitComplete", parts |-> job.num_workers])
    /\ job' = NoJob
    /\ UNCHANGED <<ctx, workerVars, timer, open, queued, inbox, faults>>

(* SendMessage(i, AssignPartition), one after the other; a message to a    *)
(* worker that is gone is lost.                                            *)
RunDispatch ==
    /\ job.kind = "dispatch"
    /\ IF job.left = <<>>
       THEN /\ Post(Event("AllDispatched"))
            /\ job' = NoJob
            /\ inbox' = inbox
       ELSE LET p == Head(job.left)
            IN  /\ inbox' = IF p.slot \in open
                            THEN [inbox EXCEPT ![p.slot] =
                                    Append(@, [type |-> "ReceivePartition", partition |-> p])]
                            ELSE inbox
                /\ job' = [job EXCEPT !.left = Tail(@)]
                /\ events' = events
    /\ UNCHANGED <<ctx, workerVars, timer, open, queued, faults>>

(* The merged net is in normal form or not; by MaxRound it is.             *)
RunMerge(nf) ==
    /\ job.kind = "merge"
    /\ ctx.round >= MaxRound => nf
    /\ Post(MergeComplete(nf))
    /\ job' = NoJob
    /\ UNCHANGED <<ctx, workerVars, timer, open, queued, inbox, faults>>

TimerFires ==
    /\ timer # Off
    /\ Post(PhaseTimeout(timer))
    /\ timer' = Off
    /\ UNCHANGED <<ctx, workerVars, job, open, queued, inbox, faults>>

-----------------------------------------------------------------------------
(***************************************************************************)
(* transition of worker.rs, one action per row.  Every other event of the  *)
(* inbox is ignored (WorkerIgnores).                                       *)
(***************************************************************************)
Connected(w) ==
    /\ worker[w].state = "Init"
    /\ ctx.state \notin {"Init"} \cup Ended
    /\ w = Late => ctx.state \in ActiveRound
    /\ worker' = [worker EXCEPT ![w].state = "Idle"]
    /\ open' = open \cup {w}
    /\ Post(From(IF w = Late THEN "WorkerJoined" ELSE "WorkerConnected", w))
    /\ UNCHANGED <<ctx, part, job, timer, queued, inbox, faults>>

Arrives(w, type) ==
    /\ inbox[w] # <<>>
    /\ Head(inbox[w]).type = type
    /\ inbox' = [inbox EXCEPT ![w] = Tail(@)]

(* The round of the message is not stored in WorkerContext.round.          *)
ReceivePartition(w) ==
    /\ worker[w].state = "Idle"
    /\ Arrives(w, "ReceivePartition")
    /\ worker' = [worker EXCEPT ![w].state = "Reducing"]
    /\ part' = [part EXCEPT ![w] = Head(inbox[w]).partition]
    /\ UNCHANGED <<ctx, events, job, timer, open, queued, faults>>

ReductionComplete(w) ==
    /\ worker[w].state = "Reducing"
    /\ worker' = [worker EXCEPT ![w].state = "Returning"]
    /\ events' = IF w \in open
                 THEN Append(events, PartitionReturned(w, worker[w].round, part[w]))
                 ELSE events
    /\ part' = [part EXCEPT ![w] = NoPart]
    /\ UNCHANGED <<ctx, job, timer, open, queued, inbox, faults>>

SendComplete(w) ==
    /\ worker[w].state = "Returning"
    /\ worker' = [worker EXCEPT ![w].state = "Idle"]
    /\ UNCHANGED <<ctx, part, events, job, timer, open, queued, inbox, faults>>

(* The Error message of a failed reduction is fatal at the coordinator.    *)
ReductionError(w) ==
    /\ faults < MaxFaults
    /\ faults' = faults + 1
    /\ worker[w].state = "Reducing"
    /\ worker' = [worker EXCEPT ![w].state = "Error"]
    /\ events' = IF w \in open THEN Append(events, Event("FatalError")) ELSE events
    /\ part' = [part EXCEPT ![w] = NoPart]
    /\ UNCHANGED <<ctx, job, timer, open, queued, inbox>>

WorkerShutdown(w) ==
    /\ worker[w].state = "Idle"
    /\ Arrives(w, "Shutdown")
    /\ worker' = [worker EXCEPT ![w].state = "Done"]
    /\ UNCHANGED <<ctx, part, events, job, timer, open, queued, faults>>

ConnectionLost(w) ==
    /\ Arrives(w, "ConnectionLost")
    /\ worker' = [worker EXCEPT ![w].state = "Error"]
    /\ part' = [part EXCEPT ![w] = NoPart]
    /\ UNCHANGED <<ctx, events, job, timer, open, queued, faults>>

WorkerIgnores(w) ==
    /\ worker[w].state # "Idle"
    /\ \/ Arrives(w, "ReceivePartition")
       \/ Arrives(w, "Shutdown")
    /\ UNCHANGED <<ctx, workerVars, events, job, timer, open, queued, faults>>

(* A connection breaks: both ends notice, frames on their way to the       *)
(* worker may be lost.                                                     *)
Breaks(w) ==
    /\ faults < MaxFaults
    /\ faults' = faults + 1
    /\ w \in open
    /\ open' = open \ {w}
    /\ Post(From("WorkerConnectionLost", w))
    /\ \E kept \in {inbox[w], <<>>} :
          inbox' = [inbox EXCEPT ![w] = Append(kept, Event("ConnectionLost"))]
    /\ UNCHANGED <<ctx, workerVars, job, timer, queued>>

(* A LeaveRequest: the worker closes its side.                             *)
Leaves(w) ==
    /\ faults < MaxFaults
    /\ faults' = faults + 1
    /\ w \in open
    /\ worker[w].state = "Idle"
    /\ Post(From("WorkerLeft", w))
    /\ inbox' = [inbox EXCEPT ![w] = Append(@, Event("ConnectionLost"))]
    /\ UNCHANGED <<ctx, workerVars, job, timer, open, queued>>

WorkerTransition(w) ==
    \/ ReceivePartition(w)
    \/ ReductionComplete(w)
    \/ SendComplete(w)
    \/ WorkerShutdown(w)
    \/ ConnectionLost(w)
    \/ WorkerIgnores(w)

Fault(w) == ReductionError(w) \/ Breaks(w) \/ Leaves(w)

Runtime == RunSplit \/ RunDispatch \/ (\E nf \in BOOLEAN : RunMerge(nf)) \/ TimerFires

Next ==
    \/ CoordinatorTransition
    \/ Runtime
    \/ \E w \in Workers : Connected(w) \/ WorkerTransition(w) \/ Fault(w)

(* The event loop and the jobs go on, the collect timer expires if it is   *)
(* not cancelled, a worker with something to do does it, and the cohort    *)
(* connects (nothing in the machine ends the wait for it).                 *)
Fairness ==
    /\ WF_vars(CoordinatorTransition)
    /\ WF_vars(RunSplit)
    /\ WF_vars(RunDispatch)
    /\ WF_vars(\E nf \in BOOLEAN : RunMerge(nf))
    /\ WF_vars(TimerFires)
    /\ \A w \in Workers : WF_vars(WorkerTransition(w))
    /\ \A w \in Slots : WF_vars(Connected(w))

Spec == Init /\ [][Next]_vars /\ Fairness
-----------------------------------------------------------------------------
(* The partitions of this round that the coordinator holds.                *)
Held ==
    CASE job.kind = "merge"              -> {job.parts[i] : i \in DOMAIN job.parts}
      [] ctx.state = "WaitingForResults" ->
             {ctx.collected_partitions[i] : i \in DOMAIN ctx.collected_partitions}
      [] OTHER                           -> {}

(* The barrier is passed when the runtime takes up InvokeMergeAndReduce.   *)
Stage ==
    CASE ctx.state \in {"Init", "WaitingForWorkers", "Partitioning"} -> "idle"
      [] ctx.state \in {"Dispatching", "WaitingForResults"}          -> "computing"
      [] ctx.state = "Merging" /\ job.kind = "merge"                 -> "computing"
      [] ctx.state = "Merging" /\ job.kind # "merge"                 -> "merging"
      [] ctx.state = "Done"                                          -> "done"
      [] ctx.state = "Error"                                         -> "failed"

Awaited ==
    IF Stage = "computing"
    THEN {s \in Slots : [round |-> ctx.round, slot |-> s] \notin Held}
    ELSE {}

Rounds == INSTANCE BSP WITH AllSlots <- Slots, stage <- Stage, round <- ctx.round,
                            awaited <- Awaited

(* The pair of machines is a bulk-synchronous coordinator (SPEC-13 R21):   *)
(* although a result's sender and round are never compared, a merge starts *)
(* exactly when every partition of this round has come back once, and      *)
(* rounds do not overlap, whatever connections break and timers fire.      *)
ImplementsBSP == Rounds!Spec

(* A PhaseTimeout only ends the round whose timer it is: one that was      *)
(* queued before CancelTimer, or in an earlier round, is never acted on.   *)
TimeoutOfThisRound ==
    [][ctx.state = "WaitingForResults" /\ ctx'.state = "Error"
          /\ Head(events).type = "PhaseTimeout" => Head(events).started = ctx.round]_vars

(* The collect phase ends: all results or the timer, also when a worker    *)
(* broke, left, or answered before AllDispatched and was ignored.          *)
CollectEnds == ctx.state = "WaitingForResults" ~> ctx.state \in {"Merging", "Error"}

(* Once the coordinator has ended every worker that had connected stops,   *)
(* although Shutdown is ignored outside Idle.                              *)
WorkersStop ==
    \A w \in Workers :
        ctx.state \in Ended /\ worker[w].state # "Init" ~> worker[w].state \in Ended
=============================================================================
