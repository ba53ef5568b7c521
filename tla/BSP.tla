-------------------------------- MODULE BSP ---------------------------------
(***************************************************************************)
(* What a bulk-synchronous coordinator promises (SPEC-05, SPEC-13 R21),    *)
(* whatever it is built from: rounds that do not overlap.  A round begins  *)
(* with a set of partitions handed out; each of them is answered once, by  *)
(* its result or by the departure of its holder; only when all are         *)
(* answered is anything merged, and only then may the next round begin.    *)
(* The run may fail at any point before it is done.                        *)
(*                                                                         *)
(* PushFSM (the pure state machines) and GridProtocol (the runtime) both   *)
(* implement it.                                                           *)
(***************************************************************************)
EXTENDS Naturals

CONSTANT AllSlots       \* the partitions a round may have

VARIABLES
    stage,              \* "idle", "computing", "merging", "done" or "failed"
    round,              \* rounds merged so far
    awaited             \* partitions of this round not answered yet

vars == <<stage, round, awaited>>

Init ==
    /\ stage = "idle"
    /\ round = 0
    /\ awaited = {}

Begin(slots) ==
    /\ stage = "idle"
    /\ slots # {}
    /\ stage' = "computing"
    /\ awaited' = slots
    /\ round' = round

Answer(s) ==
    /\ stage = "computing"
    /\ s \in awaited
    /\ awaited' = awaited \ {s}
    /\ UNCHANGED <<stage, round>>

Barrier ==
    /\ stage = "computing"
    /\ awaited = {}
    /\ stage' = "merging"
    /\ UNCHANGED <<round, awaited>>

Merge ==
    /\ stage = "merging"
    /\ stage' = "idle"
    /\ round' = round + 1
    /\ awaited' = {}

Finish ==
    /\ stage \in {"idle", "merging"}
    /\ stage' = "done"
    /\ awaited' = {}
    /\ round' = round

Fail ==
    /\ stage \notin {"done", "failed"}
    /\ stage' = "failed"
    /\ awaited' = {}
    /\ round' = round

Next ==
    \/ \E slots \in SUBSET AllSlots : Begin(slots)
    \/ \E s \in AllSlots : Answer(s)
    \/ Barrier
    \/ Merge
    \/ Finish
    \/ Fail

Spec == Init /\ [][Next]_vars
=============================================================================
