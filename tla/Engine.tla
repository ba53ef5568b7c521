------------------------------- MODULE Engine -------------------------------
(***************************************************************************)
(* The sequential reduction engine (reduce_all of reduction/engine.rs) on  *)
(* one net: every call of reduce_step is one action, split by the rule it  *)
(* dispatches to.  The initial nets are the well-formed nets a caller may  *)
(* hand to reduce_all.                                                     *)
(***************************************************************************)
EXTENDS Reduction

CONSTANT InitialNets

VARIABLES
    net,            \* the net being reduced
    interface,      \* the Lafont FreePort indices the net started with
    interactions,   \* ReductionStats.total_interactions
    tangled,        \* history: an entangled pair has been reduced
    lost            \* history: FreePorts that a removed agent's id has unwired

vars == <<net, interface, interactions, tangled, lost>>

FreeIndices(n) ==
    {n.ports[ip[1]][ip[2]][2] : ip \in
        {jq \in LivePorts(n) : /\ IsFreePort(n.ports[jq[1]][jq[2]])
                               /\ n.ports[jq[1]][jq[2]] # DISCONNECTED}}

(***************************************************************************)
(* What a caller hands to reduce_all: a net in which the checks of         *)
(* net/debug.rs hold, no port is wired to itself, the slots without an     *)
(* agent are blank, the free list accounts for every id that is not live   *)
(* and the queue knows every active pair.  The shadow of the border        *)
(* entries is only set inside a worker's partition.                        *)
(***************************************************************************)
InputNet(n) ==
    /\ NetType(n)
    /\ assert_all_invariants(n)
    /\ FreeListAccounts(n)
    /\ RedexesQueued(n)
    /\ n.shadow = {}
    /\ \A i \in AgentIds, p \in PortIds :
           /\ n.ports[i][p] # AgentPort(i, p)
           /\ <<i, p>> \notin LivePorts(n) => n.ports[i][p] = DISCONNECTED

ASSUME InputAssumption == \A n \in InitialNets : InputNet(n)

Init ==
    /\ net \in InitialNets
    /\ interface = FreeIndices(net)
    /\ interactions = 0
    /\ tangled = FALSE
    /\ lost = {}

Creates(rule) == CASE rule = "Eras" -> 2 [] rule = "Comm" -> 4 [] OTHER -> 0

(* The FreePorts wired to one another whose redirect goes with an agent of *)
(* the same number, with the FreePort at the other end.                    *)
Purged(n, ids) == {k \in DOMAIN n.redirects : k \in ids \/ n.redirects[k][2] \in ids}

Reduce(rule) ==
    /\ ~IsNormalForm(net)
    /\ HeadRule(net) = rule
    /\ HasRoomFor(net, Creates(rule))
    /\ net' = reduce_step(net)
    /\ interactions' = interactions + 1
    /\ tangled' = (tangled \/ Entangled(net, HeadPair(net)[1], HeadPair(net)[2]))
    /\ lost' = lost \cup Purged(net, {HeadPair(net)[1], HeadPair(net)[2]})
    /\ UNCHANGED interface

(* reduce_step returns NormalForm: the stale rest of the queue is popped.  *)
ReturnNormalForm ==
    /\ IsNormalForm(net)
    /\ net.queue # <<>>
    /\ net' = reduce_step(net)
    /\ UNCHANGED <<interface, interactions, tangled, lost>>

Next ==
    \/ Reduce("Void")
    \/ Reduce("Anni")
    \/ Reduce("Eras")
    \/ Reduce("Comm")
    \/ ReturnNormalForm

Spec == Init /\ [][Next]_vars

-----------------------------------------------------------------------------
(* assert_all_invariants, the debug check at the end of reduce_step: T1,   *)
(* I1, I2, I3', I6 and the root rules survive every interaction, whatever  *)
(* ids the free list hands out, until an entangled pair is reduced.        *)
UntangledNetKeptWellFormed == tangled \/ assert_all_invariants(net)

(* SPEC-22 R6/R9 and the accounting behind them: the free list names dead  *)
(* slots, each once, and together with the live agents it accounts for     *)
(* every id below next_id, so no id is lost and none is handed out twice.  *)
FreeListSound == FreeListAccounts(net)

(* No active pair is lost: every active pair of the net is in the queue,   *)
(* so an empty queue really means Normal Form.                             *)
NoLostRedex == tangled \/ RedexesQueued(net)

(* D5: an interface FreePort is never lost.  Each one is the target of     *)
(* exactly one live port, or it has been wired to another FreePort and     *)
(* freeport_redirects still says to which - unless one of the two has had  *)
(* the number of an agent that was removed since: remove_agent purges by   *)
(* agent id, and no other way of losing one exists.                        *)
Holders(n, k) == {ip \in LivePorts(n) : n.ports[ip[1]][ip[2]] = FreePort(k)}

InterfacePreserved ==
    ~tangled => \A k \in interface \ lost :
        \/ Cardinality(Holders(net, k)) = 1 /\ k \notin DOMAIN net.redirects
        \/ /\ Holders(net, k) = {}
           /\ k \in DOMAIN net.redirects
           /\ net.redirects[k][2] \in DOMAIN net.redirects
           /\ net.redirects[net.redirects[k][2]] = FreePort(k)
=============================================================================
