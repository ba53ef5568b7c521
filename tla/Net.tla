-------------------------------- MODULE Net --------------------------------
(***************************************************************************)
(* The interaction-combinator net of relativist-core (net/core.rs): the    *)
(* arena of agents, the port array, the redex queue, the LIFO free list    *)
(* and the FreePort redirects, with the operations every other component   *)
(* is built from.  A net is a record and an operation maps a net to a net. *)
(*                                                                         *)
(* The arena Vec and the port Vec grow on demand in the code; here they    *)
(* are total functions on AgentIds, None / DISCONNECTED where the code has *)
(* no slot yet.                                                            *)
(***************************************************************************)
EXTENDS Integers, Sequences, SequencesExt, FiniteSets, TLC

CONSTANTS
    ArenaSize,      \* bound on AgentIds: ids are 0 .. ArenaSize-1
    U32Max          \* stands for u32::MAX, the reserved FreePort index

ASSUME NetAssumption ==
    /\ ArenaSize \in Nat \ {0}
    /\ U32Max \in Nat \ {0}

AgentIds == 0 .. ArenaSize - 1
PortIds == 0 .. 2
Symbols == {"Con", "Dup", "Era"}
None == "None"

(***************************************************************************)
(* PortRef: AgentPort(id, p) or FreePort(n).                               *)
(***************************************************************************)
AgentPort(id, p) == <<"agent", id, p>>
FreePort(n) == <<"free", n, 0>>
DISCONNECTED == FreePort(U32Max)

IsAgentPort(r) == r[1] = "agent"
IsFreePort(r) == r[1] = "free"
IsPrincipal(r) == IsAgentPort(r) /\ r[3] = 0

arity(sym) == IF sym = "Era" THEN 0 ELSE 2
total_ports(sym) == arity(sym) + 1

(***************************************************************************)
(* The net record.  shadow is border_entries_shadow ({} for None); policy  *)
(* and protected stand for recycle_policy and the disjunction              *)
(* is_in_delta_round || streaming_active that create_agent tests.          *)
(***************************************************************************)
EmptyNet ==
    [ agents    |-> [i \in AgentIds |-> None],
      ports     |-> [i \in AgentIds |-> [p \in PortIds |-> DISCONNECTED]],
      queue     |-> <<>>,
      next_id   |-> 0,
      free_list |-> <<>>,
      redirects |-> <<>>,
      shadow    |-> {},
      protected |-> FALSE,
      policy    |-> "DisableUnderDelta",
      root      |-> DISCONNECTED ]

Live(n) == {i \in AgentIds : n.agents[i] # None}
LivePorts(n) == {ip \in AgentIds \X PortIds :
                    n.agents[ip[1]] # None /\ ip[2] < total_ports(n.agents[ip[1]])}

get_target(n, r) ==
    IF IsAgentPort(r) THEN n.ports[r[2]][r[3]] ELSE DISCONNECTED

set_port(n, r, target) ==
    IF IsAgentPort(r) THEN [n EXCEPT !.ports[r[2]][r[3]] = target] ELSE n

(* A map with the entry k |-> v, new or replaced (HashMap::insert).         *)
Put(f, k, v) == [x \in DOMAIN f \cup {k} |-> IF x = k THEN v ELSE f[x]]

(* Mutant of Redirected: only the first end is recorded.                   *)
Redirected_one_way(n, a, b) ==
    LET put(f, k, r) == IF k = U32Max THEN f ELSE Put(f, k, r)
    IN  IF IsFreePort(a) /\ IsFreePort(b)
        THEN put(n.redirects, a[2], b)
        ELSE n.redirects

(***************************************************************************)
(* connect: both directions, the FreePort-FreePort redirect, and the       *)
(* incremental redex detection.                                            *)
(***************************************************************************)
Redirected(n, a, b) ==
    LET put(f, k, r) == IF k = U32Max THEN f ELSE Put(f, k, r)
    IN  IF IsFreePort(a) /\ IsFreePort(b)
        THEN put(put(n.redirects, a[2], b), b[2], a)
        ELSE n.redirects

(* Mutant of connect: the queue of redexes is a stack.                     *)
connect_front(n, a, b) ==
    LET wired == set_port(set_port(n, a, b), b, a)
    IN  [wired EXCEPT
            !.redirects = Redirected(n, a, b),
            !.queue = IF IsPrincipal(a) /\ IsPrincipal(b)
                      THEN << <<a[2], b[2]>> >> \o @ ELSE @]

connect(n, a, b) ==
    LET wired == set_port(set_port(n, a, b), b, a)
    IN  [wired EXCEPT
            !.redirects = Redirected(n, a, b),
            !.queue = IF IsPrincipal(a) /\ IsPrincipal(b)
                      THEN Append(@, <<a[2], b[2]>>) ELSE @]

disconnect(n, r) ==
    set_port(set_port(n, get_target(n, r), DISCONNECTED), r, DISCONNECTED)

is_border_protected(n, id) == id \in n.shadow

(***************************************************************************)
(* remove_agent: disconnect every port, clear the slot, purge the redirect *)
(* keyed by the agent's id, push the id on the free list unless a border   *)
(* refers to it.                                                           *)
(***************************************************************************)
PurgedRedirects(n, id) ==
    [k \in DOMAIN n.redirects \ {id} |-> n.redirects[k]]

remove_agent(n, id) ==
    IF id \notin Live(n) THEN n
    ELSE LET d0 == disconnect(n, AgentPort(id, 0))
             d2 == IF arity(n.agents[id]) = 0 THEN d0
                   ELSE disconnect(disconnect(d0, AgentPort(id, 1)), AgentPort(id, 2))
         IN  [d2 EXCEPT
                !.agents[id] = None,
                !.redirects = PurgedRedirects(n, id),
                !.free_list = IF is_border_protected(n, id) THEN @ ELSE Append(@, id)]

(***************************************************************************)
(* create_agent: recycle from the free list when the policy allows it,     *)
(* else take next_id.  Recycled(n) is the index in the free list of the id *)
(* the LIFO pop (or the deeper scan of strategy B) takes, 0 for none.      *)
(***************************************************************************)
Recycled(n) ==
    LET top == Len(n.free_list)
        unprotected == {i \in 1 .. top : ~is_border_protected(n, n.free_list[i])}
    IN  IF top = 0 \/ (n.protected /\ n.policy = "DisableUnderDelta") THEN 0
        ELSE IF ~(n.protected /\ n.policy = "BorderClean") THEN top
        ELSE IF unprotected = {} THEN 0
        ELSE CHOOSE i \in unprotected : \A j \in unprotected : j <= i

NewAgentId(n) ==
    IF Recycled(n) = 0 THEN n.next_id ELSE n.free_list[Recycled(n)]

(* Mutant of create_agent: a recycled id stays on the free list.           *)
create_agent_unpopped(n, sym) ==
    LET id == NewAgentId(n)
        slot == [n EXCEPT !.agents[id] = sym]
    IN  IF Recycled(n) = 0
        THEN [slot EXCEPT !.next_id = @ + 1]
        ELSE [slot EXCEPT
                !.ports[id] = [p \in PortIds |-> DISCONNECTED]]

create_agent(n, sym) ==
    LET id == NewAgentId(n)
        slot == [n EXCEPT !.agents[id] = sym]
    IN  IF Recycled(n) = 0
        THEN [slot EXCEPT !.next_id = @ + 1]
        ELSE [slot EXCEPT
                !.free_list = RemoveAt(@, Recycled(n)),
                !.ports[id] = [p \in PortIds |-> DISCONNECTED]]

(* The assertion next_id < u32::MAX of create_agent, as the bound of the   *)
(* arena: k agents can still be created.                                   *)
HasRoomFor(n, k) == n.next_id + k <= ArenaSize

is_valid_redex(n, a, b) ==
    /\ a \in Live(n)
    /\ b \in Live(n)
    /\ get_target(n, AgentPort(a, 0)) = AgentPort(b, 0)

(***************************************************************************)
(* The five checks of net/debug.rs (assert_all_invariants) and the two of  *)
(* validate_free_list.  R18a: the root agent's principal port is exempt    *)
(* from T1.                                                                *)
(***************************************************************************)
IsRootPrincipal(n, i, p) == p = 0 /\ n.root = AgentPort(i, 0)

PortLinearity(n) ==             \* T1
    \A ip \in LivePorts(n) :
        IsRootPrincipal(n, ip[1], ip[2]) \/ n.ports[ip[1]][ip[2]] # DISCONNECTED

AdjacencySymmetric(n) ==        \* I1
    \A ip \in LivePorts(n) :
        LET target == n.ports[ip[1]][ip[2]]
        IN  IsAgentPort(target) => get_target(n, target) = AgentPort(ip[1], ip[2])

RefsValid(n) ==                 \* I2
    \A ip \in LivePorts(n) :
        LET target == n.ports[ip[1]][ip[2]]
        IN  IsAgentPort(target) => <<target[2], target[3]>> \in LivePorts(n)

NextIdValid(n) == \A i \in Live(n) : i < n.next_id      \* I3'

EraPortsClean(n) ==             \* I6
    \A i \in Live(n) : n.agents[i] = "Era" =>
        n.ports[i][1] = DISCONNECTED /\ n.ports[i][2] = DISCONNECTED

RootConsistent(n) ==            \* R6a / R18a
    n.root # DISCONNECTED =>
        /\ IsPrincipal(n.root)
        /\ n.root[2] \in Live(n)
        /\ get_target(n, n.root) = DISCONNECTED

assert_all_invariants(n) ==
    /\ PortLinearity(n)
    /\ AdjacencySymmetric(n)
    /\ RefsValid(n)
    /\ NextIdValid(n)
    /\ EraPortsClean(n)
    /\ RootConsistent(n)

validate_free_list(n) ==
    /\ IsInjective(n.free_list)
    /\ \A i \in DOMAIN n.free_list : n.agents[n.free_list[i]] = None

(***************************************************************************)
(* The fields of a net have the types of the struct, and its free list and *)
(* its live agents account for every id that was ever handed out.          *)
(***************************************************************************)
PortRefs == ({"agent"} \X AgentIds \X PortIds) \cup ({"free"} \X Nat \X {0})

NetType(n) ==
    /\ n = [agents |-> n.agents, ports |-> n.ports, queue |-> n.queue,
            next_id |-> n.next_id, free_list |-> n.free_list,
            redirects |-> n.redirects, shadow |-> n.shadow,
            protected |-> n.protected, policy |-> n.policy, root |-> n.root]
    /\ n.agents \in [AgentIds -> Symbols \cup {None}]
    /\ n.ports \in [AgentIds -> [PortIds -> PortRefs]]
    /\ n.queue \in Seq(AgentIds \X AgentIds)
    /\ n.next_id \in Nat
    /\ n.free_list \in Seq(AgentIds)
    /\ n.root \in PortRefs

FreeListAccounts(n) ==
    /\ validate_free_list(n)
    /\ ToSet(n.free_list) \cup Live(n) = 0 .. n.next_id - 1

(* nets_isomorphic: equal up to a renaming of the agents.                  *)
Isomorphic(a, b) ==
    LET image(f, r) == IF IsAgentPort(r) THEN AgentPort(f[r[2]], r[3]) ELSE r
    IN  \E f \in Bijection(Live(a), Live(b)) :
            /\ \A i \in Live(a) : a.agents[i] = b.agents[f[i]]
            /\ \A ip \in LivePorts(a) :
                   image(f, a.ports[ip[1]][ip[2]]) = b.ports[f[ip[1]]][ip[2]]

(* Every active pair is known to the queue (the converse of I4): what the  *)
(* engine needs to be allowed to report NormalForm on an empty queue.      *)
ActivePairs(n) ==
    {ab \in Live(n) \X Live(n) : is_valid_redex(n, ab[1], ab[2])}

RedexesQueued(n) ==
    \A ab \in ActivePairs(n) :
        \E k \in DOMAIN n.queue : n.queue[k] \in {ab, <<ab[2], ab[1]>>}
=============================================================================
