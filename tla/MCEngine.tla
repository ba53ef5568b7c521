------------------------------ MODULE MCEngine ------------------------------
(***************************************************************************)
(* Small nets for TLC: an active pair (agents 0 and 1), optionally a third *)
(* agent, and every way to wire their remaining ports to one another and   *)
(* to the interface FreePorts; and some nets of the benchmarks.  Interface *)
(* FreePorts are numbered from 0, as the generators do, so that they share *)
(* agent ids.                                                              *)
(***************************************************************************)
EXTENDS Engine, Bench

CONSTANTS
    PairSymbols,    \* symbol pairs of the active pair
    ThirdSymbols,   \* symbols of agent 2; None for a net of two agents
    MaxFree         \* at most this many interface FreePorts

(* rooted: agent 2 is the root, its principal port stays DISCONNECTED.      *)
Endpoints(syms, rooted, f) ==
    {AgentPort(i, p) : i \in {j \in {0, 1} : syms[j] # "Era"}, p \in {1, 2}}
    \cup (IF syms[2] = None THEN {}
          ELSE {AgentPort(2, p) : p \in (IF rooted THEN 1 ELSE 0) .. total_ports(syms[2]) - 1})
    \cup {FreePort(k) : k \in 0 .. f - 1}

AllPairs == Symbols \X Symbols
AnyThird == Symbols \cup {None}

(* The perfect matchings of a set of endpoints, FreePorts only to agents.  *)
RECURSIVE Matchings(_)
Matchings(S) ==
    IF S = {} THEN {{}}
    ELSE LET e == CHOOSE e \in S : TRUE
             partners == {x \in S \ {e} : IsAgentPort(x) \/ IsAgentPort(e)}
         IN  UNION { {m \cup {<<e, x>>} : m \in Matchings(S \ {e, x})} : x \in partners }

(* The nets of two agents connect the pair twice, so their queue starts     *)
(* with an entry that is stale once the pair is reduced.                    *)
Assembled(syms, rooted, wires) ==
    LET count == IF syms[2] = None THEN 2 ELSE 3
        base == [EmptyNet EXCEPT
                    !.agents = [i \in AgentIds |-> IF i < count THEN syms[i] ELSE None],
                    !.next_id = count,
                    !.root = IF rooted THEN AgentPort(2, 0) ELSE DISCONNECTED]
        once == connect(base, AgentPort(0, 0), AgentPort(1, 0))
        pair == IF count = 2 THEN connect(once, AgentPort(0, 0), AgentPort(1, 0)) ELSE once
    IN  FoldSet(LAMBDA w, n : connect(n, w[1], w[2]), pair, wires)

SmallNets ==
    UNION { LET syms == (0 :> ab[1]) @@ (1 :> ab[2]) @@ (2 :> c)
                even(rooted) == {f \in 0 .. MaxFree :
                                    Cardinality(Endpoints(syms, rooted, f)) % 2 = 0}
            IN  UNION { UNION { {Assembled(syms, rooted, m) :
                                    m \in Matchings(Endpoints(syms, rooted, f))} :
                                f \in even(rooted) } :
                        rooted \in IF c = None THEN {FALSE} ELSE BOOLEAN }
            : ab \in PairSymbols, c \in ThirdSymbols }

EngineNets ==
    SmallNets \cup {ep_annihilation_con(2), ep_annihilation_dup(2), con_dup_expansion(2), dual_tree(2)}
=============================================================================
