------------------------------- MODULE MCGrid -------------------------------
(***************************************************************************)
(* Nets for TLC: four agents, 0 and 1 an active pair, the other ports and  *)
(* the interface FreePorts wired to one another in every way, and a few    *)
(* larger nets.  Interface FreePorts are numbered from 0, as the           *)
(* generators and the encoders do, so that they share agent ids.           *)
(***************************************************************************)
EXTENDS Grid, Bench

CONSTANTS
    Shapes          \* symbols of the agents 0 .. 3 and number of FreePorts

(* The perfect matchings of a set of endpoints, FreePorts only to agents.  *)
RECURSIVE Matchings(_)
Matchings(S) ==
    IF S = {} THEN {{}}
    ELSE LET e == CHOOSE e \in S : TRUE
             partners == {x \in S \ {e} : IsAgentPort(x) \/ IsAgentPort(e)}
         IN  UNION { {m \cup {<<e, x>>} : m \in Matchings(S \ {e, x})} : x \in partners }

Endpoints(shape) ==
    UNION {{AgentPort(i, p) : p \in (IF i < 2 THEN 1 ELSE 0) .. arity(shape[i + 1])} : i \in 0 .. 3}
        \cup {FreePort(k) : k \in 0 .. shape[5] - 1}

(* Agents with these symbols, connected in this order.                     *)
Connected(symbols, wires) ==
    FoldLeft(LAMBDA n, w : connect(n, w[1], w[2]), WithAgents(EmptyNet, symbols), wires)

Principals(i, j) == <<AgentPort(i, 0), AgentPort(j, 0)>>
Auxiliaries(i, p, j, q) == <<AgentPort(i, p), AgentPort(j, q)>>
Interface(i, p, k) == <<AgentPort(i, p), FreePort(k)>>

Assembled(shape, wires) ==
    FoldSet(LAMBDA w, n : connect(n, w[1], w[2]),
            Connected(SubSeq(shape, 1, 4), <<Principals(0, 1)>>), wires)

FourAgentNets ==
    UNION {{Assembled(shape, m) : m \in Matchings(Endpoints(shape))} : shape \in Shapes}

(* Annihilations, erasures and commutations, each beside other agents.     *)
MixedShapes ==
    { <<"Con", "Con", "Con", "Era", 0>>, <<"Con", "Con", "Era", "Era", 2>>,
      <<"Dup", "Dup", "Era", "Era", 0>>, <<"Con", "Era", "Con", "Era", 0>>,
      <<"Era", "Era", "Dup", "Con", 0>>, <<"Con", "Dup", "Era", "Era", 0>> }

(* Two annihilations in a row: where they fall to different workers, the   *)
(* wire between them is a border that both relay.                          *)
relayed_twice ==
    Connected(<<"Con", "Con", "Dup", "Dup", "Era", "Era">>,
              <<Principals(0, 1), Principals(2, 3),
                Auxiliaries(5, 0, 0, 1), Auxiliaries(1, 2, 2, 1), Auxiliaries(3, 1, 4, 0),
                Interface(0, 2, 0), Interface(1, 1, 1), Interface(2, 2, 2), Interface(3, 2, 3)>>)

(* An annihilation that relays borders with the numbers of another pair.   *)
relayed_and_purged ==
    Connected(<<"Con", "Con", "Con", "Con", "Con", "Era">>,
              <<Principals(0, 1), Principals(2, 3),
                Auxiliaries(0, 1, 4, 0), Auxiliaries(0, 2, 4, 1),
                Auxiliaries(1, 1, 4, 2), Auxiliaries(1, 2, 5, 0),
                Auxiliaries(2, 1, 2, 2), Auxiliaries(3, 1, 3, 2)>>)

(* A dual_tree in a net that has issued 12 ids: the ranges of its second   *)
(* round are clamped.                                                      *)
aged_tree ==
    [dual_tree(2) EXCEPT !.next_id = 12, !.free_list = [k \in 1 .. 6 |-> 5 + k]]

GridNets ==
    FourAgentNets
        \cup {ep_annihilation_con(2), dual_tree(2), aged_tree, relayed_twice, relayed_and_purged}
=============================================================================
