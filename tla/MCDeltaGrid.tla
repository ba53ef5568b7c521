---------------------------- MODULE MCDeltaGrid ----------------------------
(***************************************************************************)
(* Nets for TLC: two or three agents, 0 and 1 an active pair, the other    *)
(* ports and the interface FreePorts, numbered from 0 as the generators    *)
(* do, wired to one another in every way.                                  *)
(***************************************************************************)
EXTENDS DeltaGrid

CONSTANTS
    Shapes          \* a sequence of symbols and the number of FreePorts

RECURSIVE Matchings(_)
Matchings(S) ==
    IF S = {} THEN {{}}
    ELSE LET e == CHOOSE e \in S : TRUE
             partners == {x \in S \ {e} : IsAgentPort(x) \/ IsAgentPort(e)}
         IN  UNION { {m \cup {<<e, x>>} : m \in Matchings(S \ {e, x})} : x \in partners }

Endpoints(shape) ==
    UNION {{AgentPort(i, p) : p \in (IF i < 2 THEN 1 ELSE 0) .. arity(shape[1][i + 1])} :
              i \in 0 .. Len(shape[1]) - 1}
        \cup {FreePort(k) : k \in 0 .. shape[2] - 1}

Assembled(shape, wires) ==
    LET size == Len(shape[1])
        base == [EmptyNet EXCEPT
                    !.agents = [i \in AgentIds |-> IF i < size THEN shape[1][i + 1] ELSE None],
                    !.next_id = size]
        pair == connect(base, AgentPort(0, 0), AgentPort(1, 0))
    IN  FoldSet(LAMBDA w, n : connect(n, w[1], w[2]), pair, wires)

ShapedNets ==
    UNION {{Assembled(shape, m) : m \in Matchings(Endpoints(shape))} : shape \in Shapes}

(* Every rule, each with interface FreePorts and with a third agent.       *)
AllShapes ==
    { << <<"Era", "Era">>, 0>>, << <<"Con", "Con">>, 4>>, << <<"Dup", "Dup">>, 2>>,
      << <<"Con", "Dup">>, 4>>, << <<"Con", "Era">>, 2>>,
      << <<"Con", "Con", "Era">>, 3>>, << <<"Con", "Con", "Con">>, 1>>,
      << <<"Con", "Era", "Era">>, 1>>, << <<"Con", "Era", "Con">>, 1>>,
      << <<"Con", "Dup", "Era">>, 3>> }
=============================================================================
