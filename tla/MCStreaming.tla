---------------------------- MODULE MCStreaming ----------------------------
(***************************************************************************)
(* Streams for TLC: the generators at small sizes, and small nets wired in *)
(* every way and cut into chunks.                                          *)
(***************************************************************************)
EXTENDS Streaming

CONSTANT Shapes     \* symbols, number of FreePorts, index of the first one

RECURSIVE Matchings(_)
Matchings(S) ==
    IF S = {} THEN {{}}
    ELSE LET e == CHOOSE e \in S : TRUE
             partners == {x \in S \ {e} : IsAgentPort(x) \/ IsAgentPort(e)}
         IN  UNION { {m \cup {<<e, x>>} : m \in Matchings(S \ {e, x})} : x \in partners }

Endpoints(shape) ==
    UNION {{AgentPort(i, p) : p \in 0 .. arity(shape[1][i + 1])} : i \in 0 .. Len(shape[1]) - 1}
        \cup {FreePort(shape[3] + k) : k \in 0 .. shape[2] - 1}

Assembled(shape, wires) ==
    LET size == Len(shape[1])
    IN  FoldSet(LAMBDA w, n : connect(n, w[1], w[2]),
                [EmptyNet EXCEPT
                    !.agents = [i \in AgentIds |-> IF i < size THEN shape[1][i + 1] ELSE None],
                    !.next_id = size], wires)

ShapedNets ==
    UNION {{Assembled(shape, m) : m \in Matchings(Endpoints(shape))} : shape \in Shapes}

(* The net n in chunks of c agents: a wire to a later chunk is a forward   *)
(* reference, or it is given with the later agent.                         *)
Chunked(n, c, forward) ==
    LET ports == PortScan(n)
        target(ip) == n.ports[ip[1]][ip[2]]
        directive(ip) ==
            LET here == AgentPort(ip[1], ip[2])
                t == target(ip)
            IN  IF IsFreePort(t) THEN <<FreePortInterface(here, t[2])>>
                ELSE IF ip[1] \div c = t[2] \div c
                THEN IF ScanBefore(ip, <<t[2], t[3]>>) THEN <<Resolved(here, t)>> ELSE <<>>
                ELSE IF forward /\ ip[1] < t[2] THEN <<Pending(here, t)>>
                ELSE IF ~forward /\ ip[1] > t[2] THEN <<Resolved(here, t)>> ELSE <<>>
        size == Cardinality(Live(n))
        batch(k) ==
            LET mine == SelectSeq(ports, LAMBDA ip : ip[1] \div c = k - 1)
            IN  Batch([j \in 1 .. Min({c, size - c * (k - 1)}) |->
                          <<c * (k - 1) + j - 1, n.agents[c * (k - 1) + j - 1]>>],
                      FlattenSeq([j \in DOMAIN mine |-> directive(mine[j])]))
    IN  [k \in 1 .. (size + c - 1) \div c |-> batch(k)]

SmallShapes ==
    { << <<"Con", "Con", "Era", "Era">>, 2, 0>>, << <<"Con", "Dup", "Era">>, 1, 1>>,
      << <<"Con", "Dup", "Con">>, 1, 100>> }

(* A stream that ends before the agents it refers to.                      *)
Cut(s) == SubSeq(s, 1, Len(s) - 1)

SmallStreams ==
    {default_chunked_iter(n) : n \in ShapedNets}
        \cup {Chunked(n, c, f) : n \in ShapedNets, c \in {1, 2}, f \in BOOLEAN}
        \cup {Cut(Chunked(n, 1, TRUE)) : n \in ShapedNets}
        \cup {ep_annihilation_stream(4, c) : c \in 1 .. 6}
        \cup {dual_tree_stream(2, c) : c \in 1 .. 6}
        \cup {<<>>}
=============================================================================
