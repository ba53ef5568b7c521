------------------------------- MODULE Bench -------------------------------
(***************************************************************************)
(* The benchmarks (bench/benchmarks/, io/generators.rs): the net each of   *)
(* them measures, how a result is verified (bench/isomorphism.rs), and the *)
(* interactions the validator expects of it (bench/validate.rs).  Times,   *)
(* memory and the CSV rows are left out.                                   *)
(***************************************************************************)
EXTENDS Readback

(***************************************************************************)
(* The generators.  free is the free_id counter; ports are closed with     *)
(* FreePorts in the order they are listed.                                 *)
(***************************************************************************)
Growing(n) == [net |-> n, free |-> 0]

CloseWith(acc, ports) ==
    [net  |-> Wire(acc.net, [k \in DOMAIN ports |-> <<ports[k], FreePort(acc.free + k - 1)>>]),
     free |-> acc.free + Len(ports)]

AuxPorts(n, id) == [p \in 1 .. arity(n.agents[id]) |-> AgentPort(id, p)]

(* One active pair, its auxiliary ports on fresh FreePorts.                *)
AddPair(acc, symbols) ==
    LET a == acc.net.next_id
        n == connect(WithAgents(acc.net, symbols), AgentPort(a, 0), AgentPort(a + 1, 0))
    IN  CloseWith([acc EXCEPT !.net = n], AuxPorts(n, a) \o AuxPorts(n, a + 1))

Pairs(list) == FoldLeft(AddPair, Growing(EmptyNet), list).net

ep_annihilation(k) == Pairs(Times(k, <<"Era", "Era">>))
ep_annihilation_con(k) == Pairs(Times(k, <<"Con", "Con">>))
ep_annihilation_dup(k) == Pairs(Times(k, <<"Dup", "Dup">>))
con_dup_expansion(k) == Pairs(Times(k, <<"Con", "Dup">>))

mixed_rules(k) ==
    Pairs(FlattenSeq(Times(k, << <<"Era", "Era">>, <<"Con", "Con">>, <<"Dup", "Dup">>,
                                 <<"Con", "Dup">>, <<"Con", "Era">>, <<"Dup", "Era">> >>)))

(* build_tree adds the port of the tree it has built.                      *)
RECURSIVE build_tree(_, _)
build_tree(acc, depth) ==
    LET node == acc.net.next_id
        left == build_tree([acc EXCEPT !.net = create_agent(@, "Con")], depth - 1)
        right == build_tree(left, depth - 1)
        wired == connect(connect(right.net, AgentPort(node, 1), left.port),
                         AgentPort(node, 2), right.port)
    IN  IF depth = 0 THEN [acc EXCEPT !.free = @ + 1, !.port = FreePort(acc.free)]
        ELSE [right EXCEPT !.net = wired, !.port = AgentPort(node, 0)]

dual_tree(depth) ==
    LET a == build_tree([net |-> EmptyNet, free |-> 0, port |-> DISCONNECTED], depth)
        b == build_tree(a, depth)
    IN  connect(b.net, a.port, b.port)

(* A chain of CONs from port 1 to the next principal port, then the ERA.   *)
erasure_propagation(k) ==
    LET cons == WithAgents(EmptyNet, Times(k, "Con"))
        chain == Wire(cons, [i \in 1 .. k - 1 |-> <<AgentPort(i - 1, 1), AgentPort(i, 0)>>])
        closed == CloseWith(Growing(chain), <<AgentPort(k - 1, 1)>>
                                            \o [i \in 1 .. k |-> AgentPort(i - 1, 2)]).net
    IN  IF k = 0 THEN EmptyNet
        ELSE connect(create_agent(closed, "Era"), AgentPort(k, 0), AgentPort(0, 0))

tree_sum(k) == IF k < 2 THEN encode_nat(k) ELSE build_add(1, k - 1)

(* Two chains of CONs, the left one through port 1, the right one through  *)
(* port 2, so that an annihilation of two heads joins the next two.        *)
build_cascade_cross(k) ==
    LET left(i) == i
        right(i) == k + i
        cons == WithAgents(EmptyNet, Times(2 * k, "Con"))
        links == [i \in 1 .. k - 1 |-> <<AgentPort(left(i - 1), 1), AgentPort(left(i), 0)>>]
                 \o [i \in 1 .. k - 1 |-> <<AgentPort(right(i - 1), 2), AgentPort(right(i), 0)>>]
        heads == connect(cons, AgentPort(left(0), 0), AgentPort(right(0), 0))
    IN  IF k = 0 THEN EmptyNet
        ELSE CloseWith(Growing(Wire(heads, links)),
                       [i \in 1 .. k - 1 |-> AgentPort(left(i - 1), 2)]
                       \o <<AgentPort(left(k - 1), 1), AgentPort(left(k - 1), 2)>>
                       \o [i \in 1 .. k |-> AgentPort(right(i - 1), 1)]
                       \o <<AgentPort(right(k - 1), 2)>>).net

(* get_benchmark and make_net.                                             *)
isqrt(k) == CHOOSE r \in 0 .. k : r * r <= k /\ k < (r + 1) * (r + 1)

make_net(benchmark, size) ==
    CASE benchmark = "EPAnnihilation" -> ep_annihilation(size)
      [] benchmark = "EPAnnihilationCon" -> ep_annihilation_con(size)
      [] benchmark = "EPAnnihilationDup" -> ep_annihilation_dup(size)
      [] benchmark = "ConDupExpansion" -> con_dup_expansion(size)
      [] benchmark = "DualTree" -> dual_tree(size)
      [] benchmark \in {"TreeSum", "TreeSumBalanced"} -> tree_sum(size)
      [] benchmark = "MixedNet" -> mixed_rules(size)
      [] benchmark = "ErasurePropagation" -> erasure_propagation(size)
      [] benchmark = "ChurchAdd" -> build_add(size \div 2, size - size \div 2)
      [] benchmark = "ChurchMul" -> build_mul(isqrt(size), isqrt(size))
      [] benchmark = "CascadeCross" -> build_cascade_cross(size)
      [] benchmark = "ChurchSumOfSquares" -> build_sum_of_squares(size)

(***************************************************************************)
(* nets_isomorphic: the agents of a are matched one after the other with   *)
(* an agent of b that has the same symbol, is not taken and is consistent  *)
(* with the matches made before; a dead end goes back to the next one.     *)
(* (The code takes the rarest symbol first, which changes no answer.)      *)
(***************************************************************************)
is_consistent(a, b, i, j, mapping) ==
    \A p \in 0 .. arity(a.agents[i]) :
        LET ta == a.ports[i][p]
            tb == b.ports[j][p]
        IN  IF IsAgentPort(ta) /\ IsAgentPort(tb)
            THEN /\ ta[3] = tb[3]
                 /\ IF ta[2] = i THEN tb[2] = j
                    ELSE ta[2] \in DOMAIN mapping => mapping[ta[2]] = tb[2]
            ELSE ta = tb

RECURSIVE backtrack(_, _, _, _)
backtrack(a, b, agents_a, mapping) ==
    \/ agents_a = {}
    \/ LET i == Min(agents_a)
           taken == {mapping[k] : k \in DOMAIN mapping}
       IN  \E j \in {k \in Live(b) \ taken : b.agents[k] = a.agents[i]} :
                /\ is_consistent(a, b, i, j, mapping)
                /\ backtrack(a, b, agents_a \ {i}, (i :> j) @@ mapping)

count_agents_by_symbol(n) ==
    [s \in Symbols |-> Cardinality({i \in Live(n) : n.agents[i] = s})]

nets_isomorphic(a, b) ==
    /\ count_agents_by_symbol(a) = count_agents_by_symbol(b)
    /\ backtrack(a, b, Live(a), <<>>)

(* The verify of each benchmark, seq the sequential result.                *)
Collapsing ==
    {"EPAnnihilation", "EPAnnihilationCon", "EPAnnihilationDup", "DualTree", "CascadeCross"}

verify(benchmark, seq, dist) ==
    IF benchmark \in Collapsing THEN Live(seq) = {} /\ Live(dist) = {}
    ELSE \/ /\ benchmark = "ChurchSumOfSquares"
            /\ decode_nat_or_shared(seq) # NoAnswer
            /\ decode_nat_or_shared(seq) = decode_nat_or_shared(dist)
         \/ nets_isomorphic(seq, dist)

(***************************************************************************)
(* get_specific_rule, and the counts of expected_interactions per rule;    *)
(* {} for the benchmarks without a formula.                                *)
(***************************************************************************)
get_specific_rule(sa, sb) == {sa, sb}
SpecificRules == {get_specific_rule(sa, sb) : sa \in Symbols, sb \in Symbols}

Only(rule, k) == [r \in SpecificRules |-> IF r = rule THEN k ELSE 0]

expected_interactions(benchmark, size) ==
    CASE benchmark = "EPAnnihilation" -> {Only({"Era"}, size)}
      [] benchmark = "EPAnnihilationCon" -> {Only({"Con"}, size)}
      [] benchmark = "EPAnnihilationDup" -> {Only({"Dup"}, size)}
      [] benchmark = "ConDupExpansion" -> {Only({"Con", "Dup"}, size)}
      [] benchmark = "DualTree" -> {Only({"Con"}, 2 ^ size - 1)}
      [] benchmark = "MixedNet" -> {[r \in SpecificRules |-> size]}
      [] OTHER -> {}
=============================================================================
