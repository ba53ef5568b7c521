----------------------------- MODULE Reduction -----------------------------
(***************************************************************************)
(* The interaction rules of reduction/rules.rs and the engine of           *)
(* reduction/engine.rs, as operators on nets.                              *)
(***************************************************************************)
EXTENDS Net

(* link: connect, unless an endpoint belongs to a removed agent.           *)
IsRemoved(n, r) == IsAgentPort(r) /\ n.agents[r[2]] = None

link(n, a, b) ==
    IF IsRemoved(n, a) \/ IsRemoved(n, b) THEN n ELSE connect(n, a, b)

Aux(n, id, p) == get_target(n, AgentPort(id, p))

SelfLoop(n, id) ==
    /\ Aux(n, id, 1) = AgentPort(id, 2)
    /\ Aux(n, id, 2) = AgentPort(id, 1)

interact_void(n, a, b) == remove_agent(remove_agent(n, a), b)

interact_anni(n, a, b) ==
    LET a1 == Aux(n, a, 1)
        a2 == Aux(n, a, 2)
        b1 == Aux(n, b, 1)
        b2 == Aux(n, b, 2)
        m  == remove_agent(remove_agent(n, a), b)
    IN  CASE SelfLoop(n, a) /\ SelfLoop(n, b) -> m
          [] SelfLoop(n, b) /\ ~SelfLoop(n, a) -> link(m, a1, a2)
          [] SelfLoop(n, a) /\ ~SelfLoop(n, b) -> link(m, b1, b2)
          [] OTHER -> IF n.agents[a] = "Con"
                      THEN link(link(m, a1, b2), a2, b1)
                      ELSE link(link(m, a1, b1), a2, b2)

(* Mutant of interact_eras: both erasers are linked to the first wire.     *)
interact_eras_same_wire(n, node, era) ==
    LET m  == remove_agent(remove_agent(n, node), era)
        e1 == NewAgentId(m)
        m1 == create_agent(m, "Era")
        e2 == NewAgentId(m1)
        m2 == create_agent(m1, "Era")
    IN  IF SelfLoop(n, node) THEN m
        ELSE link(link(m2, AgentPort(e1, 0), Aux(n, node, 1)),
                  AgentPort(e2, 0), Aux(n, node, 1))

interact_eras(n, node, era) ==
    LET m  == remove_agent(remove_agent(n, node), era)
        e1 == NewAgentId(m)
        m1 == create_agent(m, "Era")
        e2 == NewAgentId(m1)
        m2 == create_agent(m1, "Era")
    IN  IF SelfLoop(n, node) THEN m
        ELSE link(link(m2, AgentPort(e1, 0), Aux(n, node, 1)),
                  AgentPort(e2, 0), Aux(n, node, 2))

(* Two copies of a self-looping agent of symbol sym, on the wires w1, w2.  *)
CopySelfLoop(m, sym, w1, w2) ==
    LET x  == NewAgentId(m)
        m1 == create_agent(m, sym)
        y  == NewAgentId(m1)
        m2 == create_agent(m1, sym)
        m3 == connect(connect(m2, AgentPort(x, 1), AgentPort(x, 2)),
                      AgentPort(y, 1), AgentPort(y, 2))
    IN  link(link(m3, AgentPort(x, 0), w1), AgentPort(y, 0), w2)

(* The full commutation: p, q are the new DUPs, r, s the new CONs.         *)
Commuted(m, a1, a2, b1, b2) ==
    LET p  == NewAgentId(m)
        m1 == create_agent(m, "Dup")
        q  == NewAgentId(m1)
        m2 == create_agent(m1, "Dup")
        r  == NewAgentId(m2)
        m3 == create_agent(m2, "Con")
        s  == NewAgentId(m3)
        m4 == create_agent(m3, "Con")
        external == link(link(link(link(m4, AgentPort(p, 0), a1), AgentPort(q, 0), a2),
                              AgentPort(r, 0), b1), AgentPort(s, 0), b2)
        i1 == connect(external, AgentPort(p, 1), AgentPort(r, 1))
        i2 == connect(i1, AgentPort(p, 2), AgentPort(s, 1))
        i3 == connect(i2, AgentPort(q, 1), AgentPort(r, 2))
    IN  connect(i3, AgentPort(q, 2), AgentPort(s, 2))

interact_comm(n, con, dup) ==
    LET a1 == Aux(n, con, 1)
        a2 == Aux(n, con, 2)
        b1 == Aux(n, dup, 1)
        b2 == Aux(n, dup, 2)
        m  == remove_agent(remove_agent(n, con), dup)
    IN  CASE SelfLoop(n, con) /\ SelfLoop(n, dup) -> m
          [] SelfLoop(n, con) /\ ~SelfLoop(n, dup) -> CopySelfLoop(m, "Con", b1, b2)
          [] SelfLoop(n, dup) /\ ~SelfLoop(n, con) -> CopySelfLoop(m, "Dup", a1, a2)
          [] OTHER -> Commuted(m, a1, a2, b1, b2)

(***************************************************************************)
(* Dispatch: the pair ordered by symbol, the rule category of the table.   *)
(***************************************************************************)
Rank(sym) == CASE sym = "Con" -> 0 [] sym = "Dup" -> 1 [] sym = "Era" -> 2

normalize_pair(n, a, b) ==
    IF Rank(n.agents[a]) <= Rank(n.agents[b]) THEN <<a, b>> ELSE <<b, a>>

get_rule(sa, sb) ==
    CASE sa = "Era" /\ sb = "Era" -> "Void"
      [] (sa = "Era") # (sb = "Era") -> "Eras"
      [] sa = sb /\ sa # "Era" -> "Anni"
      [] {sa, sb} = {"Con", "Dup"} -> "Comm"

Interact(n, rule, a, b) ==
    CASE rule = "Void" -> interact_void(n, a, b)
      [] rule = "Anni" -> interact_anni(n, a, b)
      [] rule = "Eras" -> interact_eras(n, a, b)
      [] rule = "Comm" -> interact_comm(n, a, b)

(***************************************************************************)
(* An entangled pair: an auxiliary port of one agent is wired to an        *)
(* auxiliary port of the other in a pattern the rule does not wire back.   *)
(* For CON-CON (crossed) that is a.1-b.1 or a.2-b.2 alone, for DUP-DUP     *)
(* (parallel) a.1-b.2 or a.2-b.1 alone, for CON-DUP any such wire.  The    *)
(* properties use it to tell apart the nets the rules are written for.     *)
(***************************************************************************)
Wired(n, a, p, b, q) == Aux(n, a, p) = AgentPort(b, q)

Entangled(n, a, b) ==
    CASE n.agents[a] = "Con" /\ n.agents[b] = "Con" ->
            Wired(n, a, 1, b, 1) # Wired(n, a, 2, b, 2)
      [] n.agents[a] = "Dup" /\ n.agents[b] = "Dup" ->
            Wired(n, a, 1, b, 2) # Wired(n, a, 2, b, 1)
      [] n.agents[a] = "Con" /\ n.agents[b] = "Dup" ->
            \E p, q \in {1, 2} : Wired(n, a, p, b, q)
      [] OTHER -> FALSE

(***************************************************************************)
(* reduce_step pops the queue up to and including its first valid pair     *)
(* (FirstValid, 0 when every entry is stale) and applies the rule.         *)
(***************************************************************************)
FirstValid(n) == SelectInSeq(n.queue, LAMBDA ab : is_valid_redex(n, ab[1], ab[2]))

HeadPair(n) ==
    LET ab == n.queue[FirstValid(n)] IN normalize_pair(n, ab[1], ab[2])

HeadRule(n) == get_rule(n.agents[HeadPair(n)[1]], n.agents[HeadPair(n)[2]])

(* Mutant of reduce_step: the entries behind the popped pair are lost.     *)
reduce_step_clears(n) ==
    IF FirstValid(n) = 0 THEN [n EXCEPT !.queue = <<>>]
    ELSE LET popped == [n EXCEPT !.queue = <<>>]
         IN  Interact(popped, HeadRule(n), HeadPair(n)[1], HeadPair(n)[2])

reduce_step(n) ==
    IF FirstValid(n) = 0 THEN [n EXCEPT !.queue = <<>>]
    ELSE LET popped == [n EXCEPT !.queue = SubSeq(@, FirstValid(n) + 1, Len(@))]
         IN  Interact(popped, HeadRule(n), HeadPair(n)[1], HeadPair(n)[2])

(* reduce_all has nothing left to do on n.                                 *)
IsNormalForm(n) == FirstValid(n) = 0

(* Mutant of drain_stale_redexes: valid entries are dropped with the stale *)
(* ones.                                                                   *)
drain_all_redexes(n) ==
    [n EXCEPT !.queue = <<>>]

(* Every entry is popped, the valid ones are pushed again.                 *)
PushValid(n, queue, ab) ==
    IF is_valid_redex(n, ab[1], ab[2]) THEN Append(queue, ab) ELSE queue

drain_stale_redexes(n) ==
    [n EXCEPT !.queue = FoldLeft(LAMBDA q, ab : PushValid(n, q, ab), <<>>, @)]
=============================================================================
