------------------------------ MODULE Readback ------------------------------
(***************************************************************************)
(* The readbacks: how a reduced net becomes a number again (decode_nat of  *)
(* encoding/church.rs, decode_shared_chain of encoding/arithmetic.rs and   *)
(* decode_biguint of encoding/biguint_readback.rs).  An answer is the set  *)
(* {n} for Some(n) or Ok(n), and {} for None or Err.                       *)
(*                                                                         *)
(* A walk follows one wire per step and is a function of the port it is    *)
(* on.  The code ends it after 1000, 1024 or four million steps: a walk    *)
(* that has met a port twice, but also a plain one over a long chain of    *)
(* DUPs (classify_dup_branch of a polynomial with c_1 >= 1026).  Here a    *)
(* walk ends when it has made more steps than there are ports, so the nets *)
(* meant are those whose chains are shorter than the caps.                 *)
(***************************************************************************)
EXTENDS Encoding

NoAnswer == {}
Plus(answer, k) == {v + k : v \in answer}

WalkCap == 3 * ArenaSize

Agent(n, r) == n.agents[r[2]]
OnPort(r, p) == IsAgentPort(r) /\ r[3] = p

(* The port of a DUP that a wire enters through an auxiliary port.         *)
EntersDupAux(n, r) == IsAgentPort(r) /\ r[3] # 0 /\ Agent(n, r) = "Dup"

(***************************************************************************)
(* discover_root, on the agents in id order: the first CON whose principal *)
(* port faces a FreePort, else the only CON whose principal port is        *)
(* disconnected; two of the latter met before the former is a failure.     *)
(***************************************************************************)
ConsFacing(n, Test(_)) ==
    {i \in Live(n) : n.agents[i] = "Con" /\ Test(get_target(n, AgentPort(i, 0)))}

RootCandidates(n) ==
    LET out == ConsFacing(n, LAMBDA r : IsFreePort(r) /\ r # DISCONNECTED)
        loose == ConsFacing(n, LAMBDA r : r = DISCONNECTED)
        first == {i \in out : \A j \in out : i <= j}
        before == {i \in loose : \A j \in first : i < j}
    IN  IF Cardinality(before) >= 2 THEN {}
        ELSE IF out # {} THEN first ELSE before

discover_root(n) ==
    IF RootCandidates(n) = {} THEN n
    ELSE LET id == CHOOSE i \in RootCandidates(n) : TRUE
         IN  [disconnect(n, AgentPort(id, 0)) EXCEPT !.root = AgentPort(id, 0)]

(***************************************************************************)
(* The frame every readback starts from: root, lam_f, lam_x.               *)
(***************************************************************************)
LamF(n) == n.root[2]
LamX(n) == get_target(n, AgentPort(LamF(n), 2))[2]

HasFrame(n) ==
    /\ IsPrincipal(n.root)
    /\ Agent(n, n.root) = "Con"
    /\ LET body == get_target(n, AgentPort(LamF(n), 2))
       IN  IsPrincipal(body) /\ Agent(n, body) = "Con"

FrameWired(n) ==
    DISCONNECTED \notin {get_target(n, AgentPort(LamF(n), 1)),
                         get_target(n, AgentPort(LamX(n), 1)),
                         get_target(n, AgentPort(LamX(n), 2))}

IsIdentityBody(n) == SelfLoop(n, LamX(n))

(***************************************************************************)
(* decode_nat: the plain chain of applications from lam_x.2 to lam_x.1.    *)
(***************************************************************************)
RECURSIVE CountApplications(_, _, _)
CountApplications(n, lam_x, here) ==
    LET target == get_target(n, here)
    IN  IF target = AgentPort(lam_x, 1) THEN {0}
        ELSE IF OnPort(target, 1) /\ Agent(n, target) = "Con"
        THEN Plus(CountApplications(n, lam_x, AgentPort(target[2], 2)), 1)
        ELSE NoAnswer

decode_nat(n) ==
    IF n.queue # <<>> \/ ~HasFrame(n) THEN NoAnswer
    ELSE IF ~FrameWired(n) THEN NoAnswer
    ELSE IF IsIdentityBody(n) THEN {0}
    ELSE CountApplications(n, LamX(n), AgentPort(LamX(n), 2))

(***************************************************************************)
(* decode_shared_chain: a chain of applications that ends at a DUP entered *)
(* through its principal port is taken as many times as the DUPs behind it *)
(* say.                                                                    *)
(***************************************************************************)
RECURSIVE FollowThroughDups(_, _, _)
FollowThroughDups(n, here, steps) ==
    IF steps = 0 THEN DISCONNECTED
    ELSE IF EntersDupAux(n, here)
    THEN FollowThroughDups(n, get_target(n, AgentPort(here[2], 0)), steps - 1)
    ELSE here

follow_through_dup_aux(n, start) == FollowThroughDups(n, start, WalkCap)

(* classify_dup_branch of arithmetic.rs: where one branch of a boundary    *)
(* DUP leads, one DUP crossed at most.                                     *)
BranchEnd(n, start, lam_x) ==
    LET target == IF EntersDupAux(n, start)
                  THEN get_target(n, AgentPort(start[2], 0)) ELSE start
    IN  IF target = AgentPort(lam_x, 1) THEN <<"XVariable">>
        ELSE IF OnPort(target, 0) /\ Agent(n, target) = "Dup"
        THEN <<"DupPrincipal", target[2]>>
        ELSE <<"Other">>

(* Mutant of Multiplier: the count starts from one instead of two.         *)
RECURSIVE MultiplierFromOne(_, _, _, _)
MultiplierFromOne(n, dup, lam_x, steps) ==
    LET branches == [p \in 1 .. 2 |-> BranchEnd(n, get_target(n, AgentPort(dup, p)), lam_x)]
        next == {p \in 1 .. 2 : branches[p][1] = "DupPrincipal"}
    IN  IF \E p \in 1 .. 2 : branches[p][1] = "XVariable" THEN {1}
        ELSE IF next = {} \/ steps = 0 THEN NoAnswer
        ELSE Plus(MultiplierFromOne(n, branches[IF 1 \in next THEN 1 ELSE 2][2], lam_x, steps - 1), 1)

RECURSIVE Multiplier(_, _, _, _)
Multiplier(n, dup, lam_x, steps) ==
    LET branches == [p \in 1 .. 2 |-> BranchEnd(n, get_target(n, AgentPort(dup, p)), lam_x)]
        next == {p \in 1 .. 2 : branches[p][1] = "DupPrincipal"}
    IN  IF \E p \in 1 .. 2 : branches[p][1] = "XVariable" THEN {2}
        ELSE IF next = {} \/ steps = 0 THEN NoAnswer
        ELSE Plus(Multiplier(n, branches[IF 1 \in next THEN 1 ELSE 2][2], lam_x, steps - 1), 1)

count_dup_boundary_multiplier(n, dup, lam_x) == Multiplier(n, dup, lam_x, WalkCap)

RECURSIVE SharedChain(_, _, _, _)
SharedChain(n, lam_x, here, count) ==
    IF here = AgentPort(lam_x, 1) THEN {count}
    ELSE IF OnPort(here, 1) /\ Agent(n, here) = "Con"
    THEN SharedChain(n, lam_x, get_target(n, AgentPort(here[2], 2)), count + 1)
    ELSE IF OnPort(here, 0) /\ Agent(n, here) = "Dup"
    THEN {count * m : m \in count_dup_boundary_multiplier(n, here[2], lam_x)}
    ELSE NoAnswer

decode_shared_chain(n) ==
    IF ~HasFrame(n) THEN NoAnswer
    ELSE SharedChain(n, LamX(n),
                     follow_through_dup_aux(n, get_target(n, AgentPort(LamX(n), 2))), 0)

OrElse(first, second) == IF first # NoAnswer THEN first ELSE second

decode_nat_or_shared(n) ==
    LET rooted == IF n.root = DISCONNECTED THEN discover_root(n) ELSE n
    IN  OrElse(decode_nat(rooted), decode_shared_chain(rooted))

(***************************************************************************)
(* decode_biguint: the independent readback of the Horner codec.  seen is  *)
(* ChainVisited, the applications and the DUPs met on the enclosing chain. *)
(***************************************************************************)
NothingSeen == [cons |-> {}, dups |-> {}]

RECURSIVE DiscardTree(_, _)
DiscardTree(n, dups) ==
    LET children == {get_target(n, AgentPort(d, p)) : d \in dups, p \in 1 .. 2} \ {DISCONNECTED}
        nested == {r[2] : r \in {c \in children : IsAgentPort(c) /\ Agent(n, c) = "Dup"}}
    IN  /\ \A r \in children : IsAgentPort(r) /\ Agent(n, r) \in {"Era", "Dup"}
        /\ nested \subseteq dups \/ DiscardTree(n, dups \cup nested)

all_aux_leaves_are_era(n, dup) == DiscardTree(n, {dup})

(* classify_dup_branch of biguint_readback.rs: DUPs entered through an     *)
(* auxiliary port are crossed until something decides.  source is the last *)
(* port crossed, where the chain reader would resume.                      *)
RECURSIVE Branch(_, _, _, _, _)
Branch(n, source, lam_x, seen, steps) ==
    LET here == get_target(n, source)
    IN  IF here = AgentPort(lam_x, 1) \/ ~IsAgentPort(here) THEN <<"XVariable">>
        ELSE IF Agent(n, here) \in {"Era", None} THEN <<"XVariable">>
        ELSE IF here[2] \in seen.cons \/ (here[2] \in seen.dups /\ here[3] # 0) THEN <<"Cycle">>
        ELSE IF OnPort(here, 0) /\ Agent(n, here) = "Dup" THEN <<"NestedDupPrincipal", here[2]>>
        ELSE IF EntersDupAux(n, here) /\ steps > 0
        THEN Branch(n, AgentPort(here[2], 0), lam_x, seen, steps - 1)
        ELSE <<"ExitChainAt", source>>

classify_dup_branch(n, source, lam_x, seen) == Branch(n, source, lam_x, seen, WalkCap)

(* The DUPs walk_mult_tree visits, from the boundary through the branches  *)
(* that enter another DUP through its principal port.                      *)
RECURSIVE MultTree(_, _, _, _)
MultTree(n, dups, lam_x, seen) ==
    LET branches == {classify_dup_branch(n, AgentPort(d, p), lam_x, seen) : d \in dups, p \in 1 .. 2}
        nested == {b[2] : b \in {c \in branches : c[1] = "NestedDupPrincipal"}}
    IN  IF nested \subseteq dups THEN dups
        ELSE MultTree(n, dups \cup nested, lam_x, seen)

(* One step of a chain walk: the port to go on from, DISCONNECTED where    *)
(* the chain is broken.  Applications are counted, DUPs crossed.           *)
ChainNext(n, target) ==
    IF EntersDupAux(n, target) THEN AgentPort(target[2], 0)
    ELSE IF OnPort(target, 1) /\ Agent(n, target) = "Con" THEN AgentPort(target[2], 2)
    ELSE DISCONNECTED

Met(n, seen, target) ==
    IF Agent(n, target) = "Con" THEN [seen EXCEPT !.cons = @ \cup {target[2]}]
    ELSE [seen EXCEPT !.dups = @ \cup {target[2]}]

Counted(n, target) == IF Agent(n, target) = "Con" THEN 1 ELSE 0

(* A chain that must reach lam_x.1 without a multiplication boundary.      *)
RECURSIVE TerminalChain(_, _, _, _)
TerminalChain(n, here, lam_x, steps) ==
    LET target == get_target(n, here)
    IN  IF target = AgentPort(lam_x, 1) THEN {0}
        ELSE IF ChainNext(n, target) = DISCONNECTED \/ steps = 0 THEN NoAnswer
        ELSE Plus(TerminalChain(n, ChainNext(n, target), lam_x, steps - 1), Counted(n, target))

read_chain_terminal(n, start, lam_x) == TerminalChain(n, start, lam_x, WalkCap)

(* walk_mult_tree: one more copy of the chain per cycling branch, and the  *)
(* sum of the exit chains; an exit chain that cannot be read fails it all. *)
walk_mult_tree(n, dup, lam_x, seen, count) ==
    LET tree == MultTree(n, {dup}, lam_x, seen)
        ends == [dp \in tree \X (1 .. 2) |->
                    classify_dup_branch(n, AgentPort(dp[1], dp[2]), lam_x, seen)]
        cycles == {dp \in DOMAIN ends : ends[dp][1] = "Cycle"}
        exits == {dp \in DOMAIN ends : ends[dp][1] = "ExitChainAt"}
        exit == [dp \in exits |-> read_chain_terminal(n, ends[dp][2], lam_x)]
    IN  IF \E dp \in exits : exit[dp] = NoAnswer THEN NoAnswer
        ELSE {count * (1 + Cardinality(cycles))
                + FoldSet(LAMBDA dp, sum : sum + (CHOOSE v \in exit[dp] : TRUE), 0, exits)}

(* The envelope guard of read_mult_subnet: at most two DUPs crossed before *)
(* the boundary.                                                           *)
ReadableEnvelope == 2

(* Mutant of read_mult_subnet: without the guard.                          *)
read_mult_subnet_unguarded(n, dup, lam_x, seen, count) ==
    walk_mult_tree(n, dup, lam_x, seen, count)

read_mult_subnet(n, dup, lam_x, seen, count) ==
    IF Cardinality(seen.dups) > ReadableEnvelope THEN NoAnswer
    ELSE walk_mult_tree(n, dup, lam_x, seen, count)

RECURSIVE Chain(_, _, _, _, _, _)
Chain(n, here, lam_x, seen, count, steps) ==
    LET target == get_target(n, here)
    IN  IF target = AgentPort(lam_x, 1) THEN {count}
        ELSE IF OnPort(target, 0) /\ Agent(n, target) = "Dup"
        THEN read_mult_subnet(n, target[2], lam_x, seen, count)
        ELSE IF ChainNext(n, target) = DISCONNECTED \/ steps = 0 THEN NoAnswer
        ELSE Chain(n, ChainNext(n, target), lam_x, Met(n, seen, target),
                   count + Counted(n, target), steps - 1)

read_chain(n, start, lam_x) == Chain(n, start, lam_x, NothingSeen, 0, WalkCap)

(* The f side of Church(0): an eraser, or DUPs that only feed erasers.     *)
IsDiscarded(n, f_target) ==
    /\ OnPort(f_target, 0)
    /\ \/ Agent(n, f_target) = "Era"
       \/ Agent(n, f_target) = "Dup" /\ all_aux_leaves_are_era(n, f_target[2])

decode_biguint(n) ==
    IF ~IsNormalForm(n) \/ ~HasFrame(n) THEN NoAnswer
    ELSE IF ~FrameWired(n) THEN NoAnswer
    ELSE IF IsIdentityBody(n)
    THEN IF IsDiscarded(n, get_target(n, AgentPort(LamF(n), 1))) THEN {0} ELSE NoAnswer
    ELSE read_chain(n, AgentPort(LamX(n), 2), LamX(n))
=============================================================================
