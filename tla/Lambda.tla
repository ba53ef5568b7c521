------------------------------- MODULE Lambda -------------------------------
(***************************************************************************)
(* LambdaCodec (encoding/codec_lambda.rs): a lambda term becomes a net and *)
(* a reduced net is read back as a term.  A term is a variable, a lambda   *)
(* or an application; its text, which parse_term and print_term handle, is *)
(* left out.                                                               *)
(*                                                                         *)
(* Terms with names go in.  What comes out, and what it is compared with,  *)
(* is canonical (as canonicalise of the tests makes it): a bound variable  *)
(* is the number of binders between it and its own, a free one is the      *)
(* FreePort that stands for it.                                            *)
(***************************************************************************)
EXTENDS Readback

CONSTANT MaxReadbackDepth       \* MAX_READBACK_DEPTH, 10 000 in the code

ASSUME LambdaAssumption == MaxReadbackDepth \in Nat

Var(x) == <<"Var", x>>
Lam(x, body) == <<"Lam", x, body>>
App(f, a) == <<"App", f, a>>

RECURSIVE count_uses(_, _)
count_uses(t, x) ==
    CASE t[1] = "Var" -> IF t[2] = x THEN 1 ELSE 0
      [] t[1] = "Lam" -> IF t[2] = x THEN 0 ELSE count_uses(t[3], x)
      [] t[1] = "App" -> count_uses(t[2], x) + count_uses(t[3], x)

(***************************************************************************)
(* build_binder_chain: what the binder port root is wired to when its      *)
(* variable is used k times, and the port of each use, left to right.      *)
(***************************************************************************)
BinderNet(n, root, k) ==
    LET dup(i) == n.next_id + i - 1
        above(i) == IF i = 1 THEN root ELSE AgentPort(dup(i - 1), 2)
    IN  IF k = 0
        THEN connect(create_agent(n, "Era"), root, AgentPort(n.next_id, 0))
        ELSE Wire(WithAgents(n, Times(k - 1, "Dup")),
                  [i \in 1 .. k - 1 |-> <<above(i), AgentPort(dup(i), 0)>>])

BinderLeaves(n, root, k) ==
    LET dup(i) == n.next_id + i - 1
    IN  [i \in 1 .. k |-> IF k = 1 THEN root
                          ELSE IF i = k THEN AgentPort(dup(k - 1), 2)
                          ELSE AgentPort(dup(i), 1)]

(***************************************************************************)
(* encode_term.  The context is the net, the stack of binders with the     *)
(* leaves not used yet, and the next FreePort (0 is the result); the port  *)
(* returned is added to it.  A use takes a leaf of the innermost binder of *)
(* its name, whatever is left of it.                                       *)
(***************************************************************************)
EncodeCtx(n) == [net |-> n, binders |-> <<>>, free |-> 1, port |-> DISCONNECTED]

Innermost(ctx, x) ==
    LET named == {i \in DOMAIN ctx.binders : ctx.binders[i].name = x}
    IN  IF named = {} THEN 0 ELSE Max(named)

EncodeVar(ctx, x) ==
    LET b == Innermost(ctx, x)
        free == [ctx EXCEPT !.port = FreePort(ctx.free), !.free = @ + 1]
    IN  IF b = 0 THEN free
        ELSE IF ctx.binders[b].leaves = <<>> THEN free
        ELSE [ctx EXCEPT !.port = Head(ctx.binders[b].leaves),
                         !.binders[b].leaves = Tail(@)]

RECURSIVE encode_term(_, _)
encode_term(ctx, t) ==
    LET id == ctx.net.next_id
        made == create_agent(ctx.net, "Con")
    IN  CASE t[1] = "Var" -> EncodeVar(ctx, t[2])
          [] t[1] = "Lam" ->
                LET uses == count_uses(t[3], t[2])
                    binder == AgentPort(id, 1)
                    bound == [ctx EXCEPT
                                !.net = BinderNet(made, binder, uses),
                                !.binders = Append(@, [name |-> t[2],
                                    leaves |-> BinderLeaves(made, binder, uses)])]
                    body == encode_term(bound, t[3])
                IN  [body EXCEPT !.net = connect(@, body.port, AgentPort(id, 2)),
                                 !.binders = Front(@),
                                 !.port = AgentPort(id, 0)]
          [] t[1] = "App" ->
                LET f == encode_term([ctx EXCEPT !.net = made], t[2])
                    a == encode_term(f, t[3])
                    applied == connect(a.net, f.port, AgentPort(id, 0))
                IN  [a EXCEPT !.net = connect(applied, a.port, AgentPort(id, 2)),
                              !.port = AgentPort(id, 1)]

encode_lambda(t) ==
    LET ctx == encode_term(EncodeCtx(EmptyNet), t)
    IN  connect(ctx.net, ctx.port, FreePort(0))

(***************************************************************************)
(* readback, from the port a wire leads to.  vars is var_map: the binder   *)
(* ports that have been entered, outermost first; it is kept while the     *)
(* walk goes on, and leaving a lambda forgets its port, also when the same *)
(* lambda is entered a second time from inside itself.                     *)
(***************************************************************************)
Read1(term, vars) == [term |-> {term}, vars |-> vars]
ReadErr(vars) == [term |-> {}, vars |-> vars]

(* The binder last entered with this port, counted from the inside.        *)
IndexOf(port, scope) == Len(scope) - Max({i \in DOMAIN scope : scope[i] = port})

RECURSIVE readback(_, _, _, _, _)
readback(n, port, vars, scope, depth) ==
    LET symbol == IF IsAgentPort(port) THEN n.agents[port[2]] ELSE None
        at(p) == get_target(n, AgentPort(port[2], p))
    IN  IF depth = 0 THEN ReadErr(vars)
        ELSE IF IsFreePort(port) THEN Read1(<<"Free", port[2]>>, vars)
        ELSE IF port \in vars THEN Read1(<<"Bound", IndexOf(port, scope)>>, vars)
        ELSE IF symbol = "Era" THEN Read1(<<"Erased">>, vars)
        ELSE IF symbol = "Dup" THEN readback(n, at(0), vars, scope, depth - 1)
        ELSE IF symbol = "Con" /\ port[3] = 0
        THEN LET binder == AgentPort(port[2], 1)
                 body == readback(n, at(2), vars \cup {binder}, Append(scope, binder), depth - 1)
             IN  [term |-> {<<"Lam", b>> : b \in body.term}, vars |-> body.vars \ {binder}]
        ELSE IF symbol = "Con" /\ port[3] = 1
        THEN LET f == readback(n, at(0), vars, scope, depth - 1)
                 a == readback(n, at(2), f.vars, scope, depth - 1)
             IN  IF f.term = {} THEN f
                 ELSE [term |-> {<<"App", x, y>> : x \in f.term, y \in a.term}, vars |-> a.vars]
        ELSE ReadErr(vars)

(* find_entry_port: the first port, in id order, that faces FreePort(0).   *)
EntryPorts(n) == {ip \in Live(n) \X PortIds : n.ports[ip[1]][ip[2]] = FreePort(0)}

decode_lambda(n) ==
    IF EntryPorts(n) = {} THEN NoAnswer
    ELSE LET ip == CHOOSE x \in EntryPorts(n) : \A y \in EntryPorts(n) : x[1] <= y[1]
         IN  readback(n, AgentPort(ip[1], ip[2]), {}, <<>>, MaxReadbackDepth).term

-----------------------------------------------------------------------------
(***************************************************************************)
(* The reference: the canonical term a named one stands for (its free      *)
(* occurrences numbered from left to right, as encode_term numbers them)   *)
(* and its normal form, by leftmost-outermost beta steps.                  *)
(***************************************************************************)
RECURSIVE Resolve(_, _, _)
Resolve(t, scope, next) ==
    LET named == {i \in DOMAIN scope : scope[i] = t[2]}
    IN  CASE t[1] = "Var" ->
                IF named = {} THEN [term |-> <<"Free", next>>, next |-> next + 1]
                ELSE [term |-> <<"Bound", Len(scope) - Max(named)>>, next |-> next]
          [] t[1] = "Lam" ->
                LET body == Resolve(t[3], Append(scope, t[2]), next)
                IN  [body EXCEPT !.term = <<"Lam", @>>]
          [] t[1] = "App" ->
                LET f == Resolve(t[2], scope, next)
                    a == Resolve(t[3], scope, f.next)
                IN  [a EXCEPT !.term = <<"App", f.term, @>>]

RECURSIVE Shift(_, _, _)
Shift(t, by, from) ==
    CASE t[1] = "Bound" -> IF t[2] < from THEN t ELSE <<"Bound", t[2] + by>>
      [] t[1] = "Free" -> t
      [] t[1] = "Lam" -> <<"Lam", Shift(t[2], by, from + 1)>>
      [] t[1] = "App" -> <<"App", Shift(t[2], by, from), Shift(t[3], by, from)>>

RECURSIVE Subst(_, _, _)
Subst(t, k, s) ==
    CASE t[1] = "Bound" -> IF t[2] = k THEN s ELSE t
      [] t[1] = "Free" -> t
      [] t[1] = "Lam" -> <<"Lam", Subst(t[2], k + 1, Shift(s, 1, 0))>>
      [] t[1] = "App" -> <<"App", Subst(t[2], k, s), Subst(t[3], k, s)>>

Beta(f, a) == Shift(Subst(f[2], 0, Shift(a, 1, 0)), -1, 0)

(* The term after one step, {} for a normal form.                          *)
RECURSIVE BetaStep(_)
BetaStep(t) ==
    CASE t[1] \in {"Bound", "Free"} -> {}
      [] t[1] = "Lam" -> {<<"Lam", b>> : b \in BetaStep(t[2])}
      [] t[1] = "App" ->
            IF t[2][1] = "Lam" THEN {Beta(t[2], t[3])}
            ELSE IF BetaStep(t[2]) # {} THEN {<<"App", f, t[3]>> : f \in BetaStep(t[2])}
            ELSE {<<"App", t[2], a>> : a \in BetaStep(t[3])}

(* The normal form, {} where fuel steps do not reach it.                   *)
RECURSIVE NormalForm(_, _)
NormalForm(t, fuel) ==
    IF BetaStep(t) = {} THEN {t}
    ELSE IF fuel = 0 THEN {}
    ELSE NormalForm(CHOOSE s \in BetaStep(t) : TRUE, fuel - 1)

(* No binder of the term is used twice.                                    *)
RECURSIVE IsAffine(_)
IsAffine(t) ==
    CASE t[1] = "Var" -> TRUE
      [] t[1] = "Lam" -> count_uses(t[3], t[2]) <= 1 /\ IsAffine(t[3])
      [] t[1] = "App" -> IsAffine(t[2]) /\ IsAffine(t[3])

ValueOf(t, fuel) == NormalForm(Resolve(t, <<>>, 1).term, fuel)
=============================================================================
