------------------------------ MODULE Encoding ------------------------------
(***************************************************************************)
(* The Church encoding of encoding/church.rs, the arithmetic builders of   *)
(* encoding/arithmetic.rs and the Horner encoder of encoding/horner.rs:    *)
(* how a number or an expression becomes a net.  A builder only appends    *)
(* agents (its net has never freed one), so the k-th agent it creates has  *)
(* the id next_id + k - 1.                                                 *)
(***************************************************************************)
EXTENDS Reduction

CONSTANT MaxChurchNat       \* MAX_CHURCH_NAT, the cap of the codecs

ASSUME EncodingAssumption == MaxChurchNat \in Nat

Times(k, sym) == [i \in 1 .. k |-> sym]

(* The create_agent calls of a fragment, in the order of syms.             *)
WithAgents(n, syms) ==
    LET created == n.next_id .. n.next_id + Len(syms) - 1
    IN  [n EXCEPT !.agents = [i \in created |-> syms[i - n.next_id + 1]] @@ @,
                  !.next_id = @ + Len(syms)]

(* The connect calls of a fragment: no two of its wires share a port, and  *)
(* at most one joins two principal ports and is queued.                    *)
Wire(n, wires) ==
    LET pairs == ToSet(wires)
        ends == {e \in pairs \cup {<<w[2], w[1]>> : w \in pairs} : IsAgentPort(e[1])}
        starts == {e[1] : e \in ends}
        other(r) == (CHOOSE e \in ends : e[1] = r)[2]
        active == {w \in pairs : IsPrincipal(w[1]) /\ IsPrincipal(w[2])}
        rewired(i) == [p \in {q \in PortIds : AgentPort(i, q) \in starts} |->
                            other(AgentPort(i, p))] @@ n.ports[i]
    IN  [n EXCEPT !.ports = [i \in {r[2] : r \in starts} |-> rewired(i)] @@ @,
                  !.queue = @ \o SetToSeq({<<w[1][2], w[2][2]>> : w \in active})]

(***************************************************************************)
(* Church(k): lam_f, lam_x and, for k = 0, an eraser on f and the identity *)
(* on x; for k > 0, k applications in a chain and the k - 1 DUPs that      *)
(* share f among them.  Port 1 of a lambda is its variable, port 2 its     *)
(* body; port 1 of an application is its result, port 2 its argument.      *)
(* encode_church_into returns lam_f, the first agent it creates.           *)
(***************************************************************************)
EncodeZero(n) ==
    LET f == n.next_id
    IN  Wire(WithAgents(n, <<"Con", "Con", "Era">>),
             << <<AgentPort(f, 2), AgentPort(f + 1, 0)>>,
                <<AgentPort(f, 1), AgentPort(f + 2, 0)>>,
                <<AgentPort(f + 1, 1), AgentPort(f + 1, 2)>> >>)

EncodePositive(n, k) ==
    LET f == n.next_id
        x == f + 1
        app(i) == x + i
        dup(i) == x + k + i
        shared(i) == IF i < k - 1 THEN dup(i + 1) ELSE app(k)
    IN  Wire(WithAgents(n, Times(2 + k, "Con") \o Times(k - 1, "Dup")),
             << <<AgentPort(f, 2), AgentPort(x, 0)>>,
                <<AgentPort(f, 1), AgentPort(IF k = 1 THEN app(1) ELSE dup(1), 0)>> >>
             \o [i \in 1 .. k - 1 |-> <<AgentPort(dup(i), 1), AgentPort(app(i), 0)>>]
             \o [i \in 1 .. k - 1 |-> <<AgentPort(dup(i), 2), AgentPort(shared(i), 0)>>]
             \o << <<AgentPort(x, 1), AgentPort(app(k), 2)>> >>
             \o [i \in 1 .. k - 1 |-> <<AgentPort(app(i + 1), 1), AgentPort(app(i), 2)>>]
             \o << <<AgentPort(app(1), 1), AgentPort(x, 2)>> >>)

encode_church_into(n, k) == IF k = 0 THEN EncodeZero(n) ELSE EncodePositive(n, k)

(* encode_nat: a numeral alone, rooted at lam_f.                           *)
encode_nat(k) == [encode_church_into(EmptyNet, k) EXCEPT !.root = AgentPort(0, 0)]

(***************************************************************************)
(* The combinators, applied to two operand ports: the lambdas, the body,   *)
(* and the two applications app_1 and app_2 at the end.  The result is     *)
(* port 1 of app_2, the last agent created.                                *)
(***************************************************************************)
Result(n) == AgentPort(n.next_id - 1, 1)

Applied(fragment, app_1, lam_m, m_port, n_port) ==
    Wire(fragment, << <<AgentPort(app_1, 0), AgentPort(lam_m, 0)>>,
                      <<AgentPort(app_1, 2), m_port>>,
                      <<AgentPort(app_1, 1), AgentPort(app_1 + 1, 0)>>,
                      <<AgentPort(app_1 + 1, 2), n_port>> >>)

wire_add_into(n, m_port, n_port) ==
    LET lam_m == n.next_id
        lam_n == lam_m + 1
        lam_f == lam_m + 2
        lam_x == lam_m + 3
        app_mf == lam_m + 4
        app_nf == lam_m + 5
        app_nfx == lam_m + 6
        app_all == lam_m + 7
        dup_f == lam_m + 8
        fragment ==
            Wire(WithAgents(n, Times(8, "Con") \o <<"Dup">> \o Times(2, "Con")),
                 << <<AgentPort(lam_m, 2), AgentPort(lam_n, 0)>>,
                    <<AgentPort(lam_n, 2), AgentPort(lam_f, 0)>>,
                    <<AgentPort(lam_f, 2), AgentPort(lam_x, 0)>>,
                    <<AgentPort(lam_m, 1), AgentPort(app_mf, 0)>>,
                    <<AgentPort(lam_n, 1), AgentPort(app_nf, 0)>>,
                    <<AgentPort(lam_f, 1), AgentPort(dup_f, 0)>>,
                    <<AgentPort(lam_x, 1), AgentPort(app_nfx, 2)>>,
                    <<AgentPort(dup_f, 1), AgentPort(app_mf, 2)>>,
                    <<AgentPort(dup_f, 2), AgentPort(app_nf, 2)>>,
                    <<AgentPort(app_nf, 1), AgentPort(app_nfx, 0)>>,
                    <<AgentPort(app_nfx, 1), AgentPort(app_all, 2)>>,
                    <<AgentPort(app_mf, 1), AgentPort(app_all, 0)>>,
                    <<AgentPort(app_all, 1), AgentPort(lam_x, 2)>> >>)
    IN  Applied(fragment, dup_f + 1, lam_m, m_port, n_port)

wire_mul_into(n, m_port, n_port) ==
    LET lam_m == n.next_id
        lam_n == lam_m + 1
        lam_f == lam_m + 2
        app_nf == lam_m + 3
        app_m == lam_m + 4
        fragment ==
            Wire(WithAgents(n, Times(7, "Con")),
                 << <<AgentPort(lam_m, 2), AgentPort(lam_n, 0)>>,
                    <<AgentPort(lam_n, 2), AgentPort(lam_f, 0)>>,
                    <<AgentPort(lam_m, 1), AgentPort(app_m, 0)>>,
                    <<AgentPort(lam_n, 1), AgentPort(app_nf, 0)>>,
                    <<AgentPort(lam_f, 1), AgentPort(app_nf, 2)>>,
                    <<AgentPort(app_nf, 1), AgentPort(app_m, 2)>>,
                    <<AgentPort(app_m, 1), AgentPort(lam_f, 2)>> >>)
    IN  Applied(fragment, app_m + 1, lam_m, m_port, n_port)

(* The exp combinator of build_exp: lambda m. lambda n. n m.               *)
WireExp(n, m_port, n_port) ==
    LET lam_m == n.next_id
        lam_n == lam_m + 1
        app_nm == lam_m + 2
        fragment ==
            Wire(WithAgents(n, Times(5, "Con")),
                 << <<AgentPort(lam_m, 2), AgentPort(lam_n, 0)>>,
                    <<AgentPort(lam_n, 1), AgentPort(app_nm, 0)>>,
                    <<AgentPort(lam_m, 1), AgentPort(app_nm, 2)>>,
                    <<AgentPort(app_nm, 1), AgentPort(lam_n, 2)>> >>)
    IN  Applied(fragment, app_nm + 1, lam_m, m_port, n_port)

(***************************************************************************)
(* The expressions.  The result wire ends in FreePort(0) and the root is   *)
(* not set: the numeral's outer lambda appears only by reduction.          *)
(***************************************************************************)
WithOutput(n) == connect(n, Result(n), FreePort(0))

(* Both operands encoded in one net; the second one starts at its next_id. *)
Operands(a, b) == encode_church_into(encode_church_into(EmptyNet, a), b)
SecondOperand(a) == AgentPort(encode_church_into(EmptyNet, a).next_id, 0)

build_add(a, b) ==
    WithOutput(wire_add_into(Operands(a, b), AgentPort(0, 0), SecondOperand(a)))

build_mul(a, b) ==
    WithOutput(wire_mul_into(Operands(a, b), AgentPort(0, 0), SecondOperand(a)))

build_exp(a, b) ==
    IF b = 0 THEN encode_nat(1)
    ELSE WithOutput(WireExp(Operands(a, b), AgentPort(0, 0), SecondOperand(a)))

(* The folds carry the net and the port that holds the accumulator.        *)
Numeral(k) == [net |-> encode_church_into(EmptyNet, k), port |-> AgentPort(0, 0)]
Accumulated(n) == [net |-> n, port |-> Result(n)]

build_sum_of_squares(k) ==
    LET AddSquare(acc, i) ==
            Accumulated(wire_add_into(encode_church_into(acc.net, i * i),
                                      AgentPort(acc.net.next_id, 0), acc.port))
    IN  IF k < 2 THEN encode_nat(k)
        ELSE WithOutput(FoldLeft(AddSquare, Numeral(k * k),
                                 [j \in 1 .. k - 1 |-> k - j]).net)

HornerStep(acc, x, coeff) ==
    LET with_x == encode_church_into(acc.net, x)
        prod == wire_mul_into(with_x, acc.port, AgentPort(acc.net.next_id, 0))
        with_c == encode_church_into(prod, coeff)
    IN  Accumulated(wire_add_into(with_c, Result(prod), AgentPort(prod.next_id, 0)))

(* HornerCodec::encode on coeffs[1] + coeffs[2] x + ...: from the leading  *)
(* coefficient down.                                                       *)
Descending(coeffs) == Tail(Reverse(coeffs))

encode_horner(coeffs, x) ==
    IF Len(coeffs) = 1 THEN encode_nat(coeffs[1])
    ELSE WithOutput(FoldLeft(LAMBDA acc, c : HornerStep(acc, x, c),
                             Numeral(Last(coeffs)), Descending(coeffs)).net)

(* The bound checks of the codecs (R12', BUG-003).                         *)
InBounds(numbers) == \A i \in DOMAIN numbers : numbers[i] <= MaxChurchNat

(* horner_serial, the oracle: the same recurrence on numbers.              *)
horner_serial(coeffs, x) ==
    FoldLeft(LAMBDA acc, c : acc * x + c, Last(coeffs), Descending(coeffs))

(* validate_encoded_net: E1, and E2 unless the codec declares the input    *)
(* one whose net is already in Normal Form.                                *)
validate_encoded_net(n, allow_normal_form) ==
    /\ RefsValid(n)
    /\ AdjacencySymmetric(n)
    /\ \A ip \in LivePorts(n) : n.ports[ip[1]][ip[2]] # AgentPort(ip[1], ip[2])
    /\ allow_normal_form \/ n.queue # <<>>
=============================================================================
