----------------------------- MODULE MCCompute -----------------------------
(***************************************************************************)
(* The command lines the compute runs try: every operation on small        *)
(* operands, 0 and 1 (the special cases of the encoders) included, every   *)
(* small lambda term, and the benchmarks on small sizes.                   *)
(***************************************************************************)
EXTENDS Compute

Job(vias, ops, args) == [via : vias, op : ops, args : args, strict : {FALSE}]

Digits == 0 .. 3

Expressions ==
    Job({"registry", "local"}, {"add", "mul", "exp"}, Digits \X Digits)
    \cup Job({"registry"}, {"sum_of_squares"}, {<<k>> : k \in Digits})
    \cup Job({"grid"}, {"add", "mul"}, {<<2, 2>>, <<1, 3>>, <<0, 2>>})
    \cup Job({"grid"}, {"exp"}, (1 .. 2) \X (1 .. 2))

(* Polynomials of degree 0, 1 and 2 whose leading coefficient is not 0.    *)
Polynomials ==
    Job({"registry"}, {"horner"},
        (Digits \X (0 .. 4)) \cup (Digits \X Digits \X Digits)
        \cup (Digits \X (0 .. 2) \X (0 .. 2) \X (1 .. 2)))

(* Every benchmark on small sizes, lenient and strict.                     *)
Benchmarks(ops, sizes) ==
    [via : {"bench"}, op : ops, args : {<<k>> : k \in sizes}, strict : BOOLEAN]

Suite ==
    Benchmarks({"EPAnnihilation", "EPAnnihilationCon", "EPAnnihilationDup",
                "ConDupExpansion", "TreeSum", "ErasurePropagation", "ChurchAdd",
                "CascadeCross"}, 1 .. 4)
    \cup Benchmarks({"DualTree"}, 1 .. 3)
    \cup Benchmarks({"MixedNet", "ChurchSumOfSquares"}, 1 .. 2)
    \cup Benchmarks({"ChurchMul"}, {1, 4})

MCJobs == Expressions \cup Polynomials \cup Suite

(***************************************************************************)
(* Every term of up to seven nodes over two names, the round trips of the  *)
(* codec's tests, and one whose value the codec does not read: a neutral   *)
(* application that is shared.                                             *)
(***************************************************************************)
RECURSIVE TermsOf(_)
TermsOf(nodes) ==
    IF nodes = 1 THEN {Var("x"), Var("y")}
    ELSE {Lam(x, body) : x \in {"x", "y"}, body \in TermsOf(nodes - 1)}
         \cup UNION {{App(f, a) : f \in TermsOf(k), a \in TermsOf(nodes - 1 - k)} :
                        k \in 1 .. nodes - 2}

Twice == Lam("x", App(Var("x"), Var("x")))

Terms ==
    UNION {TermsOf(k) : k \in 1 .. 7} \cup RoundTrips
    \cup {App(Twice, Lam("x", App(Var("y"), Var("x"))))}

MCLambdaJobs == Job({"library"}, {"lambda"}, {<<t>> : t \in Terms})

NoLambdaJobs == {}

(* Degree 2 with the leading coefficient 0.                                *)
ZeroLeading == Job({"registry"}, {"horner"}, (0 .. 2) \X (0 .. 2) \X (0 .. 2) \X {0})

(* Powers of one, reduced by the grid.                                     *)
PowersOfOne == [via : {"grid"}, op : {"exp"}, args : {1} \X (1 .. 2), strict : {TRUE}]
=============================================================================
