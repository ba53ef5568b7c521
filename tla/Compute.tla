------------------------------ MODULE Compute ------------------------------
(***************************************************************************)
(* The compute command (commands.rs): encode an expression, reduce the     *)
(* net, discover the root and read the number back.  A job takes one of    *)
(* the command's three paths: "registry" (--encoder: validate, then        *)
(* reduce_all), "local" (the positional form: reduce_all) and "grid" (the  *)
(* positional form with --workers: run_grid).  The reduction is the one of *)
(* Grid; its sequential reference is the reduce_all of the other two       *)
(* paths, and runs first on the grid path too, to compare with.            *)
(*                                                                         *)
(* Two more callers of the same parts.  The command's registry does not    *)
(* know LambdaCodec; a program that registers it itself ("library")        *)
(* encodes and validates, calls reduce_all and decodes.  The benchmark     *)
(* suite ("bench") makes a net, measures reduce_all and then run_grid, and *)
(* verifies the one against the other.                                     *)
(***************************************************************************)
EXTENDS Grid, Lambda, Bench

CONSTANTS
    Jobs,           \* [via, op, args, strict]: the path, the operation (for
                    \* "bench" the benchmark), its numbers, strict_bsp
    LambdaJobs,     \* the same with one lambda term as args
    MaxBetaSteps    \* how far the reference follows a term

VARIABLES
    job,            \* the command line
    stage,          \* "encode", "reduce", "read", "refused"
    answer,         \* what the command prints: {n}, or {} for no number
    by_rule         \* interactions_by_rule of the sequential reduction

computeVars == <<vars, job, stage, answer, by_rule>>

(***************************************************************************)
(* The builders of the positional form and the codecs of the registry.     *)
(* The arguments of a Horner job are x, then the coefficients.             *)
(***************************************************************************)
Built(j) ==
    CASE j.via = "bench" -> make_net(j.op, j.args[1])
      [] j.op = "add" -> build_add(j.args[1], j.args[2])
      [] j.op = "mul" -> build_mul(j.args[1], j.args[2])
      [] j.op = "exp" -> build_exp(j.args[1], j.args[2])
      [] j.op = "sum_of_squares" -> build_sum_of_squares(j.args[1])
      [] j.op = "horner" -> encode_horner(Tail(j.args), j.args[1])
      [] j.op = "lambda" -> encode_lambda(j.args[1])

ComputeInit ==
    /\ job \in Jobs \/ job \in LambdaJobs
    /\ Called(Built(job), IF job.strict THEN "strict" ELSE "lenient")
    /\ stage = "encode"
    /\ answer = NoAnswer
    /\ by_rule = [r \in SpecificRules |-> 0]

(* encode_and_validate of the registry; the positional form checks nothing *)
(* and exits only when an operand is past the cap of encode_church_into.   *)
accepts_normal_form_input(j) == j.op = "horner" /\ Len(j.args) = 2

Accepted(j, n) ==
    /\ j.via = "registry" => InBounds(j.args)
    /\ j.via \in {"registry", "library"} =>
            validate_encoded_net(n, accepts_normal_form_input(j))

Encode ==
    /\ stage = "encode"
    /\ stage' = IF Accepted(job, net) THEN "reduce" ELSE "refused"
    /\ UNCHANGED <<vars, job, answer, by_rule>>

(* reduce_all, and on the paths with workers run_grid.                     *)
InGrid(j) == j.via \in {"grid", "bench"}

RuleOf(n) == get_specific_rule(n.agents[HeadPair(n)[1]], n.agents[HeadPair(n)[2]])

Reduces ==
    /\ stage = "reduce"
    /\ InGrid(job) \/ ~IsNormalForm(oracle)
    /\ Next
    /\ by_rule' = IF oracleCount' = oracleCount THEN by_rule
                  ELSE [by_rule EXCEPT ![RuleOf(oracle)] = @ + 1]
    /\ UNCHANGED <<job, stage, answer>>

(***************************************************************************)
(* The reduction is over.  The positional form discovers the root whether  *)
(* or not one is set, the registry only when there is none, a library user *)
(* never; then the readback of the operation decodes.                      *)
(***************************************************************************)
Reduced == IF InGrid(job) THEN phase = "done" ELSE IsNormalForm(oracle)

Rooted(j, n) ==
    IF j.via = "library" \/ (j.via = "registry" /\ n.root # DISCONNECTED)
    THEN n ELSE discover_root(n)

Decoded(j, n) ==
    LET rooted == Rooted(j, [n EXCEPT !.queue = <<>>])
    IN  IF j.op = "lambda" THEN decode_lambda(rooted)
        ELSE IF j.op = "horner" THEN decode_biguint(rooted)
        ELSE IF j.via = "registry" THEN decode_nat_or_shared(rooted)
        ELSE OrElse(decode_nat(rooted), decode_shared_chain(rooted))

Read ==
    /\ stage = "reduce"
    /\ Reduced
    /\ stage' = "read"
    /\ answer' = IF job.via = "bench" THEN {verify(job.op, oracle, net)}
                 ELSE Decoded(job, IF InGrid(job) THEN net ELSE oracle)
    /\ UNCHANGED <<vars, job, by_rule>>

(* The command has returned.  Nothing else may stop it: every interaction  *)
(* counts towards MaxInteractions, so the deadlock check of a run shows    *)
(* that every computation ends.                                            *)
Returned == stage \in {"read", "refused"} /\ UNCHANGED computeVars

ComputeNext == Encode \/ Reduces \/ Read \/ Returned

ComputeSpec == ComputeInit /\ [][ComputeNext]_computeVars

-----------------------------------------------------------------------------
(* {v} for the value v of the expression, {} for a term without one.       *)
Meaning(j) ==
    CASE j.op = "add" -> {j.args[1] + j.args[2]}
      [] j.op = "mul" -> {j.args[1] * j.args[2]}
      [] j.op = "exp" -> {IF j.args[2] = 0 THEN 1 ELSE j.args[1] ^ j.args[2]}
      [] j.op = "sum_of_squares" ->
            {(j.args[1] * (j.args[1] + 1) * (2 * j.args[1] + 1)) \div 6}
      [] j.op = "horner" -> {horner_serial(Tail(j.args), j.args[1])}
      [] j.op = "lambda" -> ValueOf(j.args[1], MaxBetaSteps)

(* The readable envelope of biguint_readback.rs: one iteration, or degree  *)
(* two with the leading coefficient 1.  (The all-zero polynomial of one    *)
(* iteration is in the documented envelope too, and is not read.)          *)
Leading(j) == Last(j.args)
InEnvelope(j) ==
    \/ Len(j.args) = 2
    \/ Len(j.args) = 3 /\ (j.args[2] # 0 \/ j.args[3] # 0 \/ j.args[1] = 0)
    \/ Len(j.args) = 4 /\ Leading(j) = 1

(* A term that uses no binder twice and is not equal to a free variable    *)
(* (FreePort(0) then faces no agent), and the terms of the round trips     *)
(* T6 to T9 of codec_lambda.rs, two of which share a variable.             *)
RoundTrips ==
    LET id == Lam("y", Var("y"))
        twice == Lam("f", Lam("x", App(Var("f"), App(Var("f"), Var("x")))))
    IN  {App(Lam("x", Var("x")), id), App(twice, id),
         App(Lam("x", id), Lam("z", Var("z"))), App(Lam("x", App(Var("x"), Var("x"))), id)}

IsReadTerm(t) ==
    \/ t \in RoundTrips
    \/ IsAffine(t) /\ \A v \in ValueOf(t, MaxBetaSteps) : v[1] # "Free"

(* SPEC-14 R15, R16, SPEC-09 R17d and SPEC-27 R14', R14, R15: a sum, a     *)
(* product, a sum of squares, a power to 0 or 1 (the others are not        *)
(* readable), a polynomial inside the readable envelope and a lambda term  *)
(* that does not share are read back as exactly their value, on every      *)
(* path: the encoders, the rules, the partitioning and the four readbacks  *)
(* agree.                                                                  *)
Readable(j) ==
    \/ j.op \in {"add", "mul", "sum_of_squares"}
    \/ j.op = "exp" /\ j.args[2] <= 1
    \/ j.op = "horner" /\ InEnvelope(j)
    \/ j.op = "lambda" /\ IsReadTerm(j.args[1])

ValueIsRead == stage = "read" /\ job.via # "bench" /\ Readable(job) => answer = Meaning(job)

(* A readback may give up, but it prints nothing other than the value of   *)
(* the expression.                                                         *)
NeverWrong == stage = "read" /\ job.via # "bench" => answer \subseteq Meaning(job)

(* What the suite and its validator say of the benchmarks: every result    *)
(* passes verify (H1, R38), the sequential reduction makes the expected    *)
(* interactions of each rule and no others (H3), the grid as many (H6), an *)
(* EP benchmark takes one round (W4), and a cascade one round that is      *)
(* lenient and one per link that is strict (cascade_cross.rs).             *)
SuiteAsExpected ==
    job.via = "bench" /\ stage = "read" =>
        /\ answer = {TRUE}
        /\ \A expected \in expected_interactions(job.op, job.args[1]) : by_rule = expected
        /\ count = oracleCount
        /\ job.op \in {"EPAnnihilation", "EPAnnihilationCon", "EPAnnihilationDup"} => rounds = 1
        /\ job.op = "CascadeCross" => rounds = (IF job.strict THEN job.args[1] ELSE 1)

(* G1 at the level of the command: run_grid and reduce_all lead to the     *)
(* same answer.                                                            *)
GridAnswersAsSequential ==
    job.via = "grid" /\ Converged => Decoded(job, net) = Decoded(job, oracle)

(* No reduction of an encoder's net, sequential or in the lenient grid,    *)
(* and none of a benchmark's net, in the strict grid too, meets an         *)
(* entangled pair, whose reduction would lose a wire.  (The strict grid    *)
(* may meet one in an encoder's net: see GridAnswersAsSequential.)         *)
NeverEntangled == job.via = "bench" \/ ~job.strict => "entangled" \notin marks
=============================================================================
