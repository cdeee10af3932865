-------------------------- MODULE BtorQuantSolver ---------------------------
(***************************************************************************)
(* The quantifier engine (btorslvquant.c) and the enumerative synthesis it *)
(* uses (btorsynth.c).  A pair of ground solvers looks for functions for   *)
(* the existential variables: the exists solver knows the formula at the   *)
(* counterexamples found so far and proposes values, synthesis turns them  *)
(* into terms, the forall solver looks for a new counterexample.  A second *)
(* pair does the same for the dual formula in a thread of its own; the     *)
(* first to answer stops the other.                                        *)
(*                                                                         *)
(* A ground query is one step with any answer that is right.  The function *)
(* solver that answers it asks the termination callback before it starts:  *)
(* a query begun after the other thread has its result ends without one,   *)
(* unless rewriting alone refutes it.  A synthesized term is the function  *)
(* of its inputs that it computes; how long the enumeration may take (the  *)
(* limits) only decides whether a term is found.                           *)
(***************************************************************************)
EXTENDS BtorQuant, FiniteSetsExt

CONSTANT Problems     \* the sequences of roots, with the options each is tried with

VARIABLES
  input, opts,
  main,       \* where sat_quant_solver is
  formula,    \* its formula g while the passes run
  gslv,       \* the pairs of ground solvers, "orig" and "dual"
  found,      \* thread_found_result
  answer

vars == <<input, opts, main, formula, gslv, found, answer>>

Names(ps) == {ps[i].x : i \in DOMAIN ps}
SetOf(ps) == {ps[i] : i \in DOMAIN ps}
On(a, ps) == [x \in Names(ps) |-> a[x]]

-----------------------------------------------------------------------------
(* Synthesis.  A term has inputs and the value it computes for them; a row  *)
(* is an assignment of all variables, with the value var has had so far.    *)

Terms(in, var) == {[in |-> in, fun |-> h] : h \in [Assignments(SetOf(in)) -> Domain(var.w)]}
InputTerm(in, i) == [in |-> in, fun |-> [a \in Assignments(SetOf(in)) |-> a[in[i].x]]]
ConstTerm(in, v) == [in |-> in, fun |-> [a \in Assignments(SetOf(in)) |-> v]]
NoTerm(in) == [in |-> in, fun |-> <<>>]
IsTerm(t) == DOMAIN t.fun # {}
Constant(t) == \A a, b \in DOMAIN t.fun : t.fun[a] = t.fun[b]
ValueAt(t, a) == t.fun[On(a, t.in)]

\* eval_exps: the constraint c of a row with another value for var.
EvalExps(c, r, var, v) == Matrix(c, [r EXCEPT ![var.x] = v])

\* check_signature_exps: t keeps the constraints, or without any the values.
Matches(t, var, rows, constraints) ==
  \A r \in rows :
    IF constraints = {} THEN ValueAt(t, r) = r[var.x]
    ELSE \A c \in constraints : EvalExps(c, r, var, ValueAt(t, r)) = Matrix(c, r)

\* check_candidate_exps; a candidate like an earlier one is left out there.
CheckCandidate(t, var, rows, constraints) == IsTerm(t) /\ Matches(t, var, rows, constraints)

\* btor_synthesize_term: what it may return.
SynthesizeTerm(in, var, rows, constraints, prev) ==
  LET good(t) == CheckCandidate(t, var, rows, constraints)
      fits == {i \in DOMAIN in : in[i].w = var.w /\ good(InputTerm(in, i))}
      outs == {r[var.x] : r \in rows}
  IN IF ~Constant(prev) /\ good(prev) THEN {prev}
     ELSE IF fits # {} THEN {InputTerm(in, Min(fits))}
     ELSE IF Cardinality(outs) = 1 THEN {ConstTerm(in, v) : v \in outs}
     ELSE {t \in Terms(in, var) : good(t)} \union {NoTerm(in)}

-----------------------------------------------------------------------------
(* A pair of ground solvers; value is the formula as a ground one, without  *)
(* its quantifiers.                                                         *)

Evars(g) == SetOf(g.evars)
Uvars(g) == SetOf(g.uvars)

\* setup_solvers; the parameters are in the order of their quantifiers.
SetupSolvers(f, dual) ==
  LET qs == PostOrder(f, <<>>, ~dual)
      of(kind) == LET s == SelectSeq(qs, LAMBDA q : q.k = kind)
                  IN [i \in DOMAIN s |-> s[i].e[1]]
      all == {q.e[1] : q \in SetOf(qs)}
  IN [f |-> f, value |-> [a \in Assignments(all) |-> Matrix(f, a) = 1], evars |-> of("exists"), uvars |-> of("forall"), deps |-> VarDeps(f, <<>>, <<>>),
      pc |-> "loop", skip |-> TRUE, res |-> "unknown", ces |-> <<>>, ce |-> <<>>,
      flat |-> <<>>, model |-> <<>>, insts |-> {}, qi |-> <<>>]

\* The skolem functions the exists solver chooses from.
RECURSIVE Skolems(_, _)
Skolems(evars, deps) ==
  IF evars = <<>> THEN {<<>>}
  ELSE {(evars[1].x :> t) @@ rest :
          t \in Terms(deps[evars[1].x], evars[1]), rest \in Skolems(Tail(evars), deps)}

\* build_refinement: the formula at a counterexample.
SkolemValues(g, ce, sk) == [x \in Names(g.evars) |-> ValueAt(sk[x], ce)]
Refinement(g, ce, sk) == g.value[SkolemValues(g, ce, sk) @@ ce]

\* build_quant_inst_refinement: universal variables replaced by terms over
\* existential ones, whose arguments are replaced in turn.
RECURSIVE InstValue(_, _, _)
InstValue(x, inst, sk) ==
  LET t == IF x \in DOMAIN inst THEN inst[x] ELSE sk[x]
  IN t.fun[[y \in Names(t.in) |-> InstValue(y, inst, sk)]]
InstRefinement(g, inst, sk) ==
  g.value[[x \in Names(g.evars) \union Names(g.uvars) |-> InstValue(x, inst, sk)]]

ExistsModels(g) ==
  {sk \in Skolems(g.evars, g.deps) :
     /\ \A ce \in DOMAIN g.ces : Refinement(g, ce, sk)
     /\ \A inst \in g.insts : InstRefinement(g, inst, sk)}

FlatModel(g, sk) == [ce \in DOMAIN g.ces |-> SkolemValues(g, ce, sk)]

-----------------------------------------------------------------------------
(* synthesize_model: a term for every existential variable.                 *)

\* The Boolean nodes that a wide variable reaches through wide ones.
RECURSIVE WideAbove(_, _)
WideAbove(t, var) ==
  t.w > 1 /\ (Real(t) = var \/ \E i \in DOMAIN t.e : WideAbove(t.e[i], var))
BooleanLayer(f, var) ==
  IF var.w = 1 THEN {var}
  ELSE {n \in SubTerms(f) : n.w = 1 /\ \E i \in DOMAIN n.e : WideAbove(n.e[i], var)}

Constraints(g, var, mode) ==
  CASE mode \in {"elmc", "el_elmc"} -> BooleanLayer(g.f, var)
    [] mode = "elmr" -> {g.f}
    [] OTHER -> {}

\* synthesize: equal values first, then by the constraints.
Synthesize(g, var, rows, mode, prev) ==
  LET in == g.deps[var.x]
      first == IF mode \in {"el", "el_elmc"} THEN SynthesizeTerm(in, var, rows, {}, prev)
               ELSE {NoTerm(in)}
      second == SynthesizeTerm(in, var, rows, Constraints(g, var, mode), NoTerm(in))
  IN IF NoTerm(in) \in first THEN (first \ {NoTerm(in)}) \union second ELSE first

\* update_flat_model: the later variables see the values of the term.
UpdateFlatModel(flat, var, t) ==
  [ce \in DOMAIN flat |-> [flat[ce] EXCEPT ![var.x] = ValueAt(t, ce)]]

\* mk_concrete_ite_model: the values as they are; where there is none, zero
\* or a fresh value.
ConcreteIteModel(g, var, flat) ==
  LET in == g.deps[var.x]
      known == {On(ce, in) : ce \in DOMAIN flat}
      value(a) == flat[CHOOSE ce \in DOMAIN flat : On(ce, in) = a][var.x]
  IN [in |-> in,
      fun |-> [a \in (IF opts.complete THEN Assignments(SetOf(in)) ELSE known) |->
                 IF a \in known THEN value(a) ELSE 0]]

Previous(g, var) ==
  IF var.x \in DOMAIN g.model /\ ~g.model[var.x].partial THEN g.model[var.x].term
  ELSE NoTerm(<<>>)

\* The models after the variables from the i-th to the n-th.
RECURSIVE SynthesizeModel(_, _, _, _, _)
SynthesizeModel(g, i, n, flat, model) ==
  IF i > n THEN {model}
  ELSE LET var == g.evars[i]
           rows == {flat[ce] @@ ce : ce \in DOMAIN flat}
           with(t, partial) == (var.x :> [term |-> t, partial |-> partial]) @@ model
           after(t) == IF opts.fixsynth THEN UpdateFlatModel(flat, var, t) ELSE flat
           some(t) == SynthesizeModel(g, i + 1, n, after(t), with(t, FALSE))
           none == SynthesizeModel(g, i + 1, n, flat,
                                   with(ConcreteIteModel(g, var, flat), TRUE))
           const == SynthesizeModel(g, i + 1, n, flat,
                                    with(ConcreteIteModel(g, var, flat), FALSE))
       IN IF g.deps[var.x] = <<>> THEN const
          ELSE IF opts.synth = "none" THEN none
          ELSE UNION {IF IsTerm(t) THEN some(t) ELSE none :
                        t \in Synthesize(g, var, rows, opts.synth, Previous(g, var))}

-----------------------------------------------------------------------------
(* instantiate_formula: what the variables may be where the universal ones  *)
(* are u.  Without a model a variable is a free skolem constant.            *)

Instances(g, u) ==
  LET fixed(x) == x \in DOMAIN g.model /\ On(u, g.model[x].term.in) \in DOMAIN g.model[x].term.fun
  IN {e \in Assignments(Evars(g)) :
        \A x \in DOMAIN e : fixed(x) => e[x] = ValueAt(g.model[x].term, u)}

CounterExamples(g) ==
  {c \in {[u |-> u, e |-> e] : u \in Assignments(Uvars(g)), e \in Assignments(Evars(g))} :
     c.e \in Instances(g, c.u) /\ ~g.value[c.e @@ c.u]}

\* synthesize_quant_inst: for every universal variable a term over the
\* existential ones around it and the outermost ones.
InstInputs(g, var) ==
  g.deps[var.x] \o SelectSeq(g.evars, LAMBDA e : g.deps[e.x] = <<>>
                                                 /\ e \notin SetOf(g.deps[var.x]))

InstTerms(g, var, rows) ==
  LET in == InstInputs(g, var)
      prev == IF var.x \in DOMAIN g.qi THEN g.qi[var.x] ELSE NoTerm(in)
  IN IF in = <<>> THEN {NoTerm(in)}
     ELSE SynthesizeTerm(in, var, rows, {Invert(g.f)}, prev)

RECURSIVE QuantInsts(_, _, _)
QuantInsts(g, uvars, rows) ==
  IF uvars = <<>> THEN {<<>>}
  ELSE {(uvars[1].x :> t) @@ rest :
          t \in InstTerms(g, uvars[1], rows), rest \in QuantInsts(g, Tail(uvars), rows)}

\* Where no term is found the counterexample's value is taken.
WithConstants(g, inst) ==
  [x \in DOMAIN inst |-> IF IsTerm(inst[x]) THEN inst[x] ELSE ConstTerm(<<>>, g.ce.u[x])]

-----------------------------------------------------------------------------
(* sat_quant_solver: the passes, then the search.                           *)

Init ==
  /\ \E p \in Problems : input = p.input /\ opts = p.opts
  /\ main = "normalize" /\ formula = None
  /\ gslv = <<>> /\ found = FALSE /\ answer = "none"

Pass(from, to, f) ==
  /\ main = from /\ main' = to
  /\ formula' = f
  /\ UNCHANGED <<input, opts, gslv, found, answer>>

Normalize ==
  LET f == NormalizeQuantifiers(input)
  IN Pass("normalize", IF f = None THEN "aborted" ELSE "miniscope", f)
SimplifyMiniscope == Pass("miniscope", "der", IF opts.miniscope THEN Miniscope(formula) ELSE formula)
SimplifyDer == Pass("der", "cer", IF opts.der THEN Der(formula) ELSE formula)
SimplifyCer == Pass("cer", "setup", IF opts.cer THEN Cer(formula) ELSE formula)

Setup ==
  /\ main = "setup" /\ main' = "search"
  /\ gslv' = IF opts.dual
             THEN [orig |-> SetupSolvers(formula, FALSE),
                   dual |-> SetupSolvers(DualFormula(formula), TRUE)]
             ELSE [orig |-> SetupSolvers(formula, FALSE)]
  /\ formula' = None
  /\ UNCHANGED <<input, opts, found, answer>>

-----------------------------------------------------------------------------
(* find_model, in the loop of its thread.                                   *)

At(s, pc) == main = "search" /\ gslv[s].pc = pc
Go(s, g) == gslv' = [gslv EXCEPT ![s] = g] /\ UNCHANGED <<input, opts, main, formula, found, answer>>
Terminated == opts.dual /\ found

\* Seeded fault: the counterexamples are dropped in every round.
AgainForgetful(g) == [g EXCEPT !.pc = "loop", !.flat = <<>>, !.ce = <<>>, !.ces = <<>>]

\* The end of find_model without a result, and with one.
Again(g) == [g EXCEPT !.pc = "loop", !.flat = <<>>, !.ce = <<>>]
Ended(g, r) == [g EXCEPT !.pc = "loop", !.res = r]

\* The head of the loop; the first call skips the exists solver.
Loop(s) ==
  /\ At(s, "loop")
  /\ Go(s, IF gslv[s].res = "unknown" /\ ~Terminated
           THEN [gslv[s] EXCEPT !.pc = IF gslv[s].skip THEN "forall" ELSE "exists", !.skip = FALSE]
           ELSE [gslv[s] EXCEPT !.pc = "publish"])

\* A query ends without an answer when the other thread has one.
GiveUp(s) ==
  /\ At(s, "exists") \/ At(s, "forall")
  /\ Terminated
  /\ Go(s, Again(gslv[s]))

\* Seeded fault: a query is answered after the other thread was done.
AskedLate == TRUE

\* A query is answered that was begun in time.
Asked == ~Terminated

QueryExists(s) ==
  /\ At(s, "exists")
  /\ LET g == gslv[s]
         flats == {FlatModel(g, sk) : sk \in ExistsModels(g)}
     IN \/ /\ flats = {}
           /\ Go(s, Ended(g, "unsat"))
        \/ /\ Asked
           /\ \E flat \in flats : Go(s, [g EXCEPT !.pc = "synth", !.flat = flat])

\* Synthesis stops between two variables when the other thread is done.
SynthModel(s) ==
  /\ At(s, "synth")
  /\ LET g == gslv[s] IN
     \E n \in (IF Terminated THEN 0 ELSE Len(g.evars))..Len(g.evars) :
     \E model \in SynthesizeModel(g, 1, n, g.flat, <<>>) :
       Go(s, [g EXCEPT !.pc = "forall", !.flat = <<>>, !.model = model])

\* Without universal variables the formula is ground.
QueryForall(s) ==
  /\ At(s, "forall")
  /\ LET g == gslv[s]
         sat == {e \in Instances(g, <<>>) : g.value[e]}
         ces == CounterExamples(g)
     IN \/ /\ g.uvars = <<>> /\ sat = {}
           /\ Go(s, Ended(g, "unsat"))
        \/ /\ g.uvars = <<>> /\ sat # {} /\ Asked
           /\ Go(s, Ended(g, "sat"))
        \/ /\ g.uvars # <<>> /\ ces = {}
           /\ Go(s, Ended(g, "sat"))
        \/ /\ g.uvars # <<>> /\ Asked
           /\ \E c \in ces : Go(s, [g EXCEPT !.pc = "refine", !.ce = c])

\* refine_exists_solver
RefineExistsSolver(s) ==
  /\ At(s, "refine")
  /\ LET g == [gslv[s] EXCEPT !.ces = (gslv[s].ce.u :> gslv[s].ce.e) @@ @]
     IN Go(s, IF opts.qi THEN [g EXCEPT !.pc = "inst"] ELSE Again(g))

QuantInst(s) ==
  /\ At(s, "inst")
  /\ LET g == gslv[s]
         rows == {g.ces[ce] @@ ce : ce \in DOMAIN g.ces}
     IN \E inst \in QuantInsts(g, g.uvars, rows) :
          LET terms == {x \in DOMAIN inst : IsTerm(inst[x])}
              new == IF terms = {} THEN {} ELSE {WithConstants(g, inst)}
          IN Go(s, Again([g EXCEPT !.insts = @ \union new,
                                   !.qi = [x \in terms |-> inst[x]]]))

\* The end of thread_work, under the lock.
Publish(s) ==
  /\ At(s, "publish")
  /\ gslv' = [gslv EXCEPT ![s].pc = "done"]
  /\ found' = TRUE
  /\ UNCHANGED <<input, opts, main, formula, answer>>

-----------------------------------------------------------------------------
(* run_parallel after the threads are joined.                               *)

\* Seeded fault: the answer for the dual is handed out as it is.
OppositeSame(r) == r
Opposite(r) == IF r = "sat" THEN "unsat" ELSE "sat"

Join ==
  /\ main = "search" /\ \A s \in DOMAIN gslv : gslv[s].pc = "done"
  /\ answer' = IF gslv["orig"].res # "unknown" THEN gslv["orig"].res
               ELSE Opposite(gslv["dual"].res)
  /\ main' = "done"
  /\ UNCHANGED <<input, opts, formula, gslv, found>>

Step(s) == \/ Loop(s) \/ GiveUp(s) \/ QueryExists(s) \/ SynthModel(s)
           \/ QueryForall(s) \/ RefineExistsSolver(s) \/ QuantInst(s) \/ Publish(s)

Passes == Normalize \/ SimplifyMiniscope \/ SimplifyDer \/ SimplifyCer \/ Setup

Next == Passes \/ Join \/ \E s \in DOMAIN gslv : Step(s)

(* The main thread and the two search threads run: weak fairness of their   *)
(* steps, the state in which one can be taken being written out.            *)
Searching(s) == main = "search" /\ s \in DOMAIN gslv /\ gslv[s].pc # "done"
Moves(s) == Searching(s) /\ gslv'[s] # gslv[s]
MainRuns == main \notin {"done", "aborted"} /\ ~Searching("orig") /\ ~Searching("dual")
Fairness ==
  /\ []<>~MainRuns \/ []<><<main' # main>>_vars
  /\ []<>~Searching("orig") \/ []<><<Moves("orig")>>_vars
  /\ []<>~Searching("dual") \/ []<><<Moves("dual")>>_vars
Spec == Init /\ [][Next]_vars /\ Fairness

-----------------------------------------------------------------------------
(* Properties.                                                              *)

(* Two formulas that normalization is known to change: a quantifier below    *)
(* an odd number of negations with a conditional over quantifiers in its    *)
(* scope (the definition of the conditional's value is weakened, not        *)
(* strengthened, there); and a quantifier whose negation was pushed into it *)
(* and that is met again with the same polarity (the negation stays then).  *)
QuantifiedIteBelow(t) == \E s \in SubTerms(t) : s.k = "cond" /\ QuantifierBelow(s.e[1])
RECURSIVE NegatedIte(_, _)
NegatedIte(t, even) ==
  LET here == even # t.inv
  IN \/ IsQuantifier(t) /\ ~here /\ QuantifiedIteBelow(BodyOf(t))
     \/ \E i \in DOMAIN t.e : NegatedIte(t.e[i], here) \/ (BoolEq(t) /\ NegatedIte(t.e[i], ~here))
Misread(roots) ==
  \/ \E i \in DOMAIN roots : NegatedIte(roots[i], TRUE)
  \/ FixQuantifierPolarities(CollectExistentialVars(ElimQuantifiedIte(roots))).st.twice

(* Every pass of sat_quant_solver keeps what the conjunction of the roots   *)
(* says, a variable being free in it, unless normalization misread it, and  *)
(* leaves the quantifiers on the Boolean skeleton as normalize_quantifiers  *)
(* asserts.                                                                 *)
PassesKeepTruth ==
  formula # None => /\ Misread(input) \/ Holds(formula) = Satisfiable(input)
                    /\ InBoolSkeleton(formula)

(* What boolector_sat returns is right, whatever the ground solvers and the *)
(* synthesis chose, in whatever order the two threads ran, for a formula    *)
(* that normalization did not misread.                                      *)
AnswerRight == answer # "none" /\ ~Misread(input) => (answer = "sat") = Satisfiable(input)

(* No counterexample comes twice: what synthesis proposes still satisfies   *)
(* all refinements (the assertion of refine_exists_solver), so the search   *)
(* makes progress with every round.                                         *)
NewCounterExample ==
  \A s \in DOMAIN gslv : gslv[s].pc = "refine" => gslv[s].ce.u \notin DOMAIN gslv[s].ces

(* The two threads never contradict each other, and when one stops because  *)
(* of the other, there is a result: run_parallel reads "no result" of both  *)
(* as sat.                                                                  *)
ResultsAgree ==
  /\ \A s, t \in DOMAIN gslv :
       s # t /\ gslv[s].res # "unknown" /\ gslv[t].res # "unknown" => gslv[s].res # gslv[t].res
  /\ found => \E s \in DOMAIN gslv : gslv[s].pc = "done" /\ gslv[s].res # "unknown"

(* The search ends with an answer, unless normalization was aborted for a    *)
(* Boolean equality over quantifiers that is shared.                        *)
Answers == <>(answer # "none" \/ main = "aborted")
=============================================================================
