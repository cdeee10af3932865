# A TLA+ verification of Boolector

Boolector is a solver for formulas over bit-vectors, arrays and uninterpreted
functions. A user builds terms through a C API, asserts and assumes them, asks
for satisfiability, and reads a model or the failed assumptions; a model checker
for word-level transition systems is built on the same API. This directory
models the parts of Boolector that keep state over many calls and whose order of
steps matters, checks them with TLC on small instances, and proves the central
invariants with TLAPS for all values of the parameters. All line numbers refer to
`src/src/`.

Everything runs from this directory:

    tlc -workers 2 -config MCBtorSession.cfg MCBtorSession    # any run
    tlapm BtorFunSolverProofs.tla                              # any proof

`PROJECT.json` lists components, runs, the source lines of every definition, the
hazards the properties are aimed at, the findings, and for every property a
seeded fault (a definition marked "Seeded fault" in the module) that breaks it.

## 1. Inventory

### Incremental API and session (`boolector.c`, `btorcore.c`)

* State: the stack `assertions` with one mark per context level and a cache; the
  constraint tables; simplified pointers; `assumptions` (simplified),
  `orig_assumptions` (as assumed) and `failed_assumptions`; the flags
  `inconsistent`, `valid_assignments`, `last_sat_result`; the model.
* Operations: push, pop, assert, assume, reset, fixate, failed assumptions,
  simplify, sat and limited sat.
* Interactions: every call may rewrite nodes; `btor_check_sat` assumes the
  assertions of the open contexts, simplifies, and hands the rest to an engine;
  what is read afterwards depends on flags set by earlier calls.
* Hard: long sequences of legal calls, values that are read after the formula
  changed, tables that are reset by one of several calls which use them.
* Correct if: the answer is right for constraints, contexts and assumptions of
  that check; assumptions count for one check; failed assumptions are a core; a
  readable model satisfies what was checked; contexts nest.

### Function solver (`btorslvfun.c`)

* State: lemma cache, lemmas of the round, limits, counters, the candidate of the
  SAT solver; in one consistency check: the propagation stack, marks and the rho
  tables of the functions.
* Operations: the refinement loop (SAT call, consistency check, lemmas); the
  propagation of an apply over updates, conditionals and lambdas; the lemma.
* Interactions: polled termination callback, limits set by `btor_check_sat`,
  lemmas assumed for the quantifier engine.
* Hard: termination of the loop, a cache that outlives the assumptions, conflicts
  that are not seen because of the order of the stack.
* Correct if: SAT only for candidates that extend to functions, UNSAT only for
  unsatisfiable input, lemmas valid and refuting, every check returns.

### Node graph, constraints and substitution (`btornode.c`, `btorexp.c`, `btorcore.c`, `btorsubst.c`, `preprocess/btorvarsubst.c`, `preprocess/btorembed.c`)

* State: nodes with children, reference counts, external references, simplified
  pointer and flags; unique table; constraint, embedded-constraint and
  substitution tables; during a pass the uncounted stack and the caches.
* Operations: build, copy, release, assert, simplify, delete.
* Interactions: replacing a node may insert constraints and create nodes while
  the pass that replaces it is running; a release may free nodes the pass holds.
* Hard: exact reference counts, no dangling pointer, hash consing while the graph
  changes, cyclic substitutions.
* Correct if: the solutions of the assertions and the meaning of every handle are
  kept, counts are exact, nothing dangles or leaks, and simplification ends.

### Model checker (`btormc.c`, `boolectormc.c`)

* State: the declared system, options, frames, the incremental `forward`
  instance, reached bounds, the model checker's state, per-frame value maps.
* Operations: declarations, options, `bmc`, `kind`, reading of reached bounds and
  assignments.
* Interactions: several calls continue on the same frames; options are read again
  in every call; constraints asserted for one property stay for the others.
* Correct if: recorded bounds are those of shortest violations, what k-induction
  reports unsat is unreachable, no violation within the bound is missed, the
  witness is the one that was found, and calls return.

### Bit-vectors (`btorbv.c`, `utils/btorutil.c`)

* State: none; a value is an array of 32 bit words with spare bits in front.
* Operations: all bit-vector operators, tests and counts, conversions to and from
  digit strings and machine integers, random values.
* Interactions: model values, rewriting of constants, the local search engines
  and the printers compute with these.
* Hard: widths around a multiple of the word size, carries into the spare bits,
  shift amounts that are wider than a machine integer, division by zero, the
  smallest signed number.
* Correct if: every result is that of the arithmetic on numbers modulo the width,
  and printed values read back.

### Rewriting and term construction (`btorrewrite.c`, `btorexp.c`, `boolector.c`)

* State: none of its own; a term is built from terms. The context of a call is
  the rewrite level, the rewriting options and the depth of the recursion.
* Operations: every term constructor of the API; below it the constructors of
  `btorexp.c`, below these one rewrite function per operator with its rules.
* Interactions: rules build terms through the rewriter again; a rule that is cut
  off by the recursion bound leaves another rule to apply.
* Hard: several hundred rules whose side conditions (width one, zero, inverted
  pointers, sorted children) are easily wrong, and which meet in combinations.
* Correct if: what is built means what the function's documentation says, at
  every rewrite level.

### AIGs, bit-blasting and the SAT manager (`btoraig.c`, `btoraigvec.c`, `btorsat.c`, `btorcore.c`)

* State: the AIG manager's nodes with reference counts and CNF ids, its unique
  table; the clauses; the vectors of synthesized expressions.
* Operations: and-nodes with two-level simplification, the circuit of every
  operator, clause generation, constraints, assumptions, release.
* Interactions: circuits create and release intermediate nodes by hand; nodes are
  encoded lazily and released while the SAT solver keeps their clauses; literals
  the SAT solver knows are read back during construction.
* Correct if: counts are exact, vectors and clauses mean their expression, and
  the answer under assumptions is right.

### Local search engines (`btorslvprop.c`, `btorslvsls.c`, `btorslvaigprop.c`, `aigprop.c`, `btorlsutils.c`, `btorslsutils.c`, `btorproputils.c`)

* State: a complete assignment, the cached values of inverted nodes, the violated
  roots, scores, weights, the best neighbour so far, counters.
* Operations: select a root, propagate a target value to an input, or try
  neighbours; apply the move; restart; give up at a limit.
* Interactions: three copies of incremental bookkeeping that must agree with the
  assignment; random choices steer every step.
* Correct if: what is kept incrementally equals what is computed from scratch,
  inverse and consistent values are what their operator needs, SAT and UNSAT are
  right, and the search for a move ends.

### Cloning (`btorclone.c`, `btorchkclone.c`, `btorsort.c`)

* State: instances, each with sorts, nodes linked by tagged pointers, tables and
  an engine; the map from nodes to copies that a solver keeps.
* Operations: clone for the user, shadow clone, expression layer of a solver,
  rebuilding of later nodes in the layer, comparison, deletion in any order.
* Hard: every pointer field has to be mapped; one that is not works until the
  original is deleted.
* Correct if: no instance leads into another, the shadow is exact and stays it,
  counts in every instance are exact.

### Quantifier engine (`btorslvquant.c`, `btorsynth.c`, `preprocess/btornormquant.c`, `btorminiscope.c`, `btorder.c`)

* State: the formula, two ground solvers per thread, counterexamples, the last
  synthesized functions, the flag by which one thread stops the other.
* Operations: normal form, miniscoping, equality resolution, dual formula; then
  rounds of propose, generalize, refute and refine.
* Hard: scopes and polarities; two threads of which the first result wins;
  progress depends on proposals that respect all counterexamples.
* Correct if: each pass keeps the truth of the formula, the answer is right,
  counterexamples do not repeat, the threads agree, and an answer comes.

### Parts without a module

The other preprocessing passes, options, beta reduction and don't-care reasoning,
SAT solver bindings, parsers, dumpers, the C++ interface, drivers and bindings.
`PROJECT.json` says for each of them why it has none.

## 2. Modules

| module | models | used by |
|---|---|---|
| `SmtContext` | abstract: what an incremental solver promises | `BtorSession` refines it |
| `BtorSession` | API calls and `btor_check_sat` | `MCBtorSession`, `BtorSessionProofs`, `BtorSessionRefinement` |
| `BtorFunSolver` | `sat_fun_solver` as `btor_check_sat` drives it | `MCBtorFunSolver`, `BtorFunSolverProofs` |
| `BtorPropagate` | one consistency check | `MCBtorPropagate`, `BtorPropagateProofs`, `BtorPropagateAccepts` |
| `BtorNodes` | reference counts, constraints and the substitution pass | `MCBtorNodes` |
| `BtorMC` | the model checker | `MCBtorMC`, `BtorMCProofs` |
| `BtorBv` | bit-vector values and constants | `BtorBvCalls` |
| `BtorTerms` | terms as nodes, and their meaning | the next four, `BtorProp`, `BtorQuant` |
| `BtorPatterns`, `BtorRewrite` | what rules look at; the rewriter | `BtorExp` |
| `BtorExp` | derived constructors | `BtorApi` |
| `BtorApi` | the calls that build terms | `MCBtorApi` |
| `BtorProp` | path selection, inverse and consistent values | `BtorLocalSearch` |
| `BtorLocalSearch` | the engines PROP, SLS and AIGPROP | `MCBtorLocalSearch`, `BtorLocalSearchProofs` |
| `BtorAig`, `BtorAigVec` | AIG manager, clauses, SAT manager; circuits | `BtorBlast` |
| `BtorBlast` | synthesis, constraints, assumptions | `MCBtorBlast` |
| `BtorSorts`, `BtorGraph` | sorts and nodes as memory with tagged pointers | `BtorClone` |
| `BtorClone` | instances, clones, shadow check, layers | `MCBtorClone` |
| `BtorQuant` | quantified formulas and the passes on them | `BtorQuantSolver` |
| `BtorQuantSolver` | the quantifier engine with its two threads | `MCBtorQuant` |
| `BtorRecursion` | no code: lemmas on least numbers and on recursive definitions | `BtorMCProofs`, `BtorPropagateProofs`, `BtorLocalSearchProofs` |

The modules describe one system at different depths. `BtorSession` has a
nondeterministic simplification step that may do any equivalence preserving
substitution of a cone of nodes; `BtorNodes` runs such a pass pointer by pointer
and shows (`SolutionsKept`, `HandlesKeepMeaning`) that it is one, and `BtorApi`
shows that rewriting a new term keeps its meaning. The engine is a correct oracle
in `BtorSession`. Behind it, `BtorFunSolver` shows that the loop answers correctly
if lemmas are valid and refute the candidate (`LemmaAssumption`), and
`BtorPropagate` shows the latter for every expression graph (`LemmasCorrect`,
`AcceptsCorrect`; an instance of extensionality need not refute the candidate, it
may bring in new applies instead, and `BtorFunSolver` does not have those);
`BtorBlast` shows that the candidates of the SAT solver are those of the
skeleton; `BtorLocalSearch` and `BtorQuantSolver` are the other engines. `BtorMC`
and `BtorQuantSolver` use an engine as such an oracle.

### BtorSession

Nodes are elements of `Exp` with an inversion `Neg`, a meaning `Den` (a set of
worlds) and, for top-level conjunctions, their conjuncts `Leaf`. Each API call is
one action, and contains all that the call does: `Simplify` and `CheckSat`
contain `btor_reset_incremental_usage`, the substitution pass, the moving of
constraints to substituted nodes and the update of the assumptions. An abort is a
guard. `AddConstraints` may or may not notice a real inconsistency, since that
depends on rewriting. Incremental usage and model generation are switched on.
`assumed` is a history variable: those of the original assumptions that the user
made, and not a check for the open contexts. `SmtContext` fixates only them, so
`ImplementsContext` leaves one step out by name: a fixate that finds assertions of
contexts among the assumptions of the last check (`FixatesContexts`, section 5).

### BtorFunSolver

A candidate is an assignment of the bit-vector skeleton; lemmas cut sets of
candidates. One action per step of the loop: the poll at the top, the three
answers of the SAT solver, the consistency check, the addition of lemmas; the
termination callback may be installed, removed and fire at any poll and inside
the SAT solver. Limits are kept in the engine as the code does. A lemma may be
inserted for good or only assumed (`assume_lemmas`, the engine's field of that
name), and the cache is reset at the start of a check only in the second case.

### BtorPropagate

The stack of pairs (apply, function), the mark `propagated`, the search cache and
the `rho` tables are those of the code; the premises of a lemma are collected on
the way from the apply to the conflict as `add_lemma` does. Functions are
uninterpreted, updates, conditionals, or a lambda whose body is a conditional.
All candidates are initial states, and so are all orders of the initial applies
and all values of the eager-lemmas option. A function equality is a term with two
sides and the fresh variable of its inequality constraint
(`add_function_inequality_constraints`), which every candidate satisfies; when
propagation finds no conflict, the tables of sides that are equal in the candidate
are compared (`GenerateTable`, `AddExtensionalityLemmas`). `Refine` adds the lemmas
with their applies and takes another candidate. The lemma cache holds only what
was added, as without assumed lemmas (`BtorFunSolver` has both modes).

A graph is a constant record, and `GraphAssumption` says what it may be: every
kind of node has its parts (`Typed`), a node is of one kind and an apply exists
once, as in the unique table (`Apart`), and there are no cycles (`Founded`). Two
further conditions are about function equalities. `Compared`: both sides are
applied to the variable of the inequality constraint, and an instance of
extensionality finds its apply in the graph, since `btor_exp_apply` would create
it. `Searched`: as every equality is in its inequality constraint
(`btorslvfun.c:495-570`), `search_initial_applies_bv_skeleton` comes through it,
down to the first apply on each way, so these applies are initial; a lambda on
such a way would have to be an array and is left out. TLC evaluates all of them
for the graphs of the run.

### BtorNodes

Boolean variables and equalities are enough to create every kind of event of the
graph: sharing, commutative operands, substitutions (an equality with a
variable), cyclic ones, constraints inside other terms, terms that collapse when
a variable is replaced. The substitute pass is one action per visit of the stack
(`VisitSkip`, `VisitPre`, `VisitPost`), releases are one action per node. Which
substitutions of a cycle are given up is a nondeterministic choice that leaves an
acyclic rest. `models` is a history variable. `user` is fixed at the start: what
the user has built before and may still do (`Users`). `SolverStep` groups the
steps that happen without the user.

### BtorMC

The forward instance is the set of its models, paths with one point per frame.
`Call` starts `bmc` or `kind`; then one action per frame creation and per solver
call with its outcome (`ReachBad`, `BaseUnsat`, `InductionFails`,
`InductionHolds`, ...). `AddSimplePathConstraints` removes the paths that repeat
the pairs of states found equal in the model. Two variables are not in the code:
`proved` (the code only prints "unsat") and `gap`, the pairs of a property and a
bound at which it was left unchecked (below a minimal bound, or behind the first
property reached). `ReachedExact` and `ProofsSound` do not leave such properties
out: they say that if the answer about one is wrong, its shortest violations
lie at a bound in `gap`. k-induction may be switched when there are frames already;
`assumed` says that it was set for all of them.

### BtorBv

A value is its width and its words, most significant first, as in the build
without GMP. Every function of `btorbv.c` on values is an operator of the same
name that works on words: masks, carries and borrowed bits between words, the
short cut through `uint64_t`, restoring division, the extended Euclid of
`mod_inverse`. Digit strings are sequences of digits; their addition and
multiplication (`btorutil.c`) go digit by digit. `BtorBvCalls` makes one call on
arbitrary operands and compares the result with arithmetic on numbers.
Where C leaves a shift undefined (`btorbv.c:1020`, `1042`, `221`) the model takes
the amount modulo the word size, as the machine does.

### BtorTerms, BtorPatterns, BtorRewrite, BtorExp, BtorApi

A term is a record that stands for its node, with the inversion tag as a field;
equal records are the same node, as hash consing makes them. A rule of the
rewriter is an operator that yields the new term or `None`; the sequence of rules
of a rewrite function is a chain of `??` in the code's order, so a later rule is
reached only when the earlier ones do not apply. All construction goes through
`Make` (operators) and `Build` (derived functions), which carry the recursion
counter. `BtorApi` makes calls on terms built by earlier calls, checks arguments
as the API does (a failed check ends the program, `aborted`), and compares the
result of the last call with `Documented`, which is written from `boolector.h` and
not from the rewriter.

### BtorProp, BtorLocalSearch

`BtorProp` gives, for a node, its operands' values and a target, the set of all
values the code may pass down, whichever way the random number generator goes.
`BtorLocalSearch` keeps assignment, roots, scores and weights as the engines do;
actions are the initialization, the restart, the choice of a root, one step of
propagation, one neighbour of the SLS search, and the move with its update of the
cone. Doubles are multiples of `1/Unit`. The candidates of an SLS move and their
groups are sets: the code tries them in the order of its traversal,
and the model leaves the order open.

### BtorAig, BtorAigVec, BtorBlast

An AIG manager is a record that operations take and return. The SAT solver is the
set of assignments that satisfy its clauses. Which calls of the manager an
operator's circuit makes depends on the widths only, so a circuit is written as
the list of its calls, releases included, and `Perform` makes them. `BtorBlast`
creates expressions, synthesizes them, adds constraints and assumptions, deletes
expressions, and tells the manager what the SAT solver knows
(`btor_sat_fixed`).

### BtorSorts, BtorGraph, BtorClone

A pointer is an instance, an object in it and a tag. `BtorGraph` has the chains of
the unique table, the parent lists linked through child positions, parameters and
binders, and the constructors, copy, release and simplification of nodes on that
memory. `BtorClone` copies an instance field by field in the order of the code;
instances are the user's, its shadow, a clone the user goes on with, and the
layer of a solver. Every API call is an action on one instance, and on its shadow
if it has one; releases, simplification, cloning and deletion interleave.

### BtorQuant, BtorQuantSolver

The passes are operators on terms with parameters and quantifiers; names of inputs,
of variables for conditionals and of fresh copies are kept apart as numbers. In
`BtorQuantSolver` the passes are actions, followed by one action per step of a
thread: head of the loop, the query to the exists solver, synthesis, the query to
the forall solver, refinement, instantiation, publication of the result; `Join`
is `run_parallel` after both threads. A query begun after the other thread has
published may only end unknown, or unsat where rewriting decides it, since the
function solver polls the callback before it starts (`btorslvfun.c:2482`).

## 3. Runs

| run | states | shows |
|---|---|---|
| `session` | 115 000 | any sequence of calls over two variables, their conjunction and negations, two levels and two assertions above level 0: the context stack is consistent, assumptions keep their meaning, failed assumptions are a core, models satisfy what was checked, and the session implements `SmtContext` but for a fixate of context assertions |
| `funsolver` | 329 000 | answers are right, cached lemmas are in effect, and every check returns, under limits, interruptions and both modes of adding lemmas |
| `propagate` | 259 000 | for every candidate, order and eager mode, and for all rounds with a function equality: lemmas are valid and exclude the candidate or bring in new applies, no lemma means consistent, the refinement ends |
| `nodes` | 564 000 | a user of two variables who does anything, and two of three variables with cyclic substitutions or an embedded constraint: exact counts, nothing dangles or leaks, hash consing, solutions and handles kept, simplification ends |
| `mc` | 827 000 | bounds exact, and proofs sound, up to shortest violations at a bound that was left unchecked; witness stands, calls return |
| `bv` | 253 000 | every operation on every value of up to three words: spare bits zero, results equal to arithmetic, tests and counts right, printed constants read back |
| `api` | 382 000 | every function that builds bit-vector terms, on inputs at every rewrite level and on built operands, returns a term of the documented width and meaning; linear terms are split right |
| `localsearch` | 481 000 | incremental model, roots and scores equal those from scratch; values passed down are exact unless a shift amount was cut; answers sound; the search for a move ends, with segment moves if words are as long as a segment |
| `blast` | 188 000 | AIG counts and hash consing, vectors, clauses and answers are exact for every operator, every small graph, and constraints and assumptions in any order |
| `clone` | 195 000 | no instance leads into another, the shadow is exact but for keys the clone of a table loses, counts are exact in every instance, in any order of calls, clones and deletions |
| `quant` | 208 000 | passes keep the truth of what normalization does not misread, and then the answer is right; no counterexample repeats, the threads agree, an answer comes |
| `quant_miniscope` | violation | miniscoping moves a universal variable below an existential one: a satisfiable formula is answered unsat |

The finding of `PROJECT.json` quotes the line the code disagrees with. The build
answers `unsat` for that formula too, and `sat` with `--quant-ms=0`.

### Bounds

* `session`: `MaxLevel` 2 so that a pop can remove one or several levels;
  `MaxAssert` 2 so that an assertion is repeated at an inner level, and some are
  kept and some removed by a pop. One conjunction and its parts are enough for
  flattening, for assumptions that share conjuncts and for substitutions that
  merge nodes. The user passes a negated variable and the conjunction, which
  contradict each other.
* `funsolver`: four candidates, one consistent, one lemma subsuming two others
  and one reported for a consistent candidate. `MaxRefinements` bounds the lemmas
  counted before the last check begins; the check itself is not cut.
* `propagate`: two values for every term. `Nested` has eight terms and six
  functions, so that an apply takes ways of up to three functions and an element of
  an update is itself an apply; one round, for every assignment. `Equal` compares a
  conditional of an update with an uninterpreted function, through all rounds.
* `nodes`: of a user, `maxUse` stops the creation of nodes, `maxId` (never
  reached) leaves room for those of simplification; `maxExt` 2 for the free user
  makes releases of one of two handles possible. The scripted users start with
  built terms and release only a variable and an equation.
* `mc`: three states, so shortest violations have at most two steps and a bound
  of 3 goes past them; two properties so that each can disturb the other. A minimal
  bound of 1 skips bound 0, where one of the properties may be violated; the options
  may change between calls, k-induction too.
* `bv`: words of `LimbBits` 2 bits stand for those of 32, twice that for
  `uint64_t`. Widths 1 to 6 (`MaxWidth`) are one, two and three words, each with
  and without spare bits, on both sides of the short cut; results of a
  concatenation have up to 8 bits (`MaxConcat`), extensions and products for the
  overflow test up to 12. All pairs of values are operands.

* `api`: widths 1 to 3 (`MaxWidth` 6 for results) contain the cases a rule
  distinguishes: one bit, two bits, and a middle bit; two built operands reach
  rules that look at the operands of operands. The bound on the recursion
  (4096 in the code) is part of a program: 16 (`Ample`) is never reached by these
  terms, 0, 1 and 2 (`Scarce`) are, and rules then end half way with a node that is
  created as it is. One program has sums, inverted sums and inverted inputs as
  operands, so that `linear` splits sums of sums and negations in and of them. All
  values of the two-bit and one-bit variables are evaluated; the three-bit one takes
  the values that a function of them gives.
* `localsearch`: one formula per kind of node, at widths 2 and 3, one nested
  formula under each strategy, shifts of wide words, and segment moves on words of
  3, 4 and 5 bits. `StepsFactor`, `MaxRestarts`, `MaxWeight`, `ProbMax` scale
  counters so that each of them is exceeded. `WordBits` 4, `ShiftBits` 4 and
  `UintBits` 3 stand for the 64, 33 and 32 bits of a word, of a value read from a
  longer one and of a `uint32_t`, so shift amounts are cut in words of more than 3
  bits. `SegBits` 4 stands for the 8 bits of the smallest segment: words
  shorter than it are in the run, and `SelectMoveEnds` leaves them out by name
  (`SegmentsFit`), as `PathValuesExact` does the cut amounts (`ShiftIsCut`).
* `blast`: widths to 3 (2 for products and quotients), so that shifters see a
  width that is no power of two; all graphs of up to three conjunctions over two
  variables, for the two-level rules. `FindLimit` 2 stands for the limit on the
  contradiction search, so that it can be cut off in these graphs.
* `clone`: four programs, one per area of the API; two instances at a time, one
  step outside the program, two layers. A free parameter with an id of 8 or more lies
  behind the slots of a table that a clone copies.
* `quant`: thirteen formulas with up to two alternations, over one and two bits, among
  them four that normalization gets wrong or aborts on (section 5); two threads; five
  settings of synthesis. The truth of every formula is computed by
  evaluation.

Symmetry is not used: the sets carry meaning (`Den`, `Cuts`, orders of ids).

### Fairness

* `BtorFunSolver`: `WF_vars(SolverStep)`: inside `btor_check_sat` one thread runs;
  it does not stop by itself. No fairness for the user, the callback or the SAT
  solver's answer.
* `BtorPropagate`: `WF_vars(CheckStep)`, one sequential loop; no fairness for the
  SAT solver, since the property only says that refinement does not go on for ever.
* `BtorNodes`: while a pass or a release runs, steps go on (`Fairness` is weak
  fairness of the solver's steps, with `Busy` for their enabledness: the deadlock
  check of the same run shows that a busy state always has a step).
* `BtorMC`: `WF_vars(CheckStep)`, one thread inside a call.
* `BtorLocalSearch`: `WF_vars(Searching)`: the search for one move is a loop of
  the code that nothing suspends. That a solution is found is not claimed.
* `BtorQuantSolver`: weak fairness of the main thread and of each of the two
  threads, as the scheduler of the operating system gives it; written out with
  the condition under which a step exists. Ground queries return.

Runs of modules that end by themselves are without the deadlock check: one
consistency check (`propagate`), one call (`bv`), one program (`api`, `blast`,
`clone`), one answer (`localsearch`, `quant`). All others are checked for
deadlock.

## 4. Proofs

`BtorSessionProofs` proves `TypeCorrect` and `ContextCorrect`, from
`ExpAssumption` and `BoundAssumption`. `TypeOK /\ ContextInv` is inductive:
a pop removes from the cache exactly what leaves the stack only because
entries are unique and the marks are ordered, which is why all parts of
`ContextInv` are needed together; a push needs that marks never pass the stack's
length. All calls that do not touch the stack are one lemma (`OthersKeepContext`).

It also proves `AssumptionsCorrect`, `ModelCorrect` and
`FailedCorrect`, from the same assumptions. None of the three invariants is
inductive. Assertions made after an assumption may make the recorded, simplified
form of it equivalent to something else under the constraints of the moment, and
simplification moves the pointers that `btor_failed_exp` follows later on. The
invariant `SessionInv` therefore adds `AssumptionsTraced` (every recorded form
comes from a recorded original and is equivalent to it under the constraints) and
`ConflictStands` (what the solver called unsatisfiable is still so, since
constraints are only added until assumptions are reset). The operators have lemmas
of their own: what negation, simplification and substitution mean under the models
of the constraints (`SimplifyMeaning`, `SubstitutionMeaning`,
`BtorSimplifyFaithful`), and that asserting adds exactly the asserted term to the
constraints (`AssertMeaning`).

`BtorSessionRefinement` proves `SessionImplementsContext`, the refinement of
`SmtContext` for every vocabulary and depth: the frames of the abstract stack are
the slices of the assertion stack between the level marks, `boolector_pop` removes
whole frames (`PopFrames`), and a check asserts exactly the union of the frames. It
uses `SessionInv` throughout. Every call is a step of `SmtContext` or a stutter,
except `FixatesContexts`; until the next check the user's assumptions are all there
are, so a fixate is never such a step without a check inside a context before it.

`BtorFunSolverProofs` proves `AnswersCorrect`, `CacheCorrect` and
`SolverTypeCorrect` for all candidates, lemmas, report orders, limits and
interruptions, from `LemmaAssumption` (lemmas exclude no consistent candidate;
the report for an inconsistent candidate has one that excludes it) and
`FormulaAssumption`. `AnswerSound` is not inductive: that an empty
`cur_lemmas` means "no conflict" relies on cached lemmas being in effect, so that
the candidate, which satisfies what is in effect, contradicts none of them. The
invariant is `SolverInv == TypeOK /\ LoopInv /\ CacheInEffect /\ AnswerSound`;
`LoopInv` says that lemmas of a round exist only between the consistency check
and their addition, that without assumed lemmas the cache is inserted, that the
candidate under examination is one of the skeleton, and that a valid assignment
belongs to a finished check.

`BtorMCProofs` proves `BoundsCorrect`, `InductionCorrect` and `WitnessCorrect`
for every finite transition system, any number of properties and any sequence of
calls, bounds and options, k-induction switched late included, from
`SystemAssumption`, `FiniteAssumption` and `UsageAssumption` (`bmc` is not called
with k-induction set; section 5 says what happens otherwise). What is proved of a
property reported unsat is the statement of `ProofsSound` and not more: if
k-induction was set before the first frame, no run of any length violates it, or the
shortest ones that do have a length at which it was left unchecked. If it was set
later, the induction starts in the wired initial states, so a report only means
that no violation up to its bound was missed. The argument has three parts:

* `ReachAt`, which is defined by recursion, names the last points of the runs
  (`ReachAtEnds`, by a least counterexample), so that it can be compared with the
  paths in the forward instance;
* the instance holds paths only, and it holds every path that visits no state twice
  (`Unrolling`): a new frame extends all of them, and the constraints asserted for
  the induction step of one property exclude no such path, so they cannot hide a
  violation of another property at a later bound;
* a shortest violation visits no state twice (`ShortestSimple`: the way from a state
  back to itself can be cut out), so the base case finds it, and the last points of
  a longer one are a model of the induction step (`InductionSound`). `Missed` keeps
  the shortest violations that no solver call looked at: once missed, they stay so
  (`MissedStays`).

The invariant `MCInv` also follows the loop over the properties: which of them have
been checked at the last frame (`Checked`), that `num_reached` counts the recorded
bounds (`Counted`; otherwise a k-induction call could return in a stale SAT state
with no property left), and for how long the model of the last solver call is the
witness (`Witnessed`).

`BtorPropagateProofs` proves `LemmasCorrect` and `BtorPropagateAccepts` proves
`AcceptsCorrect`, from `GraphAssumption` and `ValueAssumption`: for every set of
graphs of any size, every set of values and any number of rounds. Both start from
one fact on recursive definitions (`RecursiveFunction` of `BtorRecursion`): over a well-founded
relation a definition whose right-hand side only looks at what is below has a
solution. With it the recursive functions of the module (the premises on a way,
the tables, the evaluation of a graph) can be unfolded, and what is said of them
follows by taking a lowest counterexample in the graph.

* Lemmas. `Meaning` says what an evaluation of the graph is; where the premise of
  one step of an apply holds, the next function has the same value (`StepSound`),
  hence the premises of the whole way are enough (`PathSound`). The invariant
  `CheckInv` says that every apply is only where its way leads under the candidate
  (`WayInv`), that what `rho` has for an argument value has that argument value
  (`Filed`), and that as long as there is no lemma the applies met agree with what
  their functions know (`SettledInv`). The last part is for the comparison of
  tables: only with it does an instance of extensionality refute the candidate, or
  bring in an apply (`ExtensionalityProgress`).
* Acceptance. `AcceptInv` follows the walk. An apply that a function remembers has
  reached its end there, or the next function agrees with it, or it still waits on
  the stack (`LinkInv`). While it waits it is not marked, and what is above its
  entry belongs to applies below it in the graph (`Waits`): as no node is below
  itself (`UnderNotItself`), no pass before that entry can mark it, so the entry is
  not skipped. This is the hazard of the mark that is taken back. `NeedsInv` and
  `StartInv` say that the applies in the conditions, indices, elements and
  arguments on the way were searched. When the stack is empty the uninterpreted
  functions are chosen as `rho` says, and zero elsewhere; from the bottom of the
  graph up every term and every function that was met has the value of the
  candidate (`AllRight`), and functions below an equality are exactly their tables
  (`RightTables`), so that tables without a conflict make equal functions.

`BtorLocalSearchProofs` proves `ConeIsExact`, `WalkFlips` and `AnswersAreSound`
(`ConeExact`, `AigMoveFlips` and `AnswersSound` of the run), for the engines PROP,
SLS and AIGPROP, every well-formed formula, every width up to `MaxWidth`, every
option, and whatever the random choices are. The assumptions are:

* `ProgramAssumption`: children come before parents, the widths are those that
  `btor_dbg_precond_*_exp` demands, constraints and assumptions are Boolean, the AIG
  manager made no conjunction with a constant, and there are no two opposite
  constraints (`insert_into_constraint_tables` ends with "unsat" before an engine
  is called);
* `PowerAssumption`: each power of two is twice the one before. It is true of `^`;
  the prover leaves exponentiation open, so it is stated, and TLC evaluates it up
  to the `MaxWidth` of the run;
* `LocalSearchAssumption`: the limits are positive numbers, and the unit of the
  scores is even.

None of the three invariants is inductive. `SearchInvariant` proves `Inv`, one lemma
per action:

* `ModelOK`: every node other than an input has the value its operands give it, and
  every cached value of an inverted node is the complement of the node's. A move
  recomputes only the cone of its inputs; that this is enough is the step from
  "no input below changed" to "the value is the same" (`UpdateExact`, `MoveExact`).
* `RootsOK`: the table of violated roots is exact. The update of the cone toggles the
  entry of a root when its value turns; that is right only if no root and its
  negation are both in the formula (`NoOpposites`; assumptions may contradict, and
  the engine has to notice it before the search), and only if a violated root is no
  constant, which no move could turn.
* `ScoreOK`: the scores of the SLS heuristic and of AIGPROP are those of the model.
  A score is a recursive function over pointers; `ScoreUnique` says that two tables
  that both satisfy its equation are one, so that the partly recomputed table is the
  table from scratch (`RescoreExact`, `AigRescoreExact`). That a true formula has
  score one and a false one less (`ScoresRight`, `ScoreNodeTrue`) joins the scores
  with the roots.
* `WalkOK` and `MoveOK`: the root of the walk is violated, the target of every step
  fits the width of the node it is for, and all candidate moves assign inputs values
  that fit. This needs the typing of all values passed down: for every operator and
  operand the inverse and the consistent values are values of the operand's width
  (`ConsWords`, `InvWords`, `InvDivision`, `ComputeValueType`), and so are the
  neighbours of SLS (`NeighboursType`). Over AIGs the node of the walk also
  has the opposite of its target; hence the input at the end of the walk really
  flips.
* `AnswerOK`: "sat" is given with a model of all roots; "unsat" only where every
  assignment violates a root (`Impossible`): a constant root that is violated
  or two opposite roots (`RootsImpossible`), or a violated root without an input to
  change (`NoCandidates`).

Only model-checked:

* all liveness properties and what depends on ENABLED, which are out of the prover's
  reach (`CheckEnds` in `BtorPropagate`, `SelectMoveEnds` in `BtorLocalSearch`, and
  the like);
* `PathValuesExact` of `BtorLocalSearch`, that an inverse value gives exactly the
  target: it needs, for each operator, number theory at the level of bits for every
  width (inverses modulo a power of two, quotient ranges, carries), and neither
  exponentiation nor nonlinear arithmetic goes far in the SMT solver. What is proved
  is that the values fit;
* `BtorNodes`: the counts of `MemoryExact` are cardinalities of sets of references
  from parents, tables, the user and the stacks of a running pass, and every action
  needs the sum again;
* `BtorBlast`, `BtorClone`, `BtorApi`, `BtorBvCalls` and `BtorQuantSolver`: their
  words, terms and graphs are evaluated, rewritten and walked by RECURSIVE operators,
  which the prover does not accept, nor an induction over data.

## 5. What the models leave out

* In `BtorPropagate`: equalities over array lambdas and constant arrays (which
  abort), unreachable applies queued for model generation; justification and dual
  propagation, which choose fewer initial applies.
* In `BtorNodes` rewriting is constant propagation; therefore a second round of
  `substitute` (`btorsubst.c:482`) has nothing to do in the runs. Inverted
  pointers and binders are in `BtorGraph`, without the substitution pass.
* In `BtorFunSolver`: presolving with PROP or SLS (`fun:preprop`, `fun:presls`,
  `btorslvfun.c:2437-2480`) before the loop.
* In `BtorMC`: array states; trace generation switched off; `bmc` with k-induction
  on.
* In `BtorBv`: the build with GMP, hashing, tuples, and memory.
* In `BtorRewrite`: the rules for applies, lambdas and updates
  (`btorrewrite.c:4639-5085`), the rewrite cache, rules that are compiled out or
  called from nowhere; in `BtorExp` the n-ary and the array functions.
* In `BtorLocalSearch`: statistics, clone and deletion; which root the bandit
  selects and the order of SLS candidates are left open.
* In `BtorAig`: variants that are compiled out, printing, cloning.
* In `BtorClone`: assignments of functions, options, statistics, memory
  accounting, the clones of the AIG and SAT managers; conjunctions are created
  without rewriting.
* In `BtorQuant`: uninterpreted functions in quantified formulas, skolemization
  (`btorskolemize.c` is called from nowhere), conditionals with free parameters in
  the elimination of if-then-else.

Disagreements between code and documentation, or assertions of the code that may
fail, without a violation run of their own. Where a passing run contains the
case, the entry says so and names the definition that sets it apart in the property:

* `btor_mc_reached_bad_at_bound` returns a bound for a property that k-induction
  proved unreachable, since `check_last_forward_frame` stores it in `mc->reached`
  (`btormc.c:1443`); `boolectormc.h:104` promises a negative number.
* `btor_bv_power_of_two` returns 0 for zero (`test_bv.cpp` expects it) although
  `btorbv.h:153` says -1 if it is not a power of two. `OperationsExact` leaves the
  answer for zero open.
* `btor_util_check_dec_to_bv` refuses "-0" for a single bit.
* `btor_bv_new_random` never returns a value whose first word is all ones if the
  width is a multiple of 32 (`btorbv.c:221`): `~0` is a negative `int`, so the
  intended mask is the full word minus one.
* `boolector_failed` tests only `last_sat_result` (`boolector.c:533`), which
  `boolector_assume` does not reset: it answers about an assumption made after
  the UNSAT answer.
* `btor_mc_bmc` with k-induction set and stop-first off may return at the maximal
  bound with state `NO_MC_STATE`; declarations are accepted again although frames
  exist.
* Clearing the k-induction option after frames exist trips
  `assert (opt_kinduction)` (`btormc.c:1380`); the model goes on as a build without
  assertions does. Setting it late starts the induction in the wired initial states,
  and properties that are violated are then reported unsat: both are in the
  run `mc`, where `ProofsSound` claims less if `assumed` is false.

Sessions and checks:

* A model stays readable after an assertion above level 0 has changed the formula
  (`boolector.c:485` returns before the flag is cleared), although the message at
  `boolector.c:4007` refuses a read when "input formula is not SAT".
* `boolector_fixate_assumptions` after a check inside a context asserts the
  assertions of the open contexts for good: the check had assumed them
  (`btorcore.c:2020`, `2900-2908`), although the comment at `btorcore.c:2893-2896`
  says that they are valid only until the context is popped, and `boolector.h:298`
  speaks of assumptions added by the user. The run `session` contains it
  (`FixatesContexts`).
* The limits of `boolector_limited_sat` stay in the engine (`btorcore.c:3024-3028`)
  and the lemma counter is never reset, so that a later `boolector_sat` may return
  unknown.
* `btor_mc_bmc` with stop-first off ends in the state of the last property: an
  UNSAT there makes the assignment of a bound that was reached unreadable
  (`btormc.c:1450` against `boolectormc.h:90`).
* With a minimal bound, frames below it are not checked, and the simple path
  constraints of k-induction (`btormc.c:1426`, `105`) then prove a property that is
  violated at one of them. The run `mc` contains it (`gap`).

Rewriting and term construction:

* `is_always_unequal` compares `e1` with itself (about `btorrewrite.c:356`).
* `is_odd_bv_const_exp` is never true, since normalized constants are even.
* The rules `same_srl`, `push_ite_and` and `sll_add` are called from nowhere.
* `boolector_repeat` with a count of 0 divides by zero in its overflow check
  (`boolector.c:3010`).

Local search:

* `inv_sll` and `inv_srl` keep the shift amount in a `uint32_t`
  (`btorproputils.c:2039`, `2142`, `2190`, `2297`), and they and the path selection
  read only the low bits of one in words of more than 64 bits; a value is then
  passed down that does not give the target, against `check_result_binary_dbg`. The
  run `localsearch` contains it (`ShiftIsCut`).
* Segment moves do not end for candidates of less than 8 bits: a difference of
  `uint32_t` wraps around (`btorslvsls.c:692`). The run `localsearch` contains it
  (`SegmentsFit`).
* The inverse value of an equality of width 1 loops when values are derived by
  flipping a bit and the flip of the current value is the other operand.
* The probability with which the path selection of a conditional flips the
  condition can reach 0, where it stays.
* PROP repeats its selection until an input is found and polls neither the
  termination callback nor the limit in between.
* `btor_model_remove_from_bv` removes the value of a node twice instead of the
  node's and the inverted one's (`btormodel.c:111-135`).
* SLS resets neither `terminate` nor its counters between two checks.

AIGs:

* `is_xor_aig` and `is_ite_aig` read the children of a child they have not tested;
  `update_cone` in `aigprop.c` takes the wrong score for a constant right child.
  Neither is reachable with the graphs the manager builds.
* The bandit of `aigprop.c` multiplies the number of selections by 1, and so
  always prefers the first root.

Cloning:

* The clone of an integer table copies `size` bytes of 4-byte keys
  (`btorclone.c:234`); the keys in the slots behind the first quarter are lost,
  against the assertion of `btorchkclone.c:100`. The hash of `btorhashint.c:22` is
  the identity, so this happens to an id of 8 in a table of 32 slots. The run `clone`
  contains it (`WithoutLostKeys`).
* `btor_chkclone_sort` compares a sort with itself; `is_array` is compared nowhere
  and is lost in the clone (`boolector.c:4631`).
* `btor_ass_new_fun` never sets `prev` (`btorass.c:240-310`); the clone of a list of
  function assignments writes into a field of the original.
* A clone keeps the file pointer of the API trace. `rebuild_exp` takes any node with
  the same symbol, whatever its sort.
* `clone_sls_solver` stores the original's move instead of the copy, and leaves
  `weights` shared; the clone of AIGPROP swaps the arguments of `btor_rng_clone` and
  shares `roots`.
* `btorhashint.c` may insert a key twice after a removal.
* `btor_chkclone` returns without comparing unless the SAT solver is Lingeling.

Quantifiers:

* The elimination of conditionals over quantifiers is wrong under a negated
  quantifier (the build answers accordingly). A quantifier whose negation was pushed
  into it and that is visited again with the same polarity is negated again
  (`btornormquant.c:318-328`, `430-434`). The run `quant` contains both (`Misread`).
* Without `fixsynth` and with model reuse a counterexample may repeat, which trips
  the assertion of `refine_exists_solver`.
* Equality resolution looks at the sign of the body and not at the polarity of the
  block; polarities are cached by the product of id and polarity.
* A Boolean equality over quantifiers that is shared is visited twice and takes
  arguments from the stack that were never pushed (`btornormquant.c:316`, `369-373`).
  In the run `quant` that ends the program (`aborted`).
* The user's termination callback is not handed to the ground solvers.
* `run_parallel` reads two unknown results as sat; `ResultsAgree` shows that this
  does not happen.

## 6. Plan

1. Proofs: the
   pointer part of `MemoryExact` for `BtorNodes`; `ResultsAgree` for
   `BtorQuantSolver`, after its control is separated from the recursive operators;
   `PathValuesExact` for the operators without multiplication.
2. Justification in `BtorPropagate`; the cycle breaking of
   `btorvarsubst.c` as an algorithm instead of a choice.
3. The remaining preprocessing passes as operators on `BtorTerms`, starting with
   slice elimination and the merging of lambdas; the rewrite cache.

## Not modelled

* Parsers, dumpers, main programs, messages, language bindings: text and I/O.
* SAT solver bindings: adapters of third-party solvers.
* Model-based tester, API traces and the C++ interface: drivers that call what is
  modelled.
* Options: a table; the options a component reads are parameters of its module.
* Ackermannization, unconstrained optimization, apply elimination, extraction and
  merging of lambdas, skeleton preprocessing, beta reduction and don't-care
  reasoning: transformations of functions and arrays, whose effect enters
  `BtorSession` as an arbitrary sound simplification.
