----------------------------- MODULE BtorClone -----------------------------
(***************************************************************************)
(* Copies of an instance (btorclone.c) and the check that they are exact   *)
(* (btorchkclone.c).  boolector_clone makes an instance the user goes on   *)
(* with; boolector_chkclone makes a shadow on which every later call of    *)
(* the API is repeated and compared (the macros of boolector.c); the       *)
(* solvers make clones of the expression layer only, keep the map from the *)
(* nodes to their copies, and rebuild later nodes over it.  The nodes of a *)
(* clone are raw copies of which every pointer is replaced, one by one.    *)
(*                                                                         *)
(* Instances are "o" (the user's first), "s" (its shadow), "c" (a clone of *)
(* the user) and "d" (an expression layer of a solver).  The user follows  *)
(* a program, a sequence of calls, on "o" and, from the clone on, on "c";  *)
(* releases, simplification, clones and deletions happen at any time.      *)
(*                                                                         *)
(* Data abstraction.  A satisfiability call keeps what it leaves in an     *)
(* instance: vectors for the terms below the constraints, lemmas, a model. *)
(* What it answers and which terms are its lemmas is left open.  AIGs are  *)
(* ids of the manager of the instance.  Options, statistics and the random *)
(* number generator are left out.                                          *)
(***************************************************************************)
EXTENDS BtorGraph

CONSTANTS
  Programs,     \* sequences of calls [op, a]: the call and its arguments
  MaxInstances, \* bound: instances at a time
  MaxFree,      \* bound: calls of the user that are not in the program
  MaxLayers     \* bound: expression layers a solver makes

ASSUME BoundsAssumption ==
  /\ MaxInstances \in Nat /\ MaxFree \in Nat /\ MaxLayers \in Nat

VARIABLES
  inst,    \* the instances by name
  sat,     \* the SAT solver can be cloned
  program, \* the calls of the user
  pos,     \* the calls done, by instance of the user
  emap,    \* the map of a solver: pairs of a node of "o" and its copy in "d"
  root,    \* what the solver holds in "d"
  free,    \* calls outside the program so far
  layers   \* steps of solvers with an instance of their own so far

vars == <<inst, sat, program, pos, emap, root, free, layers>>

NoSolver == [kind |-> "none", btor |-> "nil", lemmas |-> <<>>]

Empty(name) ==
  [name |-> name, sorts |-> <<>>, nodes |-> <<>>, chains |-> <<>>, nunique |-> 0,
   external |-> 0, true_exp |-> Nil, vars |-> <<>>, ufs |-> <<>>, lambdas |-> <<>>,
   parameterized |-> <<>>, symbols |-> <<>>, node2symbol |-> <<>>, inputs |-> <<>>,
   unsynthesized |-> <<>>, synthesized |-> <<>>, assumptions |-> <<>>,
   orig_assumptions |-> <<>>, failed_assumptions |-> <<>>, with_model |-> <<>>,
   bv_model |-> {}, slv |-> NoSolver, aigs |-> {}, naigs |-> 0, valid |-> FALSE,
   called |-> 0, result |-> "unknown", bvass |-> <<>>, auto |-> FALSE,
   auto_internal |-> FALSE, r |-> 0]

\* btor_new: the instance holds the constant true.
NewBtor(name) ==
  LET n == CreateTrue(Empty(name))
  IN  [n EXCEPT !.true_exp = n.r, !.r = <<0, 0>>]

\* Ids in their order.
RECURSIVE Ascending(_)
Ascending(S) ==
  IF S = {} THEN <<>>
  ELSE LET least == CHOOSE i \in S : \A j \in S : i <= j
       IN  <<least>> \o Ascending(S \ {least})

\* The same sequence, as TLC can update it.
Tuple(f) == f \o <<>>

RECURSIVE ReleaseAll(_, _)
ReleaseAll(b, ps) == IF ps = <<>> THEN b ELSE ReleaseAll(Release(b, Head(ps)), Tail(ps))
Keys(tab) == [i \in DOMAIN tab |-> tab[i][1]]

-----------------------------------------------------------------------------
(* btor_clone_...: the copies of the parts of an instance.                  *)

\* btor_nodemap_mapped during the copy: the node with the same id.
Mapped(b, name, p) ==
  IF p # Nil /\ p.id \in Live(b) THEN [p EXCEPT !.o = name] ELSE Nil
MappedAll(b, name, ps) == [i \in DOMAIN ps |-> Mapped(b, name, ps[i])]
CloneTable(b, name, tab) ==
  [i \in DOMAIN tab |-> <<Mapped(b, name, tab[i][1]), tab[i][2]>>]
CloneNodeTable(b, name, tab) ==
  [i \in DOMAIN tab |-> <<Mapped(b, name, tab[i][1]), Mapped(b, name, tab[i][2])>>]

\* The strings of the clone are its own; a node refers to the string of the
\* clone's table of symbols.
CloneSymbols(b, name) ==
  [i \in DOMAIN b.symbols |->
     <<P(name, b.symbols[i][1].id, 0), Mapped(b, name, b.symbols[i][2])>>]

\* Seeded fault: the nodes of the clone keep the strings of the instance.
CloneNode2SymbolShared(b, name) ==
  [i \in DOMAIN b.node2symbol |->
     <<Mapped(b, name, b.node2symbol[i][1]), b.node2symbol[i][2]>>]
CloneNode2Symbol(b, name) ==
  [i \in DOMAIN b.node2symbol |->
     <<Mapped(b, name, b.node2symbol[i][1]),
       (CHOOSE row \in Range(CloneSymbols(b, name)) :
          row[1].id = b.node2symbol[i][2].id)[1]>>]

\* The keys are copied as table->size bytes, four for each key.
CloneIntTable(t) ==
  [t EXCEPT !.keys = [i \in DOMAIN @ |-> IF i < HopRange \div 4 THEN @[i] ELSE 0]]
CloneParameterized(b, name) ==
  [i \in DOMAIN b.parameterized |->
     <<Mapped(b, name, b.parameterized[i][1]), CloneIntTable(b.parameterized[i][2])>>]

\* Sorts are created again in the order of their ids, the gaps kept.
RECURSIVE CloneSortsFrom(_, _, _)
CloneSortsFrom(b, c, i) ==
  IF i > Len(b.sorts) THEN c
  ELSE LET s == b.sorts[i]
           ids == [j \in DOMAIN s.elems |-> s.elems[j].id]
       IN  CloneSortsFrom(b,
             CASE s.kind = "bv" -> SortBv(c, s.width)
               [] s.kind = "fun" -> SortFun(c, ids[1], ids[2])
               [] s.kind = "tuple" -> SortTuple(c, ids)
               [] OTHER -> [c EXCEPT !.sorts = Append(@, NoSort)],
             i + 1)
CloneSorts(b, name) ==
  LET c == CloneSortsFrom(b, [name |-> name, sorts |-> <<>>, r |-> 0], 1)
  IN  Tuple([i \in DOMAIN c.sorts |-> [c.sorts[i] EXCEPT !.refs = b.sorts[i].refs,
                                                         !.ext = b.sorts[i].ext]])

\* clone_exp and the pointers clone_nodes_id_table fixes after it.
CloneExp(b, name, n, layer) ==
  LET M(p) == Mapped(b, name, p)
      Ms(ps) == MappedAll(b, name, ps)
  IN  [n EXCEPT !.btor = name, !.e = Ms(@), !.first = M(@), !.last = M(@),
                !.prev = Ms(@), !.nextp = Ms(@), !.chain = M(@), !.simp = M(@),
                !.binder = M(@), !.body = M(@),
                !.av = IF layer THEN <<>> ELSE [i \in DOMAIN @ |-> [@[i] EXCEPT !.o = name]],
                !.rho = IF layer THEN <<>> ELSE CloneNodeTable(b, name, @)]
CloneNodes(b, name, layer) ==
  Tuple([i \in DOMAIN b.nodes |->
     IF b.nodes[i].kind = "none" THEN NoNode ELSE CloneExp(b, name, b.nodes[i], layer)])

\* Seeded fault: the lemmas are left behind.
CloneSolverNoLemmas(b, name) ==
  IF b.slv.kind = "none" THEN NoSolver ELSE [b.slv EXCEPT !.btor = name, !.lemmas = <<>>]
CloneSolver(b, name) ==
  IF b.slv.kind = "none" THEN NoSolver
  ELSE [b.slv EXCEPT !.btor = name, !.lemmas = MappedAll(b, name, @)]

\* The copy is one of the structure first, and is then filled part by part.
CloneHead(b, name, layer) ==
  [b EXCEPT !.name = name, !.auto = TRUE, !.auto_internal = TRUE,
            !.called = IF layer THEN 0 ELSE @,
            !.result = IF layer THEN "unknown" ELSE @,
            !.bvass = IF layer THEN <<>>
                      ELSE [i \in DOMAIN @ |-> [@[i] EXCEPT !.cloned = Nil]]]
CloneGraph(b, c, layer) ==
  [c EXCEPT !.aigs = IF layer THEN {} ELSE @, !.naigs = IF layer THEN 0 ELSE @,
            !.sorts = CloneSorts(b, c.name), !.nodes = CloneNodes(b, c.name, layer),
            !.true_exp = Mapped(b, c.name, @), !.chains = MappedAll(b, c.name, @)]
CloneTables(b, c) ==
  [c EXCEPT !.symbols = CloneSymbols(b, c.name), !.node2symbol = CloneNode2Symbol(b, c.name),
            !.inputs = CloneTable(b, c.name, @), !.vars = CloneTable(b, c.name, @),
            !.ufs = CloneTable(b, c.name, @), !.lambdas = CloneTable(b, c.name, @),
            !.unsynthesized = MappedAll(b, c.name, @),
            !.synthesized = MappedAll(b, c.name, @),
            !.assumptions = MappedAll(b, c.name, @),
            !.orig_assumptions = MappedAll(b, c.name, @),
            !.failed_assumptions = MappedAll(b, c.name, @)]

\* Seeded fault: a layer keeps the references of the functions with a model.
CloneModelKeeps(b, c, layer) ==
  [c EXCEPT !.with_model = IF layer THEN <<>> ELSE MappedAll(b, c.name, @)]

\* The references of the functions with a model are given up in a layer,
\* where the stack of these functions is empty.
CloneModel(b, c, layer) ==
  IF layer THEN ReleaseAll([c EXCEPT !.with_model = <<>>], MappedAll(b, c.name, b.with_model))
  ELSE [c EXCEPT !.with_model = MappedAll(b, c.name, @)]
\* In a layer nothing is synthesized.
CloneTail(b, c, layer) ==
  [c EXCEPT !.parameterized = CloneParameterized(b, c.name),
            !.unsynthesized = IF layer THEN @ \o c.synthesized ELSE @,
            !.synthesized = IF layer THEN <<>> ELSE @,
            !.slv = CloneSolver(b, c.name)]
CloneAux(b, c, layer) ==
  CloneTail(b, CloneModel(b, CloneTables(b, CloneGraph(b, c, layer)), layer), layer)
CloneBtor(b, name, layer) == CloneAux(b, CloneHead(b, name, layer), layer)

-----------------------------------------------------------------------------
(* What a satisfiability call leaves, and what the next call gives up.      *)

ResetAssumptions(b) ==
  [ReleaseAll(b, b.assumptions \o b.orig_assumptions \o b.failed_assumptions) EXCEPT
     !.assumptions = <<>>, !.orig_assumptions = <<>>, !.failed_assumptions = <<>>]
ResetFunctionsWithModel(b) ==
  ReleaseAll([b EXCEPT !.with_model = <<>>,
                       !.nodes = Tuple([i \in DOMAIN @ |->
                          IF \E k \in DOMAIN b.with_model : b.with_model[k].id = i
                          THEN [@[i] EXCEPT !.rho = <<>>] ELSE @[i]])],
             b.with_model)
ModelNodes(b) == [i \in 1..Cardinality(b.bv_model) |->
                    Here(b, Ascending(b.bv_model)[i])]
ModelDelete(b) == ReleaseAll([b EXCEPT !.bv_model = {}], ModelNodes(b))
ResetIncrementalUsage(b) ==
  IF ~b.valid THEN b
  ELSE ModelDelete([ResetFunctionsWithModel(ResetAssumptions(b)) EXCEPT !.valid = FALSE])

RECURSIVE CopyAll(_, _)
CopyAll(b, ps) == IF ps = <<>> THEN b ELSE CopyAll(Copy(b, Head(ps)), Tail(ps))

\* The terms that get a vector: bit-vectors below the given nodes.
RECURSIVE Below(_, _)
Below(b, ids) ==
  LET more == ids \cup UNION {{p.id : p \in Range(b.nodes[i].e)} : i \in ids}
  IN  IF more = ids THEN ids ELSE Below(b, more)
Blasted(b, ps) ==
  {i \in Below(b, {Simplified(b, p).id : p \in Range(ps)}) :
     b.nodes[i].kind \in {"var", "and", "apply"} /\ b.nodes[i].av = <<>>}
RECURSIVE GiveVectors(_, _)
GiveVectors(b, ids) ==
  IF ids = <<>> THEN b
  ELSE GiveVectors([b EXCEPT !.naigs = @ + 1, !.aigs = @ \cup {b.naigs + 1},
                             !.nodes[Head(ids)].av = <<Here(b, b.naigs + 1)>>],
                   Tail(ids))
Synthesize(b) ==
  LET roots == b.unsynthesized \o b.assumptions
  IN  [GiveVectors(b, Ascending(Blasted(b, roots))) EXCEPT
         !.synthesized = @ \o b.unsynthesized, !.unsynthesized = <<>>]

\* The applies on f, as the propagation leaves them in rho.
AppliesOn(b, f) == {i \in Live(b) : b.nodes[i].kind = "apply" /\ b.nodes[i].e[1].id = f
                                    /\ b.nodes[i].av # <<>>}
WithRho(b, f) ==
  [b EXCEPT !.nodes[f].rho =
     [k \in 1..Cardinality(AppliesOn(b, f)) |->
        LET app == Ascending(AppliesOn(b, f))[k]
        IN  <<b.nodes[app].e[2], Here(b, app)>>]]
RECURSIVE GiveRhos(_, _)
GiveRhos(b, fs) ==
  IF fs = <<>> THEN b
  ELSE GiveRhos([WithRho(Copy(b, Head(fs)), Head(fs).id) EXCEPT
                   !.with_model = Append(@, Head(fs))], Tail(fs))
GiveModel(b) ==
  LET ids == {i \in Live(b) : b.nodes[i].kind = "var" /\ b.nodes[i].av # <<>>}
  IN  CopyAll([b EXCEPT !.bv_model = ids], ModelNodes([b EXCEPT !.bv_model = ids]))
GiveLemma(b, l) ==
  IF l = 0 \/ \E p \in Range(b.slv.lemmas) : p.id = l THEN b
  ELSE [Copy(b, Here(b, l)) EXCEPT !.slv.lemmas = Append(@, Here(b, l))]
Solver(b) == IF b.slv.kind = "none"
             THEN [b EXCEPT !.slv = [NoSolver EXCEPT !.kind = "fun", !.btor = b.name]]
             ELSE b
CheckSat(b, res, lemma) ==
  LET s == Synthesize(GiveLemma(Solver(ResetIncrementalUsage(b)), lemma))
      fs == SelectSeq(Keys(s.ufs), LAMBDA f : AppliesOn(s, f.id) # {})
      m == IF res = "sat" THEN GiveModel(GiveRhos(s, fs)) ELSE s
  IN  [m EXCEPT !.valid = TRUE, !.called = @ + 1, !.result = res, !.r = <<0, 0>>]

-----------------------------------------------------------------------------
(* btor_delete.                                                             *)

\* release_all_ext_exp_refs and release_all_ext_sort_refs, from the last id
\* to the first.
RECURSIVE ReleaseExtNodes(_, _)
ReleaseExtNodes(b, i) ==
  IF i = 0 THEN b
  ELSE IF b.nodes[i].ext = 0 THEN ReleaseExtNodes(b, i - 1)
  ELSE ReleaseExtNodes(
         Release([b EXCEPT !.nodes[i].refs = @ - b.nodes[i].ext + 1,
                           !.external = @ - b.nodes[i].ext, !.nodes[i].ext = 0],
                 Here(b, i)), i - 1)
RECURSIVE ReleaseExtSorts(_, _)
ReleaseExtSorts(b, i) ==
  IF i = 0 THEN b
  ELSE IF b.sorts[i].kind = "none" THEN ReleaseExtSorts(b, i - 1)
  ELSE ReleaseExtSorts(
         ReleaseSort([b EXCEPT !.sorts[i].refs = @ - b.sorts[i].ext + 1,
                               !.external = @ - b.sorts[i].ext, !.sorts[i].ext = 0], i),
         i - 1)
ReleaseAllExt(b) == ReleaseExtSorts(ReleaseExtNodes(b, Len(b.nodes)), Len(b.sorts))

\* AUTO_CLEANUP_INTERNAL: whatever is left goes, whoever refers to it.
Unsimplified(b) ==
  [b EXCEPT !.nodes = Tuple([i \in DOMAIN @ |->
     IF @[i].kind = "none" THEN @[i] ELSE [@[i] EXCEPT !.simp = Nil]])]
RECURSIVE ReleaseInternal(_, _)
ReleaseInternal(b, i) ==
  IF i = 0 THEN b
  ELSE IF b.nodes[i].kind = "none" THEN ReleaseInternal(b, i - 1)
  ELSE ReleaseInternal(
         Release([b EXCEPT !.nodes[i].refs = 1, !.external = @ - b.nodes[i].ext,
                           !.nodes[i].ext = 0], Here(b, i)), i - 1)

\* Mutant: the failed assumptions are forgotten.
Tables(b) == Keys(b.inputs) \o b.unsynthesized \o b.synthesized \o b.assumptions
             \o b.orig_assumptions \o b.failed_assumptions
DeleteTables(b) ==
  ReleaseAll(
    Release(ModelDelete(ReleaseAll([b EXCEPT !.slv = NoSolver, !.bvass = <<>>],
                                   b.slv.lemmas \o Tables(b))),
            b.true_exp),
    b.with_model)
DeleteNodes(b) == IF b.auto /\ b.external > 0 THEN ReleaseExtNodes(b, Len(b.nodes)) ELSE b
DeleteInternal(b) ==
  IF b.auto_internal THEN ReleaseInternal(Unsimplified(b), Len(b.nodes)) ELSE b
DeleteSorts(b) == IF b.auto /\ b.external > 0 THEN ReleaseExtSorts(b, Len(b.sorts)) ELSE b
Deleted(b) == DeleteSorts(DeleteInternal(DeleteNodes(DeleteTables(b))))

\* What btor_delete asserts in the end.
NothingLeft(b) ==
  /\ b.external = 0 /\ Live(b) = {}
  /\ \A i \in DOMAIN b.sorts : b.sorts[i].kind = "none"
  /\ b.symbols = <<>> /\ b.aigs = {}

-----------------------------------------------------------------------------
(* The calls of the API.  A node is named by its id, negative if inverted:  *)
(* the shadow gets the node with the same id (BTOR_CLONED_EXP).             *)

Abs(i) == IF i < 0 THEN -i ELSE i
Node(b, i) == P(b.name, Abs(i), IF i < 0 THEN 1 ELSE 0)
Held(b, i) == Abs(i) \in Live(b) /\ b.nodes[Abs(i)].ext > 0
HeldSort(b, i) == SortIsValid(b, i) /\ b.sorts[i].ext > 0
HeldBv(b, i) == Held(b, i) /\ SortIsBv(b, b.nodes[Abs(i)].sort)
HeldFun(b, i) == Held(b, i) /\ SortIsFun(b, b.nodes[Abs(i)].sort)
HeldBool(b, i) == /\ Held(b, i) /\ SortIsBool(b, b.nodes[Abs(i)].sort)
                  /\ ~b.nodes[Abs(i)].par
FreshSymbol(b, s) == s = 0 \/ ~HasKey(b.symbols, s)

\* The result goes to the user, who holds it.
ReturnNode(b) == [IncExt(b, b.r) EXCEPT !.r = <<b.r.id, b.r.t>>]
IncSortExt(b, i) == [b EXCEPT !.sorts[i].ext = @ + 1, !.external = @ + 1]
ReturnSort(b) == [IncSortExt(b, b.r) EXCEPT !.r = <<b.r, 0>>]
ReturnVoid(b) == [b EXCEPT !.r = <<0, 0>>]

\* The calls that create inputs keep a reference of their own.
Input(b) == [Copy(b, b.r) EXCEPT !.inputs = Append(@, <<b.r, 0>>)]

BoolSort(b, a) == ReturnSort(SortBool(b))
BitvecSort(b, a) == ReturnSort(SortBv(b, a[1]))
FunSort(b, a) == ReturnSort(FunOver(SortTuple(b, a[1]), a[2]))
ArraySort(b, a) == ReturnSort(SortArray(b, a[1], a[2]))
CopySortCall(b, a) == ReturnSort(CopySort(b, a[1]))
ReleaseSortCall(b, a) ==
  ReturnVoid(ReleaseSort([b EXCEPT !.sorts[a[1]].ext = @ - 1, !.external = @ - 1], a[1]))

Var(b, a) == ReturnNode(Input(CreateVar(b, a[1], a[2])))
Uf(b, a) == ReturnNode(Input(CreateUf(b, a[1], a[2])))
ArrayVar(b, a) ==
  LET n == CreateUf(b, a[1], a[2])
  IN  ReturnNode(Input([n EXCEPT !.nodes[n.r.id].is_array = TRUE]))
Param(b, a) == ReturnNode(CreateParam(b, a[1], a[2]))
And(b, a) == ReturnNode(CreateAnd(b, Node(b, a[1]), Node(b, a[2])))

\* btor_exp_apply_n: the argument tuple is released once the apply holds it.
ApplyTo(n, fun) == Release(CreateApply(n, fun, n.r), n.r)
Apply(b, a) ==
  ReturnNode(ApplyTo(CreateArgs(b, [i \in DOMAIN a[2] |-> Node(b, a[2][i])]), Node(b, a[1])))

\* btor_exp_fun: a lambda for each parameter, from the last one out.
LambdaOver(n, param) == Release(CreateLambda(n, param, n.r), n.r)
RECURSIVE Lambdas(_, _)
Lambdas(b, params) ==
  IF params = <<>> THEN b
  ELSE Lambdas(LambdaOver(b, Simplified(b, Last(params))), Front(params))
Fun(b, a) ==
  LET params == [i \in DOMAIN a[1] |-> Node(b, a[1][i])]
      body == Simplified(b, Node(b, a[2]))
  IN  ReturnNode(Lambdas(CreateLambda(b, Simplified(b, Last(params)), body),
                         Front(params)))

CopyCall(b, a) == ReturnNode(Copy(b, Node(b, a[1])))
ReleaseCall(b, a) == ReturnVoid(Release(DecExt(b, Node(b, a[1])), Node(b, a[1])))
ReleaseAllCall(b, a) == ReturnVoid(ReleaseAllExt(b))
MatchById(b, a) == ReturnNode(Copy(b, Node(b, a[1])))
MatchBySymbol(b, a) == ReturnNode(Copy(b, GetBySymbol(b, a[1])))
SetSymbolCall(b, a) ==
  ReturnVoid(IF HasKey(b.symbols, a[2]) THEN b ELSE SetSymbol(b, Abs(a[1]), a[2]))

\* btor_assert_exp, for a term that is no conjunction and has no parents.
AddConstraint(b, p) ==
  IF \E q \in Range(b.unsynthesized \o b.synthesized) : q = p THEN b
  ELSE [Copy(b, p) EXCEPT !.unsynthesized = Append(@, p), !.nodes[p.id].constraint = TRUE]
AssertOn(b, p) == ReturnVoid(AddConstraint(b, Simplified(b, p)))
AssertCall(b, a) == AssertOn(ResetIncrementalUsage(b), Node(b, a[1]))

AddAssumption(b, p) ==
  IF \E q \in Range(b.assumptions) : q = p THEN b
  ELSE [Copy(b, p) EXCEPT !.assumptions = Append(@, p)]
AddOrig(b, p) ==
  IF \E q \in Range(b.orig_assumptions) : q = p THEN b
  ELSE [Copy(b, p) EXCEPT !.orig_assumptions = Append(@, p)]
AddFailed(b, p) == [Copy(b, p) EXCEPT !.failed_assumptions = Append(@, p)]
AssumeOn(b, p) ==
  ReturnVoid(AddFailed(AddAssumption(AddOrig(b, p), Simplified(b, p)), p))
AssumeCall(b, a) == AssumeOn(ResetIncrementalUsage(b), Node(b, a[1]))

Sat(b, a) == CheckSat(b, a[1], a[2])

\* An assignment string is a copy that the instance lists until it is freed;
\* the shadow has one too.
BvAssignment(b, a) ==
  ReturnVoid([b EXCEPT !.bvass = Append(@, [id |-> a[1], cloned |-> Nil])])
FreeBvAssignment(b, a) ==
  ReturnVoid([b EXCEPT !.bvass = SelectSeq(@, LAMBDA s : s.id # a[1])])

\* A term that nothing refers to in the graph turns out to be another one.
Simplify(b, a) == ReturnVoid(SetSimplified(b, a[1], Node(b, a[2])))

\* The conditions under which the user may make a call.
Allowed(b, op, a) ==
  CASE op \in {"bool_sort", "bitvec_sort", "sat", "release_all"} -> TRUE
    [] op = "fun_sort" -> (\A i \in Range(a[1]) : HeldSort(b, i)) /\ HeldSort(b, a[2])
    [] op = "array_sort" -> HeldSort(b, a[1]) /\ HeldSort(b, a[2])
    [] op \in {"copy_sort", "release_sort"} -> HeldSort(b, a[1])
    [] op \in {"var", "param"} ->
         HeldSort(b, a[1]) /\ SortIsBv(b, a[1]) /\ FreshSymbol(b, a[2])
    [] op \in {"uf", "array"} ->
         HeldSort(b, a[1]) /\ SortIsFun(b, a[1]) /\ FreshSymbol(b, a[2])
    [] op = "and" -> HeldBv(b, a[1]) /\ HeldBv(b, a[2])
         /\ Simplified(b, Node(b, a[1])).id # Simplified(b, Node(b, a[2])).id
         /\ {Simplified(b, Node(b, a[i])).id : i \in {1, 2}} \cap {1} = {}
    [] op = "apply" -> /\ HeldFun(b, a[1]) /\ \A i \in Range(a[2]) : HeldBv(b, i)
                       /\ FunArity(b, b.nodes[Abs(a[1])].sort) = Len(a[2])
    [] op = "fun" -> /\ \A i \in Range(a[1]) : /\ Held(b, i) /\ b.nodes[i].kind = "param"
                                               /\ b.nodes[i].binder = Nil
                     /\ HeldBv(b, a[2])
    [] op \in {"copy", "release", "match_by_id", "set_symbol"} -> Held(b, a[1])
    [] op = "match_by_symbol" -> HasKey(b.symbols, a[1])
    [] op \in {"assert", "assume"} ->
         HeldBool(b, a[1]) /\ b.nodes[Abs(a[1])].parents = 0
    [] op = "bv_assignment" -> /\ HeldBv(b, a[1]) /\ b.valid /\ b.result = "sat"
                               /\ \A s \in Range(b.bvass) : s.id # a[1]
    [] op = "free_bv_assignment" -> \E s \in Range(b.bvass) : s.id = a[1]

-----------------------------------------------------------------------------
(* What a node or a sort can be asked.                                      *)

GetNodeId(b, p) == p.id
GetSort(b, p) == b.nodes[p.id].sort
FunGetDomainSort(b, p) == FunDomain(b, GetSort(b, p))
FunGetCodomainSort(b, p) == FunCodomain(b, GetSort(b, p))
GetSymbolCall(b, p) == GetSymbol(b, p.id).id
GetWidth(b, p) == IF SortIsFun(b, GetSort(b, p))
                  THEN SortWidth(b, FunCodomain(b, GetSort(b, p)))
                  ELSE SortWidth(b, GetSort(b, p))
GetIndexWidth(b, p) == SortWidth(b, ArrayIndex(b, GetSort(b, p)))
GetFunArity(b, p) == FunArity(b, GetSort(b, p))
StandsFor(b, p) == b.nodes[Simplified(b, p).id]
IsConst(b, p) == IsKind(b, p, "const")
IsVar(b, p) == StandsFor(b, p).kind = "var"
IsArray(b, p) == StandsFor(b, p).is_array
IsArrayVar(b, p) == StandsFor(b, p).kind = "uf" /\ StandsFor(b, p).is_array
IsParam(b, p) == StandsFor(b, p).kind = "param"
IsBoundParam(b, p) == b.nodes[p.id].binder # Nil
IsUf(b, p) == StandsFor(b, p).kind = "uf"
IsFun(b, p) == StandsFor(b, p).kind \in {"uf", "lambda"}
IsEqualSort(b, p, q) == GetSort(b, p) = GetSort(b, q)
IsBitvecSort(b, i) == SortIsBv(b, i)
IsFunSort(b, i) == SortIsFun(b, i)
BitvecSortGetWidth(b, i) == SortWidth(b, i)

\* The position of the first argument that does not fit, -1 if all do.
IsValidArgument(b, p) ==
  ~IsFun(b, p) /\ ~IsArray(b, p) /\ ~(IsKind(b, p, "param") /\ IsBoundParam(b, p))
FunSortCheck(b, args, p) ==
  LET bad == {i \in DOMAIN args :
                \/ ~IsValidArgument(b, args[i])
                \/ TupleElements(b, FunGetDomainSort(b, p))[i] # GetSort(b, args[i])}
  IN  IF bad = {} THEN -1 ELSE (CHOOSE i \in bad : \A j \in bad : i <= j) - 1

\* Everything that can be asked of the held nodes.
OfFun(b, p) == IF ~(IsFun(b, p) /\ SortIsFun(b, GetSort(b, p))) THEN <<>>
               ELSE <<FunGetDomainSort(b, p), FunGetCodomainSort(b, p), GetFunArity(b, p),
                      IF IsArray(b, p) THEN GetIndexWidth(b, p) ELSE 0>>
OfNode(b, p) ==
  <<GetNodeId(b, p), GetSort(b, p), GetSymbolCall(b, p), GetWidth(b, p), IsConst(b, p),
    IsVar(b, p), IsArray(b, p), IsArrayVar(b, p), IsParam(b, p),
    IsParam(b, p) /\ IsBoundParam(b, p), IsUf(b, p), IsFun(b, p)>> \o OfFun(b, p)
HeldNodes(b) == {Here(b, i) : i \in {j \in Live(b) : b.nodes[j].ext > 0}}
SortAnswers(b) == [i \in {j \in DOMAIN b.sorts : b.sorts[j].ext > 0} |->
                     <<IsBitvecSort(b, i), IsFunSort(b, i), BitvecSortGetWidth(b, i)>>]
Answers(b) == <<{OfNode(b, p) : p \in HeldNodes(b)}, SortAnswers(b),
                {<<p.id, q.id>> : <<p, q>> \in {x \in HeldNodes(b) \X HeldNodes(b) :
                                                  IsEqualSort(b, x[1], x[2])}},
                {<<p.id, q.id, FunSortCheck(b, <<p>>, q)>> :
                   <<p, q>> \in {x \in HeldNodes(b) \X HeldNodes(b) :
                      /\ IsFun(b, x[2]) /\ SortIsFun(b, GetSort(b, x[2]))
                      /\ GetFunArity(b, x[2]) = 1}}>>

-----------------------------------------------------------------------------
(* btor_chkclone: what its assertions compare of an instance b and c.       *)

\* BTOR_CHKCLONE_EXPPTRID, ...INV and ...TAG: the same object of the other
\* instance.
ChkPtr(p, q) == p.id = q.id /\ p.t = q.t /\ (p # Nil => p.o # q.o)
ChkPtrStack(ps, qs) == Len(ps) = Len(qs) /\ \A i \in DOMAIN ps : ChkPtr(ps[i], qs[i])
ChkPtrTable(t, u) == ChkPtrStack(Keys(t), Keys(u))
ChkIntTable(t, u) == t.count = u.count /\ t.keys = u.keys

ChkState(b, c) == /\ b.valid = c.valid /\ b.external = c.external
                  /\ b.called = c.called /\ b.result = c.result
ChkAssignments(b, c) ==
  /\ Len(b.bvass) = Len(c.bvass)
  /\ \A i \in DOMAIN b.bvass : b.bvass[i].id = c.bvass[i].id
ChkAigs(b, c) == b.aigs = c.aigs /\ b.naigs = c.naigs

ChkExp(n, m) ==
  /\ n.kind = m.kind /\ n.constraint = m.constraint /\ n.unique = m.unique
  /\ n.par = m.par /\ n.refs = m.refs /\ n.ext = m.ext /\ n.parents = m.parents
  /\ Len(n.e) = Len(m.e) /\ ChkPtrStack(n.av, m.av)
  /\ n.rho # <<>> => ChkPtrTable(n.rho, m.rho)
  /\ ChkPtr(n.chain, m.chain) /\ ChkPtr(n.simp, m.simp)
  /\ ChkPtr(n.first, m.first) /\ ChkPtr(n.last, m.last)
  /\ \A i \in DOMAIN n.e : n.e[i].t = m.e[i].t
  /\ ChkPtrStack(n.prev, m.prev) /\ ChkPtrStack(n.nextp, m.nextp)
  /\ ChkPtr(n.binder, m.binder) /\ ChkPtr(n.body, m.body)
ChkNodeIds(b, c) == Len(b.nodes) = Len(c.nodes)
                    /\ \A i \in DOMAIN b.nodes : ChkExp(b.nodes[i], c.nodes[i])
ChkUniqueTable(b, c) == b.nunique = c.nunique /\ ChkPtrStack(b.chains, c.chains)

ChkParameterized(b, c) ==
  /\ ChkPtrTable(b.parameterized, c.parameterized)
  /\ \A i \in DOMAIN b.parameterized :
       ChkIntTable(b.parameterized[i][2], c.parameterized[i][2])
ChkTables(b, c) ==
  /\ ChkPtrTable(b.symbols, c.symbols) /\ ChkPtrTable(b.node2symbol, c.node2symbol)
  /\ \A i \in DOMAIN b.node2symbol : ChkPtr(b.node2symbol[i][2], c.node2symbol[i][2])
  /\ ChkPtrTable(b.vars, c.vars) /\ ChkPtrTable(b.lambdas, c.lambdas)
  /\ ChkPtrStack(b.unsynthesized, c.unsynthesized)
  /\ ChkPtrStack(b.synthesized, c.synthesized)
  /\ ChkPtrStack(b.assumptions, c.assumptions)
  /\ ChkParameterized(b, c) /\ b.bv_model = c.bv_model
\* The sort a call returns: its own fields are compared with themselves.
ChkSolver(b, c) == b.slv.kind = c.slv.kind /\ ChkPtrStack(b.slv.lemmas, c.slv.lemmas)
Chkclone(b, c) ==
  /\ ChkState(b, c) /\ ChkAssignments(b, c) /\ ChkAigs(b, c) /\ ChkNodeIds(b, c)
  /\ ChkUniqueTable(b, c) /\ ChkPtrStack(b.with_model, c.with_model)
  /\ ChkTables(b, c) /\ ChkSolver(b, c)

-----------------------------------------------------------------------------
(* Terms rebuilt in another instance over a map that grows.  A state of     *)
(* the rebuilding is [b, d, m]: the source, the target and the map.         *)

\* btor_nodemap_map holds both sides.
MapTo(w, id, p) == [w EXCEPT !.b = Copy(@, Here(w.b, id)), !.d = Copy(@, p),
                             !.m = Append(@, <<Here(w.b, id), p>>)]
MappedIn(m, p) == CondInvert(p, m[CHOOSE i \in DOMAIN m : m[i][1].id = p.id][2])
IsMapped(m, id) == \E i \in DOMAIN m : m[i][1].id = id

\* btor_clone_recursively_rebuild_sort: the components first, each given up
\* once the whole sort holds it.
RECURSIVE RebuildSort(_, _, _)
RECURSIVE RebuildSorts(_, _, _, _)
RebuildSorts(b, d, ids, done) ==
  IF ids = <<>> THEN [d EXCEPT !.r = done]
  ELSE LET n == RebuildSort(b, d, Head(ids))
       IN  RebuildSorts(b, n, Tail(ids), Append(done, n.r))
RECURSIVE ReleaseSortIds(_, _)
ReleaseSortIds(d, ids) ==
  IF ids = <<>> THEN d ELSE ReleaseSortIds(ReleaseSort(d, Head(ids)), Tail(ids))
BuildSort(d, s, ids) ==
  ReleaseSortIds(CASE s.kind = "bv" -> SortBv(d, s.width)
                   [] s.kind = "fun" -> SortFun(d, ids[1], ids[2])
                   [] OTHER -> SortTuple(d, ids), ids)
BuildSortOver(d, s) == BuildSort(d, s, d.r)
RebuildSort(b, d, i) ==
  BuildSortOver(RebuildSorts(b, d, TupleElements(b, i), <<>>), b.sorts[i])

\* An input is the node with the same symbol, if there is one.
OverSort(d, kind, s) ==
  ReleaseSort(CASE kind = "var" -> CreateVar(d, d.r, s)
                [] kind = "param" -> CreateParam(d, d.r, s)
                [] OTHER -> CreateUf(d, d.r, s), d.r)
RebuildInput(b, d, id) ==
  LET s == GetSymbol(b, id).id
  IN  IF s # 0 /\ HasKey(d.symbols, s) THEN Copy(d, GetBySymbol(d, s))
      ELSE OverSort(RebuildSort(b, d, b.nodes[id].sort), b.nodes[id].kind, s)
RebuildNode(b, d, m, id) ==
  LET n == b.nodes[id]
      e == [i \in DOMAIN n.e |-> MappedIn(m, n.e[i])]
  IN  CASE n.kind = "const" -> Copy(d, RealAddr(d.true_exp))
        [] n.kind \in {"var", "param", "uf"} -> RebuildInput(b, d, id)
        [] n.kind = "and" -> CreateAnd(d, e[1], e[2])
        [] n.kind = "args" -> CreateArgs(d, e)
        [] n.kind = "apply" -> CreateApply(d, e[1], e[2])
        [] n.kind = "lambda" -> CreateLambda(SetBinder(d, e[1].id, Nil), e[1], e[2])
GiveBack(w, p) == [w EXCEPT !.d = Release(@, p)]
RebuiltAs(w, d, id) == GiveBack(MapTo([w EXCEPT !.d = d], id, d.r), d.r)
RECURSIVE RebuildStack(_, _)
RebuildStack(w, stack) ==
  IF stack = <<>> THEN w
  ELSE LET id == Last(stack).id
           open == SelectSeq(w.b.nodes[id].e, LAMBDA p : ~IsMapped(w.m, p.id))
       IN  IF IsMapped(w.m, id) THEN RebuildStack(w, Front(stack))
           ELSE IF open # <<>> THEN RebuildStack(w, stack \o w.b.nodes[id].e)
           ELSE RebuildStack(RebuiltAs(w, RebuildNode(w.b, w.d, w.m, id), id), Front(stack))
\* The caller gets a reference to what the term is mapped to.
CopyMapped(w, p) == [w EXCEPT !.d = Copy(@, MappedIn(w.m, p))]
RebuildExp(b, d, m, p) == CopyMapped(RebuildStack([b |-> b, d |-> d, m |-> m], <<p>>), p)

\* The map that btor_clone_exp_layer returns.
RECURSIVE MapAll(_, _)
MapAll(w, ids) ==
  IF ids = <<>> THEN w ELSE MapAll(MapTo(w, Head(ids), Here(w.d, Head(ids))), Tail(ids))
CloneExpLayer(b, name) ==
  MapAll([b |-> b, d |-> CloneBtor(b, name, TRUE), m |-> <<>>], Ascending(Live(b)))
RECURSIVE ReleaseMap(_, _)
ReleaseMap(w, m) ==
  IF m = <<>> THEN w
  ELSE ReleaseMap([w EXCEPT !.d = Release(@, Head(m)[2]), !.b = Release(@, Head(m)[1])],
                  Tail(m))

\* new_exp_layer_clone_for_dual_prop: the conjunction of the constraints and
\* assumptions replaces them in the layer.
ConjoinWith(d, r, p) == Release(CreateAnd(d, r, p), r)
RECURSIVE Conjoined(_, _)
Conjoined(d, ps) ==
  IF ps = <<>> THEN d ELSE Conjoined(ConjoinWith(d, d.r, Head(ps)), Tail(ps))
Unconstrained(d, ps) ==
  [d EXCEPT !.unsynthesized = <<>>, !.assumptions = <<>>,
            !.nodes = Tuple([i \in DOMAIN @ |->
               IF \E k \in DOMAIN ps : ps[k].id = i
               THEN [@[i] EXCEPT !.constraint = FALSE] ELSE @[i]])]
RootOver(d, ps) ==
  ReleaseAll(Conjoined(Copy(Unconstrained(d, ps), Head(ps)), Tail(ps)), ps)
DualPropClone(w) == [w EXCEPT !.d = RootOver(@, @.unsynthesized \o @.assumptions)]

-----------------------------------------------------------------------------
(* The user and the solvers.                                                *)

Names == DOMAIN inst
Alive(i) == i \in Names
Shadowed(i) == i = "o" /\ Alive("s")
\* A solver with an instance of its own runs inside a call.
Searching == Alive("d")

Init == /\ inst = [i \in {"o"} |-> NewBtor("o")] /\ sat \in BOOLEAN
        /\ program \in Programs /\ pos = [i \in {"o"} |-> 0]
        /\ emap = <<>> /\ root = Nil /\ free = 0 /\ layers = 0

\* A call on i, repeated on its shadow.
Apart(i, F(_)) == [n \in Names |-> IF n = i \/ (n = "s" /\ Shadowed(i)) THEN F(inst[n])
                                   ELSE inst[n]]
NextCall(i) == program[pos[i] + 1]
Ready(i, op) == /\ ~Searching /\ Alive(i) /\ pos[i] < Len(program)
                /\ NextCall(i).op = op /\ Allowed(inst[i], op, NextCall(i).a)
Call(i, op, F(_, _)) ==
  /\ Ready(i, op)
  /\ inst' = Apart(i, LAMBDA b : F(b, NextCall(i).a))
  /\ pos' = [pos EXCEPT ![i] = @ + 1]
  /\ UNCHANGED <<sat, program, emap, root, free, layers>>

CallBoolSort(i) == Call(i, "bool_sort", BoolSort)
CallBitvecSort(i) == Call(i, "bitvec_sort", BitvecSort)
CallFunSort(i) == Call(i, "fun_sort", FunSort)
CallArraySort(i) == Call(i, "array_sort", ArraySort)
CallCopySort(i) == Call(i, "copy_sort", CopySortCall)
CallReleaseSort(i) == Call(i, "release_sort", ReleaseSortCall)
CallVar(i) == Call(i, "var", Var)
CallUf(i) == Call(i, "uf", Uf)
CallArray(i) == Call(i, "array", ArrayVar)
CallParam(i) == Call(i, "param", Param)
CallAnd(i) == Call(i, "and", And)
CallApply(i) == Call(i, "apply", Apply)
CallFun(i) == Call(i, "fun", Fun)
CallCopy(i) == Call(i, "copy", CopyCall)
CallMatchById(i) == Call(i, "match_by_id", MatchById)
CallMatchBySymbol(i) == Call(i, "match_by_symbol", MatchBySymbol)
CallSetSymbol(i) == Call(i, "set_symbol", SetSymbolCall)
CallAssert(i) == Call(i, "assert", AssertCall)
CallAssume(i) == Call(i, "assume", AssumeCall)
CallSat(i) == Call(i, "sat", Sat)
CallReleaseAll(i) == Call(i, "release_all", ReleaseAllCall)

\* The strings of the shadow are freed through the pointer kept with the
\* strings of the instance.
PointTo(b, name) == [b EXCEPT !.bvass = [k \in DOMAIN @ |->
                                   [id |-> @[k].id, cloned |-> P(name, @[k].id, 0)]]]
ClonedOf(b, id) == (CHOOSE s \in Range(b.bvass) : s.id = id).cloned
CallBvAssignment(i) ==
  /\ Ready(i, "bv_assignment")
  /\ LET done == Apart(i, LAMBDA b : BvAssignment(b, NextCall(i).a))
     IN  inst' = IF Shadowed(i) THEN [done EXCEPT ![i] = PointTo(@, "s")] ELSE done
  /\ pos' = [pos EXCEPT ![i] = @ + 1]
  /\ UNCHANGED <<sat, program, emap, root, free, layers>>
CallFreeBvAssignment(i) ==
  /\ Ready(i, "free_bv_assignment")
  /\ LET a == NextCall(i).a
         done == [inst EXCEPT ![i] = FreeBvAssignment(@, a)]
     IN  inst' = IF Shadowed(i)
                 THEN [done EXCEPT !["s"] = FreeBvAssignment(@, <<ClonedOf(inst[i], a[1]).id>>)]
                 ELSE done
  /\ pos' = [pos EXCEPT ![i] = @ + 1]
  /\ UNCHANGED <<sat, program, emap, root, free, layers>>

\* Releases and simplifications at any time.
Freely(i, F(_)) == /\ ~Searching /\ Alive(i) /\ free < MaxFree
                   /\ inst' = Apart(i, F) /\ free' = free + 1
                   /\ UNCHANGED <<sat, program, pos, emap, root, layers>>
CallRelease(i) ==
  \E p \in HeldNodes(inst[i]) : Freely(i, LAMBDA b : ReleaseCall(b, <<p.id>>))
CanSimplify(b, id) == /\ b.nodes[id].kind \in {"var", "and", "apply"}
                      /\ b.nodes[id].parents = 0 /\ b.nodes[id].simp = Nil
                      /\ ~b.nodes[id].constraint /\ ~b.nodes[id].par
                      /\ \A p \in Range(b.assumptions) : p.id # id
SimplifyNode(i) ==
  \E id \in Live(inst[i]), to \in Live(inst[i]), t \in {1, -1} :
    /\ CanSimplify(inst[i], id) /\ id # to
    /\ inst[i].nodes[to].kind \in {"const", "var"} /\ inst[i].nodes[to].simp = Nil
    /\ inst[i].nodes[to].sort = inst[i].nodes[id].sort
    /\ Freely(i, LAMBDA b : Simplify(b, <<id, t * to>>))

\* The shadow goes first.  Whoever still holds something sets AUTO_CLEANUP.
Without1(f, S) == [n \in DOMAIN f \ S |-> f[n]]
Delete(i) ==
  /\ ~Searching /\ Alive(i)
  /\ inst' = Without1(inst, {i} \cup IF i = "o" THEN {"s"} ELSE {})
  /\ pos' = Without1(pos, {i})
  /\ UNCHANGED <<sat, program, emap, root, free, layers>>

ChkcloneCall ==
  /\ ~Searching /\ Alive("o") /\ Cardinality(Names \ {"s"}) < MaxInstances
  /\ inst' = IF sat
             THEN [n \in Names \cup {"s"} |->
                     CASE n = "s" -> CloneBtor(inst["o"], "s", FALSE)
                       [] n = "o" -> PointTo(inst["o"], "s")
                       [] OTHER -> inst[n]]
             ELSE Without1(inst, {"s"})
  /\ UNCHANGED <<sat, program, pos, emap, root, free, layers>>

\* Only the expression layer, when the SAT solver cannot be cloned.
CloneCall ==
  /\ ~Searching /\ Alive("o") /\ ~Alive("c") /\ Cardinality(Names) < MaxInstances
  /\ inst' = [n \in Names \cup {"c"} |->
                IF n = "c" THEN CloneBtor(inst["o"], "c", ~sat) ELSE inst[n]]
  /\ pos' = [n \in DOMAIN pos \cup {"c"} |-> pos["o"]]
  /\ UNCHANGED <<sat, program, emap, root, free, layers>>

\* The instance of a solver: a layer with all terms, or a fresh instance.
Apply2(w) == [n \in Names \cup {"d"} |->
                CASE n = "o" -> w.b [] n = "d" -> w.d [] OTHER -> inst[n]]
Solve(w) == /\ inst' = Apply2(w) /\ emap' = w.m /\ root' = w.d.r
            /\ layers' = layers + 1 /\ UNCHANGED <<sat, program, pos, free>>
Alone == Names = {"o"} /\ inst["o"].valid = FALSE /\ layers < MaxLayers
Constraints(b) == b.unsynthesized \o b.assumptions
NoProxies(b, ids) == \A k \in Below(b, ids) : b.nodes[k].simp = Nil
IdsOf(ps) == {ps[k].id : k \in DOMAIN ps}
NewDualPropClone ==
  /\ Alone /\ inst["o"].unsynthesized # <<>>
  /\ LET ps == Constraints(inst["o"])
     IN  /\ Cardinality(IdsOf(ps)) = Len(ps) /\ NoProxies(inst["o"], IdsOf(ps))
         /\ Solve(DualPropClone(CloneExpLayer(inst["o"], "d")))
NewForallSolver ==
  /\ Alone
  /\ \E p \in HeldNodes(inst["o"]) :
       /\ NoProxies(inst["o"], {p.id})
       /\ LET w == RebuildExp(inst["o"], NewBtor("d"), <<>>, p)
          IN  Solve([ReleaseMap(w, w.m) EXCEPT !.m = <<>>])

\* A lemma over two terms joins the formula and the clone.
Lemma(w, l) ==
  LET v == RebuildExp(Release(GiveLemma(Solver(w.b), l.id), l), w.d, w.m, l)
  IN  [v EXCEPT !.d = Release(ConjoinWith(@, root, @.r), @.r)]
LemmaOver(b, p, q) ==
  LET n == CreateAnd(b, p, q)
  IN  Solve(Lemma([b |-> n, d |-> inst["d"], m |-> emap], n.r))
AddLemmaToClone ==
  /\ Searching /\ emap # <<>> /\ layers < MaxLayers
  /\ \E p \in HeldNodes(inst["o"]), q \in HeldNodes(inst["o"]) :
       /\ p.id < q.id /\ p.id # 1
       /\ \A x \in {p, q} : /\ SortIsBool(inst["o"], GetSort(inst["o"], x))
                            /\ ~inst["o"].nodes[x.id].par
       /\ NoProxies(inst["o"], {p.id, q.id})
       /\ LemmaOver(inst["o"], p, Invert(q))

EndSearch ==
  /\ Searching
  /\ LET w == ReleaseMap([b |-> inst["o"], d |-> inst["d"]], emap)
     IN  inst' = [n \in Names \ {"d"} |-> IF n = "o" THEN w.b ELSE inst[n]]
  /\ emap' = <<>> /\ root' = Nil
  /\ UNCHANGED <<sat, program, pos, free, layers>>

User(i) ==
  \/ CallBoolSort(i) \/ CallBitvecSort(i) \/ CallFunSort(i) \/ CallArraySort(i)
  \/ CallCopySort(i) \/ CallReleaseSort(i) \/ CallVar(i) \/ CallUf(i) \/ CallArray(i)
  \/ CallParam(i) \/ CallAnd(i) \/ CallApply(i) \/ CallFun(i) \/ CallCopy(i)
  \/ CallMatchById(i) \/ CallMatchBySymbol(i) \/ CallSetSymbol(i) \/ CallAssert(i)
  \/ CallAssume(i) \/ CallSat(i) \/ CallReleaseAll(i) \/ CallBvAssignment(i)
  \/ CallFreeBvAssignment(i) \/ CallRelease(i) \/ SimplifyNode(i) \/ Delete(i)
Next == \/ \E i \in Names \cap {"o", "c"} : User(i)
        \/ ChkcloneCall \/ CloneCall
        \/ NewDualPropClone \/ NewForallSolver \/ AddLemmaToClone \/ EndSearch
Spec == Init /\ [][Next]_vars

-----------------------------------------------------------------------------
(* Properties.                                                              *)

\* Every pointer of an instance leads to a live object of that instance:
\* the copy of an instance shares nothing with it (boolector.h: "The exact
\* (but disjunct) copy"), and nothing that is freed is still referred to.
ToNode(b, p) == p = Nil \/ (p.o = b.name /\ p.id \in Live(b))
ToNodes(b, ps) == \A k \in DOMAIN ps : ps[k] # Nil /\ ToNode(b, ps[k])
NodeApart(b, n) ==
  /\ n.btor = b.name
  /\ ToNodes(b, n.e)
  /\ \A p \in Range(n.prev) \cup Range(n.nextp)
              \cup {n.first, n.last, n.chain, n.simp, n.binder, n.body} : ToNode(b, p)
  /\ \A p \in Range(n.av) : p.o = b.name /\ p.id \in b.aigs
  /\ ToNodes(b, Keys(n.rho)) /\ \A k \in DOMAIN n.rho : ToNode(b, n.rho[k][2])
  /\ SortIsValid(b, n.sort)
TablesApart(b) ==
  /\ ToNodes(b, Keys(b.vars) \o Keys(b.ufs) \o Keys(b.lambdas) \o Keys(b.parameterized)
                \o Keys(b.node2symbol) \o Tables(b) \o b.with_model \o b.slv.lemmas)
  /\ \A k \in DOMAIN b.chains : ToNode(b, b.chains[k])
  /\ \A row \in Range(b.symbols) : row[1].o = b.name /\ ToNode(b, row[2])
  /\ \A row \in Range(b.node2symbol) : row[2] \in Range(Keys(b.symbols))
  /\ b.slv.kind # "none" => b.slv.btor = b.name
  /\ \A s \in Range(b.bvass) : b.name = "o" /\ Alive("s") =>
       s.cloned.o = "s" /\ \E u \in Range(inst["s"].bvass) : u.id = s.cloned.id
Apartness(b) ==
  /\ \A k \in Live(b) : NodeApart(b, b.nodes[k])
  /\ \A s \in Range(b.sorts) : \A p \in Range(s.elems) : p.o = b.name /\ SortIsValid(b, p.id)
  /\ TablesApart(b)
NothingShared == \A n \in Names : Apartness(inst[n])

\* An instance whose tables of ids have lost what a clone of them loses.
WithoutLostKeys(b) == [b EXCEPT !.parameterized = CloneParameterized(b, b.name)]

\* However the calls, clones and deletions are ordered, the shadow stays the
\* same as the instance in everything btor_chkclone compares, it returned the
\* same from the last call, and every query has the same answer.  Left out are
\* the keys of tables of ids in the slots behind the first quarter, which
\* btor_clone_data_as_int_htable does not copy (btorclone.c:234): for them the
\* assertion of btorchkclone.c:100 fails.
ShadowExact ==
  Alive("s") => /\ Chkclone(WithoutLostKeys(inst["o"]), WithoutLostKeys(inst["s"]))
                /\ Answers(inst["o"]) = Answers(inst["s"])

Times(ps, id) == Len(SelectSeq(ps, LAMBDA p : p.id = id))
HeldBySolver(b) ==
  CASE b.name = "o" -> Keys(emap)
    [] b.name = "d" -> [k \in DOMAIN emap |-> emap[k][2]] \o <<root>>
    [] OTHER -> <<>>
NodeRefs(b, id) ==
  b.nodes[id].ext
  + FoldSet(LAMBDA k, n : n + Times(b.nodes[k].e, id)
                            + (IF b.nodes[k].simp.id = id THEN 1 ELSE 0), 0, Live(b))
  + Times(Tables(b) \o b.with_model \o b.slv.lemmas \o <<b.true_exp>> \o HeldBySolver(b), id)
  + (IF id \in b.bv_model THEN 1 ELSE 0)
SortRefs(b, id) ==
  b.sorts[id].ext + Cardinality({k \in Live(b) : b.nodes[k].sort = id})
  + FoldSet(LAMBDA k, n : n + Times(b.sorts[k].elems, id), 0, DOMAIN b.sorts)
\* The reference counters of nodes and sorts are the number of references:
\* the user's, those of parents, proxies, tables, the model, the solver and
\* the maps of the solvers (btor_clone copies counters and nodes together).
\* Whatever instance is deleted in whatever state, nothing is left of it,
\* what btor_delete asserts in the end.
RefsExact ==
  \A n \in Names :
    /\ \A k \in Live(inst[n]) : inst[n].nodes[k].refs = NodeRefs(inst[n], k)
    /\ \A k \in DOMAIN inst[n].sorts :
         SortIsValid(inst[n], k) => inst[n].sorts[k].refs = SortRefs(inst[n], k)
    /\ n # "d" /\ ~Searching =>
         NothingLeft(Deleted([inst[n] EXCEPT !.auto = @ \/ inst[n].external > 0]))

=============================================================================
