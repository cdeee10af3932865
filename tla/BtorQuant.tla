----------------------------- MODULE BtorQuant ------------------------------
(***************************************************************************)
(* Formulas with quantifiers, and what the quantifier engine does to one   *)
(* before it searches: normalization (preprocess/btornormquant.c),         *)
(* miniscoping (btorminiscope.c), destructive and constructive equality    *)
(* resolution (btorder.c), the dependencies of the variables and the dual  *)
(* formula (btorslvquant.c).                                               *)
(*                                                                         *)
(* Terms are those of BtorTerms with three more kinds: a parameter, and a  *)
(* universal and an existential quantifier with their parameter and body   *)
(* as children.  Names are numbers.  Equal terms are one node              *)
(* (the hash-consing of btornode.c), so a traversal that marks nodes by id *)
(* marks terms.  Of the rewriting done when a node is created only the     *)
(* rules for quantifiers are kept.                                         *)
(***************************************************************************)
EXTENDS BtorTerms, FiniteSets, TLC

Param(name, w) == Node("param", w, <<>>, name, 0)
AndExp(s, t) == Create("and", s, t)
EqExp(s, t) == Create("eq", s, t)
Implies(s, t) == Invert(AndExp(s, Invert(t)))

Quantifiers == {"forall", "exists"}
IsQuantifier(t) == t.k \in Quantifiers
Flipped(k) == IF k = "forall" THEN "exists" ELSE "forall"
NameOf(q) == q.e[1].x
BodyOf(q) == q.e[2]

RECURSIVE SubTerms(_), FreeParams(_), BlockBody(_)

\* The nodes below and including t's.
SubTerms(t) == {Real(t)} \union UNION {SubTerms(t.e[i]) : i \in DOMAIN t.e}
QuantifierBelow(t) == \E s \in SubTerms(t) : IsQuantifier(s)
Contains(t, p) == p \in SubTerms(t)
VarsOf(t) == {s \in SubTerms(t) : s.k = "var"}

\* The parameters that are free in t; t is parameterized if there are any.
FreeParams(t) ==
  CASE t.k = "param" -> {t.x}
    [] IsQuantifier(t) -> FreeParams(BodyOf(t)) \ {NameOf(t)}
    [] OTHER -> UNION {FreeParams(t.e[i]) : i \in DOMAIN t.e}
Parameterized(t) == FreeParams(t) # {}

\* The body below a block of quantifiers that are not inverted.
BlockBody(q) ==
  IF ~BodyOf(q).inv /\ IsQuantifier(BodyOf(q)) THEN BlockBody(BodyOf(q)) ELSE BodyOf(q)

-----------------------------------------------------------------------------
(* Creating quantifiers: the rules const_quantifier, eq_forall, eq_exists.  *)

ConstQuantifier(p, body) == ~Parameterized(body)
EqQuantifier(p, body) ==
  /\ body.k = "eq"
  /\ \E i \in 1..2 : /\ body.e[i] = p
                     /\ ~Contains(body.e[3 - i], p)
                     /\ ~QuantifierBelow(body.e[3 - i])

CreateQuantifier(k, p, body) ==
  CASE ConstQuantifier(p, body) -> body
    [] ~ConstQuantifier(p, body) /\ EqQuantifier(p, body) ->
         IF k = "forall" THEN False ELSE True
    [] OTHER -> Node(k, 1, <<p, body>>, 0, 0)

\* btor_exp_create: a node of real's kind over new children.
Rebuilt(real, k, e) ==
  CASE k \in Quantifiers -> CreateQuantifier(k, e[1], e[2])
    [] k \in {"cond"} -> CreateCond(e[1], e[2], e[3])
    [] k \in {"var", "param", "const"} -> real
    [] OTHER -> Create(k, e[1], e[2])

-----------------------------------------------------------------------------
(* What a formula means.                                                    *)

Domain(w) == 0..Ones(w)
Bool(b) == IF b THEN 1 ELSE 0

RECURSIVE Standard(_, _), Effective(_, _, _), Matrix(_, _)

\* The value of t under env, quantifiers as written.
Standard(t, env) ==
  LET v(i) == Standard(t.e[i], env)
      in(d) == Standard(BodyOf(t), (NameOf(t) :> d) @@ env) = 1
      n == CASE t.k \in {"var", "param"} -> env[t.x]
             [] t.k = "const" -> t.x
             [] t.k = "cond" -> IF v(1) = 1 THEN v(2) ELSE v(3)
             [] t.k = "forall" -> Bool(\A d \in Domain(t.e[1].w) : in(d))
             [] t.k = "exists" -> Bool(\E d \in Domain(t.e[1].w) : in(d))
             [] OTHER -> Meaning(t.k, t.e[2].w, v(1), v(2))
  IN IF t.inv THEN Ones(t.w) - n ELSE n

(* After normalization the kind of a quantifier is the one it has once it   *)
(* is moved to the front of the formula: below an odd number of inversions  *)
(* it stands for the other one.                                             *)
Effective(t, even, env) ==
  LET here == even # t.inv
      v(i) == Effective(t.e[i], here, env)
      in(d) == Effective(BodyOf(t), here, (NameOf(t) :> d) @@ env) = 1
      n == CASE t.k \in {"var", "param"} -> env[t.x]
             [] t.k = "const" -> t.x
             [] t.k = "cond" -> IF v(1) = 1 THEN v(2) ELSE v(3)
             [] IsQuantifier(t) /\ (t.k = "forall") = here ->
                  Bool(\A d \in Domain(t.e[1].w) : in(d))
             [] IsQuantifier(t) /\ (t.k = "exists") = here ->
                  Bool(\E d \in Domain(t.e[1].w) : in(d))
             [] OTHER -> Meaning(t.k, t.e[2].w, v(1), v(2))
  IN IF t.inv THEN Ones(t.w) - n ELSE n

\* The value of t under env, every quantifier being the value of its body.
Matrix(t, env) ==
  LET v(i) == Matrix(t.e[i], env)
      n == CASE t.k \in {"var", "param"} -> env[t.x]
             [] t.k = "const" -> t.x
             [] t.k = "cond" -> IF v(1) = 1 THEN v(2) ELSE v(3)
             [] IsQuantifier(t) -> v(2)
             [] OTHER -> Meaning(t.k, t.e[2].w, v(1), v(2))
  IN IF t.inv THEN Ones(t.w) - n ELSE n

\* The assignments of a set of variables or parameters.
Assignments(ps) ==
  {a \in [{p.x : p \in ps} -> (UNION {Domain(p.w) : p \in ps}) \union {0}] :
     \A p \in ps : a[p.x] \in Domain(p.w)}

Satisfiable(roots) ==
  \E a \in Assignments(UNION {VarsOf(roots[i]) : i \in DOMAIN roots}) :
    \A i \in DOMAIN roots : Standard(roots[i], a) = 1

Holds(f) == Effective(f, TRUE, <<>>) = 1

-----------------------------------------------------------------------------
(* elim_quantified_ite.  A traversal keeps the results by node (map), and   *)
(* on a stack the definitions of the values that replace conditionals, with *)
(* a mark for every quantifier that is open.                                *)

Mark == True
IteName(st) == 100 + Cardinality(DOMAIN st.map)
TopMark(conds) == CHOOSE i \in DOMAIN conds :
                    conds[i] = Mark /\ \A j \in DOMAIN conds : j > i => conds[j] # Mark

RECURSIVE Conjoined(_, _)
Conjoined(conds, body) ==
  IF conds = <<>> THEN body
  ELSE Conjoined(SubSeq(conds, 1, Len(conds) - 1), AndExp(conds[Len(conds)], body))

Result(t, st) == [st |-> st, r |-> CondInvert(t, st.map[Real(t)])]
Keep(t, st, r) == Result(t, [st EXCEPT !.map = (Real(t) :> r) @@ @])

\* create_skolem_ite and the definition of the fresh variable; conditionals
\* with free parameters, which become functions, are not among the inputs.
SkolemIte(t, st, e) ==
  LET v == Var(IteName(st), t.w)
      def == AndExp(Implies(e[1], EqExp(v, e[2])), Implies(Invert(e[1]), EqExp(v, e[3])))
  IN Keep(t, [st EXCEPT !.conds = Append(@, def)], v)

CloseScope(t, st, e) ==
  LET m == TopMark(st.conds)
      body == Conjoined(SubSeq(st.conds, m + 1, Len(st.conds)), e[2])
  IN Keep(t, [st EXCEPT !.conds = SubSeq(@, 1, m - 1)],
          Rebuilt(Real(t), t.k, <<e[1], body>>))

RECURSIVE ElimIte(_, _), ElimChildren(_, _, _)

ElimChildren(t, st, e) ==
  IF Len(e) < Len(t.e)
  THEN LET c == ElimIte(t.e[Len(e) + 1], st) IN ElimChildren(t, c.st, Append(e, c.r))
  ELSE CASE t.k = "cond" /\ QuantifierBelow(t.e[1]) -> SkolemIte(t, st, e)
         [] IsQuantifier(t) -> CloseScope(t, st, e)
         [] OTHER -> Keep(t, st, Rebuilt(Real(t), t.k, e))

ElimIte(t, st) ==
  CASE Real(t) \in DOMAIN st.map -> Result(t, st)
    [] Real(t) \notin DOMAIN st.map /\ IsQuantifier(t) ->
         ElimChildren(t, [st EXCEPT !.conds = Append(@, Mark)], <<>>)
    [] OTHER -> ElimChildren(t, st, <<>>)

Joined(s, t) == IF t = None THEN s ELSE AndExp(s, t)

RECURSIVE ElimRoots(_, _, _)
ElimRoots(roots, st, done) ==
  IF roots # <<>>
  THEN LET c == ElimIte(roots[Len(roots)], st)
       IN ElimRoots(SubSeq(roots, 1, Len(roots) - 1), c.st, Joined(c.r, done))
  ELSE Conjoined(st.conds, done)

ElimQuantifiedIte(roots) == ElimRoots(roots, [map |-> <<>>, conds |-> <<>>], None)

-----------------------------------------------------------------------------
(* collect_existential_vars: the variables become outermost existential     *)
(* parameters.                                                              *)

RECURSIVE AsParams(_), VarOrder(_, _), VarOrderOf(_, _, _)

AsParams(t) ==
  CondInvert(t, IF t.k = "var" THEN Param(t.x, t.w)
                ELSE Rebuilt(Real(t), t.k, [i \in DOMAIN t.e |-> AsParams(t.e[i])]))

\* The variables in the order in which the traversal meets them.
VarOrder(t, seen) ==
  IF t.k = "var" /\ \A i \in DOMAIN seen : seen[i] # Real(t) THEN Append(seen, Real(t))
  ELSE VarOrderOf(t, seen, 1)
VarOrderOf(t, seen, i) ==
  IF i > Len(t.e) THEN seen ELSE VarOrderOf(t, VarOrder(t.e[i], seen), i + 1)

RECURSIVE Exists(_, _)
Exists(vars, body) ==
  IF vars = <<>> THEN body
  ELSE LET v == vars[Len(vars)]
       IN Exists(SubSeq(vars, 1, Len(vars) - 1),
                 CreateQuantifier("exists", Param(v.x, v.w), body))

CollectExistentialVars(t) == Exists(VarOrder(t, <<>>), AsParams(t))

-----------------------------------------------------------------------------
(* fix_quantifier_polarities: every quantifier gets the kind it has at the  *)
(* front of the formula.  Results are kept by node and polarity; those with *)
(* free parameters only while the quantifier around them is open.           *)

\* Seeded fault: the sign of a quantifier is not looked at.
PolarityPlain(t) == 1
Polarity(t) == IF t.inv THEN -1 ELSE 1
BoolEq(t) == t.k = "eq" /\ QuantifierBelow(t) /\ t.e[1].w = 1
OnSkeleton(t) == t.k = "and" \/ IsQuantifier(t) \/ (t.k = "eq" /\ QuantifierBelow(t))

\* The parameter that stands for a name in the innermost scope that has it.
RECURSIVE Renamed(_, _)
Renamed(name, scope) ==
  IF scope[Len(scope)].old = name THEN scope[Len(scope)].new
  ELSE Renamed(name, SubSeq(scope, 1, Len(scope) - 1))

(* A traversal has its results (map), the number of parameters it has       *)
(* created (n), the Boolean equalities it has met (eqs: their entry is never *)
(* given a result) and the keys whose result has taken over the negation of *)
(* its edge (pushed).  It notes when such a result was used once more       *)
(* (twice), and when arguments were taken that nobody had put there (lost). *)
Begin == [map |-> <<>>, n |-> 0, eqs |-> {}, pushed |-> {}, twice |-> FALSE, lost |-> FALSE]
Fresh(st) == 200 + st.n
Known(t, st, pol) == <<Real(t), pol>> \in DOMAIN st.map
Recorded(st, t, pol, r) == [st EXCEPT !.map = (<<Real(t), pol>> :> r) @@ @]

\* The results that are left when the scope of a quantifier closes.
Reset(before, after) ==
  [after EXCEPT !.map = [key \in {k \in DOMAIN @ : k \in DOMAIN before.map \/ ~Parameterized(k[1])}
                           |-> @[key]]]

FixQuantifier(t, edge, pol, st, p, c) ==
  LET kind == IF pol = -1 THEN Flipped(t.k) ELSE t.k
      r == CreateQuantifier(kind, p, c.r)
      kept == Reset(st, c.st)
      done == IF edge = t THEN kept ELSE [kept EXCEPT !.pushed = @ \union {<<Real(t), pol>>}]
  IN [st |-> IF Parameterized(t) THEN kept ELSE Recorded(done, t, pol, r),
      r |-> CondInvert(edge, r)]

RECURSIVE Fix(_, _, _, _), FixAt(_, _, _, _), FixChildren(_, _, _, _, _)

FixChildren(t, pol, st, scope, e) ==
  IF Len(e) < Len(t.e)
  THEN LET s == t.e[Len(e) + 1]
           c == Fix(s, pol * Polarity(s), st, scope)
       IN FixChildren(t, pol, c.st, scope, Append(e, c.r))
  ELSE LET r == Rebuilt(Real(t), t.k, e)
       IN [st |-> Recorded(st, t, pol, r), r |-> CondInvert(t, r)]

FixAt(t, pol, st, scope) ==
  CASE Known(t, st, pol) ->
         [st |-> [st EXCEPT !.twice = @ \/ <<Real(t), pol>> \in st.pushed],
          r |-> CondInvert(t, st.map[<<Real(t), pol>>])]
    [] ~Known(t, st, pol) /\ IsQuantifier(t) ->
         LET in == Append(scope, [old |-> NameOf(t), new |-> Fresh(st)])
             down == t.inv /\ pol = -1          \* the negation is pushed into the body
             body == IF down THEN Invert(BodyOf(t)) ELSE BodyOf(t)
             edge == IF down THEN Real(t) ELSE t
             c == Fix(body, (IF down THEN 1 ELSE pol) * Polarity(body),
                      [st EXCEPT !.n = @ + 1], in)
         IN FixQuantifier(t, edge, pol, st, Param(Fresh(st), t.e[1].w), c)
    [] BoolEq(t) /\ <<Real(t), pol>> \notin st.eqs ->
         Fix(CondInvert(t, AndExp(Implies(t.e[1], t.e[2]), Implies(t.e[2], t.e[1]))),
             pol, [st EXCEPT !.eqs = @ \union {<<Real(t), pol>>}], scope)
    [] BoolEq(t) /\ <<Real(t), pol>> \in st.eqs ->
         [st |-> [st EXCEPT !.lost = TRUE], r |-> t]
    [] ~Known(t, st, pol) /\ t.k = "param" ->
         [st |-> st, r |-> CondInvert(t, Param(Renamed(t.x, scope), t.w))]
    [] OTHER -> FixChildren(t, pol, st, scope, <<>>)

Fix(t, pol, st, scope) == FixAt(t, IF OnSkeleton(t) THEN pol ELSE 1, st, scope)

FixQuantifierPolarities(t) == Fix(t, Polarity(t), Begin, <<>>)

\* Nothing where the traversal of polarities lost its arguments: the last
\* assertion on them fails, and without it the result is undefined.
NormalizeQuantifiers(roots) ==
  IF roots = <<>> THEN True
  ELSE LET fixed == FixQuantifierPolarities(CollectExistentialVars(ElimQuantifiedIte(roots)))
       IN IF fixed.st.lost THEN None ELSE fixed.r

\* check_quantifiers_in_bool_skeleton, asserted by normalize_quantifiers.
RECURSIVE SkeletonQuantifiers(_)
SkeletonQuantifiers(t) ==
  IF t.w # 1 THEN {}
  ELSE (IF IsQuantifier(t) THEN {Real(t)} ELSE {})
       \union UNION {SkeletonQuantifiers(t.e[i]) : i \in DOMAIN t.e}
InBoolSkeleton(t) == {s \in SubTerms(t) : IsQuantifier(s)} = SkeletonQuantifiers(t)

-----------------------------------------------------------------------------
(* btor_miniscope_node.  Every quantifier, the innermost first, is moved    *)
(* down the conjunctions of which only one side has its parameter.  An edge *)
(* is a node and the position of a child.                                   *)

RECURSIVE PostOrder(_, _, _), PostOrderOf(_, _, _, _)

\* The quantifiers below t, children before parents: the last child first, or
\* the first one.
PostOrder(t, seen, last) ==
  IF \E i \in DOMAIN seen : seen[i] = Real(t) THEN seen
  ELSE LET below == PostOrderOf(t, seen, last, 1)
       IN IF IsQuantifier(t) THEN Append(below, Real(t)) ELSE below
PostOrderOf(t, seen, last, i) ==
  IF i > Len(t.e) THEN seen
  ELSE LET child == IF last THEN t.e[Len(t.e) + 1 - i] ELSE t.e[i]
       IN PostOrderOf(t, PostOrder(child, seen, last), last, i + 1)

NoEdge == <<None, 0>>

\* The walk of miniscope from the edge cur: where the scope of q may begin,
\* and the parity of the inversions passed.
RECURSIVE Walk(_, _, _, _, _)
Walk(q, pushed, cur, edge, pol) ==
  LET cone(i) == Contains(cur.e[i], q.e[1])
      turned == IF cur.inv THEN -pol ELSE pol
      passes == \/ IsQuantifier(cur) /\ Real(cur) \in pushed
                \/ cur.k = q.k
  IN CASE cur.k = "and" /\ cone(1) /\ ~cone(2) ->
            Walk(q, pushed, cur.e[1], <<Real(cur), 1>>, turned)
       [] cur.k = "and" /\ ~cone(1) /\ cone(2) ->
            Walk(q, pushed, cur.e[2], <<Real(cur), 2>>, turned)
       [] passes -> Walk(q, pushed, cur.e[2], edge, turned)
       [] OTHER -> [edge |-> edge, pol |-> pol]

\* rev_pushed_to: the quantifiers that begin at an edge, innermost first.
MiniscopeStep(q, st) ==
  LET w == Walk(q, st.pushed, BodyOf(q), NoEdge, 1)
      old == IF w.edge \in DOMAIN st.at THEN st.at[w.edge] ELSE <<>>
      new == IF w.pol = -1 THEN Invert(q) ELSE q
  IN IF w.edge = NoEdge THEN st
     ELSE [pushed |-> st.pushed \union {q}, at |-> (w.edge :> Append(old, new)) @@ st.at]

RECURSIVE Scopes(_, _)
Scopes(qs, st) == IF qs = <<>> THEN st ELSE Scopes(Tail(qs), MiniscopeStep(qs[1], st))

\* rebuild_mk_quantifiers: the sign of the innermost is put around them all.
RECURSIVE Nest(_, _)
Nest(qs, body) ==
  IF qs = <<>> THEN body
  ELSE Nest(Tail(qs), CreateQuantifier(qs[1].k, qs[1].e[1], body))
MkQuantifiers(qs, body) == CondInvert(qs[1], Nest(qs, CondInvert(qs[1], body)))

RECURSIVE Rescope(_, _)
Rescope(t, st) ==
  LET r(i) == Rescope(t.e[i], st)
      child(i) == IF <<Real(t), i>> \in DOMAIN st.at
                  THEN MkQuantifiers(st.at[<<Real(t), i>>], r(i)) ELSE r(i)
  IN CondInvert(t, IF Real(t) \in st.pushed THEN child(2)
                   ELSE Rebuilt(Real(t), t.k, [i \in DOMAIN t.e |-> child(i)]))

Miniscope(t) ==
  Rescope(t, Scopes(PostOrder(t, <<>>, TRUE), [pushed |-> {}, at |-> <<>>]))

-----------------------------------------------------------------------------
(* btor_der_node and btor_cer_node: a variable that an equation defines is  *)
(* replaced.                                                                *)

\* compute_deps: of every parameter, those of the other kind around it.
RECURSIVE Enclosing(_, _)
Enclosing(t, open) ==
  IF IsQuantifier(t)
  THEN LET own == {q.e[1].x : q \in {o \in open : o.k # t.k}}
       IN Enclosing(BodyOf(t), open \union {Real(t)}) @@ (NameOf(t) :> own)
  ELSE LET all[i \in 0..Len(t.e)] ==
             IF i = 0 THEN <<>> ELSE all[i - 1] @@ Enclosing(t.e[i], open)
       IN all[Len(t.e)]

KindOf(root, name) ==
  (CHOOSE q \in SubTerms(root) : IsQuantifier(q) /\ NameOf(q) = name).k

\* occurs: p is in t, or t depends on p, through the substitution.
RECURSIVE Occurs(_, _, _, _, _)
Occurs(root, p, t, deps, map) ==
  \/ Real(t) = p
  \/ /\ t.k = "param"
     /\ KindOf(root, p.x) # KindOf(root, t.x)
     /\ p.x \in deps[t.x]
  \/ t.k = "param" /\ t.x \in DOMAIN map /\ Occurs(root, p, map[t.x], deps, map)
  \/ t.k # "param" /\ \E i \in DOMAIN t.e : Occurs(root, p, t.e[i], deps, map)

RECURSIVE FindSubst(_, _)
FindSubst(map, t) ==
  IF t.k = "param" /\ t.x \in DOMAIN map THEN FindSubst(map, CondInvert(t, map[t.x])) ELSE t

MapSubst(map, p, t) ==
  IF p.x \in DOMAIN map THEN map ELSE (p.x :> FindSubst(map, t)) @@ map

EqSubst(root, eq, vars, deps, map) ==
  LET may(i) == eq.e[i].k = "param" /\ ~eq.e[i].inv /\ eq.e[i].x \in vars
                /\ ~Occurs(root, eq.e[i], eq.e[3 - i], deps, map)
  IN CASE may(1) -> MapSubst(map, eq.e[1], eq.e[2])
       [] ~may(1) /\ may(2) -> MapSubst(map, eq.e[2], eq.e[1])
       [] OTHER -> map

\* find_substitutions over the conjunction, last child first.
RECURSIVE ConjunctSubst(_, _, _, _, _)
ConjunctSubst(root, t, vars, deps, map) ==
  CASE ~t.inv /\ t.k = "and" ->
         ConjunctSubst(root, t.e[1], vars, deps, ConjunctSubst(root, t.e[2], vars, deps, map))
    [] ~t.inv /\ t.k = "eq" -> EqSubst(root, t, vars, deps, map)
    [] OTHER -> map

FindSubstitutions(root, body, vars, deps, map, evars) ==
  IF body.k = "and" /\ body.inv # evars /\ vars # {}
  THEN ConjunctSubst(root, Real(body), vars, deps, map) ELSE map

RECURSIVE BlockVars(_, _)
BlockVars(q, kind) ==
  (IF q.k = kind THEN {NameOf(q)} ELSE {})
    \union (IF ~BodyOf(q).inv /\ IsQuantifier(BodyOf(q)) THEN BlockVars(BodyOf(q), kind) ELSE {})

\* The substitution of all blocks; block says that t continues one.
RECURSIVE AllSubst(_, _, _, _, _, _)
AllSubst(root, t, block, deps, map, evars) ==
  LET kind == IF evars THEN "exists" ELSE "forall"
      here == IF IsQuantifier(t) /\ ~block
              THEN FindSubstitutions(root, BlockBody(t), BlockVars(t, kind), deps, map, evars)
              ELSE map
      all[i \in 0..Len(t.e)] ==
        IF i = 0 THEN here
        ELSE AllSubst(root, t.e[i], IsQuantifier(t) /\ ~t.e[i].inv, deps, all[i - 1], evars)
  IN all[Len(t.e)]

RECURSIVE Substituted(_, _)
Substituted(t, map) ==
  CASE t.k = "param" /\ t.x \in DOMAIN map -> Substituted(FindSubst(map, t), map)
    [] IsQuantifier(t) /\ NameOf(t) \in DOMAIN map ->
         CondInvert(t, Substituted(BodyOf(t), map))
    [] OTHER -> CondInvert(t, Rebuilt(Real(t), t.k,
                                      [i \in DOMAIN t.e |-> Substituted(t.e[i], map)]))

ElimVars(t, evars) == Substituted(t, AllSubst(t, t, FALSE, Enclosing(t, {}), <<>>, evars))
Der(t) == ElimVars(t, FALSE)
Cer(t) == ElimVars(t, TRUE)

Simplified(t, o) ==
  LET m == IF o.miniscope THEN Miniscope(t) ELSE t
      d == IF o.der THEN Der(m) ELSE m
  IN IF o.cer THEN Cer(d) ELSE d

-----------------------------------------------------------------------------
(* compute_var_deps: of every parameter, those of the other kind around it  *)
(* where its quantifier is met first, outermost first.                      *)

OpenParams(open, kind) ==
  LET of == SelectSeq(open, LAMBDA q : q.k = kind) IN [i \in DOMAIN of |-> of[i].e[1]]

RECURSIVE VarDeps(_, _, _), VarDepsOf(_, _, _, _)
VarDeps(t, open, deps) ==
  CASE IsQuantifier(t) /\ NameOf(t) \notin DOMAIN deps ->
         VarDepsOf(t, Append(open, Real(t)), (NameOf(t) :> OpenParams(open, Flipped(t.k))) @@ deps, 2)
    [] IsQuantifier(t) /\ NameOf(t) \in DOMAIN deps -> deps
    [] OTHER -> VarDepsOf(t, open, deps, Len(t.e))
VarDepsOf(t, open, deps, i) ==
  IF i = 0 THEN deps ELSE VarDepsOf(t, open, VarDeps(t.e[i], open, deps), i - 1)

\* mk_dual_formula
RECURSIVE Dual(_)
Dual(t) ==
  CondInvert(t, Rebuilt(Real(t), IF IsQuantifier(t) THEN Flipped(t.k) ELSE t.k,
                        [i \in DOMAIN t.e |-> Dual(t.e[i])]))

\* Seeded fault: the dual is not inverted at the root.
DualFormulaPlain(t) == Dual(t)
DualFormula(t) == Invert(Dual(t))
=============================================================================
