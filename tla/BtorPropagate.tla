--------------------------- MODULE BtorPropagate ---------------------------
(***************************************************************************)
(* One consistency check of the function solver                            *)
(* (check_and_resolve_conflicts of btorslvfun.c): the applies of a         *)
(* candidate assignment are propagated down the functions they are applied *)
(* to, every function remembers in rho which apply it saw for which        *)
(* argument values, and conflicts become lemmas.  Without a conflict the   *)
(* tables of functions that the candidate makes equal are compared.  With  *)
(* the lemmas added the next candidate is checked.                         *)
(*                                                                         *)
(* Data abstraction.  A bit-vector term is a variable, an apply or the     *)
(* equality of two functions; an args node is one term.  A function is an  *)
(* uninterpreted function, an update of Base[f] at Idx[f] with Elem[f], a  *)
(* function if-then-else, or a lambda                                      *)
(*    lambda x . ite (x = Idx[f], Base[f](x), Elem[f])                     *)
(* so that partial beta reduction ends in an apply on the same arguments   *)
(* or in a value, under a condition.  An assignment is true at 1.  Lambdas *)
(* are not compared with other functions, constant arrays are left out.    *)
(***************************************************************************)
EXTENDS Integers, Sequences, FiniteSets, SequencesExt

CONSTANTS
  Graphs,     \* expression graphs, see below
  Val,        \* the values of a bit-vector
  NULL

(* A graph has its variables, the applies with function and argument, the   *)
(* functions with their kind and parts, the function equalities with both   *)
(* sides and the fresh variable of the inequality constraint; the applies   *)
(* of the formula (root), those that have an assignment (synth), the values *)
(* of BTOR_OPT_FUN_EAGER_LEMMAS, and whether further candidates follow.     *)
Fields == {"var", "funOf", "argOf", "kind", "base", "idx", "elem", "condOf", "then",
           "else", "feq", "root", "synth", "eager", "again"}

Terms(h) == h.var \cup DOMAIN h.funOf \cup DOMAIN h.feq
Nodes(h) == Terms(h) \cup DOMAIN h.kind

\* The children of a node.
Children(h, n) ==
  IF n \in DOMAIN h.funOf THEN {h.funOf[n], h.argOf[n]}
  ELSE IF n \in DOMAIN h.feq THEN {h.feq[n].l, h.feq[n].r}
  ELSE IF n \notin DOMAIN h.kind \/ h.kind[n] = "uf" THEN {}
  ELSE IF h.kind[n] = "cond" THEN {h.condOf[n], h.then[n], h.else[n]}
  ELSE {h.base[n], h.idx[n], h.elem[n]}

\* Every kind of node has its parts.
Typed(h) ==
  /\ h.funOf \in [DOMAIN h.funOf -> DOMAIN h.kind]
  /\ h.argOf \in [DOMAIN h.funOf -> h.var \cup DOMAIN h.funOf]
  /\ \A f \in DOMAIN h.kind :
       /\ h.kind[f] \in {"uf", "cond", "update", "lambda"}
       /\ h.kind[f] = "cond" => h.condOf[f] \in Terms(h)
                                /\ {h.then[f], h.else[f]} \subseteq DOMAIN h.kind
       /\ h.kind[f] \in {"update", "lambda"} => {h.idx[f], h.elem[f]} \subseteq Terms(h)
                                                /\ h.base[f] \in DOMAIN h.kind
  /\ \A q \in DOMAIN h.feq : h.feq[q].arg \in h.var
                             /\ {h.feq[q].l, h.feq[q].r} \subseteq DOMAIN h.kind
  /\ h.root \subseteq h.synth /\ h.synth \subseteq DOMAIN h.funOf

\* A node is one kind of thing only, and an apply exists once.
Apart(h) ==
  /\ NULL \notin Nodes(h)
  /\ h.var \cap DOMAIN h.funOf = {} /\ h.var \cap DOMAIN h.feq = {}
  /\ DOMAIN h.funOf \cap DOMAIN h.feq = {} /\ Terms(h) \cap DOMAIN h.kind = {}
  /\ \A a, b \in DOMAIN h.funOf :
       h.funOf[a] = h.funOf[b] /\ h.argOf[a] = h.argOf[b] => a = b

\* Nodes are built from nodes that are there: no cycles.
Founded(h) == \A S \in SUBSET Nodes(h) : S # {} => \E n \in S : Children(h, n) \cap S = {}

(* The sides of an equality are applied to the variable of its inequality   *)
(* constraint, and can be applied to all arguments.                         *)
Compared(h) ==
  \A q \in DOMAIN h.feq : \A f \in {h.feq[q].l, h.feq[q].r} :
    /\ \E a \in h.root : h.funOf[a] = f /\ h.argOf[a] = h.feq[q].arg
    /\ \A t \in {h.argOf[a] : a \in DOMAIN h.funOf}
                  \cup {h.idx[u] : u \in {d \in DOMAIN h.kind : h.kind[d] = "update"}} :
         \/ h.kind[f] = "update" /\ h.idx[f] = t
         \/ \E a \in DOMAIN h.funOf : h.funOf[a] = f /\ h.argOf[a] = t

(* search_initial_applies_bv_skeleton: as every equality is in a constraint *)
(* (the inequality constraint), the applies below it are initial, down to   *)
(* the first on each way.  There are no lambdas on these ways.              *)
Searched(h) ==
  \E S \in SUBSET Nodes(h) :
    /\ DOMAIN h.feq \subseteq S
    /\ \A n \in S \ DOMAIN h.funOf : Children(h, n) \subseteq S
    /\ S \cap DOMAIN h.funOf \subseteq h.root
    /\ \A f \in S \cap DOMAIN h.kind : h.kind[f] # "lambda"

ASSUME GraphAssumption ==
  \A h \in Graphs :
    /\ DOMAIN h = Fields
    /\ IsFiniteSet(Nodes(h))
    /\ Typed(h) /\ Apart(h) /\ Founded(h) /\ Compared(h) /\ Searched(h)
    /\ h.eager \subseteq {"NONE", "CONF", "ALL"} /\ h.again \in BOOLEAN

ASSUME ValueAssumption == {0, 1} \subseteq Val /\ NULL \notin Val

VARIABLES
  g,                    \* the expression graph
  val,                  \* the candidate: assignment of every term
  eager,                \* value of BTOR_OPT_FUN_EAGER_LEMMAS
  prop_stack,           \* pairs of an apply and the function it goes to
  apply_search_cache,   \* applies pushed by push_applies_for_propagation
  propagated,           \* applies with app->propagated set
  rho,                  \* fun->rho: argument value -> apply, or NULL
  conf_apps,            \* applies found in conflict
  cur_lemmas,           \* slv->cur_lemmas
  lemmas,               \* slv->lemmas: those of the candidates before
  init_apps,            \* the applies of the formula, in the order of the search
  pc

formula == <<g, val, eager, lemmas, init_apps>>
vars == <<formula, prop_stack, apply_search_cache, propagated, rho, conf_apps,
          cur_lemmas, pc>>

Var == g.var
App == DOMAIN g.funOf
Fun == DOMAIN g.kind
Feq == DOMAIN g.feq
Term == Terms(g)
FunOf == g.funOf        \* app->e[0]
ArgOf == g.argOf        \* app->e[1]
Kind == g.kind
Base == g.base          \* e[0], e[1], e[2] of an update; parts of a lambda
Idx == g.idx
Elem == g.elem
CondOf == g.condOf      \* e[0], e[1], e[2] of a function if-then-else
Then == g.then
Else == g.else

-----------------------------------------------------------------------------
(* Where apply a goes from function f under the candidate, NULL if it stops *)
(* there: over an update at another index, into the chosen branch, over a   *)
(* lambda whose body reduces to an apply on the same arguments.             *)
SameArgs(a, f) == val[ArgOf[a]] = val[Idx[f]]

Down(a, f) ==
  CASE Kind[f] = "uf"     -> NULL
    [] Kind[f] = "cond"   -> IF val[CondOf[f]] = 1 THEN Then[f] ELSE Else[f]
    [] Kind[f] = "update" -> IF SameArgs(a, f) THEN NULL ELSE Base[f]
    [] Kind[f] = "lambda" -> IF SameArgs(a, f) THEN Base[f] ELSE NULL

\* The condition under which a leaves f for Down(a, f).
Premise(a, f) ==
  CASE Kind[f] = "cond"   -> <<IF val[CondOf[f]] = 1 THEN "true" ELSE "false",
                              CondOf[f], CondOf[f]>>
    [] Kind[f] = "update" -> <<"neq", ArgOf[a], Idx[f]>>
    [] Kind[f] = "lambda" -> <<"eq", ArgOf[a], Idx[f]>>

\* Seeded fault: only the first function on the way adds a condition.
CollectPremissesFirst(a, f) ==
  IF FunOf[a] = f THEN {} ELSE {Premise(a, FunOf[a])}

\* collect_premisses: the conditions on the way of a from FunOf[a] to f.
CollectPremisses(a, f) ==
  LET prem[h \in Fun] ==
        IF h = f \/ Down(a, h) = NULL THEN {} ELSE {Premise(a, h)} \cup prem[Down(a, h)]
  IN prem[FunOf[a]]

(* add_lemma.  With a second apply: function congruence.  Otherwise the     *)
(* value that f gives to the arguments of a, read over write or beta        *)
(* reduced, under the condition that selects it.                            *)
CongruenceLemma(f, a, b) ==
  [prem |-> CollectPremisses(a, f) \cup CollectPremisses(b, f)
              \cup {<<"eq", ArgOf[a], ArgOf[b]>>},
   con |-> <<"eq", a, b>>]

ValueLemma(f, a) ==
  [prem |-> CollectPremisses(a, f)
              \cup {<<IF Kind[f] = "update" THEN "eq" ELSE "neq", ArgOf[a], Idx[f]>>},
   con |-> <<"eq", a, Elem[f]>>]

(* push_applies_for_propagation of a term on a stack and a cache *)
PushApplies(sc, t) ==
  IF t \in App \ sc.cache
  THEN [stack |-> Append(sc.stack, <<t, FunOf[t]>>), cache |-> sc.cache \cup {t}]
  ELSE sc

Push(sc, a, f) == [stack |-> Append(sc.stack, <<a, f>>), cache |-> sc.cache]

SetStack(sc) == prop_stack' = sc.stack /\ apply_search_cache' = sc.cache

\* Whether a lemma holds of an assignment.
LiteralHolds(l, v) ==
  CASE l[1] = "eq"    -> v[l[2]] = v[l[3]]
    [] l[1] = "neq"   -> v[l[2]] # v[l[3]]
    [] l[1] = "true"  -> v[l[2]] = 1
    [] l[1] = "false" -> v[l[2]] # 1

LemmaHolds(l, v) == (\A p \in l.prem : LiteralHolds(p, v)) => LiteralHolds(l.con, v)

-----------------------------------------------------------------------------
\* The apply node of f on t.
AppOn(f, t) == CHOOSE a \in App : FunOf[a] = f /\ ArgOf[a] = t

(* What the SAT solver may return, of the lemmas ls and with assignments    *)
(* for the applies in synth.  A function equality that is false has its     *)
(* inequality constraint (add_function_inequality_constraints); an apply    *)
(* that is not in the bit-vector skeleton is zero (get_bv_assignment).      *)
Candidates(ls, synth) ==
  {v \in [Term -> Val] :
     /\ \A a \in App \ synth : v[a] = 0
     /\ \A q \in Feq : v[q] = 0 => v[AppOn(g.feq[q].l, g.feq[q].arg)]
                                     # v[AppOn(g.feq[q].r, g.feq[q].arg)]
     /\ \A q \in Feq : v[q] \in {0, 1}
     /\ \A l \in ls : LemmaHolds(l, v)}

\* The initial applies, the first one on top.
OnStack(apps) == Reverse([i \in DOMAIN apps |-> <<apps[i], FunOf[apps[i]]>>])

NoRho == [f \in Fun |-> [v \in Val |-> NULL]]

Init ==
  /\ g \in Graphs
  /\ val \in Candidates({}, g.synth)
  /\ eager \in g.eager
  /\ lemmas = {} /\ init_apps \in SetToSeqs(g.root)
  /\ prop_stack = OnStack(init_apps)
  /\ apply_search_cache = {} /\ propagated = {} /\ rho = NoRho
  /\ conf_apps = {} /\ cur_lemmas = {}
  /\ pc = "propagate"

app == Last(prop_stack)[1]
fun == Last(prop_stack)[2]

\* The stack and the cache once the top is popped and its arguments searched.
AfterArgs == PushApplies([stack |-> Front(prop_stack), cache |-> apply_search_cache],
                         ArgOf[app])

Hashed == rho[fun][val[ArgOf[app]]]

Busy == pc = "propagate" /\ prop_stack # <<>>

(* The loop stops at a conflict, unless lemmas are eager: with CONF it goes *)
(* on when no apply below the arguments is in conflict (find_conflict_app). *)
Restart == CASE eager = "NONE" -> TRUE
             [] eager = "CONF" -> ArgOf[app] \in conf_apps \cup {app}
             [] eager = "ALL"  -> FALSE

Conflict(lemma) ==
  /\ cur_lemmas' = cur_lemmas \cup ({lemma} \ lemmas)
  /\ conf_apps' = IF eager = "CONF" THEN conf_apps \cup {app} ELSE conf_apps
  /\ pc' = IF Restart THEN "lemmas" ELSE pc

NoConflict == UNCHANGED <<cur_lemmas, conf_apps, pc>>

Save == rho' = [rho EXCEPT ![fun][val[ArgOf[app]]] = app]

\* The apply has already been propagated as far as it goes.
SkipPropagated ==
  /\ Busy /\ app \in propagated
  /\ prop_stack' = Front(prop_stack)
  /\ UNCHANGED <<formula, apply_search_cache, propagated, rho, conf_apps,
                 cur_lemmas, pc>>

\* Seeded fault: a hit without a conflict is not handled.
PropagateHashedConflictOnly ==
  /\ Busy /\ app \notin propagated /\ Hashed # NULL
  /\ val[Hashed] # val[app]
  /\ propagated' = propagated \cup {app}
  /\ SetStack(AfterArgs)
  /\ Conflict(CongruenceLemma(fun, Hashed, app))
  /\ UNCHANGED <<formula, rho>>

\* The function has seen an apply with the same argument values.
PropagateHashed ==
  /\ Busy /\ app \notin propagated /\ Hashed # NULL
  /\ propagated' = propagated \cup {app}
  /\ SetStack(AfterArgs)
  /\ IF val[Hashed] # val[app]
     THEN Conflict(CongruenceLemma(fun, Hashed, app))
     ELSE NoConflict
  /\ UNCHANGED <<formula, rho>>

PropagateUf ==
  /\ Busy /\ app \notin propagated /\ Hashed = NULL /\ Kind[fun] = "uf"
  /\ propagated' = propagated \cup {app}
  /\ Save
  /\ SetStack(AfterArgs)
  /\ NoConflict
  /\ UNCHANGED formula

PropagateCond ==
  /\ Busy /\ app \notin propagated /\ Hashed = NULL /\ Kind[fun] = "cond"
  /\ Save
  /\ SetStack(Push(PushApplies(AfterArgs, CondOf[fun]), app, Down(app, fun)))
  /\ NoConflict
  /\ UNCHANGED <<formula, propagated>>

(* Seeded fault: the mark is not taken back when app is passed down. *)
PropagateUpdateKeepsMark ==
  /\ Busy /\ app \notin propagated /\ Hashed = NULL /\ Kind[fun] = "update"
  /\ Save
  /\ propagated' = propagated \cup {app}
  /\ LET search(sc) == PushApplies(PushApplies(sc, Idx[fun]), Elem[fun])
     IN IF SameArgs(app, fun)
        THEN /\ SetStack(search(AfterArgs))
             /\ cur_lemmas' = IF val[app] = val[Elem[fun]] THEN cur_lemmas
                              ELSE cur_lemmas \cup ({ValueLemma(fun, app)} \ lemmas)
        ELSE /\ SetStack(search(Push(AfterArgs, app, Base[fun])))
             /\ UNCHANGED cur_lemmas
  /\ UNCHANGED <<formula, conf_apps, pc>>

(* An update at the same index must agree; a conflict here never stops the  *)
(* loop.  Index and element of the update are searched for applies.         *)
PropagateUpdate ==
  /\ Busy /\ app \notin propagated /\ Hashed = NULL /\ Kind[fun] = "update"
  /\ Save
  /\ LET search(sc) == PushApplies(PushApplies(sc, Idx[fun]), Elem[fun])
     IN IF SameArgs(app, fun)
        THEN /\ propagated' = propagated \cup {app}
             /\ SetStack(search(AfterArgs))
             /\ cur_lemmas' = IF val[app] = val[Elem[fun]] THEN cur_lemmas
                              ELSE cur_lemmas \cup ({ValueLemma(fun, app)} \ lemmas)
        ELSE /\ SetStack(search(Push(AfterArgs, app, Base[fun])))
             /\ UNCHANGED <<propagated, cur_lemmas>>
  /\ UNCHANGED <<formula, conf_apps, pc>>

(* A lambda: its body reduces to an apply on the same arguments, which app  *)
(* stands for from now on, or to a value that app must agree with.  The     *)
(* applies in the value and in the conditions are needed unless there is a  *)
(* conflict.                                                                *)
PropagateLambda ==
  /\ Busy /\ app \notin propagated /\ Hashed = NULL /\ Kind[fun] = "lambda"
  /\ Save
  /\ IF SameArgs(app, fun)
     THEN /\ SetStack(PushApplies(Push(AfterArgs, app, Base[fun]), Idx[fun]))
          /\ NoConflict
          /\ UNCHANGED propagated
     ELSE /\ propagated' = propagated \cup {app}
          /\ IF val[app] # val[Elem[fun]]
             THEN /\ Conflict(ValueLemma(fun, app))
                  /\ SetStack(AfterArgs)
             ELSE /\ NoConflict
                  /\ SetStack(PushApplies(PushApplies(AfterArgs, Elem[fun]), Idx[fun]))
  /\ UNCHANGED formula

(* generate_table: what a function is known to map to what, from argument   *)
(* values to args and value; the first entry on the way to the              *)
(* uninterpreted function counts.                                           *)
Over(s, t) == [v \in DOMAIN s \cup DOMAIN t |-> IF v \in DOMAIN s THEN s[v] ELSE t[v]]

Entries(f) ==
  [v \in {u \in Val : rho[f][u] # NULL} |-> [args |-> ArgOf[rho[f][v]], value |-> rho[f][v]]]

Written(f) == [v \in {val[Idx[f]]} |-> [args |-> Idx[f], value |-> Elem[f]]]

Known(f) == IF Kind[f] = "update" THEN Over(Written(f), Entries(f)) ELSE Entries(f)

\* The function visited next; a lambda would have to be an array.
Visit(f) == IF Kind[f] # "cond" THEN Base[f]
            ELSE IF val[CondOf[f]] = 1 THEN Then[f] ELSE Else[f]

GenerateTable(f) ==
  LET table[h \in Fun] ==
        IF Kind[h] = "uf" THEN Known(h) ELSE Over(Known(h), table[Visit(h)])
  IN table[f]

(* btor_exp_apply: an update applied to its own index is its element (its  *)
(* index and another variable are never known to be different).            *)
ApplyExp(f, t) == IF Kind[f] = "update" /\ Idx[f] = t THEN Elem[f] ELSE AppOn(f, t)

\* The arguments for which one side has no value, or another than the other side.
TableConflicts(t0, t1) ==
  {v \in DOMAIN t0 \cup DOMAIN t1 :
     v \in DOMAIN t0 \cap DOMAIN t1 => val[t0[v].value] # val[t1[v].value]}

ExtensionalityLemma(q, args) ==
  [prem |-> {<<"true", q, q>>},
   con |-> <<"eq", ApplyExp(g.feq[q].l, args), ApplyExp(g.feq[q].r, args)>>]

ExtensionalityLemmasOf(q) ==
  LET t0 == GenerateTable(g.feq[q].l)
      t1 == GenerateTable(g.feq[q].r)
  IN {ExtensionalityLemma(q, Over(t0, t1)[v].args) : v \in TableConflicts(t0, t1)}

AddExtensionalityLemmas ==
  (UNION {ExtensionalityLemmasOf(q) : q \in {r \in Feq : val[r] = 1}}) \ lemmas

(* The stack is empty: the candidate has been checked, except for the       *)
(* function equalities if there was no conflict.                            *)
Done ==
  /\ pc = "propagate" /\ prop_stack = <<>>
  /\ cur_lemmas' = IF cur_lemmas = {} THEN AddExtensionalityLemmas ELSE cur_lemmas
  /\ pc' = IF cur_lemmas' = {} THEN "done" ELSE "lemmas"
  /\ UNCHANGED <<formula, prop_stack, apply_search_cache, propagated, rho, conf_apps>>

\* The terms of a lemma.
TermsOf(l) == UNION {{p[2], p[3]} : p \in l.prem \cup {l.con}}

(* The lemmas are added to the formula, and their applies to the initial    *)
(* ones; the SAT solver returns another candidate.                          *)
Refine ==
  /\ pc = "lemmas" /\ g.again
  /\ LET new == ((UNION {TermsOf(l) : l \in cur_lemmas}) \cap App) \ Range(init_apps)
         apps == init_apps \o SetToSeq(new)
     IN /\ lemmas' = lemmas \cup cur_lemmas
        /\ init_apps' = apps
        /\ val' \in Candidates(lemmas', g.synth \cup Range(apps))
        /\ prop_stack' = OnStack(apps)
  /\ apply_search_cache' = {} /\ propagated' = {} /\ rho' = NoRho
  /\ conf_apps' = {} /\ cur_lemmas' = {}
  /\ pc' = "propagate"
  /\ UNCHANGED <<g, eager>>

\* One pass of the loop in propagate, or what follows the loop.
CheckStep ==
  \/ SkipPropagated \/ PropagateHashed \/ PropagateUf \/ PropagateCond
  \/ PropagateUpdate \/ PropagateLambda \/ Done

Next == CheckStep \/ Refine

\* A check is one sequential loop; the SAT solver may run for ever.
Spec == Init /\ [][Next]_vars /\ WF_vars(CheckStep)
-----------------------------------------------------------------------------
(* What the functions mean, as a reference: under an interpretation uf of   *)
(* the uninterpreted functions and x of the variables, the value of a term  *)
(* of graph h, and of a function at an argument value.                      *)
Points(h) == (Terms(h) \X {NULL}) \cup ((DOMAIN h.kind) \X Val)

FunctionValue(h, uf, ev, f, v) ==
  LET value(t) == ev[<<t, NULL>>]
  IN CASE h.kind[f] = "uf"     -> uf[f][v]
       [] h.kind[f] = "cond"   -> ev[<<IF value(h.condOf[f]) = 1 THEN h.then[f]
                                       ELSE h.else[f], v>>]
       [] h.kind[f] = "update" -> IF v = value(h.idx[f]) THEN value(h.elem[f])
                                  ELSE ev[<<h.base[f], v>>]
       [] h.kind[f] = "lambda" -> IF v = value(h.idx[f]) THEN ev[<<h.base[f], v>>]
                                  ELSE value(h.elem[f])

ValueAt(h, uf, x, ev, n, v) ==
  CASE n \in h.var          -> x[n]
    [] n \in DOMAIN h.funOf -> ev[<<h.funOf[n], ev[<<h.argOf[n], NULL>>]>>]
    [] n \in DOMAIN h.feq   -> IF \A u \in Val : ev[<<h.feq[n].l, u>>] = ev[<<h.feq[n].r, u>>]
                               THEN 1 ELSE 0
    [] n \in DOMAIN h.kind  -> FunctionValue(h, uf, ev, n, v)

Evaluation(h, uf, x) ==
  LET ev[p \in Points(h)] == ValueAt(h, uf, x, ev, p[1], p[2])
  IN [t \in Terms(h) |-> ev[<<t, NULL>>]]

\* The assignments that come from functions, for every graph.
UfOf(h) == [{f \in DOMAIN h.kind : h.kind[f] = "uf"} -> [Val -> Val]]
EvaluationsOf ==
  [h \in Graphs |-> {Evaluation(h, i[1], i[2]) : i \in UfOf(h) \X [h.var -> Val]}]
Evaluations == EvaluationsOf[g]

-----------------------------------------------------------------------------
(* Properties *)

(* Every lemma makes progress: it excludes the candidate it was built for,  *)
(* or it is about an apply that the formula did not have (an instance of    *)
(* extensionality), so that the next round of the engine is another one;    *)
(* and it holds of all functions: the premises collected along the way of   *)
(* an apply are enough for the conclusion of add_lemma, so no solution is   *)
(* lost.                                                                    *)
LemmasSound ==
  \A l \in cur_lemmas :
    /\ ~LemmaHolds(l, val) \/ (TermsOf(l) \cap App) \ Range(init_apps) # {}
    /\ \A e \in Evaluations : LemmaHolds(l, e)

(* A candidate for which the check ends without a lemma is right about the  *)
(* applies and the function equalities of the formula: the functions can be *)
(* chosen so that each of them has the value that the candidate gives it.   *)
AcceptsOnlyConsistent ==
  pc = "done" =>
    \E e \in Evaluations : \A t \in Var \cup Feq \cup Range(init_apps) : e[t] = val[t]

(* The refinement ends: an apply meets each function at most once per       *)
(* argument value before it stops, and every round has a lemma that was not *)
(* there before.                                                            *)
CheckEnds == <>[](pc # "propagate")
=============================================================================
