----------------------------- MODULE BtorNodes -----------------------------
(***************************************************************************)
(* The expression graph of an instance (btornode.c), the constraints kept  *)
(* on it (btorcore.c) and the substitution pass that simplifies it         *)
(* (btorsubst.c, btorvarsubst.c, btorembed.c).  Nodes are hash consed and  *)
(* reference counted; a substituted node becomes a proxy that points to    *)
(* what stands for it.  The pass walks over the graph with a stack of      *)
(* pointers that are not counted, while it creates nodes, makes others     *)
(* proxies, moves constraints and frees what nobody refers to any more.    *)
(*                                                                         *)
(* Data abstraction.  Terms are Boolean (of width 1): the constant true,   *)
(* variables, and equality, with the rewritings a = a --> true and         *)
(* true = a --> a.  Equality is commutative, and as a constraint it gives  *)
(* a variable substitution.  Pointers are not inverted, so no constraint   *)
(* is inconsistent.  The parent lists are read off the children.  All      *)
(* constraints are unsynthesized; assumptions, models and contexts are the *)
(* subject of BtorSession.  Substitution is destructive and the rewrite    *)
(* level above 1, the defaults of btoropt.c.                               *)
(***************************************************************************)
EXTENDS Integers, Sequences, FiniteSets, SequencesExt

(* What a user starts from and may do: so many variables, the equalities    *)
(* built first (pairs of ids), the nodes that may be released, and bounds:  *)
(* no node for the user after maxUse of them, no more than maxId nodes ever *)
(* created (simplification included) and maxExt references to one node.     *)
CONSTANT Users

ASSUME UsersAssumption ==
  \A u \in Users :
    /\ u.numVars \in Nat \ {0} /\ u.maxExt \in Nat \ {0}
    /\ u.script \in Seq(Nat \X Nat) /\ u.releasable \subseteq Nat
    /\ u.maxUse \in Nat /\ u.maxId \in Nat /\ u.maxId > u.numVars

VARIABLES
  user,           \* the member of Users that makes the calls
  node,           \* nodes_id_table: the node of an id
  constraints,    \* unsynthesized_constraints
  embedded,       \* embedded_constraints
  varsubst,       \* varsubst_constraints: variable -> term, None if it has none
  pc,             \* the pass that runs
  rel,            \* nodes about to be released, the next one last
  subst,          \* the table of the pass: variable -> term, None if it has none
  ec,             \* the constraints btor_process_embedded_constraints holds
  visit,          \* stack of substitute: pointers that are not counted
  cache,          \* cache of substitute: None, Open or the rebuilt node
  root_stack,     \* roots held by btor_substitute_and_rebuild
  release_stack,  \* rebuilt nodes held until the end of substitute
  cur_num_nodes,  \* nodes before this round of substitute
  models          \* history: the assignments that satisfy all assertions

Id == 1..user.maxId
None == 0               \* the null pointer
True == 1               \* true_exp
Vars == 2..(user.numVars + 1)

graph == <<node, constraints, embedded, varsubst>>
walk == <<visit, cache, release_stack, cur_num_nodes>>
pass == <<subst, ec, root_stack>>
vars == <<user, graph, pc, rel, pass, walk, models>>

Open == -1
NoSubst == [n \in Id |-> None]

\* The ids in S as a sequence.
InOrder(S) == SelectSeq([n \in Id |-> n], LAMBDA n : n \in S)

Blank(kind) ==
  [kind |-> kind, e |-> <<>>, refs |-> 0, ext_refs |-> 0, simplified |-> None,
   rebuild |-> FALSE, constraint |-> FALSE]

-----------------------------------------------------------------------------
(* Operations on a graph g: a record of node, constraints, embedded,        *)
(* varsubst and of rel, what the operation gives up.                        *)

Graph == [node |-> node, constraints |-> constraints, embedded |-> embedded,
          varsubst |-> varsubst, rel |-> rel]

Becomes(g) ==
  /\ node' = g.node /\ constraints' = g.constraints /\ embedded' = g.embedded
  /\ varsubst' = g.varsubst /\ rel' = g.rel

Live(g) == {n \in Id : g.node[n].kind \notin {"none", "freed"}}
Parents(g, n) == {p \in Id : n \in Range(g.node[p].e)}
Used(g) == {n \in Id : g.node[n].kind # "none"}

\* btor_node_copy and btor_node_release
Copy(g, n) == [g EXCEPT !.node[n].refs = @ + 1]
Drop(g, n) == [g EXCEPT !.rel = Append(@, n)]

\* btor_node_get_simplified: the end of the chain of simplified pointers.
GetSimplified(g, n) ==
  LET end[m \in Id] ==
        IF g.node[m].simplified = None THEN m ELSE end[g.node[m].simplified]
  IN end[n]

(* recursively_pointer_chase_simplified_exp: every proxy on the chain then  *)
(* points to its end.                                                       *)
Shorten(g, n) ==
  LET end == GetSimplified(g, n)
      chain[m \in Id] == IF g.node[m].simplified = None THEN {}
                         ELSE {m} \cup chain[g.node[m].simplified]
      long == {m \in chain[n] : g.node[m].simplified # end}
      old == InOrder(long)
  IN [g EXCEPT
        !.node = [m \in Id |->
                    IF m \in long THEN [g.node[m] EXCEPT !.simplified = end]
                    ELSE IF m = end THEN [g.node[m] EXCEPT !.refs = @ + Cardinality(long)]
                    ELSE g.node[m]],
        !.rel = @ \o [i \in DOMAIN old |-> g.node[old[i]].simplified]]

\* btor_simplify_exp: a constraint is true wherever else it occurs.
SimplifyExp(g, n) ==
  LET m == GetSimplified(g, n)
  IN IF g.node[m].constraint THEN True ELSE m

\* find_exp: the node with these children in the unique table
FindExp(g, e) == {n \in Id : g.node[n].kind = "eq" /\ g.node[n].e = e}

\* new_node and connect_child_exp
NewNode(g, e) ==
  LET new == Cardinality(Used(g)) + 1
  IN [g |-> [Copy(Copy(g, e[1]), e[2]) EXCEPT
               !.node[new] = [Blank("eq") EXCEPT
                                !.e = e, !.refs = 1,
                                !.rebuild = g.node[e[1]].rebuild \/ g.node[e[2]].rebuild]],
      id |-> new]

\* Seeded fault: true = a is rewritten to true.
ExpEqAbsorbs(g, a, b) ==
  LET x == SimplifyExp(g, a)
      y == SimplifyExp(g, b)
      e == IF x < y THEN <<x, y>> ELSE <<y, x>>
  IN IF x = y \/ True \in {x, y} THEN [g |-> Copy(g, True), id |-> True]
     ELSE IF FindExp(g, e) = {} THEN NewNode(g, e)
     ELSE LET n == CHOOSE n \in FindExp(g, e) : TRUE IN [g |-> Copy(g, n), id |-> n]

(* btor_exp_eq: rewriting, then create_exp.  The caller gets a reference.   *)
ExpEq(g, a, b) ==
  LET x == SimplifyExp(g, a)
      y == SimplifyExp(g, b)
      e == IF x < y THEN <<x, y>> ELSE <<y, x>>     \* sort_bv_exp
      same == IF x = y THEN True ELSE IF x = True THEN y ELSE x
  IN IF x = y \/ True \in {x, y} THEN [g |-> Copy(g, same), id |-> same]
     ELSE IF FindExp(g, e) = {} THEN NewNode(g, e)
     ELSE LET n == CHOOSE n \in FindExp(g, e) : TRUE IN [g |-> Copy(g, n), id |-> n]

\* The nodes that n is built from.
Below(g, n) ==
  LET down[m \in Id] == {m} \cup UNION {down[c] : c \in Range(g.node[m].e)}
  IN down[n]

-----------------------------------------------------------------------------
(* Constraints *)

\* Seeded fault: a constraint with parents is not embedded.
InsertNotEmbedded(g, n) ==
  IF g.node[n].constraint \/ n = True THEN g
  ELSE [Copy(g, n) EXCEPT !.constraints = @ \cup {n}, !.node[n].constraint = TRUE]

(* insert_into_constraint_tables and btor_insert_unsynthesized_constraint:  *)
(* true is not added, and a constraint that other nodes contain is embedded.*)
InsertIntoConstraintTables(g, n) ==
  IF g.node[n].constraint \/ n = True THEN g
  ELSE LET h == [Copy(g, n) EXCEPT !.constraints = @ \cup {n},
                                   !.node[n].constraint = TRUE]
       IN IF Parents(g, n) = {} \/ n \in g.embedded THEN h
          ELSE [Copy(h, n) EXCEPT !.embedded = @ \cup {n}]

\* Seeded fault: the equation of a substitution is not kept as a constraint.
InsertVarsubstOnly(g, x, t) ==
  IF g.varsubst[x] # None THEN g
  ELSE [Copy(Copy(g, x), t) EXCEPT !.varsubst[x] = t]

(* insert_varsubst_constraint: the equation itself stays a constraint until *)
(* the substitution is done.                                                *)
InsertVarsubst(g, x, t) ==
  LET h == IF g.varsubst[x] = None
           THEN [Copy(Copy(g, x), t) EXCEPT !.varsubst[x] = t] ELSE g
      eq == ExpEq(h, x, t)
  IN IF g.varsubst[x] = t THEN g
     ELSE Drop(InsertIntoConstraintTables(eq.g, eq.id), eq.id)

(* normalize_substitution: the substitution a constraint gives, if any.     *)
NormalizeSubstitution(g, n) ==
  LET l == GetSimplified(g, g.node[n].e[1])
      r == GetSimplified(g, g.node[n].e[2])
      pair == IF g.node[l].kind # "var" /\ g.node[r].kind = "var"
              THEN <<r, l>> ELSE <<l, r>>
  IN IF g.node[n].kind = "var" THEN {<<n, True>>}
     ELSE {p \in {pair} : g.node[p[1]].kind = "var" /\ p[1] \notin Below(g, p[2])}

\* add_constraint and insert_new_constraint
AddConstraint(g, n) ==
  LET m == SimplifyExp(g, n)
  IN IF m = True THEN g
     ELSE IF NormalizeSubstitution(g, m) = {} THEN InsertIntoConstraintTables(g, m)
     ELSE LET p == CHOOSE p \in NormalizeSubstitution(g, m) : TRUE
          IN InsertVarsubst(g, p[1], p[2])

\* replace_constraint: what stands for a constraint takes its place.
ReplaceConstraint(g, old, new) ==
  IF old \notin g.constraints THEN g
  ELSE LET h == AddConstraint(g, new)
           i == [Drop(h, old) EXCEPT !.constraints = @ \ {old},
                                     !.node[old].constraint = FALSE]
       IN IF old \notin h.embedded THEN i
          ELSE [Drop(i, old) EXCEPT !.embedded = @ \ {old}]

\* Seeded fault: a proxy does not count its reference.
SetSimplifiedUncounted(g, old, new) ==
  LET h == ReplaceConstraint([g EXCEPT !.node[old].simplified = new], old, new)
  IN [h EXCEPT !.node[old].kind = "proxy", !.node[old].e = <<>>,
               !.rel = @ \o g.node[old].e]

(* btor_set_simplified_exp and btor_node_set_to_proxy: old becomes a proxy  *)
(* for new and gives up its children.                                       *)
SetSimplified(g, old, new) ==
  LET h == ReplaceConstraint([Copy(g, new) EXCEPT !.node[old].simplified = new], old, new)
  IN [h EXCEPT !.node[old].kind = "proxy", !.node[old].e = <<>>,
               !.rel = @ \o g.node[old].e]

-----------------------------------------------------------------------------
(* What a node stands for under the assignment that makes the variables in  *)
(* m true.                                                                  *)
Val(nd, m, n) ==
  LET val[k \in Id] ==
        CASE nd[k].simplified # None -> val[nd[k].simplified]
          [] nd[k].kind = "eq" -> val[nd[k].e[1]] = val[nd[k].e[2]]
          [] OTHER -> k = True \/ k \in m
  IN val[n]

InitNodes(script) ==
  LET empty == [n \in Id |->
        IF n = True THEN [Blank("true") EXCEPT !.refs = 1]
        ELSE IF n \in Vars THEN [Blank("var") EXCEPT !.refs = 1, !.ext_refs = 1]
        ELSE Blank("none")]
      build(g, ab) == LET new == ExpEq(g, ab[1], ab[2])
                      IN [new.g EXCEPT !.node[new.id].ext_refs = @ + 1]
  IN FoldLeft(build, [node |-> empty], script).node

Init ==
  /\ user \in Users
  /\ node = InitNodes(user.script)
  /\ constraints = {} /\ embedded = {} /\ varsubst = NoSubst
  /\ pc = "api" /\ rel = <<>>
  /\ subst = NoSubst /\ ec = {} /\ root_stack = <<>>
  /\ visit = <<>> /\ cache = NoSubst /\ release_stack = <<>> /\ cur_num_nodes = 0
  /\ models = SUBSET Vars

-----------------------------------------------------------------------------
(* Calls of the API *)

Idle == pc = "api" /\ rel = <<>>
Held(n) == node[n].ext_refs > 0

\* boolector_eq
NewEq(a, b) ==
  /\ Idle /\ Held(a) /\ Held(b) /\ Cardinality(Used(Graph)) < user.maxUse
  /\ LET new == ExpEq(Shorten(Shorten(Graph, a), b), a, b)
     IN /\ new.g.node[new.id].ext_refs < user.maxExt
        /\ Becomes([new.g EXCEPT !.node[new.id].ext_refs = @ + 1])
  /\ UNCHANGED <<pc, pass, walk, models>>

\* boolector_copy
CopyNode(a) ==
  /\ Idle /\ Held(a) /\ node[a].ext_refs < user.maxExt
  /\ Becomes([Copy(Graph, a) EXCEPT !.node[a].ext_refs = @ + 1])
  /\ UNCHANGED <<pc, pass, walk, models>>

\* boolector_release
ReleaseNode(a) ==
  /\ Idle /\ Held(a) /\ a \in user.releasable
  /\ Becomes(Drop([Graph EXCEPT !.node[a].ext_refs = @ - 1], a))
  /\ UNCHANGED <<pc, pass, walk, models>>

\* boolector_assert
AssertExp(a) ==
  /\ Idle /\ Held(a)
  /\ Becomes(AddConstraint(Shorten(Graph, a), a))
  /\ models' = {m \in models : Val(node, m, a)}
  /\ UNCHANGED <<pc, pass, walk>>

\* btor_delete, once the user holds nothing any more
Delete ==
  /\ Idle /\ \A n \in Id : ~Held(n)
  /\ LET substs == InOrder({x \in Id : varsubst[x] # None})
     IN rel' = InOrder(constraints) \o InOrder(embedded) \o substs
                 \o [i \in DOMAIN substs |-> varsubst[substs[i]]] \o <<True>>
  /\ constraints' = {} /\ embedded' = {} /\ varsubst' = NoSubst
  /\ pc' = "deleted"
  /\ UNCHANGED <<node, pass, walk, models>>

\* boolector_new and the variables of the user
New ==
  /\ pc = "deleted" /\ rel = <<>>
  /\ node' = InitNodes(user.script)
  /\ models' = SUBSET Vars /\ pc' = "api"
  /\ UNCHANGED <<constraints, embedded, varsubst, rel, pass, walk>>

-----------------------------------------------------------------------------

(* One round of recursively_release_exp: the last reference frees the node, *)
(* and what the node itself refers to is released next.                     *)
Release ==
  /\ rel # <<>>
  /\ LET n == Last(rel)
         more == Reverse(node[n].e)
                   \o (IF node[n].simplified = None THEN <<>> ELSE <<node[n].simplified>>)
     IN \/ /\ node[n].refs > 1
           /\ node' = [node EXCEPT ![n].refs = @ - 1]
           /\ rel' = Front(rel)
        \/ /\ node[n].refs <= 1
           /\ node' = [node EXCEPT ![n] = Blank("freed")]
           /\ rel' = Front(rel) \o more
  /\ UNCHANGED <<constraints, embedded, varsubst, pc, pass, walk, models>>

-----------------------------------------------------------------------------
(* btor_simplify: variables are substituted as long as there are            *)
(* substitutions, then embedded constraints are replaced.                   *)

Pending == {x \in Id : varsubst[x] # None}
HasSubst == Pending # {}

Simplify ==
  /\ Idle
  /\ pc' = "simplify"
  /\ UNCHANGED <<graph, rel, pass, walk, models>>

SimplifyDone ==
  /\ pc = "simplify" /\ rel = <<>> /\ ~HasSubst /\ embedded = {}
  /\ pc' = "api"
  /\ UNCHANGED <<graph, rel, pass, walk, models>>

\* The nodes whose terms contain one of S.
Cone(g, S) == {n \in Live(g) : Below(g, n) \cap S # {}}

(* btor_substitute_and_rebuild for the table T on the nodes S: their cone   *)
(* is marked, its roots are held, and the walk starts at them.              *)
StartPass(g, S) ==
  LET cone == Cone(g, S)
      roots == InOrder({n \in cone : Parents(g, n) = {}})
  IN /\ Becomes([g EXCEPT !.node = [n \in Id |->
                   [g.node[n] EXCEPT
                      !.rebuild = n \in cone,
                      !.refs = @ + (IF n \in Range(roots) THEN 1 ELSE 0)]]])
     /\ root_stack' = roots /\ visit' = roots
     /\ cur_num_nodes' = Cardinality(Used(g))

\* No variable is built from itself through the substitutions s.
Acyclic(g, s) ==
  \A C \in SUBSET {x \in Vars : s[x] # None} :
    C # {} => \E x \in C : Below(g, s[x]) \cap C = {}

Simplified(x) == GetSimplified(Graph, x)

\* The table with both sides simplified, without what is no variable any more.
SubstTable ==
  [v \in Id |->
     IF node[v].kind = "var" /\ \E x \in Pending : Simplified(x) = v
     THEN Simplified(varsubst[CHOOSE x \in Pending : Simplified(x) = v]) ELSE None]

(* substitute_remove_cycles: some substitutions R of every cycle are left   *)
(* to their equations.                                                      *)
RemoveCycles(R) == [x \in Id |-> IF x \in R THEN None ELSE SubstTable[x]]

CyclesRemoved(R) ==
  /\ \A x \in R : SubstTable[x] # None
  /\ Acyclic(Graph, SubstTable) => R = {}
  /\ Acyclic(Graph, RemoveCycles(R))

\* The graph once the references of the old table have moved to the table s.
TakeOver(s) ==
  LET old == InOrder(Pending)
      refs(n) == (IF s[n] = None THEN 0 ELSE 1) + Cardinality({x \in Id : s[x] = n})
  IN [Graph EXCEPT
        !.node = [n \in Id |-> [node[n] EXCEPT !.refs = @ + refs(n)]],
        !.varsubst = NoSubst,
        !.rel = old \o [i \in DOMAIN old |-> varsubst[old[i]]]]

\* Seeded fault: the cyclic substitutions are tried again.
SubstituteVarsAgain(R) ==
  /\ pc = "simplify" /\ rel = <<>> /\ HasSubst /\ CyclesRemoved(R)
  /\ subst' = RemoveCycles(R)
  /\ StartPass([TakeOver(SubstTable) EXCEPT
                  !.varsubst = [x \in Id |-> IF x \in R THEN SubstTable[x] ELSE None]],
               {x \in Id : RemoveCycles(R)[x] # None})
  /\ pc' = "subst"
  /\ UNCHANGED <<ec, cache, release_stack, models>>

\* btor_substitute_var_exps
SubstituteVars(R) ==
  /\ pc = "simplify" /\ rel = <<>> /\ HasSubst /\ CyclesRemoved(R)
  /\ subst' = RemoveCycles(R)
  /\ StartPass(TakeOver(RemoveCycles(R)), {x \in Id : RemoveCycles(R)[x] # None})
  /\ pc' = "subst"
  /\ UNCHANGED <<ec, cache, release_stack, models>>

\* btor_process_embedded_constraints
ProcessEmbedded ==
  /\ pc = "simplify" /\ rel = <<>> /\ ~HasSubst /\ embedded # {}
  /\ ec' = embedded
  /\ LET held == [n \in Id |->
                    [node[n] EXCEPT !.refs = @ + (IF n \in embedded THEN 1 ELSE 0)]]
     IN StartPass([Graph EXCEPT !.node = held], embedded)
  /\ pc' = "embed"
  /\ UNCHANGED <<subst, cache, release_stack, models>>

-----------------------------------------------------------------------------
(* substitute *)

Walking == pc \in {"subst", "embed"} /\ rel = <<>> /\ visit # <<>>
cur == Last(visit)

\* Nodes outside the cone and processed ones are not entered.
VisitSkip ==
  /\ Walking /\ ~node[cur].rebuild
  /\ visit' = Front(visit)
  /\ UNCHANGED <<graph, pc, rel, pass, cache, release_stack, cur_num_nodes, models>>

VisitPre ==
  /\ Walking /\ node[cur].rebuild /\ cache[cur] = None
  /\ cache' = [cache EXCEPT ![cur] = Open]
  /\ visit' = visit \o (IF subst[cur] = None THEN <<>> ELSE <<subst[cur]>>) \o node[cur].e
  /\ UNCHANGED <<graph, pc, rel, pass, release_stack, cur_num_nodes, models>>

(* rebuild_exp of what stands for n: an operator is created anew from its   *)
(* simplified children.                                                     *)
RebuildExp(g, n) ==
  LET s == GetSimplified(g, IF subst[n] = None THEN n ELSE subst[n])
      t == SimplifyExp(g, s)
  IN IF g.node[s].kind = "eq" THEN ExpEq(g, g.node[s].e[1], g.node[s].e[2])
     ELSE [g |-> Copy(g, t), id |-> t]

(* The rebuilt node stands for cur from now on.  If it is itself still to   *)
(* be rebuilt it is kept until the end and visited first.                   *)
VisitPost ==
  /\ Walking /\ node[cur].rebuild /\ cache[cur] = Open
  /\ LET new == RebuildExp(Graph, cur)
         n == new.id
         g == Copy(new.g, n)
         h == IF n = cur THEN g ELSE SetSimplified(g, cur, SimplifyExp(g, n))
     IN IF n # cur /\ new.g.node[n].rebuild
        THEN /\ Becomes(new.g)
             /\ release_stack' = Append(release_stack, n)
             /\ visit' = Append(visit, n)
             /\ UNCHANGED cache
        ELSE /\ cache' = [cache EXCEPT ![cur] = n]
             /\ Becomes(Drop([h EXCEPT !.node[cur].rebuild = FALSE], n))
             /\ visit' = Front(visit)
             /\ UNCHANGED release_stack
  /\ UNCHANGED <<pc, pass, cur_num_nodes, models>>

\* Marked nodes without parents that were created in the round.
Leftover == {n \in Live(Graph) : n > cur_num_nodes /\ node[n].rebuild
                                   /\ Parents(Graph, n) = {}}

(* At the end of a round the walk goes on with such nodes.                  *)
NextRound ==
  /\ visit' = InOrder(Leftover)
  /\ cur_num_nodes' = Cardinality(Used(Graph))
  /\ UNCHANGED <<graph, pc, rel, pass, cache, release_stack>>

\* What the pass held and releases at its end.
HeldByPass ==
  LET S == InOrder({x \in Id : subst[x] # None})
      C == InOrder({x \in Id : cache[x] # None})
  IN InOrder(ec) \o S \o [i \in DOMAIN S |-> subst[S[i]]] \o root_stack
       \o release_stack \o [i \in DOMAIN C |-> cache[C[i]]]

EndPass ==
  /\ subst' = NoSubst /\ ec' = {} /\ root_stack' = <<>>
  /\ cache' = NoSubst /\ release_stack' = <<>> /\ cur_num_nodes' = 0
  /\ pc' = "simplify"
  /\ UNCHANGED <<node, constraints, varsubst, visit>>

(* Otherwise all that the pass held is released, and the embedded           *)
(* constraints that have been processed leave their table.                  *)
FinishPass ==
  /\ pc \in {"subst", "embed"} /\ rel = <<>> /\ visit = <<>>
  /\ IF Leftover # {} THEN NextRound
     ELSE /\ EndPass
          /\ rel' = InOrder(ec \cap embedded) \o HeldByPass
          /\ embedded' = embedded \ ec
  /\ UNCHANGED models

-----------------------------------------------------------------------------
\* What the instance does on its own until the call returns.
SolverStep ==
  \/ Release
  \/ SimplifyDone
  \/ \E R \in SUBSET Vars : SubstituteVars(R)
  \/ ProcessEmbedded
  \/ VisitSkip \/ VisitPre \/ VisitPost
  \/ FinishPass

Calls ==
  \/ \E a, b \in Id : NewEq(a, b)
  \/ \E a \in Id : CopyNode(a) \/ ReleaseNode(a) \/ AssertExp(a)
  \/ Simplify
  \/ Delete
  \/ New

Next == (Calls \/ SolverStep) /\ UNCHANGED user

(* The thread that made a call runs it to its end: while the instance is    *)
(* busy the steps are its own and go on.  This is weak fairness of          *)
(* SolverStep, with Busy for the states in which one is enabled.            *)
Busy == rel # <<>> \/ pc \in {"simplify", "subst", "embed"}

Fairness == []<>(~Busy) \/ []<><<Busy>>_vars

Spec == Init /\ [][Next]_vars /\ Fairness

-----------------------------------------------------------------------------
(* Properties *)

Times(s, n) == Cardinality({i \in DOMAIN s : s[i] = n})
Edges(n) == Cardinality({p \in Id \X {1, 2} :
                           p[2] \in DOMAIN node[p[1]].e /\ node[p[1]].e[p[2]] = n})
Holds(f, n) == Cardinality({x \in Id : f[x] = n})
In(S, n) == IF n \in S THEN 1 ELSE 0

CountedRefs(n) ==
  node[n].ext_refs + Edges(n) + Cardinality({p \in Id : node[p].simplified = n})
    + In(constraints, n) + In(embedded, n) + In(ec, n)
    + (IF varsubst[n] = None THEN 0 ELSE 1) + Holds(varsubst, n)
    + (IF subst[n] = None THEN 0 ELSE 1) + Holds(subst, n)
    + Holds(cache, n) + Times(root_stack, n) + Times(release_stack, n)
    + Times(rel, n) + (IF n = True /\ pc # "deleted" THEN 1 ELSE 0)

\* The pointers in nodes, in tables and on the stacks of the pass.
Pointers ==
  UNION {Range(node[n].e) \cup {node[n].simplified, varsubst[n], subst[n], cache[n]} : n \in Id}
    \cup constraints \cup embedded \cup ec
    \cup Range(visit) \cup Range(root_stack) \cup Range(release_stack) \cup Range(rel)

(* Memory.  The reference counter of a node counts exactly the references   *)
(* to it: those of the user, of parents and of proxies, of the constraint   *)
(* and substitution tables and of the pass that runs (inc_exp_ref_counter   *)
(* and btor_node_release are balanced, whatever was simplified in between). *)
(* No pointer to freed memory is left, also not on the stack of substitute, *)
(* whose pointers nothing counts.  btor_delete leaves nothing behind (the   *)
(* leak check of btor_mem_mgr_delete).                                      *)
MemoryExact ==
  /\ \A n \in Live(Graph) : node[n].refs = CountedRefs(n)
  /\ Pointers \subseteq Live(Graph) \cup {None, Open}
  /\ pc = "deleted" /\ rel = <<>> => Live(Graph) = {}

(* Hash consing: no two nodes have the same operands (nodes_unique_table),  *)
(* also while substitution changes the graph.  Between passes the graph is  *)
(* clean: nothing is marked for rebuilding, no child and no table entry is  *)
(* a proxy, and a constraint that occurs inside another node is waiting to  *)
(* be processed as embedded (the checks btor_dbg_check_unique_table_rebuild,*)
(* ..._children_proxy_free and ..._all_hash_tables_simp_free of btordbg.c). *)
GraphClean ==
  /\ \A n, p \in {q \in Id : node[q].kind = "eq"} :
       Range(node[n].e) = Range(node[p].e) => n = p
  /\ pc \in {"api", "simplify"} /\ rel = <<>> =>
       /\ \A n \in Id : ~node[n].rebuild
       /\ \A n \in Id : \A c \in Range(node[n].e) :
             node[c].simplified = None /\ (node[c].constraint => c \in embedded)
       /\ \A n \in constraints \cup embedded : node[n].simplified = None

Projection(M) ==
  LET alive == {x \in Vars : x \in Live(Graph)} IN {m \cap alive : m \in M}

(* The constraints together with the substituted variables have exactly the *)
(* solutions of what the user asserted, at every moment of simplification   *)
(* (as far as the variables that still exist are concerned).                *)
SolutionsKept ==
  pc # "deleted" =>
    Projection({m \in SUBSET Vars :
                  /\ \A c \in constraints : Val(node, m, c)
                  /\ \A x \in Vars \cap Live(Graph) : Val(node, m, x) = (x \in m)})
      = Projection(models)

(* A node the user holds keeps its meaning: whatever becomes of it, its     *)
(* value in the models of the assertions does not change.                   *)
HandlesKeepMeaning ==
  [][\A n \in Id : node[n].ext_refs > 0 /\ node'[n].ext_refs > 0 =>
       \A m \in models' : Val(node, m, n) = Val(node', m, n)]_vars

\* Simplification ends: btor_simplify returns to the user.
SimplifyEnds == pc = "simplify" ~> pc = "api"
=============================================================================
