---------------------------- MODULE BtorSession ----------------------------
(***************************************************************************)
(* One Boolector instance seen through its incremental API (boolector.c)   *)
(* and the part of btorcore.c behind it: context levels, assertions,       *)
(* assumptions, constraints, simplification and the answer of the last     *)
(* satisfiability check.                                                   *)
(*                                                                         *)
(* Data abstraction.  A node of sort Bool is an element of Exp; an         *)
(* inverted pointer is Neg[e]; Den[e] is the set of worlds (assignments of *)
(* the variables) that make it true.  Leaf[e] is the set of nodes an       *)
(* uninverted top-level AND is flattened into, {e} for every other node.   *)
(* A BTOR_ABORT is a guard: the program stops there, so no step exists.    *)
(* The instance runs with BTOR_OPT_INCREMENTAL and BTOR_OPT_MODEL_GEN set. *)
(* Limits and termination callbacks, which make a check return UNKNOWN,    *)
(* are the subject of BtorFunSolver; here UNKNOWN is always possible.      *)
(***************************************************************************)
EXTENDS Integers, Sequences, FiniteSets

CONSTANTS
  Exp,        \* expressions: every real node and its inverted pointer
  Input,      \* the expressions the user passes to the API
  Real,       \* the real (uninverted) nodes
  True,       \* btor->true_exp
  Neg,        \* btor_node_invert
  Leaf,       \* conjuncts of a top-level AND
  World,      \* assignments of the input variables
  Den,        \* the worlds in which an expression is true
  NULL,       \* the null pointer
  MaxLevel,   \* bound: context levels
  MaxAssert   \* bound: assertions held above level 0

ASSUME ExpAssumption ==
  /\ Real \subseteq Exp /\ Input \subseteq Exp /\ True \in Real
  /\ NULL \notin Exp
  /\ Neg \in [Exp -> Exp] /\ Leaf \in [Exp -> SUBSET Exp]
  /\ Den \in [Exp -> SUBSET World]
  /\ \A e \in Exp : /\ Neg[Neg[e]] = e
                    /\ (e \in Real) # (Neg[e] \in Real)
                    /\ Den[Neg[e]] = World \ Den[e]
                    /\ \A w \in World :
                         (w \in Den[e]) <=> (\A l \in Leaf[e] : w \in Den[l])
  /\ Den[True] = World
  /\ NULL \notin World

ASSUME BoundAssumption == MaxLevel \in Nat /\ MaxAssert \in Nat

VARIABLES
  assertions,             \* btor->assertions: asserted above level 0
  assertions_cache,       \* btor->assertions_cache
  assertions_trail,       \* btor->assertions_trail: one mark per open level
  constraints,            \* (un)synthesized constraints asserted for good
  simplified,             \* real node -> what its simplified chain ends in
  inconsistent,           \* btor->inconsistent
  assumptions,            \* btor->assumptions (simplified)
  orig_assumptions,       \* btor->orig_assumptions (as they were assumed)
  failed_assumptions,     \* btor->failed_assumptions, as a set
  valid_assignments,      \* btor->valid_assignments
  last_sat_result,        \* btor->last_sat_result
  model,                  \* the generated model, NULL when deleted
  slv,                    \* btor->slv: the engine, created by the first check
  failed_lits,            \* assumed literals in the SAT solver's final conflict
  assumed                 \* history: those of orig_assumptions the user assumed

ctxVars == <<assertions, assertions_cache, assertions_trail>>
formulaVars == <<constraints, simplified, inconsistent>>
assumeVars == <<assumptions, orig_assumptions, failed_assumptions, assumed>>
solverVars == <<last_sat_result, slv, failed_lits>>
modelVars == <<valid_assignments, model>>
vars == <<ctxVars, formulaVars, assumeVars, solverVars, modelVars>>

Result == {"SAT", "UNSAT", "UNKNOWN"}
Solver == {"none", "fun", "other"}

False == Neg[True]

\* btor_node_real_addr
RealAddr(e) == IF e \in Real THEN e ELSE Neg[e]

\* Give m, the image of e's real node, the sign of e.
Signed(e, m) == IF e \in Real THEN m ELSE Neg[m]

Models(S) == {w \in World : \A e \in S : w \in Den[e]}

\* The worlds that respect every simplified pointer.
Equiv(sm) == {w \in World : \A r \in Real : w \in Den[r] <=> w \in Den[sm[r]]}

\* The worlds allowed by what has been asserted for good (level 0).
Base == IF inconsistent THEN {} ELSE Models(constraints) \cap Equiv(simplified)

Elements(s) == {s[i] : i \in DOMAIN s}

-----------------------------------------------------------------------------
(* btor_simplify_exp: follow the simplified pointers; a node that is a      *)
(* constraint, or the negation of one, is a constant.                       *)
SimplifyUnder(e, sm, cs) ==
  LET r == Signed(e, sm[RealAddr(e)])
  IN IF r \in cs THEN True ELSE IF Neg[r] \in cs THEN False ELSE r

SimplifyExp(e) == SimplifyUnder(e, simplified, constraints)

(* btor_reset_incremental_usage, called by every operation that changes the *)
(* formula or the assumptions while valid_assignments is set.  Fresh(v, e)  *)
(* is the value of a field that the reset empties.                          *)
Fresh(v, e) == IF valid_assignments THEN e ELSE v

ResetModel ==
  /\ valid_assignments' = FALSE
  /\ model' = Fresh(model, NULL)

(* add_constraint of every member of S on top of the constraints cs with    *)
(* simplified pointers sm: top-level ANDs are flattened, true is dropped,   *)
(* false and the negation of a constraint make the instance inconsistent.   *)
(* How much inconsistency is noticed depends on the rewriting that the      *)
(* expressions go through; what is noticed is real.  The tables of an       *)
(* inconsistent instance are not looked at again and keep their value.      *)
AddConstraints(S, sm, cs) ==
  LET new == {SimplifyUnder(l, sm, cs) :
                l \in UNION {Leaf[SimplifyUnder(e, sm, cs)] : e \in S}}
             \ {True}
  IN \/ /\ ~inconsistent
        /\ \A e \in new \cup cs : e # False /\ Neg[e] \notin new \cup cs
        /\ constraints' = cs \cup new
        /\ inconsistent' = FALSE
     \/ /\ inconsistent \/ Models(cs \cup new) \cap Equiv(sm) = {}
        /\ constraints' = constraints
        /\ inconsistent' = TRUE

\* Seeded fault: the previous check's model survives an assertion.
AssertExpKeepsModel(S) ==
  /\ AddConstraints(S, simplified, constraints)
  /\ UNCHANGED <<simplified, valid_assignments, model>>

\* btor_assert_exp for the members of S, one call after the other.
AssertExp(S) ==
  /\ AddConstraints(S, simplified, constraints)
  /\ UNCHANGED simplified
  /\ ResetModel

\* Seeded fault: the previous check's assumptions stay in btor->assumptions.
AssumedSimpKeepsOld(S) == assumptions \cup {SimplifyExp(e) : e \in S}

(* btor_assume_exp for the members of S. *)
AssumedOrig(S) == Fresh(orig_assumptions, {}) \cup S
AssumedSimp(S) == Fresh(assumptions, {}) \cup {SimplifyExp(e) : e \in S}

-----------------------------------------------------------------------------
Init ==
  /\ assertions = <<>> /\ assertions_cache = {} /\ assertions_trail = <<>>
  /\ constraints = {} /\ inconsistent = FALSE
  /\ simplified = [r \in Real |-> r]
  /\ assumptions = {} /\ orig_assumptions = {} /\ failed_assumptions = {}
  /\ valid_assignments = TRUE        \* btor_new sets it before any check
  /\ last_sat_result = "UNKNOWN" /\ model = NULL
  /\ slv = "none" /\ failed_lits = {} /\ assumed = {}

\* boolector_push (btor, n)
Push(n) ==
  /\ Len(assertions_trail) + n <= MaxLevel
  /\ assertions_trail' = assertions_trail \o [i \in 1..n |-> Len(assertions)]
  /\ UNCHANGED <<assertions, assertions_cache, formulaVars, assumeVars,
                 solverVars, modelVars>>

\* Seeded fault: popped assertions stay in the cache.
PopKeepsCache(n) ==
  /\ n \in 1..Len(assertions_trail)
  /\ assertions' =
       SubSeq(assertions, 1, assertions_trail[Len(assertions_trail) - n + 1])
  /\ assertions_trail' =
       SubSeq(assertions_trail, 1, Len(assertions_trail) - n)
  /\ UNCHANGED <<assertions_cache, formulaVars, assumeVars, solverVars,
                 modelVars>>

\* boolector_pop (btor, n)
Pop(n) ==
  /\ n \in 1..Len(assertions_trail)
  /\ LET pos == assertions_trail[Len(assertions_trail) - n + 1]
         gone == {assertions[i] : i \in (pos + 1)..Len(assertions)}
     IN /\ assertions' = SubSeq(assertions, 1, pos)
        /\ assertions_cache' = assertions_cache \ gone
        /\ assertions_trail' =
             SubSeq(assertions_trail, 1, Len(assertions_trail) - n)
  /\ UNCHANGED <<formulaVars, assumeVars, solverVars,
                 modelVars>>

(* boolector_assert above level 0: the assertion is only recorded; nothing  *)
(* is invalidated.                                                          *)
AssertInContext(e) ==
  /\ assertions_trail # <<>>
  /\ e \in assertions_cache \/ Len(assertions) < MaxAssert
  /\ IF e \in assertions_cache
     THEN UNCHANGED <<assertions, assertions_cache>>
     ELSE /\ assertions' = Append(assertions, e)
          /\ assertions_cache' = assertions_cache \cup {e}
  /\ UNCHANGED <<assertions_trail, formulaVars, assumeVars, solverVars,
                 modelVars>>

\* boolector_assert at level 0
AssertAtBase(e) ==
  /\ assertions_trail = <<>>
  /\ AssertExp({e})
  /\ assumptions' = Fresh(assumptions, {})
  /\ orig_assumptions' = Fresh(orig_assumptions, {})
  /\ failed_assumptions' = Fresh(failed_assumptions, {})
  /\ assumed' = Fresh(assumed, {})
  /\ UNCHANGED <<ctxVars, solverVars>>

\* boolector_assume
Assume(e) ==
  /\ ResetModel
  /\ orig_assumptions' = AssumedOrig({e})
  /\ assumptions' = AssumedSimp({e})
  /\ failed_assumptions' = Fresh(failed_assumptions, {}) \cup {e}
  /\ assumed' = Fresh(assumed, {}) \cup {e}
  /\ UNCHANGED <<ctxVars, formulaVars, solverVars>>

\* boolector_reset_assumptions: valid_assignments and the model stay.
ResetAssumptions ==
  /\ assumptions' = {} /\ orig_assumptions' = {} /\ failed_assumptions' = {}
  /\ assumed' = {}
  /\ UNCHANGED <<ctxVars, formulaVars, solverVars,
                 modelVars>>

\* Seeded fault: iterating over the table that the first assertion resets.
FixateWithoutCopy ==
  /\ IF assumptions = {}
     THEN UNCHANGED <<formulaVars, modelVars>>
     ELSE AssertExp(Fresh(assumptions, {CHOOSE e \in assumptions : TRUE}))
  /\ assumptions' = {} /\ orig_assumptions' = {} /\ failed_assumptions' = {}
  /\ assumed' = {}
  /\ UNCHANGED <<ctxVars, solverVars>>

(* boolector_fixate_assumptions: asserts a copy of btor->assumptions (the   *)
(* first assertion may reset the table itself), then resets the table.      *)
FixateAssumptions ==
  /\ IF assumptions = {}
     THEN UNCHANGED <<formulaVars, modelVars>>
     ELSE AssertExp(assumptions)
  /\ assumptions' = {} /\ orig_assumptions' = {} /\ failed_assumptions' = {}
  /\ assumed' = {}
  /\ UNCHANGED <<ctxVars, solverVars>>

\* Seeded fault: the conjuncts of an AND are not looked at one by one.
FailedExpTopOnly(e) ==
  LET s == SimplifyExp(e)
  IN /\ ~inconsistent
     /\ s # True
     /\ s = False \/ slv # "fun" \/ s \in failed_lits

(* btor_failed_exp: whether assumption e takes part in the final conflict.  *)
FailedExp(e) ==
  LET s == SimplifyExp(e)
  IN /\ ~inconsistent
     /\ s # True
     /\ \/ s = False
        \/ slv # "fun"       \* the SAT solver is not initialised
        \/ Leaf[s] \cap failed_lits # {}

\* boolector_get_failed_assumptions: keeps the failed ones, drops the others.
GetFailedAssumptions ==
  /\ last_sat_result = "UNSAT"
  /\ failed_assumptions' = {e \in failed_assumptions : FailedExp(e)}
  /\ UNCHANGED <<ctxVars, formulaVars, assumptions, orig_assumptions, assumed,
                 solverVars, modelVars>>

-----------------------------------------------------------------------------
(* btor_substitute_and_rebuild gives every node d of the cone D the         *)
(* simplified node s[d], which is equivalent to d under the constraints (a  *)
(* variable substitution, an embedded constraint, or a parent rebuilt       *)
(* because of one).  A node above a node of the cone belongs to the cone:   *)
(* afterwards no conjunct of a simplified node is a proxy.                  *)
Cone(D) ==
  /\ D # {}
  /\ \A d \in D : simplified[d] = d
  /\ \A r \in Real : /\ simplified[r] = r
                     /\ \E l \in Leaf[r] : RealAddr(l) \in D
                     => r \in D

Target(D) == {e \in Exp : /\ RealAddr(e) \notin D
                          /\ simplified[RealAddr(e)] = RealAddr(e)}

Substitution(D, s) == \A d \in D : Base \cap Den[d] = Base \cap Den[s[d]]

Substituted(D, s) ==
  [r \in Real |->
     LET m == simplified[r]
     IN IF RealAddr(m) \in D THEN Signed(m, s[RealAddr(m)]) ELSE m]

(* btor_simplify on the assumption tables orig (as assumed) and simp: stops *)
(* at once when inconsistent; otherwise at most one substitution pass per   *)
(* call, in which set_simplified_exp and replace_constraint move every      *)
(* constraint that was substituted to its new node, and update_assumptions  *)
(* recomputes the assumptions from the original ones.  Several passes are   *)
(* several boolector_simplify calls in a row.                               *)
BtorSimplify(orig, simp) ==
  /\ orig_assumptions' = orig
  /\ \/ /\ UNCHANGED formulaVars
        /\ assumptions' = simp
     \/ /\ ~inconsistent
        /\ \E D \in SUBSET (Real \ {True}) :
             /\ Cone(D)
             /\ \E s \in [D -> Target(D)] :
                  /\ Substitution(D, s)
                  /\ simplified' = Substituted(D, s)
                  /\ LET moved == {c \in constraints : RealAddr(c) \in D}
                     IN AddConstraints(
                          {Signed(c, s[RealAddr(c)]) : c \in moved},
                          simplified', constraints \ moved)
        /\ assumptions' =
             {SimplifyUnder(e, simplified', constraints') : e \in orig}

\* boolector_simplify
Simplify ==
  /\ BtorSimplify(Fresh(orig_assumptions, {}), Fresh(assumptions, {}))
  /\ failed_assumptions' = Fresh(failed_assumptions, {})
  /\ assumed' = Fresh(assumed, {})
  /\ ResetModel
  /\ UNCHANGED <<ctxVars, solverVars>>

(* The engine's answer for the constraints and the assumptions after        *)
(* simplification.  After UNSAT the fun engine's SAT solver knows a set of  *)
(* assumed conjuncts that contradicts the constraints.                      *)
Solve ==
  LET worlds == Base' \cap Models(assumptions')
      leaves == UNION {Leaf[e] : e \in assumptions'}
  IN \/ /\ worlds # {}
        /\ last_sat_result' = "SAT"
        /\ model' \in worlds
        /\ failed_lits' = {}
     \/ /\ worlds = {}
        /\ last_sat_result' = "UNSAT"
        /\ model' = NULL
        /\ IF slv' = "fun"
           THEN \E core \in SUBSET leaves : /\ Base' \cap Models(core) = {}
                                            /\ failed_lits' = core
           ELSE failed_lits' = {}
     \/ /\ last_sat_result' = "UNKNOWN"
        /\ model' = NULL
        /\ failed_lits' = {}

(* btor_check_sat, called by boolector_sat and boolector_limited_sat:       *)
(* forget the previous check, assume the assertions of all open contexts,   *)
(* simplify, and unless that decides the formula run the engine, which is   *)
(* created by the first check that needs one.                               *)
CheckSat ==
  /\ BtorSimplify(AssumedOrig(Elements(assertions)),
                  AssumedSimp(Elements(assertions)))
  /\ failed_assumptions' = Fresh(failed_assumptions, {})
  /\ assumed' = Fresh(assumed, {})
  /\ IF inconsistent'
     THEN /\ last_sat_result' = "UNSAT"
          /\ model' = NULL
          /\ failed_lits' = {}
          /\ UNCHANGED slv
     ELSE /\ slv' \in IF slv = "none" THEN {"fun", "other"} ELSE {slv}
          /\ Solve
  /\ valid_assignments' = TRUE
  /\ UNCHANGED ctxVars

Next ==
  \/ \E n \in 1..MaxLevel : Push(n)
  \/ \E n \in 1..MaxLevel : Pop(n)
  \/ \E e \in Input : AssertInContext(e)
  \/ \E e \in Input : AssertAtBase(e)
  \/ \E e \in Input : Assume(e)
  \/ ResetAssumptions
  \/ FixateAssumptions
  \/ GetFailedAssumptions
  \/ Simplify
  \/ CheckSat

Spec == Init /\ [][Next]_vars

-----------------------------------------------------------------------------
TypeOK ==
  /\ assertions \in Seq(Exp)
  /\ assertions_cache \subseteq Exp
  /\ assertions_trail \in Seq(Nat)
  /\ constraints \subseteq Exp
  /\ simplified \in [Real -> Exp]
  /\ inconsistent \in BOOLEAN
  /\ assumptions \subseteq Exp
  /\ orig_assumptions \subseteq Exp
  /\ failed_assumptions \subseteq Exp
  /\ valid_assignments \in BOOLEAN
  /\ last_sat_result \in Result
  /\ model \in World \cup {NULL}
  /\ slv \in Solver
  /\ failed_lits \subseteq Exp
  /\ assumed \subseteq Exp

(* The context stack (boolector_push, _pop and _assert): the cache is the    *)
(* set of the assertions on the stack, none of them is there twice, the      *)
(* marks grow from the outermost level in and never point past the stack,    *)
(* and without an open level there is no assertion left to assume, which is  *)
(* what btor_check_sat asserts.                                              *)
ContextInv ==
  /\ assertions_cache = Elements(assertions)
  /\ \A i, j \in DOMAIN assertions : assertions[i] = assertions[j] => i = j
  /\ \A i \in DOMAIN assertions_trail : assertions_trail[i] <= Len(assertions)
  /\ \A i, j \in DOMAIN assertions_trail :
       i <= j => assertions_trail[i] <= assertions_trail[j]
  /\ assertions_trail = <<>> => assertions = <<>>
  /\ assertions_trail # <<>> => assertions_trail[1] = 0

(* Substitutions (btor_substitute_and_rebuild) and the constraint shortcut   *)
(* of btor_simplify_exp never change what the user assumed: under the        *)
(* constraints the simplified assumptions the solver gets mean the same as   *)
(* the original ones, and everything boolector_get_failed_assumptions asks   *)
(* btor_failed_exp about still is one of them, as its assertion demands.     *)
AssumptionsFaithful ==
  /\ Base \cap Models(assumptions) = Base \cap Models(orig_assumptions)
  /\ failed_assumptions \subseteq orig_assumptions

(* After an UNSAT answer the assumptions that btor_failed_exp reports        *)
(* contradict the constraints all by themselves, whatever rewriting did to   *)
(* them and whichever of its cases decides each of them.  (When the user     *)
(* has dropped the assumptions of that check, there is nothing to explain.)  *)
FailedIsCore ==
  /\ valid_assignments /\ last_sat_result = "UNSAT"
  /\ Base \cap Models(orig_assumptions) = {}
  => Base \cap Models({e \in orig_assumptions : FailedExp(e)}) = {}

(* As long as boolector_get_value and its kin answer, the model satisfies    *)
(* everything asserted for good and everything the check assumed.            *)
ModelSatisfies ==
  valid_assignments /\ last_sat_result = "SAT"
  => model \in Base \cap Models(orig_assumptions)

\* What level i and the levels around it hold.
Frame(i) ==
  {assertions[j] : j \in 1..(IF i = Len(assertions_trail)
                             THEN Len(assertions)
                             ELSE assertions_trail[i + 1])}

Context == INSTANCE SmtContext WITH
  base <- Base,
  frames <- [i \in 1..Len(assertions_trail) |-> Frame(i)],
  pending <- IF valid_assignments THEN {} ELSE assumed,
  used <- IF valid_assignments THEN assumed ELSE {},
  verdict <- last_sat_result

(* A fixate that finds assertions of contexts among the assumptions of the   *)
(* last check.  It asserts them for good, although they are to hold until    *)
(* their context is popped (btorcore.c:2893): no promise covers that call.   *)
FixatesContexts ==
  FixateAssumptions /\ ~(orig_assumptions \subseteq assumed)

(* The session does what SmtContext promises: simplification is invisible,   *)
(* contexts nest, assumptions count for one check, fixate asserts what the   *)
(* user assumed, and an answer is right for the constraints, the open        *)
(* contexts and the assumptions together.  Every call but FixatesContexts    *)
(* is a step of SmtContext, before and after such a call too.                *)
ImplementsContext ==
  Context!Init /\ [][FixatesContexts \/ Context!Next]_(Context!vars)

=============================================================================
