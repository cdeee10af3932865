------------------------- MODULE BtorSessionProofs -------------------------
(* Machine-checked facts about BtorSession, for every set of expressions,   *)
(* every set of worlds and every bound: its types, and what its answers     *)
(* mean.  Simplification never changes the formula, the assumptions stay    *)
(* what the user made them, a model satisfies them and a failed set         *)
(* contradicts the constraints.                                             *)
EXTENDS BtorSession, TLAPS

(* btor_simplify_exp returns an expression. *)
LEMMA SimplifyType ==
  ASSUME NEW e \in Exp, NEW sm \in [Real -> Exp], NEW cs
  PROVE  SimplifyUnder(e, sm, cs) \in Exp
  BY ExpAssumption DEF SimplifyUnder, Signed, RealAddr, False

(* Adding constraints keeps the constraint table well typed. *)
LEMMA AddConstraintsType ==
  ASSUME NEW S \in SUBSET Exp, NEW sm \in [Real -> Exp], NEW cs \in SUBSET Exp,
         constraints \subseteq Exp, AddConstraints(S, sm, cs)
  PROVE  constraints' \subseteq Exp /\ inconsistent' \in BOOLEAN
<1> DEFINE new == {SimplifyUnder(l, sm, cs) :
                     l \in UNION {Leaf[SimplifyUnder(e, sm, cs)] : e \in S}}
                  \ {True}
<1>1. \A e \in S : SimplifyUnder(e, sm, cs) \in Exp
  BY SimplifyType
<1>2. UNION {Leaf[SimplifyUnder(e, sm, cs)] : e \in S} \subseteq Exp
  BY <1>1, ExpAssumption
<1>3. new \subseteq Exp
  BY <1>2, SimplifyType
<1> HIDE DEF new
<1>4. constraints' = cs \cup new \/ constraints' = constraints
  BY DEF AddConstraints, new
<1> QED
  BY <1>3, <1>4 DEF AddConstraints

(* A substitution maps real nodes to expressions. *)
LEMMA SubstitutedType ==
  ASSUME NEW D \in SUBSET Real, NEW s \in [D -> Exp],
         simplified \in [Real -> Exp]
  PROVE  Substituted(D, s) \in [Real -> Exp]
  BY ExpAssumption DEF Substituted, Signed, RealAddr

(* btor_simplify keeps the formula and the assumption tables well typed. *)
LEMMA SimplifyKeepsType ==
  ASSUME TypeOK, NEW orig \in SUBSET Exp, NEW simp \in SUBSET Exp,
         BtorSimplify(orig, simp)
  PROVE  /\ constraints' \subseteq Exp /\ simplified' \in [Real -> Exp]
         /\ inconsistent' \in BOOLEAN
         /\ orig_assumptions' \subseteq Exp /\ assumptions' \subseteq Exp
<1>1. CASE UNCHANGED formulaVars /\ assumptions' = simp
  BY <1>1 DEF BtorSimplify, TypeOK, formulaVars
<1>2. CASE ~(UNCHANGED formulaVars /\ assumptions' = simp)
  <2>1. PICK D \in SUBSET (Real \ {True}) : \E s \in [D -> Target(D)] :
          /\ Substitution(D, s)
          /\ simplified' = Substituted(D, s)
          /\ LET moved == {c \in constraints : RealAddr(c) \in D}
             IN AddConstraints({Signed(c, s[RealAddr(c)]) : c \in moved},
                               simplified', constraints \ moved)
    BY <1>2 DEF BtorSimplify
  <2>2. PICK s \in [D -> Target(D)] :
          /\ Substitution(D, s)
          /\ simplified' = Substituted(D, s)
          /\ LET moved == {c \in constraints : RealAddr(c) \in D}
             IN AddConstraints({Signed(c, s[RealAddr(c)]) : c \in moved},
                               simplified', constraints \ moved)
    BY <2>1
  <2> s \in [D -> Exp]
    BY DEF Target
  <2> DEFINE moved == {c \in constraints : RealAddr(c) \in D}
             S == {Signed(c, s[RealAddr(c)]) : c \in moved}
  <2>3. S \subseteq Exp
    BY ExpAssumption DEF Signed, TypeOK
  <2>4. simplified' \in [Real -> Exp]
    BY <2>2, SubstitutedType DEF TypeOK
  <2>5. AddConstraints(S, simplified', constraints \ moved)
    BY <2>2
  <2>6. constraints \subseteq Exp
    BY DEF TypeOK
  <2> HIDE DEF S, moved
  <2>7. constraints' \subseteq Exp /\ inconsistent' \in BOOLEAN
    BY <2>3, <2>4, <2>5, <2>6, AddConstraintsType
  <2>8. assumptions' =
          {SimplifyUnder(e, simplified', constraints') : e \in orig}
    BY <1>2 DEF BtorSimplify
  <2>9. assumptions' \subseteq Exp
    BY <2>4, <2>8, SimplifyType
  <2> QED
    BY <2>4, <2>7, <2>9 DEF BtorSimplify
<1> QED
  BY <1>1, <1>2

-----------------------------------------------------------------------------
(* Every step keeps every field in its type. *)
LEMMA TypeStep ==
  ASSUME TypeOK, ContextInv, [Next]_vars
  PROVE  TypeOK'
<1> USE DEF TypeOK
<1>1. ASSUME NEW n \in 1..MaxLevel, Push(n)
      PROVE  TypeOK'
  <2>1. [i \in 1..n |-> Len(assertions)] \in Seq(Nat)
    BY <1>1, BoundAssumption
  <2>2. assertions_trail' \in Seq(Nat)
    BY <1>1, <2>1 DEF Push
  <2> QED
    BY <1>1, <2>2 DEF Push, formulaVars, assumeVars, solverVars, modelVars
<1>2. ASSUME NEW n \in 1..MaxLevel, Pop(n)
      PROVE  TypeOK'
  <2> DEFINE pos == assertions_trail[Len(assertions_trail) - n + 1]
  <2>1. pos \in Nat /\ pos <= Len(assertions)
    BY <1>2 DEF Pop, ContextInv
  <2>2. assertions' = SubSeq(assertions, 1, pos)
        /\ assertions_trail' =
             SubSeq(assertions_trail, 1, Len(assertions_trail) - n)
        /\ assertions_cache' \subseteq assertions_cache
    BY <1>2 DEF Pop
  <2>3. assertions_trail' \in Seq(Nat)
    <3>1. Len(assertions_trail) - n \in 0..Len(assertions_trail)
      BY <1>2 DEF Pop
    <3>2. assertions_trail \in Seq(Nat)
      OBVIOUS
    <3> HIDE DEF TypeOK, pos
    <3>3. SubSeq(assertions_trail, 1, Len(assertions_trail) - n) \in Seq(Nat)
      BY <3>1, <3>2
    <3> QED
      BY <2>2, <3>3
  <2> HIDE DEF pos
  <2>4. assertions' \in Seq(Exp)
    BY <2>1, <2>2
  <2> QED
    BY <1>2, <2>2, <2>3, <2>4
      DEF Pop, formulaVars, assumeVars, solverVars, modelVars
<1>3. ASSUME NEW e \in Input, AssertInContext(e)
      PROVE  TypeOK'
  <2>1. e \in Exp
    BY ExpAssumption
  <2>2. CASE e \in assertions_cache
    BY <1>3, <2>2 DEF AssertInContext, formulaVars, assumeVars, solverVars,
                      modelVars
  <2>3. CASE e \notin assertions_cache
    <3>1. assertions' = Append(assertions, e)
          /\ assertions_cache' = assertions_cache \cup {e}
      BY <1>3, <2>3 DEF AssertInContext
    <3>2. assertions' \in Seq(Exp)
      BY <2>1, <3>1
    <3> QED
      BY <1>3, <2>1, <3>1, <3>2
        DEF AssertInContext, formulaVars, assumeVars, solverVars, modelVars
  <2> QED
    BY <2>2, <2>3
<1>4. ASSUME NEW e \in Input, AssertAtBase(e)
      PROVE  TypeOK'
  <2>1. AddConstraints({e}, simplified, constraints) /\ {e} \subseteq Exp
    BY <1>4, ExpAssumption DEF AssertAtBase, AssertExp
  <2>2. constraints' \subseteq Exp /\ inconsistent' \in BOOLEAN
    BY <2>1, AddConstraintsType
  <2> QED
    BY <1>4, <2>2
      DEF AssertAtBase, AssertExp, ResetModel, Fresh, ctxVars, solverVars
<1>5. ASSUME NEW e \in Input, Assume(e)
      PROVE  TypeOK'
  <2>1. SimplifyExp(e) \in Exp /\ e \in Exp
    BY SimplifyType, ExpAssumption DEF SimplifyExp
  <2> QED
    BY <1>5, <2>1 DEF Assume, ResetModel, Fresh, AssumedOrig, AssumedSimp,
                      ctxVars, formulaVars, solverVars
<1>6. ASSUME ResetAssumptions
      PROVE  TypeOK'
  BY <1>6 DEF ResetAssumptions, ctxVars, formulaVars, solverVars, modelVars
<1>7. ASSUME FixateAssumptions
      PROVE  TypeOK'
  <2>1. constraints' \subseteq Exp /\ inconsistent' \in BOOLEAN
        /\ simplified' = simplified
    BY <1>7, AddConstraintsType DEF FixateAssumptions, AssertExp, formulaVars
  <2> QED
    BY <1>7, <2>1 DEF FixateAssumptions, AssertExp, ResetModel, Fresh, ctxVars,
                      solverVars, modelVars
<1>8. ASSUME GetFailedAssumptions
      PROVE  TypeOK'
  BY <1>8
    DEF GetFailedAssumptions, ctxVars, formulaVars, solverVars, modelVars
<1>9. ASSUME Simplify
      PROVE  TypeOK'
  <2>1. Fresh(orig_assumptions, {}) \subseteq Exp
        /\ Fresh(assumptions, {}) \subseteq Exp
    BY DEF Fresh
  <2>2. /\ constraints' \subseteq Exp /\ simplified' \in [Real -> Exp]
        /\ inconsistent' \in BOOLEAN
        /\ orig_assumptions' \subseteq Exp /\ assumptions' \subseteq Exp
    BY <1>9, <2>1, SimplifyKeepsType DEF Simplify
  <2> QED
    BY <1>9, <2>2 DEF Simplify, ResetModel, Fresh, ctxVars, solverVars
<1>10. ASSUME CheckSat
       PROVE  TypeOK'
  <2>1. Elements(assertions) \subseteq Exp
    BY DEF Elements
  <2>2. \A e \in Elements(assertions) : SimplifyExp(e) \in Exp
    BY <2>1, SimplifyType DEF SimplifyExp
  <2>3. /\ AssumedOrig(Elements(assertions)) \subseteq Exp
        /\ AssumedSimp(Elements(assertions)) \subseteq Exp
    BY <2>1, <2>2 DEF AssumedOrig, AssumedSimp, Fresh
  <2>4. /\ constraints' \subseteq Exp /\ simplified' \in [Real -> Exp]
        /\ inconsistent' \in BOOLEAN
        /\ orig_assumptions' \subseteq Exp /\ assumptions' \subseteq Exp
    BY <1>10, <2>3, SimplifyKeepsType DEF CheckSat
  <2>5. /\ last_sat_result' \in Result /\ slv' \in Solver
        /\ model' \in World \cup {NULL}
        /\ failed_lits' \subseteq Exp
    <3>1. CASE inconsistent'
      BY <1>10, <3>1 DEF CheckSat, Result
    <3>2. CASE ~inconsistent'
      <4>1. Solve /\ slv' \in Solver
        BY <1>10, <3>2 DEF CheckSat, Solver
      <4>2. UNION {Leaf[e] : e \in assumptions'} \subseteq Exp
        BY <2>4, ExpAssumption
      <4>3. (Base' \cap Models(assumptions')) \subseteq World
        BY DEF Models
      <4> QED
        BY <4>1, <4>2, <4>3 DEF Solve, Result
    <3> QED
      BY <3>1, <3>2
  <2> QED
    BY <1>10, <2>4, <2>5 DEF CheckSat, Fresh, ctxVars
<1>11. ASSUME UNCHANGED vars
       PROVE  TypeOK'
  BY <1>11 DEF vars, ctxVars, formulaVars, assumeVars, solverVars, modelVars
<1> QED
  BY <1>1, <1>2, <1>3, <1>4, <1>5, <1>6, <1>7, <1>8, <1>9, <1>10, <1>11
    DEF Next

(* Only boolector_push, boolector_pop and an assertion above level 0 touch  *)
(* the context stack.                                                       *)
LEMMA OthersKeepContext ==
  ASSUME [Next]_vars,
         \A n \in 1..MaxLevel : ~Push(n) /\ ~Pop(n),
         \A e \in Input : ~AssertInContext(e)
  PROVE  UNCHANGED ctxVars
  BY DEF Next, vars, ctxVars, AssertAtBase, Assume, ResetAssumptions,
         FixateAssumptions, GetFailedAssumptions, Simplify, CheckSat

(* boolector_push opens levels that start at the top of the stack. *)
LEMMA PushKeepsContext ==
  ASSUME TypeOK, ContextInv, NEW n \in 1..MaxLevel, Push(n)
  PROVE  ContextInv'
<1> USE BoundAssumption DEF TypeOK
<1>1. /\ assertions' = assertions /\ assertions_cache' = assertions_cache
      /\ assertions_trail' =
           assertions_trail \o [i \in 1..n |-> Len(assertions)]
  BY DEF Push
<1>2. Len(assertions) \in Nat /\ n \in Nat /\ n >= 1
  OBVIOUS
<1>3. [i \in 1..n |-> Len(assertions)] \in Seq(Nat)
      /\ Len([i \in 1..n |-> Len(assertions)]) = n
  BY <1>2
<1>4. /\ assertions_trail' \in Seq(Nat)
      /\ Len(assertions_trail') = Len(assertions_trail) + n
      /\ \A i \in 1..Len(assertions_trail') :
           assertions_trail'[i] = IF i <= Len(assertions_trail)
                                  THEN assertions_trail[i]
                                  ELSE Len(assertions)
  BY <1>1, <1>2, <1>3
<1>5. DOMAIN assertions_trail' = 1..(Len(assertions_trail) + n)
      /\ DOMAIN assertions_trail = 1..Len(assertions_trail)
  BY <1>4
<1>6. \A i \in DOMAIN assertions_trail' :
        assertions_trail'[i] <= Len(assertions)
  BY <1>2, <1>4, <1>5 DEF ContextInv
<1>7. \A i, j \in DOMAIN assertions_trail' :
        i <= j => assertions_trail'[i] <= assertions_trail'[j]
  BY <1>2, <1>4, <1>5 DEF ContextInv
<1>8. assertions_trail' # <<>> /\ assertions_trail'[1] = 0
  BY <1>2, <1>4, <1>5 DEF ContextInv
<1> QED
  BY <1>1, <1>6, <1>7, <1>8 DEF ContextInv, Elements

(* boolector_pop removes from the cache exactly what it takes off the       *)
(* stack, because no assertion is on the stack twice.                       *)
LEMMA PopKeepsContext ==
  ASSUME TypeOK, ContextInv, NEW n \in 1..MaxLevel, Pop(n)
  PROVE  ContextInv'
<1> USE DEF TypeOK
<1> DEFINE pos == assertions_trail[Len(assertions_trail) - n + 1]
           len == Len(assertions_trail) - n
<1>1. /\ n \in 1..Len(assertions_trail)
      /\ assertions' = SubSeq(assertions, 1, pos)
      /\ assertions_cache' =
           assertions_cache \ {assertions[i] : i \in (pos + 1)..Len(assertions)}
      /\ assertions_trail' = SubSeq(assertions_trail, 1, len)
  BY DEF Pop
<1>2. /\ pos \in Nat /\ pos <= Len(assertions)
      /\ len \in Nat /\ len + 1 \in DOMAIN assertions_trail
  BY <1>1 DEF ContextInv
<1>3. \A i \in 1..len : assertions_trail[i] <= pos
  <2>1. \A i, j \in DOMAIN assertions_trail :
          i <= j => assertions_trail[i] <= assertions_trail[j]
    BY DEF ContextInv
  <2>2. pos = assertions_trail[len + 1]
    BY <1>1
  <2>3. \A i \in 1..len : i \in DOMAIN assertions_trail /\ i <= len + 1
    BY <1>1, <1>2
  <2> QED
    BY <1>2, <2>1, <2>2, <2>3
<1>4. len = 0 => pos = 0
  BY <1>1, <1>2 DEF ContextInv
<1> HIDE DEF pos
<1>5. /\ Len(assertions') = pos /\ DOMAIN assertions' = 1..pos
      /\ \A i \in 1..pos : assertions'[i] = assertions[i]
  BY <1>1, <1>2
<1>6. /\ DOMAIN assertions_trail' = 1..len /\ Len(assertions_trail') = len
      /\ \A i \in 1..len : assertions_trail'[i] = assertions_trail[i]
  BY <1>1, <1>2
<1>7. DOMAIN assertions = 1..Len(assertions)
      /\ DOMAIN assertions_trail = 1..Len(assertions_trail)
  OBVIOUS
<1>8. assertions_cache' = Elements(assertions')
  <2>1. Elements(assertions') = {assertions[i] : i \in 1..pos}
    BY <1>5 DEF Elements
  <2>2. assertions_cache = {assertions[i] : i \in 1..Len(assertions)}
    BY <1>7 DEF ContextInv, Elements
  <2>3. \A i, j \in 1..Len(assertions) :
          assertions[i] = assertions[j] => i = j
    BY <1>7 DEF ContextInv
  <2>4. ASSUME NEW e \in assertions_cache' PROVE e \in Elements(assertions')
    <3>1. PICK i \in 1..Len(assertions) : e = assertions[i]
      BY <1>1, <2>2, <2>4
    <3>2. i \notin (pos + 1)..Len(assertions)
      BY <1>1, <2>4, <3>1
    <3>3. i \in 1..pos
      BY <1>2, <3>2
    <3> QED
      BY <2>1, <3>1, <3>3
  <2>5. ASSUME NEW e \in Elements(assertions') PROVE e \in assertions_cache'
    <3>1. PICK i \in 1..pos : e = assertions[i]
      BY <2>1, <2>5
    <3>2. i \in 1..Len(assertions)
      BY <1>2
    <3>3. \A j \in (pos + 1)..Len(assertions) : assertions[j] # e
      BY <1>2, <2>3, <3>1, <3>2
    <3> QED
      BY <1>1, <2>2, <3>1, <3>2, <3>3
  <2> QED
    BY <2>4, <2>5
<1>9. \A i, j \in DOMAIN assertions' : assertions'[i] = assertions'[j] => i = j
  BY <1>2, <1>5, <1>7 DEF ContextInv
<1>10. \A i \in DOMAIN assertions_trail' :
         assertions_trail'[i] <= Len(assertions')
  BY <1>3, <1>5, <1>6
<1>11. \A i, j \in DOMAIN assertions_trail' :
         i <= j => assertions_trail'[i] <= assertions_trail'[j]
  <2>1. \A i, j \in DOMAIN assertions_trail :
          i <= j => assertions_trail[i] <= assertions_trail[j]
    BY DEF ContextInv
  <2>2. \A i \in 1..len : i \in DOMAIN assertions_trail
    BY <1>1, <1>2, <1>7
  <2> HIDE DEF len
  <2> QED
    BY <1>6, <2>1, <2>2
<1>12. assertions_trail' = <<>> => assertions' = <<>>
  <2>1. assertions_trail' = <<>> => len = 0
    BY <1>2, <1>6
  <2> QED
    BY <1>1, <1>4, <2>1
<1>13. assertions_trail' # <<>> => assertions_trail'[1] = 0
  <2>1. assertions_trail' # <<>> => len >= 1
    BY <1>1, <1>2, <1>6
  <2>2. assertions_trail # <<>> => assertions_trail[1] = 0
    BY DEF ContextInv
  <2> QED
    BY <1>1, <1>2, <1>6, <2>1, <2>2
<1> QED
  BY <1>8, <1>9, <1>10, <1>11, <1>12, <1>13 DEF ContextInv

(* A new assertion above level 0 goes on the stack and into the cache. *)
LEMMA AssertKeepsContext ==
  ASSUME TypeOK, ContextInv, NEW e \in Input, AssertInContext(e)
  PROVE  ContextInv'
<1> USE DEF TypeOK
<1>1. assertions_trail' = assertions_trail /\ assertions_trail # <<>>
  BY DEF AssertInContext
<1>2. CASE e \in assertions_cache
  BY <1>1, <1>2 DEF AssertInContext, ContextInv, Elements
<1>3. CASE e \notin assertions_cache
  <2>1. /\ assertions' = Append(assertions, e)
        /\ assertions_cache' = assertions_cache \cup {e}
        /\ e \in Exp
    BY <1>3, ExpAssumption DEF AssertInContext
  <2>2. /\ DOMAIN assertions' = 1..(Len(assertions) + 1)
        /\ Len(assertions') = Len(assertions) + 1
        /\ \A i \in 1..Len(assertions) : assertions'[i] = assertions[i]
        /\ assertions'[Len(assertions) + 1] = e
        /\ DOMAIN assertions = 1..Len(assertions) /\ Len(assertions) \in Nat
    BY <2>1
  <2>3. assertions_cache' = Elements(assertions')
    <3>1. Elements(assertions') = Elements(assertions) \cup {e}
      <4>1. \A i \in DOMAIN assertions : i \in DOMAIN assertions'
        BY <2>2
      <4>2. \A i \in DOMAIN assertions' :
              i \in DOMAIN assertions \/ i = Len(assertions) + 1
        BY <2>2
      <4>3. Len(assertions) + 1 \in DOMAIN assertions'
        BY <2>2
      <4> QED
        BY <2>2, <4>1, <4>2, <4>3 DEF Elements
    <3> QED
      BY <2>1, <3>1 DEF ContextInv
  <2>4. \A i \in 1..Len(assertions) : assertions[i] # e
    BY <1>3, <2>2 DEF ContextInv, Elements
  <2>5. \A i, j \in DOMAIN assertions' :
          assertions'[i] = assertions'[j] => i = j
    BY <2>2, <2>4 DEF ContextInv
  <2>6. \A i \in DOMAIN assertions_trail' :
          assertions_trail'[i] <= Len(assertions')
    BY <1>1, <2>2 DEF ContextInv
  <2> QED
    BY <1>1, <2>3, <2>5, <2>6 DEF ContextInv
<1> QED
  BY <1>2, <1>3

-----------------------------------------------------------------------------
(* The context stack is well formed initially and after every step. *)
LEMMA ContextStep ==
  ASSUME TypeOK, ContextInv, [Next]_vars
  PROVE  ContextInv'
<1>1. CASE \E n \in 1..MaxLevel : Push(n)
  BY <1>1, PushKeepsContext
<1>2. CASE \E n \in 1..MaxLevel : Pop(n)
  BY <1>2, PopKeepsContext
<1>3. CASE \E e \in Input : AssertInContext(e)
  BY <1>3, AssertKeepsContext
<1>4. CASE UNCHANGED ctxVars
  BY <1>4 DEF ctxVars, ContextInv, Elements
<1> QED
  BY <1>1, <1>2, <1>3, <1>4, OthersKeepContext

LEMMA InitInv == Init => TypeOK /\ ContextInv
<1> SUFFICES ASSUME Init PROVE TypeOK /\ ContextInv
  OBVIOUS
<1>1. simplified \in [Real -> Exp]
  BY ExpAssumption DEF Init
<1>2. assertions \in Seq(Exp) /\ assertions_trail \in Seq(Nat)
  BY DEF Init
<1>3. TypeOK
  BY <1>1, <1>2 DEF Init, TypeOK, Result, Solver
<1>4. ContextInv
  BY DEF Init, ContextInv, Elements
<1> QED
  BY <1>3, <1>4

(* The fields of an instance keep their types through any sequence of API   *)
(* calls: in particular boolector_pop never cuts above the stack.           *)
THEOREM TypeCorrect == Spec => []TypeOK
  BY InitInv, TypeStep, ContextStep, PTL DEF Spec

(* boolector_push, _pop and _assert keep stack, cache and marks consistent  *)
(* for any number of levels and assertions.                                 *)
THEOREM ContextCorrect == Spec => []ContextInv
  BY InitInv, TypeStep, ContextStep, PTL DEF Spec


-----------------------------------------------------------------------------
(* Facts about the operators of BtorSession. *)

(* The sign of a pointer is complementation. *)
LEMMA NegMeaning ==
  ASSUME NEW e \in Exp, NEW w \in World
  PROVE  /\ Neg[e] \in Exp
         /\ w \in Den[Neg[e]] <=> w \notin Den[e]
  BY ExpAssumption

(* btor_node_real_addr gives a real node, that of the pointer or its        *)
(* negation.                                                                *)
LEMMA RealAddrType ==
  ASSUME NEW e \in Exp
  PROVE  /\ RealAddr(e) \in Real /\ RealAddr(e) \in Exp
         /\ e \in Real => RealAddr(e) = e
         /\ e \notin Real => RealAddr(e) = Neg[e]
  BY ExpAssumption DEF RealAddr

(* If the real node of e and its image m agree in world w, so do e and its  *)
(* signed image.                                                            *)
LEMMA SignedMeaning ==
  ASSUME NEW e \in Exp, NEW m \in Exp, NEW w \in World,
         w \in Den[RealAddr(e)] <=> w \in Den[m]
  PROVE  /\ Signed(e, m) \in Exp
         /\ w \in Den[e] <=> w \in Den[Signed(e, m)]
<1>1. CASE e \in Real
  BY <1>1, RealAddrType DEF Signed
<1>2. CASE e \notin Real
  <2>1. Signed(e, m) = Neg[m] /\ RealAddr(e) = Neg[e]
    BY <1>2, RealAddrType DEF Signed
  <2> QED
    BY <2>1, NegMeaning
<1> QED
  BY <1>1, <1>2

(* The constants mean true and false. *)
LEMMA ConstantMeaning ==
  /\ True \in Exp /\ False \in Exp
  /\ \A w \in World : w \in Den[True] /\ w \notin Den[False]
  BY ExpAssumption DEF False

(* Following the simplified pointers keeps the meaning in every world that  *)
(* respects them.                                                           *)
LEMMA ResolvedMeaning ==
  ASSUME NEW e \in Exp, NEW sm \in [Real -> Exp], NEW w \in Equiv(sm)
  PROVE  LET r == Signed(e, sm[RealAddr(e)])
         IN r \in Exp /\ (w \in Den[e] <=> w \in Den[r])
<1>1. w \in World /\ RealAddr(e) \in Real /\ sm[RealAddr(e)] \in Exp
  BY RealAddrType DEF Equiv
<1>2. w \in Den[RealAddr(e)] <=> w \in Den[sm[RealAddr(e)]]
  BY <1>1 DEF Equiv
<1> QED
  BY <1>1, <1>2, SignedMeaning

(* btor_simplify_exp keeps the meaning of an expression in every world that *)
(* respects the simplified pointers and satisfies the constraints.          *)
LEMMA SimplifyMeaning ==
  ASSUME NEW e \in Exp, NEW sm \in [Real -> Exp], NEW cs \in SUBSET Exp,
         NEW w \in Models(cs) \cap Equiv(sm)
  PROVE  w \in Den[e] <=> w \in Den[SimplifyUnder(e, sm, cs)]
<1> DEFINE r == Signed(e, sm[RealAddr(e)])
<1>1. r \in Exp /\ (w \in Den[e] <=> w \in Den[r])
  BY ResolvedMeaning
<1>2. SimplifyUnder(e, sm, cs) =
        IF r \in cs THEN True ELSE IF Neg[r] \in cs THEN False ELSE r
  BY DEF SimplifyUnder
<1>3. w \in World /\ \A c \in cs : w \in Den[c]
  BY DEF Models, Equiv
<1> HIDE DEF r
<1>4. CASE r \in cs
  BY <1>1, <1>2, <1>3, <1>4, ConstantMeaning
<1>5. CASE r \notin cs /\ Neg[r] \in cs
  BY <1>1, <1>2, <1>3, <1>5, ConstantMeaning, NegMeaning
<1>6. CASE r \notin cs /\ Neg[r] \notin cs
  BY <1>1, <1>2, <1>6
<1> QED
  BY <1>4, <1>5, <1>6

(* Models of sets of expressions. *)
LEMMA ModelsFacts ==
  /\ \A S : Models(S) \subseteq World
  /\ Models({}) = World
  /\ \A S, T : Models(S \cup T) = Models(S) \cap Models(T)
  /\ \A e : Models({e}) = {w \in World : w \in Den[e]}
  BY DEF Models

(* add_constraint loses and adds nothing: the constraints cs and what it    *)
(* makes of S, flattened and simplified, have the same models as cs and S.  *)
LEMMA NewConstraintsMeaning ==
  ASSUME NEW S \in SUBSET Exp, NEW sm \in [Real -> Exp], NEW cs \in SUBSET Exp
  PROVE  LET new == {SimplifyUnder(l, sm, cs) :
                       l \in UNION {Leaf[SimplifyUnder(e, sm, cs)] : e \in S}}
                    \ {True}
         IN Models(cs \cup new) \cap Equiv(sm) =
              Models(cs) \cap Equiv(sm) \cap Models(S)
<1> DEFINE leaves == UNION {Leaf[SimplifyUnder(e, sm, cs)] : e \in S}
           new == {SimplifyUnder(l, sm, cs) : l \in leaves} \ {True}
<1>1. \A e \in S : SimplifyUnder(e, sm, cs) \in Exp
  BY SimplifyType
<1>2. leaves \subseteq Exp
  BY <1>1, ExpAssumption
<1>3. ASSUME NEW w \in Models(cs) \cap Equiv(sm)
      PROVE  w \in Models(S) <=> w \in Models(new)
  <2>1. w \in World
    BY DEF Models
  <2>2. w \in Models(S) <=> \A e \in S : w \in Den[SimplifyUnder(e, sm, cs)]
    BY <2>1, SimplifyMeaning DEF Models
  <2>3. \A e \in Exp : w \in Den[e] <=> \A l \in Leaf[e] : w \in Den[l]
    BY <2>1, ExpAssumption
  <2>4. (\A e \in S : w \in Den[SimplifyUnder(e, sm, cs)])
          <=> \A l \in leaves : w \in Den[l]
    BY <1>1, <2>3
  <2>5. \A l \in leaves : w \in Den[l] <=> w \in Den[SimplifyUnder(l, sm, cs)]
    BY <1>2, SimplifyMeaning
  <2>6. (\A l \in leaves : w \in Den[l]) <=> w \in Models(new)
    <3> HIDE DEF leaves
    <3> QED
      BY <2>1, <2>5, ConstantMeaning DEF Models
  <2> QED
    BY <2>2, <2>4, <2>6
<1>4. Models(cs \cup new) = Models(cs) \cap Models(new)
  BY ModelsFacts
<1> HIDE DEF new
<1>5. Models(cs \cup new) \cap Equiv(sm) =
        Models(cs) \cap Equiv(sm) \cap Models(S)
  BY <1>3, <1>4
<1> QED
  BY <1>5 DEF new

(* btor_assert_exp: afterwards the instance allows the worlds of cs that    *)
(* satisfy S, whether or not it noticed that there are none.                *)
LEMMA AddConstraintsMeaning ==
  ASSUME NEW S \in SUBSET Exp, NEW sm \in [Real -> Exp], NEW cs \in SUBSET Exp,
         AddConstraints(S, sm, cs), simplified' = sm
  PROVE  Base' = IF inconsistent THEN {}
                 ELSE Models(cs) \cap Equiv(sm) \cap Models(S)
<1> DEFINE new == {SimplifyUnder(l, sm, cs) :
                     l \in UNION {Leaf[SimplifyUnder(e, sm, cs)] : e \in S}}
                  \ {True}
<1>1. Models(cs \cup new) \cap Equiv(sm) =
        Models(cs) \cap Equiv(sm) \cap Models(S)
  BY NewConstraintsMeaning
<1>2. \/ /\ ~inconsistent /\ constraints' = cs \cup new /\ inconsistent' = FALSE
      \/ /\ inconsistent \/ Models(cs \cup new) \cap Equiv(sm) = {}
         /\ inconsistent' = TRUE
  BY DEF AddConstraints
<1>3. Base' = IF inconsistent' THEN {}
              ELSE Models(constraints') \cap Equiv(simplified')
  BY DEF Base, Models, Equiv
<1> HIDE DEF new
<1> QED
  BY <1>1, <1>2, <1>3

(* Asserting S leaves exactly the allowed worlds that satisfy S. *)
LEMMA AssertMeaning ==
  ASSUME TypeOK, NEW S \in SUBSET Exp, AssertExp(S)
  PROVE  Base' = Base \cap Models(S)
<1>1. Base' = IF inconsistent THEN {}
              ELSE Models(constraints) \cap Equiv(simplified) \cap Models(S)
  BY AddConstraintsMeaning DEF AssertExp, TypeOK
<1> QED
  BY <1>1 DEF Base

(* btor_substitute_and_rebuild: a substitution that is right under the      *)
(* constraints changes neither the allowed worlds nor, read backwards, lets *)
(* a world in: its nodes were not substituted before, so that their new     *)
(* simplified pointers say what they are equal to.                          *)
LEMMA SubstitutionMeaning ==
  ASSUME TypeOK, ~inconsistent,
         NEW D \in SUBSET Real, \A d \in D : simplified[d] = d,
         NEW s \in [D -> Exp], Substitution(D, s)
  PROVE  LET moved == {c \in constraints : RealAddr(c) \in D}
         IN Models(constraints \ moved) \cap Equiv(Substituted(D, s))
              \cap Models({Signed(c, s[RealAddr(c)]) : c \in moved}) = Base
<1> DEFINE moved == {c \in constraints : RealAddr(c) \in D}
           sm == Substituted(D, s)
           S == {Signed(c, s[RealAddr(c)]) : c \in moved}
<1>1. simplified \in [Real -> Exp] /\ constraints \subseteq Exp
  BY DEF TypeOK
<1>2. Base = Models(constraints) \cap Equiv(simplified)
  BY DEF Base
<1>3. \A r \in Real :
        sm[r] = IF RealAddr(simplified[r]) \in D
                THEN Signed(simplified[r], s[RealAddr(simplified[r])])
                ELSE simplified[r]
  BY DEF Substituted
<1> HIDE DEF sm
(* In a world where every substituted node equals its new node, the old and *)
(* the new pointers, and the old and the new constraints, say the same.     *)
<1>4. ASSUME NEW w \in World, \A d \in D : w \in Den[d] <=> w \in Den[s[d]]
      PROVE  /\ w \in Equiv(sm) <=> w \in Equiv(simplified)
             /\ w \in Models(S) <=> w \in Models(moved)
  <2>1. \A e \in Exp : RealAddr(e) \in D =>
          (w \in Den[e] <=> w \in Den[Signed(e, s[RealAddr(e)])])
    BY <1>4, SignedMeaning
  <2>2. \A r \in Real : w \in Den[sm[r]] <=> w \in Den[simplified[r]]
    BY <1>1, <1>3, <2>1
  <2>3. w \in Equiv(sm) <=> w \in Equiv(simplified)
    BY <2>2 DEF Equiv
  <2>4. \A c \in moved : w \in Den[c] <=> w \in Den[Signed(c, s[RealAddr(c)])]
    BY <1>1, <2>1
  <2>5. w \in Models(S) <=> w \in Models(moved)
    BY <2>4 DEF Models
  <2> QED
    BY <2>3, <2>5
<1>5. ASSUME NEW w \in Base
      PROVE  \A d \in D : w \in Den[d] <=> w \in Den[s[d]]
  BY DEF Substitution
<1>6. ASSUME NEW w \in Equiv(sm)
      PROVE  \A d \in D : w \in Den[d] <=> w \in Den[s[d]]
  <2>1. \A d \in D : sm[d] = s[d]
    BY <1>3, RealAddrType, ExpAssumption DEF Signed
  <2> QED
    BY <2>1 DEF Equiv
<1>7. Models(constraints) = Models(constraints \ moved) \cap Models(moved)
  BY DEF Models
<1>8. \A T : Models(T) \subseteq World
  BY ModelsFacts
<1> HIDE DEF moved, S
<1>9. Models(constraints \ moved) \cap Equiv(sm) \cap Models(S) = Base
  BY <1>2, <1>4, <1>5, <1>6, <1>7, <1>8
<1> QED
  BY <1>9 DEF moved, S, sm

(* btor_simplify leaves the meaning of the instance as it is. *)
LEMMA BtorSimplifyKeepsBase ==
  ASSUME TypeOK, NEW orig \in SUBSET Exp, NEW simp, BtorSimplify(orig, simp)
  PROVE  Base' = Base
<1>1. CASE UNCHANGED formulaVars
  BY <1>1 DEF formulaVars, Base, Models, Equiv
<1>2. CASE ~UNCHANGED formulaVars
  <2>1. ~inconsistent
    BY <1>2 DEF BtorSimplify
  <2>2. PICK D \in SUBSET (Real \ {True}) :
          /\ Cone(D)
          /\ \E s \in [D -> Target(D)] :
               /\ Substitution(D, s)
               /\ simplified' = Substituted(D, s)
               /\ LET moved == {c \in constraints : RealAddr(c) \in D}
                  IN AddConstraints({Signed(c, s[RealAddr(c)]) : c \in moved},
                                    simplified', constraints \ moved)
    BY <1>2 DEF BtorSimplify
  <2>3. PICK s \in [D -> Target(D)] :
          /\ Substitution(D, s)
          /\ simplified' = Substituted(D, s)
          /\ LET moved == {c \in constraints : RealAddr(c) \in D}
             IN AddConstraints({Signed(c, s[RealAddr(c)]) : c \in moved},
                               simplified', constraints \ moved)
    BY <2>2
  <2> DEFINE moved == {c \in constraints : RealAddr(c) \in D}
             S == {Signed(c, s[RealAddr(c)]) : c \in moved}
  <2>4. s \in [D -> Exp] /\ D \subseteq Real /\ \A d \in D : simplified[d] = d
    BY <2>2 DEF Target, Cone
  <2>5. S \subseteq Exp /\ constraints \ moved \subseteq Exp
    BY <2>4, ExpAssumption DEF Signed, TypeOK
  <2>6. simplified' \in [Real -> Exp]
    BY <2>3, <2>4, SubstitutedType DEF TypeOK
  <2>7. Models(constraints \ moved) \cap Equiv(Substituted(D, s)) \cap Models(S)
          = Base
    BY <2>1, <2>3, <2>4, SubstitutionMeaning
  <2>8. AddConstraints(S, simplified', constraints \ moved)
    BY <2>3
  <2> HIDE DEF S, moved
  <2>9. Base' = IF inconsistent THEN {}
                ELSE Models(constraints \ moved) \cap Equiv(simplified')
                       \cap Models(S)
    BY <2>5, <2>6, <2>8, AddConstraintsMeaning
  <2> QED
    BY <2>1, <2>3, <2>7, <2>9
<1> QED
  BY <1>1, <1>2

(* btor_simplify_exp of every member of a set keeps its models among the    *)
(* allowed worlds.                                                          *)
LEMMA SimplifiedSetMeaning ==
  ASSUME TypeOK, NEW S \in SUBSET Exp
  PROVE  Base \cap Models({SimplifyExp(e) : e \in S}) = Base \cap Models(S)
<1>1. ASSUME NEW w \in Base, NEW e \in S
      PROVE  w \in Den[e] <=> w \in Den[SimplifyExp(e)]
  BY SimplifyMeaning DEF Base, SimplifyExp, TypeOK
<1>2. Base \subseteq World
  BY DEF Base, Models
<1> QED
  BY <1>1, <1>2 DEF Models

(* btor_simplify: the simplified assumptions it leaves mean the same as the *)
(* original ones, if they did before.                                       *)
LEMMA BtorSimplifyFaithful ==
  ASSUME TypeOK, NEW orig \in SUBSET Exp, NEW simp \in SUBSET Exp,
         Base \cap Models(simp) = Base \cap Models(orig),
         BtorSimplify(orig, simp)
  PROVE  Base' \cap Models(assumptions') = Base' \cap Models(orig_assumptions')
<1>1. Base' = Base /\ orig_assumptions' = orig
  BY BtorSimplifyKeepsBase DEF BtorSimplify
<1>2. CASE assumptions' = simp
  BY <1>1, <1>2
<1>3. CASE assumptions' # simp
  <2>1. assumptions' =
          {SimplifyUnder(e, simplified', constraints') : e \in orig}
    BY <1>3 DEF BtorSimplify
  <2>2. simplified' \in [Real -> Exp] /\ constraints' \subseteq Exp
    BY SimplifyKeepsType
  <2>3. CASE inconsistent'
    BY <2>3 DEF Base
  <2>4. CASE ~inconsistent'
    <3>1. Base' = Models(constraints') \cap Equiv(simplified')
      BY <2>4 DEF Base, Models, Equiv
    <3>2. ASSUME NEW w \in Base', NEW e \in orig
          PROVE  w \in Den[e] <=>
                   w \in Den[SimplifyUnder(e, simplified', constraints')]
      BY <2>2, <3>1, SimplifyMeaning
    <3>3. Base' \subseteq World
      BY <3>1 DEF Models
    <3> QED
      BY <1>1, <2>1, <3>2, <3>3 DEF Models
  <2> QED
    BY <2>3, <2>4
<1> QED
  BY <1>2, <1>3

-----------------------------------------------------------------------------
(* The inductive invariant.  A simplified assumption a comes from an        *)
(* original one e: it is what e's simplified pointer leads to, or it is a   *)
(* constant because that node, or its negation, already was a constraint    *)
(* when e was last looked at.  It need not be what btor_simplify_exp        *)
(* returns for e now, since constraints are asserted after an assumption.   *)
Resolved(e) == Signed(e, simplified[RealAddr(e)])

ComesFrom(a, e) ==
  \/ a = Resolved(e)
  \/ a = True /\ Resolved(e) \in constraints
  \/ a = False /\ Neg[Resolved(e)] \in constraints

AssumptionsTraced ==
  \A a \in assumptions : \E e \in orig_assumptions : ComesFrom(a, e)

(* As long as the fun engine's UNSAT answer counts and the constraints      *)
(* alone are not contradictory, the final conflict of the SAT solver is     *)
(* about conjuncts of the assumptions in effect.                            *)
ConflictStands ==
  /\ valid_assignments /\ last_sat_result = "UNSAT" /\ slv = "fun"
  /\ Base # {} /\ Base \cap Models(orig_assumptions) = {}
  => /\ failed_lits \subseteq UNION {Leaf[a] : a \in assumptions}
     /\ Base \cap Models(failed_lits) = {}

SessionInv ==
  /\ TypeOK /\ ContextInv
  /\ AssumptionsFaithful /\ AssumptionsTraced
  /\ ModelSatisfies
  /\ ConflictStands

(* boolector_push, _pop and an assertion above level 0 touch nothing but    *)
(* the context stack.                                                       *)
ContextOnly == UNCHANGED <<formulaVars, assumeVars, solverVars, modelVars>>

LEMMA ContextSteps ==
  /\ \A n \in 1..MaxLevel : Push(n) \/ Pop(n) => ContextOnly
  /\ \A e \in Input : AssertInContext(e) => ContextOnly
  /\ UNCHANGED vars => ContextOnly
  BY DEF Push, Pop, AssertInContext, vars, ContextOnly

(* The assumption tables that btor_check_sat hands to btor_simplify. *)
LEMMA AssumedMeaning ==
  ASSUME TypeOK, AssumptionsFaithful, NEW S \in SUBSET Exp
  PROVE  /\ AssumedOrig(S) \subseteq Exp /\ AssumedSimp(S) \subseteq Exp
         /\ Base \cap Models(AssumedSimp(S)) = Base \cap Models(AssumedOrig(S))
<1> DEFINE simp == {SimplifyExp(e) : e \in S}
<1>1. simp \subseteq Exp
  BY SimplifyType DEF SimplifyExp, TypeOK
<1>2. Base \cap Models(simp) = Base \cap Models(S)
  BY SimplifiedSetMeaning
<1>3. Base \cap Models(Fresh(assumptions, {}))
        = Base \cap Models(Fresh(orig_assumptions, {}))
  BY DEF Fresh, AssumptionsFaithful
<1> HIDE DEF simp
<1>4. Base \cap Models(Fresh(assumptions, {}) \cup simp)
        = Base \cap Models(Fresh(orig_assumptions, {}) \cup S)
  BY <1>2, <1>3, ModelsFacts
<1> QED
  BY <1>1, <1>4 DEF AssumedOrig, AssumedSimp, Fresh, TypeOK, simp

LEMMA ElementsType == TypeOK => Elements(assertions) \subseteq Exp
  BY DEF TypeOK, Elements

(* No step of the session changes what the assumptions mean. *)
LEMMA FaithfulStep ==
  ASSUME TypeOK, AssumptionsFaithful, [Next]_vars
  PROVE  AssumptionsFaithful'
<1> USE DEF AssumptionsFaithful
<1>1. ASSUME ContextOnly PROVE AssumptionsFaithful'
  BY <1>1 DEF ContextOnly, formulaVars, assumeVars, Base, Models, Equiv
<1>2. ASSUME NEW e \in Input, AssertAtBase(e) PROVE AssumptionsFaithful'
  <2>1. Base' \subseteq Base
    BY <1>2, AssertMeaning, ExpAssumption DEF AssertAtBase
  <2>2. assumptions' = Fresh(assumptions, {})
        /\ orig_assumptions' = Fresh(orig_assumptions, {})
        /\ failed_assumptions' = Fresh(failed_assumptions, {})
    BY <1>2 DEF AssertAtBase
  <2>3. Base' \cap Models(assumptions') = Base' \cap Models(orig_assumptions')
    BY <2>1, <2>2 DEF Fresh
  <2> QED
    BY <2>2, <2>3 DEF Fresh, Models
<1>3. ASSUME NEW e \in Input, Assume(e) PROVE AssumptionsFaithful'
  <2>1. Base' = Base
    BY <1>3 DEF Assume, formulaVars, Base, Models, Equiv
  <2>2. Base \cap Models(AssumedSimp({e})) = Base \cap Models(AssumedOrig({e}))
    BY AssumedMeaning, ExpAssumption
  <2>3. Base' \cap Models(assumptions') = Base' \cap Models(orig_assumptions')
    BY <1>3, <2>1, <2>2 DEF Assume
  <2>4. failed_assumptions' \subseteq orig_assumptions'
    BY <1>3 DEF Assume, AssumedOrig, Fresh
  <2> QED
    BY <2>3, <2>4 DEF Models
<1>4. ASSUME ResetAssumptions \/ FixateAssumptions PROVE AssumptionsFaithful'
  BY <1>4 DEF ResetAssumptions, FixateAssumptions
<1>5. ASSUME GetFailedAssumptions PROVE AssumptionsFaithful'
  BY <1>5 DEF GetFailedAssumptions, formulaVars, Base, Models, Equiv
<1>6. ASSUME Simplify PROVE AssumptionsFaithful'
  <2>1. /\ Fresh(orig_assumptions, {}) \subseteq Exp
        /\ Fresh(assumptions, {}) \subseteq Exp
        /\ Base \cap Models(Fresh(assumptions, {}))
             = Base \cap Models(Fresh(orig_assumptions, {}))
    BY DEF Fresh, TypeOK
  <2>2. BtorSimplify(Fresh(orig_assumptions, {}), Fresh(assumptions, {}))
        /\ failed_assumptions' = Fresh(failed_assumptions, {})
    BY <1>6 DEF Simplify
  <2>3. Base' \cap Models(assumptions') = Base' \cap Models(orig_assumptions')
    BY <2>1, <2>2, BtorSimplifyFaithful
  <2>4. failed_assumptions' \subseteq orig_assumptions'
    BY <2>2 DEF BtorSimplify, Fresh
  <2> QED
    BY <2>3, <2>4 DEF Models
<1>7. ASSUME CheckSat PROVE AssumptionsFaithful'
  <2> DEFINE orig == AssumedOrig(Elements(assertions))
             simp == AssumedSimp(Elements(assertions))
  <2>1. /\ orig \subseteq Exp /\ simp \subseteq Exp
        /\ Base \cap Models(simp) = Base \cap Models(orig)
    BY AssumedMeaning, ElementsType
  <2>2. BtorSimplify(orig, simp)
        /\ failed_assumptions' = Fresh(failed_assumptions, {})
    BY <1>7 DEF CheckSat
  <2>3. Base' \cap Models(assumptions') = Base' \cap Models(orig_assumptions')
    BY <2>1, <2>2, BtorSimplifyFaithful
  <2>4. failed_assumptions' \subseteq orig_assumptions'
    BY <2>2 DEF BtorSimplify, AssumedOrig, Fresh
  <2> QED
    BY <2>3, <2>4 DEF Models
<1> QED
  BY <1>1, <1>2, <1>3, <1>4, <1>5, <1>6, <1>7, ContextSteps DEF Next

(* btor_simplify_exp of e comes from e, under the same tables. *)
LEMMA SimplifyTraced ==
  ASSUME NEW e \in Exp, NEW sm, NEW cs
  PROVE  LET a == SimplifyUnder(e, sm, cs)
             r == Signed(e, sm[RealAddr(e)])
         IN a = r \/ (a = True /\ r \in cs) \/ (a = False /\ Neg[r] \in cs)
  BY DEF SimplifyUnder

(* Nothing that is asserted leaves the table again, except that btor_simplify *)
(* moves it; and it looks at every assumption anew.                           *)
LEMMA TracedStep ==
  ASSUME TypeOK, AssumptionsTraced, [Next]_vars
  PROVE  AssumptionsTraced'
<1> USE DEF AssumptionsTraced, ComesFrom, Resolved
<1>1. ASSUME ContextOnly PROVE AssumptionsTraced'
  BY <1>1 DEF ContextOnly, formulaVars, assumeVars
<1>2. ASSUME NEW e \in Input, AssertAtBase(e) PROVE AssumptionsTraced'
  <2>1. constraints \subseteq constraints' /\ simplified' = simplified
    BY <1>2 DEF AssertAtBase, AssertExp, AddConstraints
  <2> QED
    BY <1>2, <2>1 DEF AssertAtBase, Fresh
<1>3. ASSUME NEW S \in SUBSET Exp, NEW a \in AssumedSimp(S)
      PROVE  \E e \in AssumedOrig(S) : ComesFrom(a, e)
  <2>1. CASE a \in Fresh(assumptions, {})
    BY <2>1 DEF Fresh, AssumedOrig
  <2>2. CASE a \in {SimplifyExp(e) : e \in S}
    <3>1. PICK e \in S : a = SimplifyExp(e)
      BY <2>2
    <3>2. ComesFrom(a, e)
      BY <3>1, SimplifyTraced DEF SimplifyExp
    <3> QED
      BY <3>2 DEF AssumedOrig
  <2> QED
    BY <1>3, <2>1, <2>2 DEF AssumedSimp
<1>4. ASSUME NEW e \in Input, Assume(e) PROVE AssumptionsTraced'
  <2>1. assumptions' = AssumedSimp({e}) /\ orig_assumptions' = AssumedOrig({e})
        /\ UNCHANGED <<constraints, simplified>>
    BY <1>4 DEF Assume, formulaVars
  <2> QED
    BY <1>3, <2>1, ExpAssumption
<1>5. ASSUME ResetAssumptions \/ FixateAssumptions PROVE AssumptionsTraced'
  BY <1>5 DEF ResetAssumptions, FixateAssumptions
<1>6. ASSUME GetFailedAssumptions PROVE AssumptionsTraced'
  BY <1>6 DEF GetFailedAssumptions, formulaVars
<1>7. ASSUME NEW orig \in SUBSET Exp, NEW simp, BtorSimplify(orig, simp),
             \A a \in simp : \E e \in orig : ComesFrom(a, e)
      PROVE  AssumptionsTraced'
  <2>1. CASE UNCHANGED formulaVars /\ assumptions' = simp
    BY <1>7, <2>1 DEF BtorSimplify, formulaVars
  <2>2. CASE ~(UNCHANGED formulaVars /\ assumptions' = simp)
    <3>1. /\ orig_assumptions' = orig
          /\ assumptions' =
               {SimplifyUnder(e, simplified', constraints') : e \in orig}
      BY <1>7, <2>2 DEF BtorSimplify
    <3> QED
      BY <3>1, SimplifyTraced
  <2> QED
    BY <2>1, <2>2
<1>8. ASSUME Simplify PROVE AssumptionsTraced'
  <2>1. Fresh(orig_assumptions, {}) \subseteq Exp
        /\ \A a \in Fresh(assumptions, {}) :
             \E e \in Fresh(orig_assumptions, {}) : ComesFrom(a, e)
    BY DEF Fresh, TypeOK
  <2> QED
    BY <1>7, <1>8, <2>1 DEF Simplify
<1>9. ASSUME CheckSat PROVE AssumptionsTraced'
  <2>1. Elements(assertions) \subseteq Exp
    BY ElementsType
  <2>2. AssumedOrig(Elements(assertions)) \subseteq Exp
    BY <2>1 DEF AssumedOrig, Fresh, TypeOK
  <2>3. \A a \in AssumedSimp(Elements(assertions)) :
          \E e \in AssumedOrig(Elements(assertions)) : ComesFrom(a, e)
    BY <1>3, <2>1
  <2>4. BtorSimplify(AssumedOrig(Elements(assertions)),
                     AssumedSimp(Elements(assertions)))
    BY <1>9 DEF CheckSat
  <2> QED
    BY <1>7, <2>2, <2>3, <2>4
<1> QED
  BY <1>1, <1>2, <1>4, <1>5, <1>6, <1>8, <1>9, ContextSteps DEF Next

(* boolector_reset_assumptions, and boolector_fixate_assumptions without an *)
(* assumption, keep a model valid; everything else that could falsify it    *)
(* invalidates it.                                                          *)
LEMMA ModelStep ==
  ASSUME TypeOK, ModelSatisfies, AssumptionsFaithful', [Next]_vars
  PROVE  ModelSatisfies'
<1> USE DEF ModelSatisfies
<1>1. ASSUME ContextOnly PROVE ModelSatisfies'
  BY <1>1 DEF ContextOnly, formulaVars, assumeVars, solverVars, modelVars,
              Base, Models, Equiv
<1>2. ASSUME valid_assignments' = FALSE PROVE ModelSatisfies'
  BY <1>2
<1>3. ASSUME UNCHANGED <<formulaVars, modelVars>>, orig_assumptions' = {},
             last_sat_result' = last_sat_result
      PROVE  ModelSatisfies'
  <2>1. Base' = Base
    BY <1>3 DEF formulaVars, Base, Models, Equiv
  <2>2. Base \subseteq Models({})
    BY DEF Base, Models
  <2> QED
    BY <1>3, <2>1, <2>2 DEF modelVars, Models
<1>4. ASSUME GetFailedAssumptions PROVE ModelSatisfies'
  BY <1>4 DEF GetFailedAssumptions, formulaVars, solverVars, modelVars,
              Base, Models, Equiv
<1>5. ASSUME CheckSat PROVE ModelSatisfies'
  <2>1. last_sat_result' = "SAT" => model' \in Base' \cap Models(assumptions')
    BY <1>5 DEF CheckSat, Solve
  <2>2. Base' \cap Models(assumptions') = Base' \cap Models(orig_assumptions')
    BY DEF AssumptionsFaithful, Models
  <2> QED
    BY <2>1, <2>2 DEF Models
<1>6. \A e \in Input : AssertAtBase(e) \/ Assume(e) => valid_assignments' = FALSE
  BY DEF AssertAtBase, AssertExp, Assume, ResetModel
<1>7. Simplify => valid_assignments' = FALSE
  BY DEF Simplify, ResetModel
<1>8. ASSUME ResetAssumptions \/ FixateAssumptions PROVE ModelSatisfies'
  BY <1>2, <1>3, <1>8 DEF ResetAssumptions, FixateAssumptions, AssertExp,
                          ResetModel, formulaVars, solverVars, modelVars
<1> QED
  BY <1>1, <1>2, <1>4, <1>5, <1>6, <1>7, <1>8, ContextSteps DEF Next

(* The conflict stays one of the assumptions in effect until something      *)
(* invalidates the answer.                                                  *)
LEMMA ConflictStep ==
  ASSUME TypeOK, ConflictStands, [Next]_vars
  PROVE  ConflictStands'
<1> USE DEF ConflictStands
<1>1. ASSUME ContextOnly \/ GetFailedAssumptions PROVE ConflictStands'
  <2>1. UNCHANGED <<constraints, simplified, inconsistent, assumptions,
                    orig_assumptions, last_sat_result, slv, failed_lits,
                    valid_assignments>>
    BY <1>1 DEF ContextOnly, GetFailedAssumptions, formulaVars, assumeVars,
                solverVars, modelVars
  <2>2. /\ Base' = Base /\ Models(orig_assumptions)' = Models(orig_assumptions)
        /\ Models(failed_lits)' = Models(failed_lits)
    BY <2>1 DEF Base, Models, Equiv
  <2> QED
    BY <2>1, <2>2
<1>2. ASSUME valid_assignments' = FALSE PROVE ConflictStands'
  BY <1>2
<1>3. ASSUME orig_assumptions' = {} PROVE ConflictStands'
  <2>1. Base' \cap Models(orig_assumptions') = Base'
    BY <1>3 DEF Base, Models
  <2> QED
    BY <2>1 DEF Models
<1>4. ASSUME CheckSat PROVE ConflictStands'
  <2>1. CASE inconsistent'
    BY <2>1 DEF Base
  <2>2. CASE ~inconsistent'
    <3>1. Solve
      BY <1>4, <2>2 DEF CheckSat
    <3>2. last_sat_result' = "UNSAT" /\ slv' = "fun" =>
            /\ failed_lits' \subseteq UNION {Leaf[e] : e \in assumptions'}
            /\ Base' \cap Models(failed_lits') = {}
      BY <3>1 DEF Solve
    <3> QED
      BY <3>2 DEF Models
  <2> QED
    BY <2>1, <2>2
<1>5. \A e \in Input : AssertAtBase(e) \/ Assume(e) => valid_assignments' = FALSE
  BY DEF AssertAtBase, AssertExp, Assume, ResetModel
<1>6. Simplify => valid_assignments' = FALSE
  BY DEF Simplify, ResetModel
<1>7. ResetAssumptions \/ FixateAssumptions => orig_assumptions' = {}
  BY DEF ResetAssumptions, FixateAssumptions
<1> QED
  BY <1>1, <1>2, <1>3, <1>4, <1>5, <1>6, <1>7, ContextSteps DEF Next

(* Every part of the invariant is kept by every step. *)
LEMMA SessionStep == SessionInv /\ [Next]_vars => SessionInv'
  BY TypeStep, ContextStep, FaithfulStep, TracedStep, ModelStep, ConflictStep
    DEF SessionInv

LEMMA SessionInit == Init => SessionInv
<1> SUFFICES ASSUME Init PROVE SessionInv
  OBVIOUS
<1>1. TypeOK /\ ContextInv
  BY InitInv
<1>2. AssumptionsFaithful /\ AssumptionsTraced
  BY DEF Init, AssumptionsFaithful, AssumptionsTraced
<1>3. ModelSatisfies /\ ConflictStands
  BY DEF Init, ModelSatisfies, ConflictStands
<1> QED
  BY <1>1, <1>2, <1>3 DEF SessionInv

(* The final conflict explains the answer: a world that satisfies the       *)
(* constraints and every assumption btor_failed_exp reports would satisfy   *)
(* the conflict.  An assumption that is not reported is true under the      *)
(* constraints, or none of its conjuncts is in the conflict.                *)
LEMMA FailedExplain == SessionInv => FailedIsCore
<1> SUFFICES ASSUME SessionInv, valid_assignments, last_sat_result = "UNSAT",
                    Base \cap Models(orig_assumptions) = {},
                    NEW w \in Base,
                    w \in Models({e \in orig_assumptions : FailedExp(e)})
             PROVE  FALSE
  BY DEF FailedIsCore
<1>1. /\ TypeOK /\ AssumptionsTraced /\ ConflictStands
      /\ orig_assumptions \subseteq Exp /\ assumptions \subseteq Exp
      /\ constraints \subseteq Exp /\ simplified \in [Real -> Exp]
  BY DEF SessionInv, TypeOK
<1>2. /\ ~inconsistent /\ w \in World
      /\ w \in Models(constraints) \cap Equiv(simplified)
      /\ \A c \in constraints : w \in Den[c]
  BY DEF Base, Models
<1>3. \A e \in orig_assumptions : FailedExp(e) => w \in Den[e]
  BY DEF Models
<1>4. \A e \in orig_assumptions : w \in Den[e] <=> w \in Den[SimplifyExp(e)]
  BY <1>1, <1>2, SimplifyMeaning DEF SimplifyExp
<1>5. \A e \in orig_assumptions : SimplifyExp(e) # False
  BY <1>2, <1>3, <1>4, ConstantMeaning DEF FailedExp
<1>6. CASE slv # "fun"
  <2>1. \A e \in orig_assumptions : w \in Den[e]
    BY <1>2, <1>3, <1>4, <1>6, ConstantMeaning DEF FailedExp
  <2> QED
    BY <1>2, <2>1 DEF Models
<1>7. CASE slv = "fun"
  <2>1. /\ failed_lits \subseteq UNION {Leaf[a] : a \in assumptions}
        /\ Base \cap Models(failed_lits) = {}
    BY <1>1, <1>7 DEF ConflictStands
  <2>2. ASSUME NEW l \in failed_lits PROVE w \in Den[l]
    <3>1. PICK a \in assumptions : l \in Leaf[a]
      BY <2>1
    <3>2. PICK e \in orig_assumptions : ComesFrom(a, e)
      BY <1>1 DEF AssumptionsTraced
    <3> DEFINE r == Resolved(e)
    <3>3. r \in Exp /\ (w \in Den[e] <=> w \in Den[r])
      BY <1>1, <1>2, ResolvedMeaning DEF Resolved
    <3>4. SimplifyExp(e) =
            IF r \in constraints THEN True
            ELSE IF Neg[r] \in constraints THEN False ELSE r
      BY DEF SimplifyExp, SimplifyUnder, Resolved
    <3>5. Neg[r] \notin constraints
      BY <1>2, <1>3, <1>4, <1>5, <3>3, <3>4, NegMeaning, ConstantMeaning
    <3>6. a = r \/ a = True
      BY <3>2, <3>5 DEF ComesFrom
    <3>7. w \in Den[a]
      <4>1. CASE a = True
        BY <1>2, <4>1, ConstantMeaning
      <4>2. CASE r \in constraints
        BY <1>2, <3>6, <4>2, ConstantMeaning
      <4>3. CASE a = r /\ r \notin constraints /\ a # True
        <5>1. SimplifyExp(e) = a /\ l \in Leaf[SimplifyExp(e)] \cap failed_lits
          BY <3>1, <3>4, <3>5, <4>3
        <5>2. FailedExp(e)
          BY <1>2, <4>3, <5>1 DEF FailedExp
        <5> QED
          BY <1>3, <3>3, <4>3, <5>2
      <4> QED
        BY <3>6, <4>1, <4>2, <4>3
    <3> QED
      BY <1>1, <1>2, <3>1, <3>7, ExpAssumption
  <2> QED
    BY <1>2, <2>1, <2>2 DEF Models
<1> QED
  BY <1>6, <1>7

-----------------------------------------------------------------------------
LEMMA SessionCorrect == Spec => []SessionInv
  BY SessionInit, SessionStep, PTL DEF Spec

(* Whatever is asserted, substituted and rewritten between an assumption    *)
(* and the check, the simplified assumptions that the engine gets mean, in  *)
(* the worlds the constraints allow, what the user assumed; and what        *)
(* boolector_get_failed_assumptions goes through is among it.               *)
THEOREM AssumptionsCorrect == Spec => []AssumptionsFaithful
  BY SessionCorrect, PTL DEF SessionInv

(* boolector_get_value answers for a model of the constraints and of the    *)
(* assumptions of the check, for as long as it answers.                     *)
THEOREM ModelCorrect == Spec => []ModelSatisfies
  BY SessionCorrect, PTL DEF SessionInv

(* After UNSAT, the assumptions that boolector_failed reports contradict    *)
(* the constraints by themselves.                                           *)
THEOREM FailedCorrect == Spec => []FailedIsCore
  BY SessionCorrect, FailedExplain, PTL
=============================================================================
