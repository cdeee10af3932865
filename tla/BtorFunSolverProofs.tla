------------------------ MODULE BtorFunSolverProofs ------------------------
(***************************************************************************)
(* The lemmas-on-demand engine answers correctly for every vocabulary of   *)
(* candidates and lemmas, every mode of adding lemmas and every sequence   *)
(* of limited, interrupted and repeated checks.  The argument: a cached    *)
(* lemma is always in effect while the loop runs (CacheInEffect), so the   *)
(* SAT solver cannot return a candidate that violates it, so a candidate   *)
(* for which every reported lemma is cached extends to functions.          *)
(***************************************************************************)
EXTENDS BtorFunSolver, FiniteSetTheorems, TLAPS

(* What CacheInEffect and AnswerSound need beside themselves: lemmas of a   *)
(* round exist only between Resolve and AddLemmas, a lemma that was ever    *)
(* inserted stays cached, the candidate being resolved satisfies all that   *)
(* the SAT solver was given, and an answer stands only between checks.      *)
LoopInv ==
  /\ cur_lemmas # {} => pc = "add"
  /\ ~assume_lemmas => lemmas \subseteq inserted \cup cur_lemmas
  /\ pc = "resolve" => cand \in Skeleton
  /\ valid_assignments => pc = "idle"

SolverInv == TypeOK /\ LoopInv /\ CacheInEffect /\ AnswerSound

(* Lemmas hold of functions: excluding candidates by lemmas, inserted or    *)
(* assumed, never excludes one the user asks for.                           *)
LEMMA LemmasAreValid ==
  ASSUME NEW L \in SUBSET Lemma
  PROVE  Excluded(L) \cap Consistent = {}
BY LemmaAssumption DEF Excluded

(* The counter of lemmas grows by a natural number in each round. *)
LEMMA RoundIsFinite ==
  ASSUME NEW R \in SUBSET Lemma
  PROVE  Cardinality(R) \in Nat
BY FormulaAssumption, FS_Subset, FS_CardinalityType

LEMMA InitSolverInv == Init => SolverInv
<1> SUFFICES ASSUME Init PROVE SolverInv
  OBVIOUS
<1> USE FormulaAssumption DEF Init
<1>1. TypeOK
  BY DEF TypeOK
<1>2. LoopInv /\ CacheInEffect /\ AnswerSound
  BY DEF LoopInv, CacheInEffect, AnswerSound
<1> QED
  BY <1>1, <1>2 DEF SolverInv

(* Every action keeps the type of every field. *)
LEMMA TypeStep == TypeOK /\ LoopInv /\ [Next]_vars => TypeOK'
<1> SUFFICES ASSUME TypeOK, LoopInv, [Next]_vars PROVE TypeOK'
  OBVIOUS
<1> USE FormulaAssumption, LemmaAssumption DEF TypeOK
<1>1. CASE \E F \in Formula : AssertExp(F)
  BY <1>1 DEF AssertExp, ResetIncrementalUsage, limitVars, termVars
<1>2. CASE \E F \in Formula : AssumeExp(F)
  BY <1>2 DEF AssumeExp, ResetIncrementalUsage, limitVars, termVars
<1>3. CASE \E b \in BOOLEAN : SetTerm(b)
  BY <1>3 DEF SetTerm, formulaVars, lemmaVars, limitVars, answerVars
<1>4. CASE \E lod, sat \in Limit : CheckSat(lod, sat)
  <2>1. PICK lod, sat \in Limit : CheckSat(lod, sat)
    BY <1>4
  <2>2. wanted' \in Int \X Int
    BY <2>1 DEF CheckSat
  <2> QED
    BY <2>1, <2>2 DEF CheckSat, ResetIncrementalUsage, termVars
<1>5. CASE SimplifyUnsat
  BY <1>5 DEF SimplifyUnsat, Answer, formulaVars, lemmaVars, limitVars, termVars
<1>6. CASE CreateSolver
  BY <1>6 DEF CreateSolver, formulaVars, lemmaVars, termVars, answerVars
<1>7. CASE Start
  BY <1>7 DEF Start, TerminateAux, ResetLemmaCache, Answer, formulaVars, limitVars,
              answerVars
<1>8. CASE LoopTop
  BY <1>8 DEF LoopTop, TerminateAux, Answer, formulaVars, lemmaVars, limitVars,
              answerVars
<1>9. CASE SatUnknown
  BY <1>9 DEF SatUnknown, TerminateAux, Answer, formulaVars, lemmaVars, limitVars
<1>10. CASE SatUnsat
  BY <1>10 DEF SatUnsat, Answer, formulaVars, lemmaVars, limitVars, termVars
<1>11. CASE SatSat
  BY <1>11 DEF SatSat, Skeleton, formulaVars, lemmaVars, limitVars, termVars
<1>12. CASE Resolve
  <2>1. cand \in Cand
    BY <1>12 DEF Resolve, LoopInv, Skeleton
  <2>2. PICK R \in Report[cand] :
          /\ cur_lemmas' = R \ lemmas
          /\ lemmas' = lemmas \cup R
          /\ lod_refinements' = lod_refinements + Cardinality(R \ lemmas)
          /\ IF R \ lemmas = {} THEN Answer("SAT", cand)
                                ELSE pc' = "add" /\ UNCHANGED answerVars
    BY <1>12 DEF Resolve
  <2>3. R \subseteq Lemma
    BY <2>1
  <2>4. Cardinality(R \ lemmas) \in Nat
    BY <2>3, RoundIsFinite
  <2>5. lod_refinements' \in Nat
    BY <2>2, <2>4
  <2>6. CASE R \ lemmas = {}
    BY <1>12, <2>1, <2>2, <2>3, <2>5, <2>6
       DEF Resolve, Answer, formulaVars, limitVars, termVars
  <2>7. CASE R \ lemmas # {}
    BY <1>12, <2>1, <2>2, <2>3, <2>5, <2>7
       DEF Resolve, formulaVars, limitVars, termVars, answerVars
  <2> QED
    BY <2>6, <2>7
<1>13. CASE AddLemmas
  <2>1. inserted' \subseteq Lemma /\ assumed_lemmas' \subseteq Lemma
    <3>1. CASE assume_lemmas
      BY <1>13, <3>1 DEF AddLemmas
    <3>2. CASE ~assume_lemmas
      BY <1>13, <3>2 DEF AddLemmas
    <3> QED
      BY <3>1, <3>2
  <2>2. CASE Answer("UNSAT", NULL)
    BY <1>13, <2>1, <2>2 DEF AddLemmas, Answer, formulaVars, limitVars, termVars
  <2>3. CASE pc' = "top" /\ UNCHANGED answerVars
    BY <1>13, <2>1, <2>3 DEF AddLemmas, formulaVars, limitVars, termVars, answerVars
  <2> QED
    BY <1>13, <2>2, <2>3 DEF AddLemmas
<1>14. CASE UNCHANGED vars
  BY <1>14 DEF vars, formulaVars, lemmaVars, limitVars, termVars, answerVars
<1> QED
  BY <1>1, <1>2, <1>3, <1>4, <1>5, <1>6, <1>7, <1>8, <1>9, <1>10, <1>11, <1>12,
     <1>13, <1>14 DEF Next, SolverStep, UserStep
(* The auxiliary facts of the loop are kept by every step. *)
LEMMA LoopStep == TypeOK /\ LoopInv /\ [Next]_vars => LoopInv'
<1> SUFFICES ASSUME TypeOK, LoopInv, [Next]_vars PROVE LoopInv'
  OBVIOUS
<1> USE DEF LoopInv, limitVars
<1>1. CASE \E F \in Formula : AssertExp(F)
  BY <1>1 DEF AssertExp, ResetIncrementalUsage
<1>2. CASE \E F \in Formula : AssumeExp(F)
  BY <1>2 DEF AssumeExp, ResetIncrementalUsage
<1>3. CASE \E b \in BOOLEAN : SetTerm(b)
  BY <1>3 DEF SetTerm, lemmaVars, answerVars
<1>4. CASE \E lod, sat \in Limit : CheckSat(lod, sat)
  BY <1>4 DEF CheckSat, ResetIncrementalUsage
<1>5. CASE SimplifyUnsat
  BY <1>5 DEF SimplifyUnsat, Answer, lemmaVars
<1>6. CASE CreateSolver
  BY <1>6 DEF CreateSolver, lemmaVars, answerVars
<1>7. CASE Start
  <2>1. UNCHANGED <<cur_lemmas, inserted, assume_lemmas>>
    BY <1>7 DEF Start
  <2>2. lemmas' = lemmas \/ lemmas' = {}
    BY <1>7 DEF Start, ResetLemmaCache
  <2>3. \/ pc' = "idle"
        \/ pc' = "top" /\ UNCHANGED valid_assignments
    BY <1>7, Zenon DEF Start, Answer, answerVars
  <2>4. pc = "start"
    BY <1>7 DEF Start
  <2> QED
    BY <2>1, <2>2, <2>3, <2>4
<1>8. CASE LoopTop
  <2>1. UNCHANGED <<cur_lemmas, inserted, lemmas, assume_lemmas>>
    BY <1>8 DEF LoopTop, lemmaVars
  <2>2. \/ pc' = "idle"
        \/ pc' = "sat" /\ UNCHANGED valid_assignments
    BY <1>8, Zenon DEF LoopTop, Answer, answerVars
  <2>3. pc = "top"
    BY <1>8 DEF LoopTop
  <2> QED
    BY <2>1, <2>2, <2>3
<1>9. CASE SatUnknown
  BY <1>9 DEF SatUnknown, Answer, lemmaVars
<1>10. CASE SatUnsat
  BY <1>10 DEF SatUnsat, Answer, lemmaVars
<1>11. CASE SatSat
  BY <1>11 DEF SatSat, Skeleton, formulaVars, lemmaVars
<1>12. CASE Resolve
  <2>1. PICK R \in Report[cand] :
          /\ cur_lemmas' = R \ lemmas
          /\ lemmas' = lemmas \cup R
          /\ IF R \ lemmas = {} THEN Answer("SAT", cand)
                                ELSE pc' = "add" /\ UNCHANGED answerVars
    BY <1>12 DEF Resolve
  <2>2. CASE R \ lemmas = {}
    BY <1>12, <2>1, <2>2 DEF Resolve, Answer
  <2>3. CASE R \ lemmas # {}
    BY <1>12, <2>1, <2>3 DEF Resolve, answerVars
  <2> QED
    BY <2>2, <2>3
<1>13. CASE AddLemmas
  <2>1. ~assume_lemmas' => lemmas' \subseteq inserted' \cup cur_lemmas'
    BY <1>13 DEF AddLemmas
  <2>2. cur_lemmas' = {} /\ pc' # "resolve" /\ (valid_assignments' => pc' = "idle")
    BY <1>13 DEF AddLemmas, Answer, answerVars
  <2> QED
    BY <2>1, <2>2
<1>14. CASE UNCHANGED vars
  BY <1>14 DEF vars, formulaVars, lemmaVars, answerVars, Skeleton
<1> QED
  BY <1>1, <1>2, <1>3, <1>4, <1>5, <1>6, <1>7, <1>8, <1>9, <1>10, <1>11, <1>12,
     <1>13, <1>14 DEF Next, SolverStep, UserStep

(* A lemma enters the cache together with cur_lemmas, leaves cur_lemmas for *)
(* the constraints or the assumptions, and the cache is emptied before the  *)
(* loop of a check whose predecessor's assumptions are gone.                *)
LEMMA CacheStep == TypeOK /\ LoopInv /\ CacheInEffect /\ [Next]_vars => CacheInEffect'
<1> SUFFICES ASSUME TypeOK, LoopInv, CacheInEffect, [Next]_vars PROVE CacheInEffect'
  OBVIOUS
<1> USE DEF CacheInEffect
<1>1. CASE UserStep
  BY <1>1 DEF UserStep, AssertExp, AssumeExp, SetTerm, CheckSat
<1>2. CASE SimplifyUnsat \/ CreateSolver
  BY <1>2 DEF SimplifyUnsat, CreateSolver, Answer
<1>3. CASE Start
  <2>1. CASE pc' = "idle"
    BY <2>1
  <2>2. CASE ResetLemmaCache
    <3>1. inserted' = inserted /\ cur_lemmas' = cur_lemmas
      BY <1>3 DEF Start
    <3>2. lemmas' = {} \/ (~assume_lemmas /\ lemmas' = lemmas)
      BY <2>2 DEF ResetLemmaCache
    <3> QED
      BY <3>1, <3>2 DEF LoopInv
  <2> QED
    BY <1>3, <2>1, <2>2 DEF Start, TerminateAux, Answer
<1>4. CASE LoopTop
  BY <1>4 DEF LoopTop, TerminateAux, Answer, lemmaVars, TypeOK
<1>5. CASE SatUnknown \/ SatUnsat \/ SatSat
  BY <1>5 DEF SatUnknown, SatUnsat, SatSat, Answer, lemmaVars
<1>6. CASE Resolve
  <2>1. PICK R \in Report[cand] :
          /\ cur_lemmas' = R \ lemmas
          /\ lemmas' = lemmas \cup R
    BY <1>6 DEF Resolve
  <2>2. inserted' = inserted /\ assumed_lemmas' = assumed_lemmas /\ pc = "resolve"
    BY <1>6 DEF Resolve
  <2>3. cur_lemmas = {}
    BY <2>2 DEF LoopInv
  <2> QED
    BY <2>1, <2>2, <2>3
<1>7. CASE AddLemmas
  BY <1>7 DEF AddLemmas
<1>8. CASE UNCHANGED vars
  BY <1>8 DEF vars, lemmaVars
<1> QED
  BY <1>1, <1>2, <1>3, <1>4, <1>5, <1>6, <1>7, <1>8 DEF Next, SolverStep
(* An answer that stands is the right one.  UNSAT: the candidates that the  *)
(* lemmas exclude do not extend to functions anyway.  SAT: the candidate    *)
(* satisfies the skeleton, and were it inconsistent, the reported lemma that*)
(* excludes it would not be in effect, hence not cached, hence new.         *)
LEMMA AnswerStep == SolverInv /\ [Next]_vars => AnswerSound'
<1> SUFFICES ASSUME SolverInv, [Next]_vars PROVE AnswerSound'
  OBVIOUS
<1>a. TypeOK /\ LoopInv /\ CacheInEffect /\ AnswerSound
  BY DEF SolverInv
<1>1. CASE UserStep
  <2>1. CASE \E b \in BOOLEAN : SetTerm(b)
    BY <1>a, <2>1 DEF SetTerm, AnswerSound, Query, formulaVars, answerVars
  <2>2. CASE ~valid_assignments'
    BY <2>2 DEF AnswerSound
  <2> QED
    BY <1>1, <2>1, <2>2
       DEF UserStep, AssertExp, AssumeExp, CheckSat, ResetIncrementalUsage
<1>b. ASSUME Excluded(inserted) \cap Consistent = {},
             asserted \ Excluded(inserted) = {}
      PROVE  Query = {}
  BY <1>b DEF Query
<1>c. Excluded(inserted) \cap Consistent = {}
  BY <1>a, LemmasAreValid DEF TypeOK
<1>2. CASE SimplifyUnsat
  BY <1>2, <1>b, <1>c DEF SimplifyUnsat, Answer, AnswerSound, Query, formulaVars
<1>3. CASE CreateSolver
  BY <1>a, <1>3 DEF CreateSolver, AnswerSound, LoopInv, answerVars
<1>4. CASE Start
  <2>1. pc = "start" /\ UNCHANGED formulaVars
    BY <1>4 DEF Start
  <2>2. \/ Answer("UNKNOWN", NULL)
        \/ UNCHANGED answerVars
    BY <1>4, Zenon DEF Start
  <2> QED
    BY <1>a, <2>1, <2>2 DEF Answer, AnswerSound, LoopInv, answerVars
<1>5. CASE LoopTop
  <2>1. pc = "top" /\ UNCHANGED formulaVars
    BY <1>5 DEF LoopTop
  <2>2. \/ Answer("UNKNOWN", NULL)
        \/ asserted \ Excluded(inserted) = {} /\ Answer("UNSAT", NULL)
        \/ UNCHANGED answerVars
    BY <1>5, Zenon DEF LoopTop
  <2> QED
    BY <1>a, <1>b, <1>c, <2>1, <2>2
       DEF Answer, AnswerSound, Query, LoopInv, answerVars, formulaVars
<1>6. CASE SatUnknown
  BY <1>6 DEF SatUnknown, Answer, AnswerSound
<1>7. CASE SatUnsat
  <2>1. Excluded(inserted \cup assumed_lemmas) \cap Consistent = {}
    BY <1>a, LemmasAreValid DEF TypeOK
  <2>2. Query = {}
    BY <1>7, <2>1 DEF SatUnsat, Skeleton, Query
  <2> QED
    BY <1>7, <2>2 DEF SatUnsat, Answer, AnswerSound, Query, formulaVars
<1>8. CASE SatSat
  BY <1>a, <1>8 DEF SatSat, AnswerSound, LoopInv
<1>9. CASE Resolve
  <2>1. pc = "resolve" /\ UNCHANGED formulaVars /\ cand \in Skeleton
    BY <1>a, <1>9 DEF Resolve, LoopInv
  <2>2. PICK R \in Report[cand] :
          IF R \ lemmas = {} THEN Answer("SAT", cand)
                             ELSE pc' = "add" /\ UNCHANGED answerVars
    BY <1>9 DEF Resolve
  <2>3. CASE R \ lemmas = {}
    <3>1. cur_lemmas = {} /\ lemmas \subseteq inserted \cup assumed_lemmas
      BY <1>a, <2>1 DEF LoopInv, CacheInEffect
    <3>2. cand \in Consistent
      <4> SUFFICES ASSUME cand \notin Consistent PROVE FALSE
        OBVIOUS
      <4>1. cand \in Cand
        BY <1>a, <2>1 DEF Skeleton, TypeOK
      <4>2. PICK l \in R : cand \in Cuts[l]
        BY <2>2, <4>1, LemmaAssumption
      <4>3. l \in inserted \cup assumed_lemmas
        BY <2>3, <3>1, <4>2
      <4>4. cand \in Excluded(inserted \cup assumed_lemmas)
        BY <4>2, <4>3 DEF Excluded
      <4> QED
        BY <2>1, <4>4 DEF Skeleton
    <3> QED
      BY <2>1, <2>2, <2>3, <3>2 DEF Answer, AnswerSound, Query, Skeleton, formulaVars
  <2>4. CASE R \ lemmas # {}
    BY <1>a, <2>1, <2>2, <2>4 DEF AnswerSound, LoopInv, answerVars
  <2> QED
    BY <2>3, <2>4
<1>10. CASE AddLemmas
  <2>1. pc = "add" /\ UNCHANGED formulaVars /\ inserted' \subseteq Lemma
    <3>1. CASE assume_lemmas
      BY <1>a, <1>10, <3>1 DEF AddLemmas, TypeOK
    <3>2. CASE ~assume_lemmas
      BY <1>a, <1>10, <3>2 DEF AddLemmas, TypeOK
    <3> QED
      BY <3>1, <3>2
  <2>2. Excluded(inserted') \cap Consistent = {}
    BY <2>1, LemmasAreValid
  <2>3. CASE asserted \ Excluded(inserted') = {} /\ Answer("UNSAT", NULL)
    BY <2>1, <2>2, <2>3 DEF Answer, AnswerSound, Query, formulaVars
  <2>4. CASE UNCHANGED answerVars
    BY <1>a, <2>1, <2>4 DEF AnswerSound, LoopInv, answerVars
  <2> QED
    BY <1>10, <2>3, <2>4 DEF AddLemmas
<1>11. CASE UNCHANGED vars
  BY <1>a, <1>11 DEF vars, AnswerSound, Query, formulaVars, answerVars
<1> QED
  BY <1>1, <1>2, <1>3, <1>4, <1>5, <1>6, <1>7, <1>8, <1>9, <1>10, <1>11
     DEF Next, SolverStep

(* The strengthened invariant holds of every behaviour of the engine. *)
LEMMA SolverInvariant == Spec => []SolverInv
<1>1. SolverInv /\ [Next]_vars => SolverInv'
  BY TypeStep, LoopStep, CacheStep, AnswerStep DEF SolverInv
<1> QED
  BY <1>1, InitSolverInv, PTL DEF Spec

(* An answer of the engine is correct for the constraints and assumptions   *)
(* it was asked about, for every set of lemmas, every report order, every   *)
(* limit and every moment the termination callback fires.                   *)
THEOREM AnswersCorrect == Spec => []AnswerSound
<1>1. SolverInv => AnswerSound
  BY DEF SolverInv
<1> QED
  BY <1>1, SolverInvariant, PTL

(* While the refinement loop runs, every cached lemma is in effect, whether *)
(* lemmas are inserted for good or assumed for one check.                   *)
THEOREM CacheCorrect == Spec => []CacheInEffect
<1>1. SolverInv => CacheInEffect
  BY DEF SolverInv
<1> QED
  BY <1>1, SolverInvariant, PTL

(* The fields of the engine keep their types, and a candidate is kept       *)
(* between checks exactly when it is the model of a standing SAT answer.    *)
THEOREM SolverTypeCorrect == Spec => []TypeOK
<1>1. SolverInv => TypeOK
  BY DEF SolverInv
<1> QED
  BY <1>1, SolverInvariant, PTL
=============================================================================
