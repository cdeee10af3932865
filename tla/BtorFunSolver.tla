--------------------------- MODULE BtorFunSolver ---------------------------
(***************************************************************************)
(* The lemmas-on-demand engine (btorslvfun.c) as btor_check_sat drives it: *)
(* the refinement loop, the lemma cache, the limits, and the termination   *)
(* callback that is polled between and during its steps.                   *)
(*                                                                         *)
(* Data abstraction.  A candidate is a total assignment of the bit-vector  *)
(* skeleton and of every instance a lemma can introduce; Consistent are    *)
(* the candidates that extend to functions.  Cuts[l] are the candidates    *)
(* that lemma l excludes.  Report[c] are the sets of lemmas that           *)
(* check_and_resolve_conflicts may build for candidate c: conflict lemmas, *)
(* which exclude c, and extensionality instances, which need not.          *)
(* Lemmas are inserted for good, or assumed for one check in the instances *)
(* that the quantifier engine runs (btorslvquant.c).                       *)
(***************************************************************************)
EXTENDS Integers, FiniteSets

CONSTANTS
  Cand, Consistent, Lemma, Cuts, Report,
  Formula,        \* what the user may assert or assume: sets of candidates
  Limit,          \* the limits a caller may pass, -1 is unlimited
  MaxRefinements, \* bound: lemmas counted before the last check
  NULL

ASSUME LemmaAssumption ==
  /\ Consistent \subseteq Cand
  /\ Cuts \in [Lemma -> SUBSET Cand]
  /\ \A l \in Lemma : Cuts[l] \cap Consistent = {}
  /\ Report \in [Cand -> SUBSET SUBSET Lemma]
  /\ \A c \in Cand \ Consistent : \A R \in Report[c] : \E l \in R : c \in Cuts[l]

ASSUME FormulaAssumption ==
  /\ Formula \subseteq SUBSET Cand
  /\ Limit \subseteq Int /\ -1 \in Limit
  /\ NULL \notin Cand
  /\ IsFiniteSet(Lemma)
  /\ MaxRefinements \in Nat

VARIABLES
  pc,                 \* where btor_check_sat or sat_fun_solver stands
  asserted,           \* candidates allowed by the input constraints
  assumed,            \* candidates allowed by the user's assumptions
  inserted,           \* lemmas inserted as constraints
  assumed_lemmas,     \* lemmas among btor->assumptions
  lemmas,             \* slv->lemmas: the lemma cache
  cur_lemmas,         \* slv->cur_lemmas: lemmas of this round
  slv,                \* btor->slv has been created
  lod_limit,          \* slv->lod_limit
  sat_limit,          \* slv->sat_limit
  assume_lemmas,      \* slv->assume_lemmas
  lod_refinements,    \* slv->stats.lod_refinements
  wanted,             \* the limits the caller of the running check passed
  term_fun,           \* btor->cbs.term.fun is set
  term_done,          \* btor->cbs.term.done
  valid_assignments,  \* btor->valid_assignments
  cand,               \* assignment the SAT solver found
  result              \* last_sat_result

formulaVars == <<asserted, assumed>>
lemmaVars == <<inserted, assumed_lemmas, lemmas, cur_lemmas, lod_refinements>>
limitVars == <<slv, lod_limit, sat_limit, assume_lemmas, wanted>>
termVars == <<term_fun, term_done>>
answerVars == <<valid_assignments, cand, result>>
vars == <<pc, formulaVars, lemmaVars, limitVars, termVars, answerVars>>

Excluded(L) == UNION {Cuts[l] : l \in L}

\* What the SAT solver is given: input constraints, assumptions and lemmas.
Skeleton == (asserted \cap assumed) \ Excluded(inserted \cup assumed_lemmas)

\* What the user asked about.
Query == asserted \cap assumed \cap Consistent

-----------------------------------------------------------------------------
Init ==
  /\ pc = "idle"
  /\ asserted = Cand /\ assumed = Cand
  /\ inserted = {} /\ assumed_lemmas = {} /\ lemmas = {} /\ cur_lemmas = {}
  /\ slv = FALSE /\ lod_limit = -1 /\ sat_limit = -1 /\ lod_refinements = 0
  /\ assume_lemmas \in BOOLEAN /\ wanted = <<-1, -1>>
  /\ term_fun = FALSE /\ term_done = FALSE
  /\ valid_assignments = FALSE /\ cand = NULL /\ result = "UNKNOWN"

(* btor_reset_incremental_usage: the assumptions of the last check, assumed *)
(* lemmas among them, and its model are gone.                               *)
ResetIncrementalUsage(newAssumed) ==
  /\ assumed' = IF valid_assignments THEN newAssumed ELSE assumed \cap newAssumed
  /\ assumed_lemmas' = IF valid_assignments THEN {} ELSE assumed_lemmas
  /\ cand' = IF valid_assignments THEN NULL ELSE cand
  /\ valid_assignments' = FALSE

\* btor_assert_exp
AssertExp(F) ==
  /\ pc = "idle"
  /\ asserted' = asserted \cap F
  /\ ResetIncrementalUsage(Cand)
  /\ UNCHANGED <<pc, inserted, lemmas, cur_lemmas, lod_refinements, limitVars,
                 termVars, result>>

\* btor_assume_exp, called by the user
AssumeExp(F) ==
  /\ pc = "idle"
  /\ ResetIncrementalUsage(F)
  /\ UNCHANGED <<pc, asserted, inserted, lemmas, cur_lemmas, lod_refinements,
                 limitVars, termVars, result>>

\* btor_set_term: a callback is installed or removed; term.done stays.
SetTerm(installed) ==
  /\ pc = "idle"
  /\ term_fun' = installed
  /\ UNCHANGED <<pc, formulaVars, lemmaVars, limitVars, term_done, answerVars>>

(* terminate_aux_btor returns t: a callback that once asked for termination *)
(* is not called again.                                                     *)
TerminateAux(t) ==
  /\ t \in IF ~term_fun THEN {FALSE} ELSE IF term_done THEN {TRUE} ELSE BOOLEAN
  /\ term_done' = (term_done \/ t)

\* The end of btor_check_sat.
Answer(r, c) ==
  /\ pc' = "idle"
  /\ result' = r
  /\ cand' = c
  /\ valid_assignments' = TRUE

(* btor_check_sat up to the engine.  btor_simplify may notice that the      *)
(* constraints have no solution; otherwise the first check creates the      *)
(* engine, and only then are the caller's limits stored.                    *)
CheckSat(lod, sat) ==
  /\ pc = "idle"
  /\ lod_refinements < MaxRefinements
  /\ ResetIncrementalUsage(Cand)
  /\ wanted' = <<lod, sat>>
  /\ pc' = "simplify"
  /\ UNCHANGED <<asserted, inserted, lemmas, cur_lemmas, lod_refinements, slv,
                 lod_limit, sat_limit, assume_lemmas, termVars, result>>

SimplifyUnsat ==
  /\ pc = "simplify"
  /\ asserted \ Excluded(inserted) = {}
  /\ Answer("UNSAT", NULL)
  /\ UNCHANGED <<formulaVars, lemmaVars, limitVars, termVars>>

CreateSolver ==
  /\ pc = "simplify"
  /\ slv' = TRUE
  /\ lod_limit' = IF slv THEN lod_limit ELSE wanted[1]
  /\ sat_limit' = IF slv THEN sat_limit ELSE wanted[2]
  /\ pc' = "start"
  /\ UNCHANGED <<formulaVars, lemmaVars, assume_lemmas, wanted, termVars, answerVars>>

\* Seeded fault: the lemma cache outlives the assumptions it stands for.
KeepLemmaCache == lemmas' = lemmas

\* reset_lemma_cache, when lemmas are assumed
ResetLemmaCache == lemmas' = IF assume_lemmas THEN {} ELSE lemmas

-----------------------------------------------------------------------------
(* sat_fun_solver *)

\* The first poll of the termination callback, then the lemma cache.
Start ==
  /\ pc = "start"
  /\ \/ /\ TerminateAux(TRUE)
        /\ Answer("UNKNOWN", NULL)
        /\ UNCHANGED lemmas
     \/ /\ TerminateAux(FALSE)
        /\ ResetLemmaCache
        /\ pc' = "top"
        /\ UNCHANGED answerVars
  /\ UNCHANGED <<formulaVars, inserted, assumed_lemmas, cur_lemmas,
                 lod_refinements, limitVars, term_fun>>

LodLimitReached == lod_limit > -1 /\ lod_refinements >= lod_limit

(* The top of the loop: the callback is polled and, unless it asks to stop, *)
(* the lemma limit is looked at; then btor_process_unsynthesized_constraints*)
(* may already notice that the constraints have no solution.                *)
LoopTop ==
  /\ pc = "top"
  /\ \/ /\ TerminateAux(TRUE) \/ (TerminateAux(FALSE) /\ LodLimitReached)
        /\ Answer("UNKNOWN", NULL)
     \/ /\ TerminateAux(FALSE)
        /\ ~LodLimitReached
        /\ \/ /\ asserted \ Excluded(inserted) = {}
              /\ Answer("UNSAT", NULL)
           \/ /\ pc' = "sat"
              /\ UNCHANGED answerVars
  /\ UNCHANGED <<formulaVars, lemmaVars, limitVars, term_fun>>

(* Seeded fault: a SAT call that gave up is repeated. *)
SatUnknownRetries ==
  /\ pc = "sat"
  /\ \/ sat_limit > -1 /\ UNCHANGED term_done
     \/ TerminateAux(TRUE)
  /\ pc' = "top"
  /\ UNCHANGED <<formulaVars, lemmaVars, limitVars, term_fun, answerVars>>

(* btor_add_again_assumptions and timed_sat_sat.  The SAT solver gives up   *)
(* only at the conflict limit or when the callback, polled during its       *)
(* search, asks for termination.                                            *)
SatUnknown ==
  /\ pc = "sat"
  /\ \/ sat_limit > -1 /\ UNCHANGED term_done
     \/ TerminateAux(TRUE)
  /\ Answer("UNKNOWN", NULL)
  /\ UNCHANGED <<formulaVars, lemmaVars, limitVars, term_fun>>

SatUnsat ==
  /\ pc = "sat"
  /\ Skeleton = {}
  /\ Answer("UNSAT", NULL)
  /\ UNCHANGED <<formulaVars, lemmaVars, limitVars, termVars>>

SatSat ==
  /\ pc = "sat"
  /\ \E c \in Skeleton : cand' = c
  /\ pc' = "resolve"
  /\ UNCHANGED <<formulaVars, lemmaVars, limitVars, termVars,
                 valid_assignments, result>>

(* check_and_resolve_conflicts: add_lemma and add_extensionality_lemmas     *)
(* keep only the lemmas that are not in the cache.  Whether there was a     *)
(* conflict is then read off cur_lemmas.                                    *)
Resolve ==
  /\ pc = "resolve"
  /\ \E R \in Report[cand] :
       /\ cur_lemmas' = R \ lemmas
       /\ lemmas' = lemmas \cup R
       /\ lod_refinements' = lod_refinements + Cardinality(R \ lemmas)
       /\ IF R \ lemmas = {}
          THEN Answer("SAT", cand)
          ELSE pc' = "add" /\ UNCHANGED answerVars
  /\ UNCHANGED <<formulaVars, inserted, assumed_lemmas, limitVars, termVars>>

(* Seeded fault: the last lemma of the round is not added. *)
AddLemmasButOne ==
  /\ pc = "add"
  /\ LET added == cur_lemmas \ {CHOOSE l \in cur_lemmas : TRUE}
     IN IF assume_lemmas
        THEN /\ assumed_lemmas' = assumed_lemmas \cup added
             /\ UNCHANGED inserted
        ELSE /\ inserted' = inserted \cup added
             /\ UNCHANGED assumed_lemmas
  /\ cur_lemmas' = {}
  /\ pc' = "top"
  /\ UNCHANGED <<formulaVars, lemmas, lod_refinements, limitVars, termVars,
                 answerVars>>

(* The lemmas of this round are assumed or inserted as constraints; a lemma *)
(* that rewrites to false makes the instance inconsistent.                  *)
AddLemmas ==
  /\ pc = "add"
  /\ IF assume_lemmas
     THEN /\ assumed_lemmas' = assumed_lemmas \cup cur_lemmas
          /\ UNCHANGED inserted
     ELSE /\ inserted' = inserted \cup cur_lemmas
          /\ UNCHANGED assumed_lemmas
  /\ cur_lemmas' = {}
  /\ \/ /\ asserted \ Excluded(inserted') = {}
        /\ Answer("UNSAT", NULL)
     \/ /\ pc' = "top"
        /\ UNCHANGED answerVars
  /\ UNCHANGED <<formulaVars, lemmas, lod_refinements, limitVars, termVars>>

-----------------------------------------------------------------------------
SolverStep ==
  \/ SimplifyUnsat \/ CreateSolver \/ Start \/ LoopTop
  \/ SatUnknown \/ SatUnsat \/ SatSat \/ Resolve \/ AddLemmas

UserStep ==
  \/ \E F \in Formula : AssertExp(F) \/ AssumeExp(F)
  \/ \E b \in BOOLEAN : SetTerm(b)
  \/ \E lod, sat \in Limit : CheckSat(lod, sat)

Next == SolverStep \/ UserStep

(* The engine is sequential code and the SAT solver returns: while a check  *)
(* runs, its next step is taken.  Nothing is assumed of the user.           *)
Spec == Init /\ [][Next]_vars /\ WF_vars(SolverStep)
-----------------------------------------------------------------------------
(* Properties *)

TypeOK ==
  /\ pc \in {"idle", "simplify", "start", "top", "sat", "resolve", "add"}
  /\ asserted \subseteq Cand /\ assumed \subseteq Cand
  /\ inserted \subseteq Lemma /\ assumed_lemmas \subseteq Lemma
  /\ lemmas \subseteq Lemma /\ cur_lemmas \subseteq Lemma
  /\ slv \in BOOLEAN /\ lod_limit \in Int /\ sat_limit \in Int
  /\ lod_refinements \in Nat
  /\ assume_lemmas \in BOOLEAN
  /\ wanted \in Int \X Int
  /\ term_fun \in BOOLEAN /\ term_done \in BOOLEAN
  /\ valid_assignments \in BOOLEAN
  /\ cand \in Cand \cup {NULL}
  /\ result \in {"SAT", "UNSAT", "UNKNOWN"}
  /\ pc = "idle" => (cand \in Cand <=> valid_assignments /\ result = "SAT")

(* While the answer of a check stands (valid_assignments), it is the right  *)
(* one for the constraints and assumptions of that check, however many      *)
(* earlier checks were cut off by a limit or a callback: SAT comes with an  *)
(* assignment that satisfies them and extends to functions, UNSAT means     *)
(* that there is none.                                                      *)
AnswerSound ==
  valid_assignments =>
    /\ result = "SAT" => cand \in Query
    /\ result = "UNSAT" => Query = {}

(* sat_fun_solver takes an empty cur_lemmas for "no conflict", and add_lemma*)
(* leaves a lemma out of cur_lemmas when the cache holds it.  That is right *)
(* only if every cached lemma is a constraint or an assumption of the check *)
(* that runs, so that no candidate can violate it again.                    *)
CacheInEffect ==
  pc \in {"top", "sat", "resolve", "add"} =>
    lemmas \subseteq inserted \cup assumed_lemmas \cup cur_lemmas

(* A check that was started returns: every round adds a lemma that was not  *)
(* there, and there are finitely many.                                      *)
CheckReturns == (pc # "idle") ~> (pc = "idle")

=============================================================================
