--------------------------- MODULE BtorLocalSearch --------------------------
(***************************************************************************)
(* The local search engines PROP (btorslvprop.c) and SLS (btorslvsls.c) on *)
(* top of the shared bookkeeping (btorlsutils.c, btorslsutils.c) and of    *)
(* propagation (BtorProp), and AIGPROP (aigprop.c), which propagates over  *)
(* the and-inverter graph with a copy of that bookkeeping.  All keep a     *)
(* complete assignment, the table of the roots it violates and, except a   *)
(* PROP engine that is no bandit, a score for every Boolean node; a move   *)
(* changes inputs and updates all of them along the cone of influence.     *)
(*                                                                         *)
(* A program f holds the nodes, children before parents, the constraints,  *)
(* the assumptions and the options.  A pointer is an id, negative when     *)
(* inverted.  Doubles are multiples of 1/Unit, rounded up by an average as *)
(* floating point may round.                                               *)
(***************************************************************************)
EXTENDS BtorProp, Functions

CONSTANTS
  Programs,
  Unit,          \* the score 1.0
  StepsFactor,   \* 100: the length of the first round between restarts
  MaxRestarts,   \* bound: the restarts explored
  MaxWeight,     \* bound: the weight of a root
  ProbMax,       \* 1000: the probability 1, in steps of the delta 100
  NPathSel,      \* prop-flip-cond-const-npathsel
  SegBits,       \* 8: the longest segment a move flips
  UintValues     \* 2^32: the values of a bit position

ASSUME LocalSearchAssumption ==
  /\ Unit \in Nat \ {0} /\ Unit % 2 = 0
  /\ {StepsFactor, MaxWeight, ProbMax, NPathSel, SegBits, UintValues} \subseteq Nat \ {0}
  /\ MaxRestarts \in Nat

Idx(p) == IF p < 0 THEN -p ELSE p

Arity(k) == CASE k \in {"var", "const"} -> 0 [] k = "slice" -> 1 [] k = "cond" -> 3 [] OTHER -> 2
WordKinds == {"and", "add", "mul", "udiv", "urem", "sll", "srl"}
NodeKinds == {"var", "const", "slice", "cond", "eq", "ult", "concat"} \cup WordKinds

\* Children before parents, and widths that fit (btor_dbg_precond_*_exp).
IsNodeOf(g, i) ==
  LET n == g.nodes[i]
      u(j) == g.nodes[Idx(n.e[j])].w
  IN /\ DOMAIN n.e = 1..Arity(n.k)
     /\ \A j \in DOMAIN n.e : Idx(n.e[j]) \in 1..i - 1
     /\ n.k = "const" => n.x \in Values(n.w)
     /\ n.k = "slice" => n.y <= n.x /\ n.x < u(1) /\ n.w = n.x - n.y + 1
     /\ n.k = "cond" => u(1) = 1 /\ u(2) = n.w /\ u(3) = n.w
     /\ n.k \in {"eq", "ult"} => n.w = 1 /\ u(1) = u(2)
     /\ n.k = "concat" => n.w = u(1) + u(2)
     /\ n.k \in WordKinds => u(1) = n.w /\ u(2) = n.w

\* No operand of an and node of an AIG is a constant (btor_aig_and).
IsAigNodeOf(g, i) ==
  /\ g.nodes[i].k \in {"var", "const", "and"} /\ g.nodes[i].w = 1
  /\ \A j \in DOMAIN g.nodes[i].e : g.nodes[Idx(g.nodes[i].e[j])].k # "const"

(* Roots are Boolean; a formula with opposite constraints is inconsistent   *)
(* before an engine is called (insert_into_constraint_tables).              *)
IsProgram(g) ==
  /\ g.nodes \in Seq([k : NodeKinds, w : 1..MaxWidth, e : Seq(Int), x : Nat, y : Nat])
  /\ \A i \in DOMAIN g.nodes : IsNodeOf(g, i)
  /\ \A p \in g.cons \cup g.asms :
       p \in Int /\ Idx(p) \in DOMAIN g.nodes /\ g.nodes[Idx(p)].w = 1
  /\ IF g.o.engine = "aigprop" THEN \A i \in DOMAIN g.nodes : IsAigNodeOf(g, i)
     ELSE \A p \in g.cons : -p \notin g.cons

ASSUME ProgramAssumption == \A g \in Programs : IsProgram(g)

VARIABLES
  f,         \* the program, fixed at the start
  pc,        \* where the engine is
  model,     \* bv_model: the value of every node
  neg,       \* bv_model: the cached values of inverted nodes
  roots,     \* the violated roots
  score,     \* the scores of Boolean pointers
  weights,   \* the weight of every root
  walk,      \* the propagation: root, current pointer, target
  sel,       \* the search for an SLS move
  best,      \* the best neighbour: max_cans, max_score, max_move
  count,     \* counters that steer the search
  result

vars == <<f, pc, model, neg, roots, score, weights, walk, sel, best, count, result>>

Empty == [i \in {} |-> 0]
Ids == 1..Len(f.nodes)
N(i) == f.nodes[i]
ConstPtr(p) == N(Idx(p)).k = "const"
Inputs == {i \in Ids : N(i).k = "var"}
Roots == f.cons \cup f.asms
IsRoot(i) == i \in Roots \/ -i \in Roots
OverAigs == f.o.engine = "aigprop"
UsesScore == f.o.engine = "sls" \/ OverAigs \/ f.o.bandit

-----------------------------------------------------------------------------
(* The model.                                                               *)

ValueIn(m, p) == IF p < 0 THEN Ones(N(-p).w) - m[-p] ELSE m[p]

NodeValue(n, m) ==
  LET v(j) == ValueIn(m, n.e[j])
  IN CASE n.k = "const" -> n.x
       [] n.k = "slice" -> (v(1) \div 2^n.y) % 2^(n.x - n.y + 1)
       [] n.k = "cond" -> IF v(1) = 1 THEN v(2) ELSE v(3)
       [] OTHER -> Meaning(n.k, N(Idx(n.e[2])).w, v(1), v(2))

\* base with the values of exps and the nodes of cone recomputed in the order of ids
Assign(base, exps, cone) ==
  LET m[i \in Ids] ==
        IF i \in DOMAIN exps THEN exps[i] ELSE IF i \in cone THEN NodeValue(N(i), m) ELSE base[i]
  IN [i \in Ids |-> m[i]]

\* Seeded fault: only the parents of a changed node are updated.
ConeOfParents(changed) ==
  {i \in Ids \ changed : \E j \in DOMAIN N(i).e : Idx(N(i).e[j]) \in changed}

\* btor_lsutils_update_cone: what lies above the changed nodes
Above(changed) ==
  LET above[i \in Ids] == i \in changed \/ \E j \in DOMAIN N(i).e : above[Idx(N(i).e[j])]
  IN {i \in Ids : above[i]}
Cone(changed) == Above(changed) \ changed

\* btor_model_generate with fresh inputs, which are zero
ZeroModel == Assign(Empty, [i \in Inputs |-> 0], Ids \ Inputs)

\* btor_model_get_bv: a cached entry of the inverted node wins.
GetBv(p) == IF p < 0 /\ -p \in DOMAIN neg THEN neg[-p] ELSE ValueIn(model, p)

\* The cache after the values of the pointers ps were asked for.
Cached(old, m, ps) ==
  [i \in DOMAIN old \cup {-p : p \in {q \in ps : q < 0}} |->
     IF i \in DOMAIN old THEN old[i] ELSE ValueIn(m, -i)]

Refreshed(old, m, changed) ==
  [i \in DOMAIN old |-> IF i \in changed THEN ValueIn(m, -i) ELSE old[i]]

-----------------------------------------------------------------------------
(* Scores (btorslsutils.c).                                                 *)

BitsOf(a, w) == {j \in 0..w - 1 : BitOf(a, j) = 1}
HammingDistance(a, b, w) == Cardinality({j \in 0..w - 1 : BitOf(a, j) # BitOf(b, j)})

\* Bits to clear in a from the top so that a < b; to set so that a >= b.
MinFlip(a, b, w) ==
  IF b = 0 THEN HammingDistance(a, b, w)
  ELSE LET last == Max({j \in BitsOf(a, w) : a % 2^j < b})
       IN Cardinality({j \in BitsOf(a, w) : j >= last})

MinFlipInv(a, b, w) ==
  LET clear == (0..w - 1) \ BitsOf(a, w)
      filled(j) == a + SumSet({2^l : l \in {l \in clear : l >= j}})
  IN Cardinality({j \in clear : j >= Max({l \in clear : filled(l) >= b})})

\* SLS_SCORE_CFACT * (1 - d / w)
Partial(d, w) == (Unit * (w - d)) \div (2 * w)

AndScore(s, t) ==
  LET avg == (s + t + 1) \div 2 IN IF avg = Unit THEN Min({s, t}) ELSE avg

ScoreNode(p, m, s) ==
  LET n == N(Idx(p))
      a == ValueIn(m, n.e[1])
      b == ValueIn(m, n.e[2])
      w == N(Idx(n.e[1])).w
  IN CASE n.k = "and" -> IF p < 0 THEN Max({s[-n.e[1]], s[-n.e[2]]})
                         ELSE AndScore(s[n.e[1]], s[n.e[2]])
       [] n.k = "eq" -> IF (a = b) = (p > 0) THEN Unit
                        ELSE IF p < 0 THEN 0 ELSE Partial(HammingDistance(a, b, w), w)
       [] n.k = "ult" -> IF (a < b) = (p > 0) THEN Unit
                         ELSE Partial(IF p < 0 THEN MinFlipInv(a, b, w) ELSE MinFlip(a, b, w), w)
       [] OTHER -> ValueIn(m, p) * Unit

\* What is reached from node n when kids[i] are the nodes followed from i.
Down(kids, n) == LET down[i \in Ids] == {i} \cup UNION {down[j] : j \in kids[i]} IN down[n]
Kids(i) == {Idx(N(i).e[j]) : j \in DOMAIN N(i).e}
Below(p) == Down([i \in Ids |-> Kids(i)], Idx(p))
Scored == {i \in UNION {Below(r) : r \in Roots} : N(i).w = 1}
Pointers(S) == S \cup {-i : i \in S}

\* The scores of the nodes in changed computed anew, those of others kept.
Rescore(old, m, changed) ==
  LET s[p \in Pointers(Scored)] == IF Idx(p) \in changed THEN ScoreNode(p, m, s) ELSE old[p]
  IN [p \in Pointers(Scored) |-> s[p]]

\* btor_slsutils_compute_sls_scores, and the values it asks for
ComputeScores(m) == Rescore(Empty, m, Ids)
ScoreReads ==
  UNION {IF N(i).k \in {"eq", "ult"} THEN {N(i).e[1], N(i).e[2]}
         ELSE IF N(i).k = "and" THEN {} ELSE {-i} : i \in Scored}

\* compute_sls_score_formula
FormulaScore(s) == FoldFunction(+, 0, [p \in DOMAIN weights |-> weights[p] * s[p]])
AllSatisfied(s) == \A p \in DOMAIN weights : s[p] = Unit

-----------------------------------------------------------------------------
Zero == [props |-> 0, flips |-> 0, steps |-> 0, restarts |-> 0, prop |-> 0, sls |-> 0,
         sat |-> 0, prob |-> 0, delta |-> 1]
NoWalk == [root |-> 0, cur |-> 0, t |-> 0]
NoSel == [cands |-> {}, left |-> {}, group |-> {}, at |-> Empty, tried |-> {}]
NoBest == [cans |-> Empty, sc |-> -1, move |-> "none"]

Init ==
  /\ f \in Programs
  /\ pc = "start"
  /\ model = Empty /\ neg = Empty /\ roots = {} /\ score = Empty /\ weights = Empty
  /\ walk = NoWalk /\ sel = NoSel /\ best = NoBest
  /\ count = [Zero EXCEPT !.prob = f.o.constProb]
  /\ result = "none"

Counter(n, limit) == IF limit = 0 THEN 0 ELSE Min({n, limit})

Answer(r) == pc' = "done" /\ result' = r

\* sat_prop_solver, sat_sls_solver: the initial model, and roots in both phases
Start ==
  /\ pc = "start" /\ ~OverAigs
  /\ model' = ZeroModel
  /\ neg' = Empty
  /\ IF \E p \in f.asms : -p \in Roots THEN Answer("unsat") /\ UNCHANGED weights
     ELSE /\ pc' = "collect"
          /\ weights' = IF f.o.engine = "sls" THEN [p \in Roots |-> 1] ELSE Empty
          /\ UNCHANGED result
  /\ UNCHANGED <<f, roots, score, walk, sel, best, count>>

\* Termination is asked for by the user's callback, which AIGPROP only looks at once.
Interrupt ==
  /\ f.o.term /\ pc \in (IF OverAigs THEN {"start"} ELSE {"collect", "loop"})
  /\ Answer("unknown")
  /\ UNCHANGED <<f, model, neg, roots, score, weights, walk, sel, best, count>>

(* The head of the outer loop: collect the violated roots, compute the      *)
(* scores, choose the direction in which the flip probability moves.        *)
Collect ==
  /\ pc = "collect" /\ ~OverAigs
  /\ LET bad == {p \in Roots : ValueIn(model, p) = 0}
         read == Cached(neg, model, Roots)
     IN /\ roots' = bad
        /\ IF \E p \in bad : ConstPtr(p) THEN
             Answer("unsat") /\ neg' = read /\ UNCHANGED <<score, count>>
           ELSE IF bad = {} /\ ~(f.o.engine = "sls") THEN
             Answer("sat") /\ neg' = read /\ UNCHANGED <<score, count>>
           ELSE /\ score' = IF UsesScore THEN ComputeScores(model) ELSE Empty
                /\ neg' = IF UsesScore THEN Cached(read, model, ScoreReads) ELSE read
                /\ count' = [count EXCEPT !.steps = 0,
                                          !.delta = IF 2 * count.prob > ProbMax THEN -1 ELSE 1]
                /\ IF bad = {} THEN Answer("sat") ELSE pc' = "loop" /\ UNCHANGED result
  /\ UNCHANGED <<f, model, weights, walk, sel, best>>

MaxSteps(i) == StepsFactor * (IF i % 2 = 1 THEN 1 ELSE 2^(i \div 2))
RoundOver == f.o.restarts /\ count.steps >= MaxSteps(count.restarts + 1)

Restart ==
  /\ pc = "loop" /\ ~OverAigs /\ RoundOver
  /\ count.restarts < MaxRestarts
  /\ count' = [count EXCEPT !.restarts = @ + 1]
  /\ model' = ZeroModel /\ neg' = Empty /\ roots' = {} /\ score' = Empty
  /\ pc' = "collect"
  /\ UNCHANGED <<f, weights, walk, sel, best, result>>

LimitReached ==
  \/ f.o.nprops > 0 /\ count.props >= f.o.nprops
  \/ f.o.engine = "sls" /\ f.o.nflips > 0 /\ count.flips >= f.o.nflips

Limit ==
  /\ pc = "loop" /\ ~RoundOver /\ LimitReached
  /\ Answer("unknown")
  /\ UNCHANGED <<f, model, neg, roots, score, weights, walk, sel, best, count>>

\* Whether this SLS move is a propagation move.
PropMove ==
  \/ f.o.engine = "prop"
  \/ f.o.strategy = "alwaysProp"
  \/ f.o.moveProp /\ count.prop < f.o.nProp

(* select_constraint, select_candidate_constraint: any violated root; the   *)
(* bandit's preferences are left open.                                      *)
SelectConstraint ==
  /\ pc = "loop" /\ ~OverAigs /\ ~RoundOver /\ ~LimitReached
  /\ \E r \in roots : walk' = [root |-> r, cur |-> r, t |-> 1]
  /\ best' = NoBest
  /\ pc' = IF PropMove THEN "walk" ELSE "cands"
  /\ count' = IF f.o.engine = "prop" THEN count
              ELSE IF PropMove THEN [count EXCEPT !.prop = Min({@ + 1, f.o.nProp})]
              ELSE [count EXCEPT !.sls = Min({@ + 1, f.o.nSls + 1})]
  /\ UNCHANGED <<f, model, neg, roots, score, weights, sel, result>>

-----------------------------------------------------------------------------
(* The propagation (btor_proputils_select_move_prop).                       *)

Children(i) == {N(i).e[j] : j \in DOMAIN N(i).e}

Step(i, t) ==
  LET e == N(i).e
  IN [k |-> N(i).k, w |-> N(i).w, x |-> N(i).x, y |-> N(i).y, t |-> t,
      ow |-> [j \in DOMAIN e |-> N(Idx(e[j])).w],
      c |-> [j \in DOMAIN e |-> ConstPtr(e[j])],
      v |-> [j \in DOMAIN e |-> GetBv(e[j])]]

\* The step at the current node, its target inverted if the pointer is.
Current ==
  Step(Idx(walk.cur), IF walk.cur < 0 THEN Ones(N(-walk.cur).w) - walk.t ELSE walk.t)

\* No input was found: PROP tries again, SLS falls back to a move of its own.
NoInput ==
  IF f.o.engine = "prop"
  THEN walk' = [walk EXCEPT !.cur = walk.root, !.t = 1] /\ UNCHANGED pc
  ELSE pc' = (IF f.o.forceRw THEN "randomWalk" ELSE "cands") /\ UNCHANGED walk

Walking == pc = "walk"
AtInput == N(Idx(walk.cur)).k = "var"
AtDeadEnd == ConstPtr(walk.cur) \/ \A p \in Children(Idx(walk.cur)) : ConstPtr(p)

FoundInput ==
  /\ Walking /\ AtInput
  /\ best' = [cans |-> [i \in {Idx(walk.cur)} |->
                         IF walk.cur < 0 THEN Ones(N(i).w) - walk.t ELSE walk.t],
              sc |-> -1, move |-> "prop"]
  /\ pc' = "apply"
  /\ UNCHANGED <<f, model, neg, roots, score, weights, walk, sel, count, result>>

DeadEnd ==
  /\ Walking /\ ~OverAigs /\ ~AtInput /\ AtDeadEnd
  /\ NoInput
  /\ neg' = Cached(neg, model, Children(Idx(walk.cur)))
  /\ UNCHANGED <<f, model, roots, score, weights, sel, best, count, result>>

(* The flip of a condition whose enabled branch is a constant has its own   *)
(* probability, which moves after every NPathSel such flips.                *)
FlipConst(c) ==
  IF c.sat + 1 < NPathSel THEN [c EXCEPT !.sat = @ + 1]
  ELSE LET d == IF c.prob = 0 THEN 1 ELSE IF c.prob = ProbMax THEN -1 ELSE c.delta
       IN [c EXCEPT !.sat = 0, !.delta = d, !.prob = @ + d]

\* select_path_cond: the operand and the counters after the choice
PathsCond(p) ==
  LET const == ~p.c[1] /\ EnabledIsConst(p) /\ count.prob > 0
      other == ~(const /\ count.prob = ProbMax)
  IN (IF const THEN {<<0, FlipConst(count)>>} ELSE {})
       \cup (IF other /\ f.o.flipCond /\ ~p.c[1] THEN {<<SelectPathCond(p, TRUE), count>>} ELSE {})
       \cup (IF other THEN {<<SelectPathCond(p, FALSE), count>>} ELSE {})

Paths(p) ==
  IF p.k = "cond" THEN PathsCond(p) ELSE {<<i, count>> : i \in SelectPath(p, f.o)}

Propagate ==
  /\ Walking /\ ~OverAigs /\ ~AtInput /\ ~AtDeadEnd
  /\ neg' = Cached(neg, model, Children(Idx(walk.cur)))
  /\ LET p == Current
     IN \E path \in Paths(p), useInverse \in f.o.inverse :
          /\ count' = [path[2] EXCEPT !.props = Counter(@ + 1, f.o.nprops)]
          /\ \E v \in ComputeValue(p, path[1], f.o, useInverse) :
               IF v = Null THEN NoInput
               ELSE /\ walk' = [walk EXCEPT !.cur = N(Idx(walk.cur)).e[path[1] + 1], !.t = v]
                    /\ UNCHANGED pc
  /\ UNCHANGED <<f, model, roots, score, weights, sel, best, result>>

-----------------------------------------------------------------------------
(* Moves of the SLS engine.                                                 *)

(* select_candidates: the inputs below the root; with justification one     *)
(* operand that makes an and node zero is followed, ch says which.          *)
JustAnd(i) == f.o.just /\ N(i).k = "and" /\ N(i).w = 1 /\ model[i] = 0
Visited(root, ch) ==
  Down([i \in Ids |-> IF JustAnd(i) THEN {Idx(N(i).e[ch[i]])} ELSE Kids(i)], Idx(root))
Candidates(root, ch) == Visited(root, ch) \cap Inputs

Justifications ==
  {ch \in [{i \in Ids : JustAnd(i)} -> {1, 2}] :
     \A i \in DOMAIN ch : ValueIn(model, N(i).e[ch[i]]) = 0}

SelectCandidates ==
  /\ pc \in {"cands", "randomWalk"}
  /\ \E ch \in Justifications :
       LET cands == Candidates(walk.root, ch)
           asked == UNION {Children(i) : i \in {j \in Visited(walk.root, ch) : JustAnd(j)}}
       IN /\ sel' = [NoSel EXCEPT !.cands = cands, !.left = cands]
          /\ neg' = Cached(neg, model, asked)
          /\ CASE cands = {} -> Answer("unsat") /\ UNCHANGED best
               [] cands # {} /\ pc = "randomWalk" ->
                    pc' = "walkMove" /\ UNCHANGED <<best, result>>
               [] cands # {} /\ pc = "cands" ->
                    /\ best' = [NoBest EXCEPT !.sc = FormulaScore(score)]
                    /\ pc' \in {"group"} \cup (IF f.o.randWalk THEN {"walkMove"} ELSE {})
                    /\ UNCHANGED result
  /\ UNCHANGED <<f, model, roots, score, weights, walk, count>>

\* Flip the bits up..lo of a.
FlipRange(a, up, lo) ==
  LET g[j \in lo..up + 1] == IF j = lo THEN a ELSE Flip(g[j - 1], j - 1)
  IN IF up < lo THEN a ELSE g[up + 1]

RandomNeighbours(a, w) ==
  {Flip(a, j) : j \in 0..w - 1} \cup {(a + 1) % 2^w, (a - 1) % 2^w, Ones(w) - a}
    \cup (IF f.o.range THEN {FlipRange(a, up, 0) : up \in Min({1, w - 1})..w - 1} ELSE {})
    \cup (IF f.o.segment
          THEN {FlipRange(a, s[2], s[1]) :
                  s \in {s \in (0..w - 1) \X (0..w - 1) : s[1] < s[2] \/ (s[1] = s[2] /\ s[1] = w - 1)}}
          ELSE {})

\* Every way to give each candidate of the set S one of its neighbours.
Product(S, nb(_)) == {c \in [S -> UNION {nb(i) : i \in S}] : \A i \in S : c[i] \in nb(i)}

SelectRandomMove ==
  /\ pc = "walkMove"
  /\ \E S \in {{i} : i \in sel.cands} \cup (IF f.o.gw THEN {sel.cands} ELSE {}) :
        \E c \in Product(S, LAMBDA i : RandomNeighbours(model[i], N(i).w)) :
          best' = [cans |-> c, sc |-> best.sc, move |-> "walk"]
  /\ pc' = "apply"
  /\ UNCHANGED <<f, model, neg, roots, score, weights, walk, sel, count, result>>

(* The neighbourhood: single bits, increment, decrement, complement, ranges *)
(* that double and segments of 2, 4, ... SegBits bits.  at is the position: *)
(* the kind of move, the segment length, the upper bit and the number of    *)
(* candidates whose last position was reached.                              *)
Kinds == <<"flip", "inc", "dec", "not", "range", "segment">>
Enabled(m) == (m = "range" => f.o.range) /\ (m = "segment" => f.o.segment)
First(k) ==
  [k |-> k, seg |-> 2, up |-> IF k \in DOMAIN Kinds /\ Kinds[k] \in {"range", "segment"} THEN 1 ELSE 0,
   ends |-> 0]
NextKind(k) == First(Min({l \in k + 1..Len(Kinds) : Enabled(Kinds[l])} \cup {Len(Kinds) + 1}))

\* Seeded fault: the clamped last move is taken for one more to go.
IsLastBelow(at, w) ==
  CASE Kinds[at.k] = "flip" -> at.up = w - 1
    [] Kinds[at.k] = "range" -> at.up >= w /\ at.up \div 2 < w - 1
    [] Kinds[at.k] = "segment" -> at.up >= w /\ (at.up - at.seg) % UintValues < w
    [] OTHER -> TRUE
IsLast(at, w) ==
  CASE Kinds[at.k] = "flip" -> at.up = w - 1
    [] Kinds[at.k] = "range" -> at.up >= w /\ (at.up - 1) \div 2 < w
    [] Kinds[at.k] = "segment" -> at.up >= w /\ (at.up - at.seg) % UintValues < w
    [] OTHER -> TRUE

Neighbours(at, a, w) ==
  LET up == Min({at.up, w - 1})
      lo == (at.up - at.seg + 1) % UintValues
      clo == IF lo >= w - 1 THEN Max({0, w - at.seg}) ELSE lo
  IN CASE Kinds[at.k] = "flip" -> {Flip(a, at.up % w)}
       [] Kinds[at.k] = "inc" -> {(a + 1) % 2^w}
       [] Kinds[at.k] = "dec" -> {(a - 1) % 2^w}
       [] Kinds[at.k] = "not" -> {Ones(w) - a}
       [] Kinds[at.k] = "range" -> {FlipRange(a, up, 0), FlipRange(a, w - 1, w - 1 - up)}
       [] Kinds[at.k] = "segment" -> {FlipRange(a, up, clo), FlipRange(a, w - 1 - clo, w - 1 - up)}

NextPosition(at, ends, n) ==
  CASE ends < n /\ Kinds[at.k] = "range" -> [at EXCEPT !.up = (2 * @ + 1) % UintValues, !.ends = ends]
    [] ends < n /\ Kinds[at.k] = "segment" ->
         [at EXCEPT !.up = (@ + at.seg) % UintValues, !.ends = ends]
    [] ends < n /\ Kinds[at.k] = "flip" -> [at EXCEPT !.up = @ + 1, !.ends = ends]
    [] ends >= n /\ Kinds[at.k] = "segment" /\ 2 * at.seg <= SegBits ->
         [at EXCEPT !.seg = 2 * @, !.up = 2 * at.seg - 1, !.ends = 0]
    [] OTHER -> NextKind(at.k)

(* select_move: one candidate after the other, in the order of the stack    *)
(* that found them, then all of them.                                       *)
Groups ==
  IF sel.left # {} THEN {{i} : i \in sel.left}
  ELSE IF f.o.gw /\ sel.group # sel.cands THEN {sel.cands} ELSE {}

NextGroup ==
  /\ pc = "group"
  /\ \E S \in Groups : sel' = [sel EXCEPT !.group = S, !.left = @ \ S, !.at = First(1)]
  /\ pc' = "try"
  /\ UNCHANGED <<f, model, neg, roots, score, weights, walk, best, count, result>>

FlipsUsed == f.o.nflips > 0 /\ count.flips >= f.o.nflips

\* The limit on flips ends the move, and with it the search.
OutOfFlips ==
  /\ pc = "try" /\ FlipsUsed
  /\ pc' = "moved"
  /\ UNCHANGED <<f, model, neg, roots, score, weights, walk, sel, best, count, result>>

Base(i) == IF f.o.incTest /\ i \in DOMAIN best.cans THEN best.cans[i] ELSE model[i]

(* try_move and SLS_SELECT_MOVE_CHECK_SCORE, on a copy of the model.        *)
TryMove ==
  /\ pc = "try" /\ ~FlipsUsed /\ sel.at.k <= Len(Kinds)
  /\ count' = [count EXCEPT !.flips = Counter(@ + 1, f.o.nflips)]
  /\ LET S == sel.group
         at == sel.at
         ends == at.ends + Cardinality({i \in S : IsLast(at, N(i).w)})
         next == NextPosition(at, ends, Cardinality(S))
     IN \E c \in Product(S, LAMBDA i : Neighbours(at, Base(i), N(i).w)) :
          LET m == Assign(model, c, Cone(S))
              s == Rescore(score, m, S \cup Cone(S))
              sc == FormulaScore(s)
              done == AllSatisfied(s)
              better == /\ f.o.strategy # "randWalk"
                        /\ sc > best.sc \/ (f.o.strategy = "bestSame" /\ sc = best.sc)
          IN /\ best' = IF done \/ better THEN [cans |-> c, sc |-> sc, move |-> Kinds[at.k]] ELSE best
             /\ sel' = [sel EXCEPT
                  !.at = IF better /\ f.o.strategy = "first" THEN NextKind(at.k) ELSE next,
                  !.tried = IF f.o.strategy = "randWalk" /\ ~done THEN @ \cup {c} ELSE @]
             /\ pc' = IF done THEN "apply" ELSE "try"
  /\ UNCHANGED <<f, model, neg, roots, score, weights, walk, result>>

KindsTried ==
  /\ pc = "try" /\ ~FlipsUsed /\ sel.at.k > Len(Kinds)
  /\ pc' = IF Groups # {} THEN "group" ELSE "pick"
  /\ UNCHANGED <<f, model, neg, roots, score, weights, walk, sel, best, count, result>>

\* A random value, or for one bit its complement.
RandomValues(i) == IF N(i).w = 1 THEN {1 - model[i]} ELSE Values(N(i).w)

\* select_move, after the neighbourhood was explored
NoneBetter == pc = "pick" /\ f.o.strategy # "randWalk" /\ best.cans = Empty

Pick ==
  /\ pc = "pick" /\ ~NoneBetter
  /\ pc' = "apply"
  /\ IF f.o.strategy = "randWalk"
     THEN \E c \in sel.tried : best' = [cans |-> c, sc |-> best.sc, move |-> "walk"]
     ELSE UNCHANGED best
  /\ UNCHANGED <<f, model, neg, roots, score, weights, walk, sel, count, result>>

Randomize ==
  /\ NoneBetter
  /\ pc' = "apply"
  /\ LET ones == {{i} : i \in {j \in sel.cands : f.o.randRange => N(j).w = 1}}
     IN \E S \in ones \cup (IF f.o.randAll THEN {sel.cands} ELSE {}) :
        \E c \in Product(S, RandomValues) : best' = [cans |-> c, sc |-> best.sc, move |-> "rand"]
  /\ UNCHANGED <<f, model, neg, roots, score, weights, walk, sel, count, result>>

(* select_rand_range_move: random values of growing ranges of one           *)
(* candidate, the best of them is taken; each try counts as a flip.         *)
RangeTries(w) == 1 + Cardinality({j \in 1..w - 1 : 2^j - 1 < w})
RandomizeRange ==
  /\ NoneBetter /\ f.o.randRange
  /\ \E i \in {j \in sel.cands : N(j).w > 1} :
     \E n \in 1..RangeTries(N(i).w), v \in Values(N(i).w) :
       /\ count' = [count EXCEPT !.flips = Counter(@ + n, f.o.nflips)]
       /\ IF f.o.nflips > 0 /\ count.flips + n > f.o.nflips
          THEN pc' = "moved" /\ UNCHANGED best
          ELSE pc' = "apply" /\ best' = [cans |-> [j \in {i} |-> v], sc |-> best.sc, move |-> "rand"]
  /\ UNCHANGED <<f, model, neg, roots, score, weights, walk, sel, result>>

-----------------------------------------------------------------------------
(* Applying the selected move to the model (btor_lsutils_update_cone).      *)

\* Seeded fault: a root that becomes false is not entered.
ToggleOff(i, v) == [add |-> {}, del |-> {i, -i}]

\* update_roots_table for a root whose value changed to v
Toggle(i, v) ==
  IF {i, -i} \cap roots # {} THEN [add |-> {}, del |-> {i, -i}]
  ELSE [add |-> {IF v = 0 THEN i ELSE -i}, del |-> {}]

UpdatedRoots(m, touched) ==
  LET turned == {i \in touched : IsRoot(i) /\ model[i] # m[i]}
  IN (roots \ UNION {Toggle(i, m[i]).del : i \in turned})
       \cup UNION {Toggle(i, m[i]).add : i \in turned}

\* update_assertion_weights: one of its two directions
Reweighed(s) ==
  {[p \in DOMAIN weights |-> IF s[p] # 0 /\ weights[p] > 1 THEN weights[p] - 1 ELSE weights[p]],
   [p \in DOMAIN weights |-> IF s[p] # Unit THEN Min({weights[p] + 1, MaxWeight}) ELSE weights[p]]}

ApplyMove ==
  /\ pc = "apply" /\ ~OverAigs
  /\ LET S == DOMAIN best.cans
         touched == S \cup Cone(S)
         m == Assign(model, best.cans, Cone(S))
         s == IF UsesScore THEN Rescore(score, m, touched) ELSE score
     IN /\ model' = m
        /\ neg' = Refreshed(neg, m, touched)
        /\ roots' = UpdatedRoots(m, touched)
        /\ score' = s
        /\ IF best.move = "rand" THEN weights' \in Reweighed(s) ELSE UNCHANGED weights
  /\ count' = IF f.o.engine = "sls" /\ count.prop = f.o.nProp /\ count.sls = f.o.nSls
              THEN [count EXCEPT !.prop = 0, !.sls = 0] ELSE count
  /\ pc' = "moved"
  /\ UNCHANGED <<f, walk, sel, best, result>>

Moved ==
  /\ pc = "moved"
  /\ IF roots = {} THEN Answer("sat") ELSE pc' = "loop" /\ UNCHANGED result
  /\ count' = IF f.o.restarts THEN [count EXCEPT !.steps = @ + 1] ELSE count
  /\ walk' = NoWalk /\ sel' = NoSel /\ best' = NoBest
  /\ UNCHANGED <<f, model, neg, roots, score, weights>>

-----------------------------------------------------------------------------
(* AIGPROP (aigprop.c): the nodes are variables and and nodes of one bit.   *)

\* btor_aigprop_generate_model, with all inputs false
AigModel ==
  LET m[i \in Ids] == IF N(i).k = "and" THEN (IF \A j \in {1, 2} : ValueIn(m, N(i).e[j]) = 1 THEN 1 ELSE 0)
                      ELSE IF N(i).k = "const" THEN N(i).x ELSE 0
  IN [i \in Ids |-> m[i]]

\* compute_score_aig
AigScore(p, m, s) ==
  LET e == N(Idx(p)).e
  IN IF N(Idx(p)).k # "and" THEN ValueIn(m, p) * Unit
     ELSE IF p < 0 THEN Max({s[-e[1]], s[-e[2]]})
     ELSE LET avg == (s[e[1]] + s[e[2]] + 1) \div 2 IN IF avg = Unit THEN Min({s[e[1]], s[e[2]]}) ELSE avg

\* compute_scores
AigScores(m) ==
  LET s[p \in Pointers(Scored)] == AigScore(p, m, s) IN [p \in Pointers(Scored) |-> s[p]]

\* sat_aigprop_solver, btor_aigprop_sat: the initial model
AigStart ==
  /\ pc = "start" /\ OverAigs
  /\ model' = AigModel
  /\ pc' = "collect"
  /\ UNCHANGED <<f, neg, roots, score, weights, walk, sel, best, count, result>>

\* True roots are skipped; a false root or two opposite ones have no model.
AigCollect ==
  /\ pc = "collect" /\ OverAigs
  /\ LET bad == {p \in Roots : ValueIn(model, p) = 0}
     IN IF \E p \in Roots : -p \in Roots \/ (p \in bad /\ ConstPtr(p))
        THEN Answer("unsat") /\ UNCHANGED <<roots, score, count>>
        ELSE /\ roots' = bad
             /\ score' = AigScores(model)
             /\ count' = [count EXCEPT !.steps = 0]
             /\ IF bad = {} THEN Answer("sat") ELSE pc' = "loop" /\ UNCHANGED result
  /\ UNCHANGED <<f, model, neg, weights, walk, sel, best>>

AigRestart ==
  /\ pc = "loop" /\ OverAigs /\ RoundOver
  /\ count.restarts < MaxRestarts
  /\ count' = [count EXCEPT !.restarts = @ + 1]
  /\ model' = AigModel /\ roots' = {} /\ score' = Empty
  /\ pc' = "collect"
  /\ UNCHANGED <<f, neg, weights, walk, sel, best, result>>

\* select_root: any violated root; the preferences of the bandit are left open
AigSelectRoot ==
  /\ pc = "loop" /\ OverAigs /\ ~RoundOver
  /\ \E r \in roots : walk' = [root |-> r, cur |-> r, t |-> 1]
  /\ pc' = "walk"
  /\ UNCHANGED <<f, model, neg, roots, score, weights, sel, best, count, result>>

\* Seeded fault: the path goes on with the operand that is 1 already.
AigOnePath(v) == IF v[1] = v[2] THEN {1, 2} ELSE {j \in {1, 2} : v[j] = 1}

(* select_move of aigprop.c: the operand that is 0 if exactly one is, any   *)
(* operand otherwise; it must become 1 for the target 1, and 0 if the other *)
(* operand is 1.                                                            *)
AigPath(v) == IF v[1] = v[2] THEN {1, 2} ELSE {j \in {1, 2} : v[j] = 0}
AigValues(t, other) == IF t = 1 THEN {1} ELSE IF other = 1 THEN {0} ELSE {0, 1}

AigPropagate ==
  /\ Walking /\ OverAigs /\ ~AtInput
  /\ LET e == N(Idx(walk.cur)).e
         t == IF walk.cur < 0 THEN 1 - walk.t ELSE walk.t
         v == [j \in {1, 2} |-> ValueIn(model, e[j])]
     IN \E j \in AigPath(v) : \E a \in AigValues(t, v[3 - j]) :
          walk' = [walk EXCEPT !.cur = e[j], !.t = a]
  /\ UNCHANGED <<f, pc, model, neg, roots, score, weights, sel, best, count, result>>

\* update_unsatroots_table, for the roots whose assignment changed
AigUnsatRoots(m, touched) ==
  LET turned == {i \in touched : IsRoot(i) /\ model[i] # m[i]}
      listed == {i \in turned : {i, -i} \cap roots # {}}
  IN (roots \ Pointers(listed)) \cup {IF m[i] = 0 THEN i ELSE -i : i \in turned \ listed}

\* update_cone: what is reached over the parents, in the order of ids
AigCone(i) == Above({i})

AigUpdateCone ==
  /\ pc = "apply" /\ OverAigs
  /\ LET i == CHOOSE j \in DOMAIN best.cans : TRUE
         cone == AigCone(i)
         m[j \in Ids] == IF j = i THEN best.cans[i] ELSE IF j \notin cone THEN model[j]
                         ELSE IF \A l \in {1, 2} : ValueIn(m, N(j).e[l]) = 1 THEN 1 ELSE 0
         s[p \in DOMAIN score] == IF Idx(p) \in cone THEN AigScore(p, m, s) ELSE score[p]
     IN /\ model' = [j \in Ids |-> m[j]]
        /\ roots' = AigUnsatRoots(m, cone)
        /\ score' = [p \in DOMAIN score |-> s[p]]
  /\ pc' = "moved"
  /\ UNCHANGED <<f, neg, weights, walk, sel, best, count, result>>

Next ==
  \/ Start \/ Interrupt \/ Collect \/ Restart \/ Limit \/ SelectConstraint
  \/ FoundInput \/ DeadEnd \/ Propagate
  \/ SelectCandidates \/ SelectRandomMove \/ NextGroup \/ OutOfFlips \/ TryMove \/ KindsTried
  \/ Pick \/ Randomize \/ RandomizeRange \/ ApplyMove \/ Moved
  \/ AigStart \/ AigCollect \/ AigRestart \/ AigSelectRoot \/ AigPropagate \/ AigUpdateCone

\* The search for a move is a loop of the code: it goes on while it can.
Searching == NextGroup \/ OutOfFlips \/ TryMove \/ KindsTried

Spec == Init /\ [][Next]_vars /\ WF_vars(Searching)

-----------------------------------------------------------------------------
(* Properties.                                                              *)

InSearch ==
  pc \in {"loop", "walk", "cands", "randomWalk", "walkMove", "group", "try", "pick", "apply", "moved"}

(* What a move updates along the cone of the changed inputs is what one     *)
(* would compute from scratch (btor_lsutils_update_cone): each node has the *)
(* value its children give it and the cached values of inverted nodes       *)
(* follow; the table of roots is the set of the constraints and assumptions *)
(* that the model violates; the scores are right, and a score is 1.0        *)
(* exactly when the node is true, whatever the averages round to            *)
(* (compute_sls_score_formula decides with it that all is satisfied).       *)
ConeExact ==
  /\ model # Empty =>
       /\ \A i \in Ids \ Inputs : model[i] = NodeValue(N(i), model)
       /\ \A i \in DOMAIN neg : neg[i] = Ones(N(i).w) - model[i]
  /\ InSearch => roots = {p \in Roots : ValueIn(model, p) = 0}
  /\ InSearch /\ UsesScore =>
       /\ score = ComputeScores(model)
       /\ \A p \in DOMAIN score : (score[p] = Unit) <=> (ValueIn(model, p) = 1)

OnPath == Walking /\ ~OverAigs /\ ~AtInput /\ ~AtDeadEnd
With(p, i, r) == [p.v EXCEPT ![i + 1] = r]

(* The shift amounts that do not fit into the uint32_t of inv_sll_bv and     *)
(* inv_srl_bv: the operand they are asked for gets the bits of a shorter    *)
(* shift, and check_result_binary_dbg, which requires the target, fails.    *)
ShiftIsCut(p, i) == p.k \in {"sll", "srl"} /\ i = 0 /\ OtherValue(p, i) >= 2^UintBits

(* An inverse value fits the width of its operand; it gives the node its    *)
(* target, and the code reports a conflict only if no value would           *)
(* (inv_*_bv and their check_result_binary_dbg), except where a shift       *)
(* amount is cut.                                                           *)
InversesExact ==
  OnPath =>
    LET p == Current
    IN \A i \in {q[1] : q \in Paths(p)} :
         p.k # "cond" =>
           /\ InverseValues(p, i) \subseteq Values(p.ow[i + 1])
           /\ ~ShiftIsCut(p, i) =>
                /\ \A r \in InverseValues(p, i) : Result(p, With(p, i, r)) = p.t
                /\ InverseValues(p, i) = {} => \A r \in Values(p.ow[i + 1]) : Result(p, With(p, i, r)) # p.t

(* A consistent value can be completed to the target by some value of the   *)
(* other operand; there always is one, so that a move never starves         *)
(* (cons_*_bv).  Remainders with respect to the dividend, and flips in a    *)
(* concatenation, are heuristic and exempt.                                 *)
ConsistentCompletes ==
  OnPath =>
    LET p == Current
    IN \A i \in {q[1] : q \in Paths(p)} :
         LET cs == ConsistentValues(p, i, f.o)
             j == Other(i)
         IN /\ cs # {}
            /\ (p.k \notin {"slice", "cond"} /\ ~(p.k = "urem" /\ i = 0)
                  /\ ~(p.k = "concat" /\ f.o.flips)) =>
                 \A r \in cs : \E u \in Values(p.ow[j + 1]) :
                   Result(p, With([p EXCEPT !.v = With(p, i, r)], j, u)) = p.t

(* The values a path passes down are what the operators need, whatever the  *)
(* probabilities choose between: an inverse value, a consistent one, or a   *)
(* reported conflict.  Inverses of shifts by more than a uint32_t are not.  *)
PathValuesExact == InversesExact /\ ConsistentCompletes

(* On its way to an input AIGPROP asks every node for the opposite of its   *)
(* value, so that each move flips one input (select_move of aigprop.c,      *)
(* whose last case, a free choice, is therefore never taken).               *)
AigMoveFlips == (Walking /\ OverAigs) => ValueIn(model, walk.cur) # walk.t

\* The assignments of the inputs that satisfy every root.
Solutions ==
  {m \in {Assign(Empty, c, Ids \ Inputs) : c \in Product(Inputs, LAMBDA i : Values(N(i).w))} :
     \A p \in Roots : ValueIn(m, p) = 1}

(* An engine answers sat only with a model of all roots, and unsat only if  *)
(* there is none (goto UNSAT of both engines, an empty set of candidates).  *)
AnswersSound ==
  /\ result = "sat" => \A p \in Roots : ValueIn(model, p) = 1
  /\ result = "unsat" => Solutions = {}

(* The last position of a segment is counted in the round after the one     *)
(* that passes the end of the word: for a word shorter than the segment     *)
(* there is no such round, as up - seg is negative in the first, and a      *)
(* uint32_t.  Without a limit on flips the loop then goes on for ever.      *)
SegmentsFit == f.o.segment => \A i \in Inputs : N(i).w >= SegBits

(* The search for the best neighbour comes to an end: every kind of move    *)
(* reaches the last position of every candidate (select_move), segments     *)
(* that of the candidates they fit in.                                      *)
SelectMoveEnds == (pc = "try" /\ SegmentsFit) ~> pc # "try"
=============================================================================
