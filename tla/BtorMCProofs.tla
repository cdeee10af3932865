---------------------------- MODULE BtorMCProofs ----------------------------
(* Machine-checked facts about BtorMC, for every transition system, every   *)
(* number of properties and every bound.                                    *)
EXTENDS BtorMC, BtorRecursion, FiniteSetTheorems, TLAPS

-----------------------------------------------------------------------------
(* Runs of the declared system, as sequences of points. *)

\* n points, each one allowed, each one after a point that it may follow.
Path(n) ==
  {path \in [1..n -> Point] :
     /\ \A j \in 1..n : path[j] \in constraint
     /\ \A j \in 1..(n - 1) : path[j + 1][1] \in next[path[j]]}

\* Those that start in an initial state.
Run(n) == {path \in Path(n) : path[1][1] \in init}

(* ReachAt is defined by recursion; the points in which runs end solve its  *)
(* equation, so that it is what the equation says.                          *)
Equation(R) ==
  R = [n \in Nat |->
         IF n = 0 THEN {p \in constraint : p[1] \in init}
         ELSE {q \in constraint : \E p \in R[n - 1] : q[1] \in next[p]}]

Ends == [n \in Nat |-> {path[n + 1] : path \in Run(n + 1)}]

\* A run of n + 1 points ends in bad state property b.
Violated(b, n) == \E run \in Run(n + 1) : run[n + 1] \in bad[b]

\* The shortest runs that do have n + 1 points.
Shortest(b, n) == Violated(b, n) /\ \A m \in Nat : m < n => ~Violated(b, m)

\* A path of n points that visits no state twice.
Simple(path, n) == \A j, l \in 1..n : j < l => path[j][1] # path[l][1]

-----------------------------------------------------------------------------
(* The inductive invariant.                                                 *)

Known == {b \in DOMAIN bad : reached[b] >= 0}

Typed ==
  /\ init \subseteq State
  /\ next \in [Point -> SUBSET State]
  /\ constraint \subseteq Point
  /\ bad \in Seq(SUBSET Point)
  /\ reached \in [DOMAIN bad -> Int]
  /\ opt \in [Option -> BOOLEAN]
  /\ state \in {NONE, SAT, UNSAT}
  /\ frames \in Nat
  /\ frame_bad \subseteq DOMAIN bad
  /\ assumed \in BOOLEAN
  /\ reachable \in BOOLEAN
  /\ pc \in {"idle", "loop", "check", "induct", "decide"}
  /\ call \in [mode : {"bmc", "kind"}, mink : Nat, maxk : Nat]
  /\ i \in Nat
  /\ proved \subseteq Known

(* Nothing is known of the system while it may still be declared: its       *)
(* frames are unrolled once and for all.                                    *)
Undecided ==
  /\ pc = "idle" /\ state = NONE => frames = 0
  /\ frames = 0 => Known = {} /\ gap = {} /\ pc \in {"idle", "loop"}

(* The forward instance holds paths only, from the initial states on unless *)
(* these are assumed, and it holds every simple one: the constraints that   *)
(* the model of some property gave rise to exclude no simple path.          *)
Unrolling ==
  frames > 0 =>
    /\ forward \subseteq Path(frames)
    /\ ~assumed => \A path \in forward : path[1][1] \in init
    /\ \A path \in Path(frames) :
         Simple(path, frames) /\ (assumed \/ path[1][1] \in init) => path \in forward

(* Where the loop over the properties of a frame stands.                    *)
Checking == pc \in {"check", "induct", "decide"}

Loop ==
  /\ pc = "induct" => i \in frame_bad /\ opt["kind"]
  /\ pc # "idle" /\ call.mode = "bmc" => ~opt["kind"]
  /\ Checking => Unreached \subseteq frame_bad
  /\ pc \in {"check", "induct"} => \A j \in frame_bad : j >= i => reached[j] < 0
  /\ Checking /\ reachable => \E j \in frame_bad : TRUE
  /\ Checking /\ reachable /\ ~opt["kind"] => state # NONE

(* At how many frames property b has been checked.                          *)
Checked(b) ==
  IF b < i \/ pc \notin {"check", "induct"} \/ (pc = "induct" /\ b = i)
    THEN frames ELSE frames - 1

(* If the shortest violations of b have at most n steps, b was left         *)
(* unchecked at their length.                                               *)
Missed(b, n) == \A m \in 0..n : Shortest(b, m) => <<b, m>> \in gap

(* What a recorded bound, and the lack of one, says of the system.          *)
Bounds ==
  /\ \A b \in Known \ proved :
       Violated(b, reached[b]) /\ Missed(b, reached[b] - 1)
  /\ \A b \in Unreached : Missed(b, Checked(b) - 1)
  /\ \A b \in proved : \A n \in Nat : assumed \/ n <= reached[b] => Missed(b, n)

Counted == IsFiniteSet(Known) /\ num_reached = Cardinality(Known)

(* The model of the last call of the solver is a violation found at the     *)
(* last frame.                                                              *)
Witnesses ==
  /\ model \in forward /\ model[1][1] \in init
  /\ \E b \in DOMAIN bad \ proved : reached[b] = k /\ model[frames] \in bad[b]

Witnessed ==
  /\ pc = "check" /\ state = SAT /\ (\E j \in frame_bad : j < i) => Witnesses
  /\ pc = "decide" /\ state = SAT /\ frame_bad # {} => Witnesses
  /\ pc = "idle" /\ state = SAT => Witnesses /\ result = k
  /\ pc = "loop" /\ call.mode = "kind" /\ state = SAT => Unreached # {}
  /\ Checking /\ call.mode = "kind" /\ state = SAT => frame_bad # {}
  /\ pc # "idle" => model2const = NoConst
  /\ pc = "idle" /\ state = SAT =>
       \A t \in DOMAIN model2const : model2const[t] = model[t + 1]

MCInv ==
  /\ Typed /\ Undecided /\ Unrolling
  /\ Loop /\ Bounds /\ Counted /\ Witnessed

-----------------------------------------------------------------------------
(* What runs are. *)

(* A run goes on with every point that may follow its last one, and every   *)
(* run of more than one point is such a continuation.                       *)
LEMMA RunExtends ==
  ASSUME constraint \subseteq Point, NEW n \in Nat, n > 0
  PROVE  Ends[n] = {q \in constraint : \E p \in Ends[n - 1] : q[1] \in next[p]}
<1>1. ASSUME NEW path \in Run(n + 1)
      PROVE  /\ path[n + 1] \in constraint
             /\ \E p \in Ends[n - 1] : path[n + 1][1] \in next[p]
  <2> DEFINE short == [j \in 1..n |-> path[j]]
  <2>1. /\ path \in [1..(n + 1) -> Point] /\ path[1][1] \in init
        /\ \A j \in 1..(n + 1) : path[j] \in constraint
        /\ \A j \in 1..n : path[j + 1][1] \in next[path[j]]
    BY DEF Run, Path
  <2>2. short \in Run(n)
    BY <2>1 DEF Run, Path
  <2>3. short[n] \in Ends[n - 1] /\ short[n] = path[n]
    BY <2>2 DEF Ends
  <2> QED
    BY <2>1, <2>3
<1>2. ASSUME NEW q \in constraint, NEW p \in Ends[n - 1], q[1] \in next[p]
      PROVE  q \in Ends[n]
  <2>1. PICK path \in Run(n) : p = path[n]
    BY <1>2 DEF Ends
  <2> DEFINE long == [j \in 1..(n + 1) |-> IF j = n + 1 THEN q ELSE path[j]]
  <2>2. /\ path \in [1..n -> Point] /\ path[1][1] \in init
        /\ \A j \in 1..n : path[j] \in constraint
        /\ \A j \in 1..(n - 1) : path[j + 1][1] \in next[path[j]]
    BY DEF Run, Path
  <2>3. long \in Run(n + 1) /\ long[n + 1] = q
    BY <1>2, <2>1, <2>2 DEF Run, Path
  <2> QED
    BY <2>3 DEF Ends
<1>3. Ends[n] = {path[n + 1] : path \in Run(n + 1)}
  BY DEF Ends
<1>4. Ends[n] \subseteq {q \in constraint : \E p \in Ends[n - 1] : q[1] \in next[p]}
  BY <1>1, <1>3
<1>5. {q \in constraint : \E p \in Ends[n - 1] : q[1] \in next[p]} \subseteq Ends[n]
  BY <1>2
<1> QED
  BY <1>4, <1>5

LEMMA RunStarts ==
  ASSUME constraint \subseteq Point
  PROVE  Ends[0] = {p \in constraint : p[1] \in init}
<1>1. Ends[0] = {path[1] : path \in Run(1)}
  BY DEF Ends
<1>2. ASSUME NEW p \in constraint, p[1] \in init
      PROVE  p \in Ends[0]
  <2> DEFINE one == [j \in 1..1 |-> p]
  <2>1. one \in Run(1) /\ one[1] = p
    BY <1>2 DEF Run, Path
  <2> QED
    BY <1>1, <2>1
<1>3. ASSUME NEW path \in Run(1)
      PROVE  path[1] \in constraint /\ path[1][1] \in init
  BY DEF Run, Path
<1> QED
  BY <1>1, <1>2, <1>3

(* So the points that ReachAt names are the last points of the runs.        *)
LEMMA EndsSolve ==
  ASSUME constraint \subseteq Point
  PROVE  Equation(Ends)
<1> DEFINE F == [n \in Nat |->
                   IF n = 0 THEN {p \in constraint : p[1] \in init}
                   ELSE {q \in constraint : \E p \in Ends[n - 1] : q[1] \in next[p]}]
<1>1. ASSUME NEW n \in Nat PROVE Ends[n] = F[n]
  <2>1. CASE n = 0
    BY <2>1, RunStarts
  <2>2. CASE n > 0
    <3>1. Ends[n] = {q \in constraint : \E p \in Ends[n - 1] : q[1] \in next[p]}
      BY <2>2, RunExtends
    <3>2. F[n] = {q \in constraint : \E p \in Ends[n - 1] : q[1] \in next[p]}
      BY <2>2
    <3> QED
      BY <3>1, <3>2
  <2> QED
    BY <2>1, <2>2
<1>2. Ends = [n \in Nat |-> Ends[n]]
  BY DEF Ends
<1>3. Ends = F
  BY <1>1, <1>2
<1> QED
  BY <1>3 DEF Equation

LEMMA ReachAtSolves ==
  ASSUME constraint \subseteq Point
  PROVE  Equation(ReachAt)
<1>1. ReachAt = CHOOSE R : Equation(R)
  BY DEF ReachAt, Equation
<1> QED
  BY <1>1, EndsSolve

LEMMA ReachAtEnds ==
  ASSUME constraint \subseteq Point, NEW n \in Nat
  PROVE  ReachAt[n] = Ends[n]
<1> DEFINE Wrong == {j \in Nat : ReachAt[j] # Ends[j]}
<1>1. SUFFICES ASSUME Wrong # {} PROVE FALSE
  OBVIOUS
<1>2. PICK j \in Wrong : \A l \in Wrong : j <= l
  BY <1>1, LeastNumber
<1>3. j = 0 \/ (j - 1 \in Nat /\ ReachAt[j - 1] = Ends[j - 1])
  BY <1>2
<1>4. ReachAt[j] = IF j = 0 THEN {p \in constraint : p[1] \in init}
                   ELSE {q \in constraint : \E p \in ReachAt[j - 1] : q[1] \in next[p]}
  <2>1. Equation(ReachAt)
    BY ReachAtSolves
  <2> HIDE DEF Wrong
  <2>2. j \in Nat
    BY <1>2 DEF Wrong
  <2> QED
    BY <2>1, <2>2 DEF Equation
<1>5. ReachAt[j] = Ends[j]
  <2>1. CASE j = 0
    BY <2>1, <1>4, RunStarts
  <2>2. CASE j > 0
    <3>1. Ends[j] = {q \in constraint : \E p \in Ends[j - 1] : q[1] \in next[p]}
      BY <2>2, RunExtends
    <3> QED
      BY <2>2, <1>3, <1>4, <3>1
  <2> QED
    BY <2>1, <2>2
<1> QED
  BY <1>2, <1>5

LEMMA HitsAtMeaning ==
  ASSUME constraint \subseteq Point, NEW b, NEW n \in Nat
  PROVE  HitsAt(b, n) <=> Violated(b, n)
<1>1. ReachAt[n] = {path[n + 1] : path \in Run(n + 1)}
  BY ReachAtEnds DEF Ends
<1> QED
  BY <1>1 DEF HitsAt, Violated

(* Cutting out the way from a state back to itself leaves a run, so a       *)
(* shortest violation visits no state twice.                                *)
LEMMA ShortestSimple ==
  ASSUME constraint \subseteq Point, NEW b, NEW n \in Nat,
         NEW run \in Run(n + 1), run[n + 1] \in bad[b],
         \A m \in Nat : m < n => ~Violated(b, m)
  PROVE  Simple(run, n + 1)
<1>1. SUFFICES ASSUME NEW j \in 1..(n + 1), NEW l \in 1..(n + 1), j < l,
                      run[j][1] = run[l][1]
               PROVE  FALSE
  BY DEF Simple
<1> DEFINE m == n - (l - j)
           cut == [x \in 1..(m + 1) |-> IF x < j THEN run[x] ELSE run[x + (l - j)]]
<1>2. m \in Nat /\ m < n
  BY <1>1
<1>3. /\ run \in [1..(n + 1) -> Point] /\ run[1][1] \in init
      /\ \A x \in 1..(n + 1) : run[x] \in constraint
      /\ \A x \in 1..n : run[x + 1][1] \in next[run[x]]
  BY DEF Run, Path
<1>0. \A x \in 1..(m + 1) : cut[x] = IF x < j THEN run[x] ELSE run[x + (l - j)]
  OBVIOUS
<1>4. cut \in [1..(m + 1) -> Point] /\ \A x \in 1..(m + 1) : cut[x] \in constraint
  BY <1>1, <1>2, <1>3
<1>5. ASSUME NEW x \in 1..m PROVE cut[x + 1][1] \in next[cut[x]]
  <2>0. x \in 1..(m + 1) /\ x + 1 \in 1..(m + 1) /\ x \in Nat
    BY <1>2
  <2> HIDE DEF cut
  <2>1. CASE x + 1 < j
    <3>1. cut[x] = run[x] /\ cut[x + 1] = run[x + 1]
      BY <2>0, <2>1, <1>0, <1>1
    <3> QED
      BY <3>1, <2>0, <2>1, <1>1, <1>3
  <2>2. CASE x + 1 = j
    <3>1. cut[x] = run[x] /\ cut[x + 1] = run[l]
      BY <2>0, <2>2, <1>0, <1>1
    <3>2. run[x + 1][1] \in next[run[x]] /\ run[x + 1] = run[j]
      BY <2>2, <1>1, <1>3
    <3> QED
      BY <3>1, <3>2, <1>1
  <2>3. CASE x + 1 > j
    <3>1. cut[x] = run[x + (l - j)] /\ cut[x + 1] = run[(x + (l - j)) + 1]
      BY <2>0, <2>3, <1>0, <1>1
    <3>2. x + (l - j) \in 1..n
      BY <2>3, <1>1, <1>2
    <3> QED
      BY <3>1, <3>2, <1>3
  <2> QED
    BY <2>1, <2>2, <2>3, <1>1
<1>6. cut[1][1] \in init
  BY <1>1, <1>2, <1>3
<1>7. cut[m + 1] = run[n + 1]
  BY <1>1, <1>2
<1>8. cut \in Run(m + 1)
  <2> HIDE DEF cut
  <2>1. \A x \in 1..((m + 1) - 1) : cut[x + 1][1] \in next[cut[x]]
    BY <1>2, <1>5
  <2> HIDE DEF m
  <2> QED
    BY <1>4, <1>6, <2>1 DEF Run, Path
<1>9. Violated(b, m)
  <2> HIDE DEF cut, m
  <2> QED
    BY <1>7, <1>8 DEF Violated
<1> QED
  BY <1>2, <1>9

(* The last points of a run are a path, and a simple one if the run is.     *)
LEMMA SuffixPath ==
  ASSUME constraint \subseteq Point, NEW n \in Nat, NEW run \in Run(n),
         NEW m \in 1..n, Simple(run, n)
  PROVE  LET last == [x \in 1..m |-> run[x + (n - m)]]
         IN  last \in Path(m) /\ Simple(last, m) /\ last[m] = run[n]
<1> DEFINE last == [x \in 1..m |-> run[x + (n - m)]]
<1>1. /\ run \in [1..n -> Point]
      /\ \A x \in 1..n : run[x] \in constraint
      /\ \A x \in 1..(n - 1) : run[x + 1][1] \in next[run[x]]
  BY DEF Run, Path
<1>2. last \in [1..m -> Point] /\ \A x \in 1..m : last[x] \in constraint
  BY <1>1
<1>3. ASSUME NEW x \in 1..(m - 1) PROVE last[x + 1][1] \in next[last[x]]
  <2>1. last[x] = run[x + (n - m)] /\ last[x + 1] = run[(x + (n - m)) + 1]
    OBVIOUS
  <2>2. x + (n - m) \in 1..(n - 1)
    OBVIOUS
  <2> QED
    BY <1>1, <2>1, <2>2
<1>4. last \in Path(m)
  <2> HIDE DEF last
  <2> QED
    BY <1>2, <1>3 DEF Path
<1>5. Simple(last, m)
  BY DEF Simple
<1> QED
  BY <1>4, <1>5

-----------------------------------------------------------------------------
(* Every step preserves the invariant: its parts one after another. *)

LEMMA Indices ==
  ASSUME Typed
  PROVE  DOMAIN bad = 1..Len(bad) /\ Len(bad) \in Nat /\ DOMAIN bad \subseteq Nat
BY DEF Typed

LEMMA TypedStep ==
  ASSUME MCInv, [Next]_vars
  PROVE  Typed'
<1>1. Typed /\ Unreached = {b \in DOMAIN bad : reached[b] < 0}
  BY DEF MCInv, Unreached
<1>2. DOMAIN bad = 1..Len(bad) /\ Len(bad) \in Nat /\ bad \in Seq(SUBSET Point)
  BY <1>1 DEF Typed
<1> USE DEF Typed, Known, sysVars, runVars
<1>3. CASE UNCHANGED vars
  BY <1>1, <1>3 DEF vars
<1>4. ASSUME NEW S \in Inits, DeclareInit(S) PROVE Typed'
  BY <1>1, <1>4, SystemAssumption DEF DeclareInit
<1>5. ASSUME NEW f \in Nexts, DeclareNext(f) PROVE Typed'
  BY <1>1, <1>5, SystemAssumption DEF DeclareNext
<1>6. ASSUME NEW b \in Bads, DeclareBad(b) PROVE Typed'
  <2>1. /\ bad' \in Seq(SUBSET Point) /\ DOMAIN bad' = 1..(Len(bad) + 1)
        /\ reached' \in Seq(Int) /\ DOMAIN reached' = 1..(Len(bad) + 1)
        /\ \A j \in DOMAIN bad : reached'[j] = reached[j]
    <3>1. b \in SUBSET Point
      BY SystemAssumption
    <3>2. reached \in Seq(Int) /\ Len(reached) = Len(bad)
      BY <1>1, <1>2
    <3>3. bad' = Append(bad, b) /\ reached' = Append(reached, -1)
      BY <1>6 DEF DeclareBad
    <3> HIDE DEF Typed
    <3> QED
      BY <1>2, <3>1, <3>2, <3>3
  <2>2. UNCHANGED <<init, next, constraint, runVars, opt, state, model2const, pc, call,
                    result>>
    BY <1>6 DEF DeclareBad
  <2>3. reached' \in [DOMAIN bad' -> Int]
    BY <2>1
  <2>4. proved \subseteq Known' /\ DOMAIN bad \subseteq DOMAIN bad'
    BY <1>1, <1>2, <2>1
  <2> QED
    BY <1>1, <2>1, <2>2, <2>3, <2>4
<1>7. ASSUME NEW c \in Constraints, DeclareConstraint(c) PROVE Typed'
  BY <1>1, <1>7 DEF DeclareConstraint
<1>8. ASSUME NEW o \in Option, SetOpt(o) PROVE Typed'
  BY <1>1, <1>8 DEF SetOpt
<1>9. ASSUME NEW mode \in {"bmc", "kind"}, NEW mink \in MinBounds, NEW maxk \in MaxBounds,
             Call(mode, mink, maxk)
      PROVE  Typed'
  BY <1>1, <1>9, SystemAssumption DEF Call
<1>10. ASSUME NEW t \in ReadTimes, Assignment(t) PROVE Typed'
  BY <1>1, <1>10 DEF Assignment
<1>11. CASE InitializeNewForwardFrame
  <2>1. /\ UNCHANGED <<sysVars, opt, state, reached, num_reached, model2const, call,
                       result, proved>>
        /\ frame_bad' = Unreached /\ frames' = frames + 1 /\ i' = 1
        /\ reachable' = FALSE
    BY <1>11 DEF InitializeNewForwardFrame
  <2>2. pc' \in {"loop", "check"} /\ assumed' \in BOOLEAN
    BY <1>1, <1>11 DEF InitializeNewForwardFrame, Option
  <2>3. frame_bad' \subseteq DOMAIN bad'
    <3>1. Unreached \subseteq DOMAIN bad /\ bad' = bad
      BY <1>1, <2>1
    <3> QED
      BY <2>1, <3>1
  <2>4. frames' \in Nat /\ i' \in Nat
    BY <1>1, <2>1
  <2>6. reachable' \in BOOLEAN
    BY <2>1, Zenon
  <2>5. pc' \in {"idle", "loop", "check", "induct", "decide"}
    BY <2>2
  <2> QED
    BY <1>1, <2>1, <2>2, <2>3, <2>4, <2>5, <2>6
<1>12. CASE SkipBad
  BY <1>1, <1>12 DEF SkipBad
<1>13. CASE ReachBad
  <2>1. reached' = [reached EXCEPT ![i] = frames - 1] /\ bad' = bad /\ frames > 0
        /\ i \in DOMAIN bad
    BY <1>1, <1>13 DEF ReachBad, k, MCInv, Undecided
  <2>2. Known \subseteq Known' /\ reached' \in [DOMAIN bad -> Int]
    BY <1>1, <2>1
  <2> QED
    BY <1>1, <1>13, <2>2 DEF ReachBad
<1>14. CASE BaseUnsat
  BY <1>1, <1>14 DEF BaseUnsat
<1>15. CASE InductionFails
  <2>1. UNCHANGED <<sysVars, opt, reached, num_reached, frames, frame_bad, assumed,
                    model2const, call, reachable, result, proved, gap>>
    BY <1>15 DEF InductionFails
  <2>2. \/ pc' = pc /\ state' = state /\ i' = i
        \/ pc' = "check" /\ state' = NONE /\ i' = i + 1
    BY <1>15 DEF InductionFails
  <2> QED
    BY <1>1, <2>1, <2>2
<1>16. CASE InductionHolds
  <2>1. reached' = [reached EXCEPT ![i] = frames - 1] /\ bad' = bad /\ frames > 0
        /\ i \in DOMAIN bad
    BY <1>1, <1>16 DEF InductionHolds, k, MCInv, Undecided, Loop
  <2>2. Known' = Known \cup {i} /\ reached' \in [DOMAIN bad -> Int]
    BY <1>1, <2>1
  <2> QED
    BY <1>1, <1>16, <2>2 DEF InductionHolds
<1>17. CASE CheckDone
  BY <1>1, <1>17 DEF CheckDone
<1>18. CASE Return
  BY <1>1, <1>18 DEF Return
<1>19. CASE NextBound
  BY <1>1, <1>19 DEF NextBound
<1>20. CASE BoundsExhausted
  BY <1>1, <1>20 DEF BoundsExhausted
<1> QED
  BY <1>3, <1>4, <1>5, <1>6, <1>7, <1>8, <1>9, <1>10, <1>11, <1>12, <1>13, <1>14,
     <1>15, <1>16, <1>17, <1>18, <1>19, <1>20 DEF Next, CheckStep

(* The system is declared before there are frames, and the bounds of the    *)
(* properties that were reached or proved are not negative.                 *)
LEMMA UndecidedStep ==
  ASSUME MCInv, [Next]_vars
  PROVE  Undecided' /\ (frames > 0 => UNCHANGED sysVars)
<1> DEFINE Goal == Undecided' /\ (frames > 0 => UNCHANGED sysVars)
<1>1. Typed /\ Undecided /\ Loop
  BY DEF MCInv
<1> USE DEF Undecided, sysVars, runVars, Known
<1>3. CASE UNCHANGED vars
  BY <1>1, <1>3 DEF vars
<1>4. ASSUME NEW S \in Inits, DeclareInit(S) PROVE Goal
  BY <1>1, <1>4 DEF DeclareInit, MayDeclare
<1>5. ASSUME NEW f \in Nexts, DeclareNext(f) PROVE Goal
  BY <1>1, <1>5 DEF DeclareNext, MayDeclare
<1>6. ASSUME NEW b \in Bads, DeclareBad(b) PROVE Goal
  <2>1. frames = 0 /\ Known = {} /\ gap = {} /\ pc = "idle"
    BY <1>1, <1>6 DEF DeclareBad, MayDeclare
  <2>2. Known' = {}
    <3>1. /\ reached \in Seq(Int) /\ Len(reached) = Len(bad) /\ Len(bad) \in Nat
          /\ DOMAIN bad = 1..Len(bad) /\ bad \in Seq(SUBSET Point)
      BY <1>1 DEF Typed
    <3>2. /\ reached' = Append(reached, -1) /\ bad' = Append(bad, b)
          /\ b \in SUBSET Point
      BY <1>6, SystemAssumption DEF DeclareBad
    <3>3. /\ DOMAIN bad' = 1..(Len(bad) + 1) /\ reached'[Len(bad) + 1] = -1
          /\ \A j \in DOMAIN bad : reached'[j] = reached[j]
      BY <3>1, <3>2
    <3> QED
      BY <2>1, <3>1, <3>3
  <2>3. UNCHANGED <<frames, gap, pc>>
    BY <1>6 DEF DeclareBad
  <2> HIDE DEF Known
  <2> QED
    BY <2>1, <2>2, <2>3
<1>7. ASSUME NEW c \in Constraints, DeclareConstraint(c) PROVE Goal
  BY <1>1, <1>7 DEF DeclareConstraint, MayDeclare
<1>8. ASSUME NEW o \in Option, SetOpt(o) PROVE Goal
  BY <1>1, <1>8 DEF SetOpt
<1>9. ASSUME NEW mode \in {"bmc", "kind"}, NEW mink \in MinBounds, NEW maxk \in MaxBounds,
             Call(mode, mink, maxk)
      PROVE  Goal
  BY <1>1, <1>9 DEF Call
<1>10. ASSUME NEW t \in ReadTimes, Assignment(t) PROVE Goal
  BY <1>1, <1>10 DEF Assignment, SAT, NONE
<1>11. CASE InitializeNewForwardFrame
  <2>1. frames' = frames + 1 /\ frames \in Nat /\ pc' # "idle" /\ UNCHANGED sysVars
    BY <1>1, <1>11 DEF InitializeNewForwardFrame, Typed
  <2> QED
    BY <2>1
<1>12. CASE SkipBad
  BY <1>1, <1>12 DEF SkipBad
<1>13. CASE ReachBad
  <2>1. pc' # "idle" /\ frames' = frames /\ frames # 0 /\ UNCHANGED sysVars
    BY <1>1, <1>13 DEF ReachBad
  <2> QED
    BY <2>1
<1>14. CASE BaseUnsat
  BY <1>1, <1>14 DEF BaseUnsat
<1>15. CASE InductionFails
  <2>1. pc' # "idle" /\ frames' = frames /\ frames # 0 /\ UNCHANGED sysVars
    BY <1>1, <1>15 DEF InductionFails
  <2> QED
    BY <2>1
<1>16. CASE InductionHolds
  <2>1. pc' # "idle" /\ frames' = frames /\ frames # 0 /\ UNCHANGED sysVars
    BY <1>1, <1>16 DEF InductionHolds
  <2> QED
    BY <2>1
<1>17. CASE CheckDone
  BY <1>1, <1>17 DEF CheckDone
<1>18. CASE Return
  <2>1. state # NONE
    BY <1>1, <1>18 DEF Return, Decided, Loop, Checking, Typed
  <2> QED
    BY <1>1, <1>18, <2>1 DEF Return
<1>19. CASE NextBound
  BY <1>1, <1>19 DEF NextBound
<1>20. CASE BoundsExhausted
  BY <1>1, <1>20 DEF BoundsExhausted, NONE, UNSAT
<1> QED
  BY <1>3, <1>4, <1>5, <1>6, <1>7, <1>8, <1>9, <1>10, <1>11, <1>12, <1>13, <1>14,
     <1>15, <1>16, <1>17, <1>18, <1>19, <1>20 DEF Next, CheckStep

(* Declarations, options, calls and readings change none of the fields that *)
(* the loop over the frames keeps.                                          *)
UserStep ==
  \/ \E S \in Inits : DeclareInit(S)
  \/ \E f \in Nexts : DeclareNext(f)
  \/ \E b \in Bads : DeclareBad(b)
  \/ \E c \in Constraints : DeclareConstraint(c)
  \/ \E o \in Option : SetOpt(o)
  \/ \E t \in ReadTimes : Assignment(t)

LEMMA UserSteps ==
  ASSUME UserStep
  PROVE  /\ pc = "idle" /\ UNCHANGED <<runVars, state, pc, call, result>>
         /\ MayDeclare \/ UNCHANGED <<sysVars, reached>>
         /\ UNCHANGED opt \/ UNCHANGED <<sysVars, reached, model2const>>
<1> USE DEF sysVars, MayDeclare
<1> QED
  BY DEF UserStep, DeclareInit, DeclareNext, DeclareBad, DeclareConstraint, SetOpt,
         Assignment

LEMMA LoopStep ==
  ASSUME MCInv, [Next]_vars
  PROVE  Loop'
<1>1. Typed /\ Undecided /\ Loop /\ Typed'
  BY TypedStep DEF MCInv
<1> USE DEF Loop, Checking, Unreached
<1>3. CASE UNCHANGED vars
  BY <1>1, <1>3 DEF vars, sysVars, runVars
<1>4. CASE UserStep
  <2>1. pc' = "idle"
    BY <1>4, UserSteps
  <2> QED
    BY <2>1
<1>9. ASSUME NEW mode \in {"bmc", "kind"}, NEW mink \in MinBounds, NEW maxk \in MaxBounds,
             Call(mode, mink, maxk)
      PROVE  Loop'
  <2>1. pc' = "loop" /\ call'.mode = mode /\ <<mode, opt["kind"]>> \in Calls /\ opt' = opt
    BY <1>9 DEF Call
  <2>2. mode = "bmc" => ~opt["kind"]
    BY <1>1, <2>1, UsageAssumption DEF Typed, Option
  <2> QED
    BY <2>1, <2>2
<1>11. CASE InitializeNewForwardFrame
  <2>1. /\ pc = "loop" /\ pc' \in {"loop", "check"} /\ UNCHANGED <<call, opt, bad, reached>>
        /\ frame_bad' = Unreached /\ i' = 1 /\ reachable' = FALSE
    BY <1>11 DEF InitializeNewForwardFrame, sysVars
  <2>2. \A j \in frame_bad' : reached'[j] < 0
    BY <2>1
  <2>3. Unreached' \subseteq frame_bad'
    BY <2>1
  <2>4. call'.mode = "bmc" => ~opt'["kind"]
    BY <1>1, <2>1
  <2> QED
    BY <2>1, <2>2, <2>3, <2>4
<1>12. CASE SkipBad
  <2>1. /\ pc = "check" /\ i' = i + 1 /\ i \notin frame_bad
        /\ UNCHANGED <<pc, frame_bad, opt, call, bad, reached, reachable, state>>
    BY <1>12 DEF SkipBad, sysVars
  <2>2. \A j \in frame_bad : j >= i + 1 => j >= i
    BY <1>1 DEF Typed
  <2> QED
    BY <1>1, <2>1, <2>2
<1>13. CASE ReachBad
  <2>1. /\ pc = "check" /\ i \in frame_bad /\ state' = SAT
        /\ pc' \in {"check", "decide"} /\ (pc' = "check" => i' = i + 1)
        /\ reached' = [reached EXCEPT ![i] = frames - 1]
        /\ UNCHANGED <<frame_bad, opt, call, bad>>
    BY <1>13 DEF ReachBad, sysVars, k
  <2>2. /\ frames > 0 /\ frames \in Nat /\ i \in DOMAIN bad
        /\ reached \in [DOMAIN bad -> Int] /\ DOMAIN bad \subseteq Nat
        /\ i \in Nat /\ frame_bad \subseteq DOMAIN bad
    BY <1>1, <2>1, Indices DEF Typed, Undecided
  <2>3. Unreached' \subseteq Unreached
    BY <2>1, <2>2
  <2>4. \A j \in frame_bad : j >= i + 1 => reached'[j] < 0
    BY <1>1, <2>1, <2>2
  <2> QED
    BY <1>1, <2>1, <2>3, <2>4 DEF SAT, NONE
<1>14. CASE BaseUnsat
  <2>1. /\ pc = "check" /\ i \in frame_bad
        /\ UNCHANGED <<frame_bad, opt, call, bad, reached, reachable>>
        /\ \/ opt["kind"] /\ pc' = "induct" /\ UNCHANGED <<i, state>>
           \/ ~opt["kind"] /\ pc' = pc /\ i' = i + 1 /\ state' = UNSAT
    BY <1>14 DEF BaseUnsat, sysVars
  <2>2. \A j \in frame_bad : j >= i + 1 => j >= i
    BY <1>1 DEF Typed
  <2> QED
    BY <1>1, <2>1, <2>2 DEF NONE, UNSAT
<1>15. CASE InductionFails
  <2>1. /\ pc = "induct" /\ UNCHANGED <<frame_bad, opt, call, bad, reached, reachable>>
        /\ \/ UNCHANGED <<pc, i, state>>
           \/ pc' = "check" /\ i' = i + 1
    BY <1>15 DEF InductionFails, sysVars
  <2>2. \A j \in frame_bad : j >= i + 1 => j >= i
    BY <1>1 DEF Typed
  <2> QED
    BY <1>1, <2>1, <2>2
<1>16. CASE InductionHolds
  <2>1. /\ pc = "induct" /\ pc' = "check" /\ i' = i + 1 /\ i \in frame_bad /\ opt["kind"]
        /\ reached' = [reached EXCEPT ![i] = frames - 1]
        /\ UNCHANGED <<frame_bad, opt, call, bad, reachable>>
    BY <1>1, <1>16 DEF InductionHolds, sysVars, k
  <2>2. /\ frames > 0 /\ frames \in Nat /\ i \in DOMAIN bad
        /\ reached \in [DOMAIN bad -> Int] /\ DOMAIN bad \subseteq Nat
        /\ i \in Nat /\ frame_bad \subseteq DOMAIN bad
    BY <1>1, <2>1, Indices DEF Typed, Undecided
  <2>3. Unreached' \subseteq Unreached
    BY <2>1, <2>2
  <2>4. \A j \in frame_bad : j >= i + 1 => reached'[j] < 0
    BY <1>1, <2>1, <2>2
  <2> QED
    BY <1>1, <2>1, <2>3, <2>4
<1>17. CASE CheckDone
  BY <1>1, <1>17 DEF CheckDone, runVars, sysVars
<1>18. CASE Return
  BY <1>1, <1>18 DEF Return
<1>19. CASE NextBound
  BY <1>1, <1>19 DEF NextBound
<1>20. CASE BoundsExhausted
  BY <1>1, <1>20 DEF BoundsExhausted
<1> QED
  BY <1>3, <1>4, <1>9, <1>11, <1>12, <1>13, <1>14, <1>15, <1>16, <1>17, <1>18, <1>19, <1>20
  DEF Next, CheckStep, UserStep

(* The runs of the system depend on its declaration only.                   *)
LEMMA SameSystem ==
  ASSUME UNCHANGED sysVars
  PROVE  /\ \A n : Path(n)' = Path(n)
         /\ \A n : Run(n)' = Run(n)
         /\ \A b, n : Violated(b, n)' <=> Violated(b, n)
         /\ \A b, n : Shortest(b, n)' <=> Shortest(b, n)
<1>1. init' = init /\ next' = next /\ constraint' = constraint /\ bad' = bad
  BY DEF sysVars
<1>2. ASSUME NEW n PROVE Path(n)' = Path(n)
  BY <1>1 DEF Path
<1>3. ASSUME NEW n PROVE Run(n)' = Run(n)
  BY <1>1, <1>2 DEF Run
<1>4. ASSUME NEW b, NEW n PROVE Violated(b, n)' <=> Violated(b, n)
  <2>1. Run(n + 1)' = Run(n + 1)
    BY <1>3
  <2> QED
    BY <1>1, <2>1 DEF Violated
<1>5. ASSUME NEW b, NEW n PROVE Shortest(b, n)' <=> Shortest(b, n)
  BY <1>4 DEF Shortest
<1> QED
  BY <1>2, <1>3, <1>4, <1>5

(* The steps that extend or restrict the unrolling.                         *)
LEMMA UnrollingSteps ==
  ASSUME [Next]_vars
  PROVE  \/ InitializeNewForwardFrame
         \/ InductionFails
         \/ UNCHANGED <<frames, forward, assumed>>
<1> USE DEF runVars
<1>1. CASE UNCHANGED vars
  BY <1>1 DEF vars
<1>2. CASE UserStep
  BY <1>2, UserSteps
<1>3. ASSUME NEW mode, NEW mink, NEW maxk, Call(mode, mink, maxk)
      PROVE  UNCHANGED <<frames, forward, assumed>>
  BY <1>3 DEF Call
<1>4. CASE CheckStep
  BY <1>4 DEF CheckStep, SkipBad, ReachBad, BaseUnsat, InductionHolds, CheckDone, Return,
              NextBound, BoundsExhausted
<1> QED
  BY <1>1, <1>2, <1>3, <1>4 DEF Next, UserStep

LEMMA AppendPath ==
  ASSUME NEW n \in Nat, NEW path \in [1..n -> Point], NEW p \in Point
  PROVE  /\ Append(path, p) \in [1..(n + 1) -> Point]
         /\ \A x \in 1..n : Append(path, p)[x] = path[x]
         /\ Append(path, p)[n + 1] = p
<1>1. path \in Seq(Point) /\ Len(path) = n
  OBVIOUS
<1>2. Append(path, p) \in Seq(Point) /\ Len(Append(path, p)) = n + 1
  BY <1>1
<1>3. /\ \A x \in 1..n : Append(path, p)[x] = path[x]
      /\ Append(path, p)[n + 1] = p
  BY <1>1
<1> DEFINE long == Append(path, p)
<1> HIDE DEF long
<1>4. long \in [1..(n + 1) -> Point]
  <2>1. long \in Seq(Point) /\ Len(long) = n + 1
    BY <1>2 DEF long
  <2> QED
    BY <2>1
<1> QED
  BY <1>3, <1>4 DEF long

(* The new frame continues the paths of the instance by every point that    *)
(* may follow, so it holds every simple path that is one point longer.      *)
LEMMA FrameUnrolls ==
  ASSUME MCInv, InitializeNewForwardFrame
  PROVE  Unrolling'
<1>1. Typed /\ Undecided /\ Unrolling
  BY DEF MCInv
<1>2. /\ frames' = frames + 1 /\ forward' = Unrolled /\ UNCHANGED sysVars /\ opt' = opt
      /\ assumed' = IF frames = 0 THEN opt["kind"] ELSE assumed
  BY DEF InitializeNewForwardFrame
<1>3. /\ \A n : Path(n)' = Path(n)
      /\ init' = init /\ constraint \subseteq Point /\ frames \in Nat
  BY <1>1, <1>2, SameSystem DEF sysVars, Typed
<1>5. CASE frames = 0
  <2>1. forward' = {<<p>> : p \in FirstPoints} /\ frames' = 1
    BY <1>2, <1>5 DEF Unrolled
  <2>2. ASSUME NEW p \in FirstPoints
        PROVE  <<p>> \in Path(1) /\ (opt["kind"] \/ <<p>>[1][1] \in init)
    BY <1>3 DEF FirstPoints, Path
  <2>3. ASSUME NEW path \in Path(1), opt["kind"] \/ path[1][1] \in init
        PROVE  path \in forward'
    <3>1. path \in [1..1 -> Point] /\ path[1] \in FirstPoints
      BY <2>3 DEF Path, FirstPoints
    <3>2. path = <<path[1]>>
      BY <3>1
    <3> QED
      BY <2>1, <3>1, <3>2
  <2>4. forward' \subseteq Path(1)
    BY <2>1, <2>2
  <2>5. ~assumed' => \A path \in forward' : path[1][1] \in init'
    BY <1>2, <1>3, <1>5, <2>1, <2>2
  <2>6. \A path \in Path(1) : assumed' \/ path[1][1] \in init' => path \in forward'
    BY <1>2, <1>3, <1>5, <2>3
  <2>7. Path(frames)' = Path(1)
    BY <1>3, <2>1
  <2> QED
    BY <2>1, <2>4, <2>5, <2>6, <2>7 DEF Unrolling
<1>6. CASE frames > 0
  <2>1. forward' = UNION {{Append(path, p) : p \in {q \in constraint : q[1] \in next[path[frames]]}}
                  : path \in forward}
    BY <1>2, <1>6 DEF Unrolled
  <2>2. ASSUME NEW path \in forward, NEW p \in constraint, p[1] \in next[path[frames]]
        PROVE  /\ Append(path, p) \in Path(frames + 1)
               /\ ~assumed => Append(path, p)[1][1] \in init
    <3>1. path \in Path(frames) /\ (~assumed => path[1][1] \in init)
      BY <1>1, <1>6 DEF Unrolling
    <3>2. /\ path \in [1..frames -> Point]
          /\ \A j \in 1..frames : path[j] \in constraint
          /\ \A j \in 1..(frames - 1) : path[j + 1][1] \in next[path[j]]
      BY <3>1 DEF Path
    <3>3. /\ Append(path, p) \in [1..(frames + 1) -> Point]
          /\ \A x \in 1..frames : Append(path, p)[x] = path[x]
          /\ Append(path, p)[frames + 1] = p
      BY <1>3, <3>2, AppendPath
    <3> DEFINE long == Append(path, p)
    <3> HIDE DEF long
    <3>4. \A j \in 1..(frames + 1) : long[j] \in constraint
      BY <1>3, <3>2, <3>3 DEF long
    <3>5. \A j \in 1..frames : long[j + 1][1] \in next[long[j]]
      <4>1. ASSUME NEW j \in 1..frames PROVE long[j + 1][1] \in next[long[j]]
        <5>1. CASE j = frames
          BY <5>1, <2>2, <1>3, <1>6, <3>3 DEF long
        <5>2. CASE j < frames
          <6>1. j \in 1..(frames - 1) /\ j + 1 \in 1..frames
            BY <5>2, <1>3
          <6>2. long[j] = path[j] /\ long[j + 1] = path[j + 1]
            BY <6>1, <3>3 DEF long
          <6> QED
            BY <6>1, <6>2, <3>2
        <5> QED
          BY <5>1, <5>2, <1>3
      <4> QED
        BY <4>1
    <3>6. long[1] = path[1]
      BY <1>3, <1>6, <3>3 DEF long
    <3>7. long \in Path(frames + 1)
      <4>1. long \in [1..(frames + 1) -> Point]
        BY <3>3 DEF long
      <4>2. \A j \in 1..((frames + 1) - 1) : long[j + 1][1] \in next[long[j]]
        BY <1>3, <3>5
      <4> QED
        BY <4>1, <4>2, <3>4 DEF Path
    <3> QED
      BY <3>1, <3>6, <3>7 DEF long
  <2>3. ASSUME NEW path \in Path(frames + 1), Simple(path, frames + 1),
               assumed \/ path[1][1] \in init
        PROVE  path \in forward'
    <3> DEFINE short == [x \in 1..frames |-> path[x]]
    <3>1. /\ path \in [1..(frames + 1) -> Point]
          /\ \A j \in 1..(frames + 1) : path[j] \in constraint
          /\ \A j \in 1..frames : path[j + 1][1] \in next[path[j]]
      BY <1>3 DEF Path
    <3>2. short \in Path(frames)
      BY <1>3, <3>1 DEF Path
    <3>3. Simple(short, frames)
      BY <1>3, <2>3 DEF Simple
    <3>4. short[1] = path[1] /\ short[frames] = path[frames]
      BY <1>3, <1>6
    <3>5. short \in forward
      <4> HIDE DEF short
      <4> QED
        BY <1>1, <1>6, <2>3, <3>2, <3>3, <3>4 DEF Unrolling
    <3>6. path = Append(short, path[frames + 1])
      <4>1. /\ short \in [1..frames -> Point] /\ path[frames + 1] \in Point
            /\ \A x \in 1..frames : short[x] = path[x]
        BY <1>3, <3>1
      <4> HIDE DEF short
      <4>2. /\ Append(short, path[frames + 1]) \in [1..(frames + 1) -> Point]
            /\ \A x \in 1..frames : Append(short, path[frames + 1])[x] = short[x]
            /\ Append(short, path[frames + 1])[frames + 1] = path[frames + 1]
        BY <1>3, <4>1, AppendPath
      <4> DEFINE long == Append(short, path[frames + 1])
      <4> HIDE DEF long
      <4>3. \A x \in 1..(frames + 1) : long[x] = path[x]
        BY <1>3, <4>1, <4>2 DEF long
      <4>4. long \in [1..(frames + 1) -> Point]
        BY <4>2 DEF long
      <4>5. path = long
        <5>1. path = [x \in 1..(frames + 1) |-> path[x]]
          BY <3>1
        <5>2. long = [x \in 1..(frames + 1) |-> long[x]]
          BY <4>4
        <5> QED
          BY <4>3, <5>1, <5>2
      <4> QED
        BY <4>5 DEF long
    <3>7. path[frames + 1] \in constraint /\ path[frames + 1][1] \in next[short[frames]]
      BY <1>3, <1>6, <3>1, <3>4
    <3> HIDE DEF short
    <3> QED
      BY <2>1, <3>5, <3>6, <3>7
  <2>7. ASSUME NEW long \in forward'
        PROVE  long \in Path(frames + 1) /\ (~assumed => long[1][1] \in init)
    <3>1. PICK path \in forward :
            long \in {Append(path, p) : p \in {q \in constraint : q[1] \in next[path[frames]]}}
      BY <2>1, <2>7
    <3>2. PICK p \in constraint : p[1] \in next[path[frames]] /\ long = Append(path, p)
      BY <3>1
    <3> QED
      BY <2>2, <3>2
  <2>4. forward' \subseteq Path(frames + 1)
    BY <2>7
  <2>5. ~assumed => \A path \in forward' : path[1][1] \in init
    BY <2>7
  <2>6. assumed' = assumed /\ Path(frames)' = Path(frames + 1)
    BY <1>2, <1>3, <1>6
  <2> QED
    BY <1>2, <1>3, <2>3, <2>4, <2>5, <2>6 DEF Unrolling, Simple
<1> QED
  BY <1>3, <1>5, <1>6

(* A simple path constraint removes no simple path.                         *)
LEMMA ConstraintsKeepSimple ==
  ASSUME MCInv, InductionFails
  PROVE  Unrolling'
<1>1. Typed /\ Undecided /\ Unrolling
  BY DEF MCInv
<1>2. /\ UNCHANGED <<sysVars, frames, assumed, opt>>
      /\ pc = "induct"
      /\ \/ forward' = forward
         \/ \E m : forward' = {path \in forward : Repeats(path) \cap Repeats(m) = {}}
  BY DEF InductionFails, AddSimplePathConstraints
<1>3. frames > 0 /\ frames \in Nat
  BY <1>1, <1>2 DEF Typed, Undecided
<1>4. /\ Path(frames)' = Path(frames) /\ init' = init /\ assumed' = assumed
      /\ opt' = opt /\ frames' = frames
  BY <1>2, SameSystem DEF sysVars
<1>5. \A path : Simple(path, frames) => Repeats(path) = {}
  BY <1>3 DEF Simple, Repeats
<1>6. forward' \subseteq forward
  BY <1>2
<1>7. \A path \in forward : Simple(path, frames) => path \in forward'
  BY <1>2, <1>5
<1> QED
  BY <1>1, <1>3, <1>4, <1>6, <1>7 DEF Unrolling, Simple

LEMMA UnrollingStep ==
  ASSUME MCInv, [Next]_vars
  PROVE  Unrolling'
<1>1. CASE InitializeNewForwardFrame
  BY <1>1, FrameUnrolls
<1>2. CASE InductionFails
  BY <1>2, ConstraintsKeepSimple
<1>3. CASE UNCHANGED <<frames, forward, assumed>>
  <2>1. SUFFICES ASSUME frames > 0 PROVE Unrolling'
    BY <1>3 DEF Unrolling
  <2>2. UNCHANGED sysVars
    BY <2>1, UndecidedStep
  <2>3. Path(frames)' = Path(frames) /\ init' = init
    BY <1>3, <2>2, SameSystem DEF sysVars
  <2>4. Unrolling
    BY DEF MCInv
  <2> QED
    BY <1>3, <2>1, <2>3, <2>4 DEF Unrolling, Simple
<1> QED
  BY <1>1, <1>2, <1>3, UnrollingSteps

(* Recording a bound: the property had none, and no other one changes.      *)
LEMMA Recorded ==
  ASSUME MCInv, ReachBad \/ InductionHolds
  PROVE  /\ i \in DOMAIN bad /\ i \in Unreached /\ i \in frame_bad
         /\ frames \in Nat /\ frames > 0 /\ UNCHANGED <<sysVars, frames, frame_bad>>
         /\ reached'[i] = frames - 1
         /\ \A b \in DOMAIN bad : b # i => reached'[b] = reached[b]
         /\ Known' = Known \cup {i} /\ i \notin Known
         /\ Unreached' = Unreached \ {i}
<1>1. Typed /\ Undecided /\ Loop
  BY DEF MCInv
<1>2. /\ pc \in {"check", "induct"} /\ i \in frame_bad
      /\ reached' = [reached EXCEPT ![i] = frames - 1]
      /\ UNCHANGED <<sysVars, frames, frame_bad>> /\ bad' = bad
  BY <1>1 DEF ReachBad, InductionHolds, k, sysVars, Loop
<1>3. /\ frames > 0 /\ frames \in Nat /\ i \in DOMAIN bad /\ i \in Nat
      /\ reached \in [DOMAIN bad -> Int]
  BY <1>1, <1>2, Indices DEF Typed, Undecided
<1>4. reached[i] < 0
  BY <1>1, <1>2, <1>3 DEF Loop
<1>5. /\ reached'[i] = frames - 1
      /\ \A b \in DOMAIN bad : b # i => reached'[b] = reached[b]
  BY <1>2, <1>3
<1>6. Known' = Known \cup {i} /\ i \notin Known
  BY <1>2, <1>3, <1>4, <1>5 DEF Known
<1>7. Unreached' = Unreached \ {i} /\ i \in Unreached
  BY <1>2, <1>3, <1>4, <1>5 DEF Unreached
<1> QED
  BY <1>2, <1>3, <1>5, <1>6, <1>7

(* A model of the base case is a run that violates the property.            *)
LEMMA BaseModelViolates ==
  ASSUME MCInv, pc \in {"check", "induct"}, NEW b, NEW m \in BaseModels(b)
  PROVE  m \in Run(frames) /\ m[1][1] \in init /\ m \in forward /\ Violated(b, frames - 1)
<1>1. Typed /\ Undecided /\ Unrolling
  BY DEF MCInv
<1>2. frames > 0 /\ frames \in Nat
  BY <1>1 DEF Typed, Undecided
<1>3. m \in forward /\ m[frames] \in bad[b] /\ (assumed => m[1][1] \in init)
  BY DEF BaseModels, InductionModels
<1>4. m \in Path(frames) /\ m[1][1] \in init
  BY <1>1, <1>2, <1>3 DEF Unrolling
<1>5. m \in Run(frames)
  BY <1>4 DEF Run
<1>6. (frames - 1) + 1 = frames
  BY <1>2
<1> QED
  BY <1>3, <1>4, <1>5, <1>6 DEF Violated

(* If there is none, the shortest violations do not have this length: such  *)
(* a run is simple, and no simple path was excluded.                        *)
LEMMA BaseCaseComplete ==
  ASSUME MCInv, pc = "check", i \in frame_bad, BaseModels(i) = {}
  PROVE  ~Shortest(i, frames - 1)
<1>1. Typed /\ Undecided /\ Unrolling
  BY DEF MCInv
<1>2. frames > 0 /\ frames \in Nat /\ constraint \subseteq Point
  BY <1>1 DEF Typed, Undecided
<1>3. SUFFICES ASSUME Shortest(i, frames - 1), NEW run \in Run(frames), run[frames] \in bad[i]
               PROVE  FALSE
  <2>1. (frames - 1) + 1 = frames
    BY <1>2
  <2> QED
    BY <2>1 DEF Shortest, Violated
<1>4. \A m \in Nat : m < frames - 1 => ~Violated(i, m)
  BY <1>3 DEF Shortest
<1>5. frames - 1 \in Nat /\ (frames - 1) + 1 = frames
  BY <1>2
<1>6. Simple(run, (frames - 1) + 1)
  BY <1>2, <1>3, <1>4, <1>5, ShortestSimple
<1>7. run \in forward /\ run[1][1] \in init
  BY <1>1, <1>2, <1>5, <1>6 DEF Unrolling, Run
<1> QED
  BY <1>3, <1>7 DEF BaseModels, InductionModels

(* k-induction: the end of a shortest violation that is longer than the     *)
(* frames is a simple path that violates the property, and it is in the     *)
(* instance unless its first frame starts in the initial states for good.   *)
LEMMA InductionSound ==
  ASSUME MCInv, pc = "induct", InductionModels(i) = {}, assumed, NEW n \in Nat, n >= frames
  PROVE  ~Shortest(i, n)
<1>1. Typed /\ Undecided /\ Unrolling
  BY DEF MCInv
<1>2. frames > 0 /\ frames \in Nat /\ constraint \subseteq Point
  BY <1>1 DEF Typed, Undecided
<1>3. SUFFICES ASSUME Shortest(i, n), NEW run \in Run(n + 1), run[n + 1] \in bad[i]
               PROVE  FALSE
  BY DEF Shortest, Violated
<1>4. \A m \in Nat : m < n => ~Violated(i, m)
  BY <1>3 DEF Shortest
<1>5. Simple(run, n + 1)
  BY <1>2, <1>3, <1>4, ShortestSimple
<1> DEFINE last == [x \in 1..frames |-> run[x + ((n + 1) - frames)]]
<1>6. last \in Path(frames) /\ Simple(last, frames) /\ last[frames] = run[n + 1]
  <2>1. n + 1 \in Nat /\ frames \in 1..(n + 1)
    BY <1>2
  <2> QED
    BY <1>2, <1>5, <2>1, SuffixPath
<1> HIDE DEF last
<1>7. last \in forward
  BY <1>1, <1>2, <1>6 DEF Unrolling
<1> QED
  BY <1>3, <1>6, <1>7 DEF InductionModels

(* What was left unchecked stays so.                                        *)
LEMMA MissedStays ==
  ASSUME UNCHANGED sysVars, gap \subseteq gap', NEW b, NEW n, Missed(b, n)
  PROVE  Missed(b, n)'
<1>1. \A m : Shortest(b, m)' <=> Shortest(b, m)
  BY SameSystem
<1> QED
  BY <1>1 DEF Missed

(* A step that records no bound may claim more checked frames for a         *)
(* property only where its shortest violations are not, or are skipped.     *)
LEMMA QuietBounds ==
  ASSUME MCInv, UNCHANGED <<sysVars, reached, proved>>, gap \subseteq gap',
         assumed' = assumed \/ proved = {},
         \A b \in Unreached : \A n \in 0..(Checked(b)' - 1) :
           n \in 0..(Checked(b) - 1) \/ ~Shortest(b, n) \/ <<b, n>> \in gap'
  PROVE  Bounds'
<1>1. Bounds
  BY DEF MCInv
<1>2. /\ \A b, n : Violated(b, n)' <=> Violated(b, n)
      /\ \A b, n : Shortest(b, n)' <=> Shortest(b, n)
  BY SameSystem
<1>3. Known' = Known /\ Unreached' = Unreached /\ reached' = reached /\ proved' = proved
  BY DEF Known, Unreached, sysVars
<1>4. \A b \in (Known \ proved)' :
        Violated(b, reached[b])' /\ Missed(b, reached[b] - 1)'
  BY <1>1, <1>2, <1>3 DEF Bounds, Missed
<1>5. \A b \in Unreached' : Missed(b, Checked(b) - 1)'
  BY <1>1, <1>2, <1>3 DEF Bounds, Missed
<1>6. \A b \in proved' : \A n \in Nat : assumed' \/ n <= reached'[b] => Missed(b, n)'
  BY <1>1, <1>2, <1>3 DEF Bounds, Missed
<1> QED
  BY <1>4, <1>5, <1>6 DEF Bounds

LEMMA BoundsStep ==
  ASSUME MCInv, [Next]_vars
  PROVE  Bounds'
<1>1. Typed /\ Undecided /\ Loop /\ Bounds /\ Typed' /\ Undecided'
  BY TypedStep, UndecidedStep DEF MCInv
<1>2. DOMAIN bad \subseteq Nat /\ \A b \in DOMAIN bad : b >= 1 /\ b <= Len(bad)
  BY <1>1, Indices
<1>3. Unreached \subseteq DOMAIN bad /\ frames \in Nat /\ i \in Nat
  BY <1>1 DEF Unreached, Typed
<1>4. CASE frames' = 0
  <2>1. Known' = {} /\ pc' \in {"idle", "loop"} /\ proved' = {}
    BY <1>1, <1>4 DEF Typed, Undecided
  <2>2. \A b \in Unreached' : Checked(b)' = 0
    BY <1>4, <2>1 DEF Checked
  <2> QED
    BY <2>1, <2>2 DEF Bounds, Missed
<1>5. CASE ReachBad
  <2>1. /\ i \in DOMAIN bad /\ i \in Unreached /\ i \in frame_bad
        /\ frames \in Nat /\ frames > 0 /\ UNCHANGED <<sysVars, frames, frame_bad>>
        /\ reached'[i] = frames - 1
        /\ \A b \in DOMAIN bad : b # i => reached'[b] = reached[b]
        /\ Known' = Known \cup {i} /\ i \notin Known
        /\ Unreached' = Unreached \ {i}
    BY <1>5, Recorded
  <2>2. /\ pc = "check" /\ UNCHANGED <<proved, assumed>> /\ gap \subseteq gap'
        /\ \/ /\ pc' = "decide"
              /\ \A b \in frame_bad : b > i => <<b, frames - 1>> \in gap'
           \/ pc' = "check" /\ i' = i + 1
    BY <1>5 DEF ReachBad, k
  <2>3. Violated(i, frames - 1)
    BY <1>5, <2>2, BaseModelViolates DEF ReachBad
  <2>4. \A b, n : Violated(b, n)' <=> Violated(b, n)
    BY <2>1, SameSystem
  <2>5. Checked(i) = frames - 1
    BY <2>2, <1>3 DEF Checked
  <2>6. ASSUME NEW b \in (Known \ proved)'
        PROVE  Violated(b, reached[b])' /\ Missed(b, reached[b] - 1)'
    <3>1. CASE b = i
      <4>1. Missed(b, (frames - 1) - 1)
        BY <1>1, <2>1, <2>5, <3>1 DEF Bounds
      <4>2. Missed(b, (frames - 1) - 1)'
        BY <2>1, <2>2, <4>1, MissedStays
      <4> QED
        BY <2>1, <2>3, <2>4, <3>1, <4>2 DEF Missed
    <3>2. CASE b # i
      <4>1. b \in Known \ proved /\ reached'[b] = reached[b]
        BY <2>1, <2>2, <2>6, <3>2 DEF Known
      <4>2. Violated(b, reached[b]) /\ Missed(b, reached[b] - 1)
        BY <1>1, <4>1 DEF Bounds
      <4>3. Missed(b, reached[b] - 1)'
        BY <2>1, <2>2, <2>4, <4>1, <4>2, SameSystem DEF Missed
      <4> QED
        BY <2>4, <4>1, <4>2, <4>3
    <3> QED
      BY <3>1, <3>2
  <2>7. ASSUME NEW b \in Unreached'
        PROVE  Missed(b, Checked(b) - 1)'
    <3>1. b \in Unreached /\ b # i /\ b \in frame_bad
      BY <1>1, <2>1, <2>2, <2>7 DEF Loop, Checking
    <3>2. b \in Nat /\ \A m : Shortest(b, m)' <=> Shortest(b, m)
      BY <1>2, <1>3, <2>1, <3>1, SameSystem
    <3>3. \A m \in 0..(Checked(b) - 1) : Shortest(b, m) => <<b, m>> \in gap
      BY <1>1, <3>1 DEF Bounds, Missed
    <3>4. CASE pc' = "decide" /\ b > i
      <4>1. Checked(b) = frames - 1 /\ Checked(b)' = frames /\ <<b, frames - 1>> \in gap'
        BY <1>3, <2>1, <2>2, <3>1, <3>2, <3>4 DEF Checked
      <4> QED
        BY <2>1, <2>2, <3>2, <3>3, <4>1 DEF Missed
    <3>5. CASE ~(pc' = "decide" /\ b > i)
      <4>1. Checked(b)' = Checked(b)
        BY <1>3, <2>1, <2>2, <3>1, <3>2, <3>5 DEF Checked
      <4> QED
        BY <2>2, <3>2, <3>3, <4>1 DEF Missed
    <3> QED
      BY <3>4, <3>5
  <2>8. ASSUME NEW b \in proved', NEW n \in Nat, assumed' \/ n <= reached'[b]
        PROVE  Missed(b, n)'
    <3>1. b \in proved /\ b # i /\ reached'[b] = reached[b]
      BY <1>1, <2>1, <2>2, <2>8 DEF Typed, Known
    <3>2. Missed(b, n)
      BY <1>1, <2>2, <2>8, <3>1 DEF Bounds
    <3> QED
      BY <2>1, <2>2, <3>2, MissedStays
  <2> QED
    BY <2>6, <2>7, <2>8 DEF Bounds
<1>6. CASE InductionHolds
  <2>1. /\ i \in DOMAIN bad /\ i \in Unreached /\ i \in frame_bad
        /\ frames \in Nat /\ frames > 0 /\ UNCHANGED <<sysVars, frames, frame_bad>>
        /\ reached'[i] = frames - 1
        /\ \A b \in DOMAIN bad : b # i => reached'[b] = reached[b]
        /\ Known' = Known \cup {i} /\ i \notin Known
        /\ Unreached' = Unreached \ {i}
    BY <1>6, Recorded
  <2>2. /\ pc = "induct" /\ pc' = "check" /\ i' = i + 1 /\ UNCHANGED <<gap, assumed>>
        /\ proved' = proved \cup {i} /\ InductionModels(i) = {}
    BY <1>6 DEF InductionHolds
  <2>3. ASSUME NEW n \in Nat, assumed \/ n <= frames - 1 PROVE Missed(i, n)
    <3>1. Checked(i) = frames
      BY <2>2 DEF Checked
    <3>2. \A m \in 0..(frames - 1) : Shortest(i, m) => <<i, m>> \in gap
      BY <1>1, <2>1, <3>1 DEF Bounds, Missed
    <3>3. assumed => \A m \in Nat : m >= frames => ~Shortest(i, m)
      BY <2>2, InductionSound
    <3>4. \A m \in 0..n : m \in Nat /\ (m \in 0..(frames - 1) \/ (m >= frames /\ assumed))
      BY <2>1, <2>3
    <3> QED
      BY <3>2, <3>3, <3>4 DEF Missed
  <2>4. ASSUME NEW b, NEW n, Missed(b, n) PROVE Missed(b, n)'
    BY <2>1, <2>2, <2>4, MissedStays
  <2>5. ASSUME NEW b \in (Known \ proved)'
        PROVE  Violated(b, reached[b])' /\ Missed(b, reached[b] - 1)'
    <3>1. b \in Known \ proved /\ reached'[b] = reached[b]
      BY <2>1, <2>2, <2>5 DEF Known
    <3>2. Violated(b, reached[b]) /\ Missed(b, reached[b] - 1)
      BY <1>1, <3>1 DEF Bounds
    <3> QED
      BY <2>1, <2>2, <3>1, <3>2, SameSystem DEF Missed
  <2>6. ASSUME NEW b \in Unreached'
        PROVE  Missed(b, Checked(b) - 1)'
    <3>1. b \in Unreached /\ b # i /\ b \in Nat
      BY <1>2, <1>3, <2>1, <2>2, <2>6
    <3>2. Checked(b)' = Checked(b)
      BY <1>3, <2>1, <2>2, <3>1 DEF Checked
    <3>3. Missed(b, Checked(b) - 1)
      BY <1>1, <3>1 DEF Bounds
    <3> QED
      BY <2>1, <2>2, <3>2, <3>3, SameSystem DEF Missed
  <2>7. ASSUME NEW b \in proved', NEW n \in Nat, assumed' \/ n <= reached'[b]
        PROVE  Missed(b, n)'
    <3>1. CASE b = i
      BY <2>1, <2>2, <2>3, <2>4, <2>7, <3>1
    <3>2. CASE b # i
      <4>1. b \in proved /\ reached'[b] = reached[b]
        BY <1>1, <2>1, <2>2, <2>7, <3>2 DEF Typed, Known
      <4>2. Missed(b, n)
        BY <1>1, <2>2, <2>7, <4>1 DEF Bounds
      <4> QED
        BY <2>4, <4>2
    <3> QED
      BY <3>1, <3>2
  <2> QED
    BY <2>5, <2>6, <2>7 DEF Bounds
<1> DEFINE Quiet == /\ UNCHANGED <<sysVars, reached, proved>> /\ gap \subseteq gap'
                    /\ assumed' = assumed \/ proved = {}
                    /\ \A b \in Unreached : \A n \in 0..(Checked(b)' - 1) :
                         n \in 0..(Checked(b) - 1) \/ ~Shortest(b, n) \/ <<b, n>> \in gap'
<1>7. CASE InitializeNewForwardFrame
  <2>1. /\ UNCHANGED <<sysVars, reached, proved>> /\ gap \subseteq gap'
        /\ pc = "loop" /\ frames' = frames + 1 /\ i' = 1
        /\ \/ pc' = "loop" /\ \A b \in Unreached : <<b, frames>> \in gap'
           \/ pc' = "check"
        /\ frames = 0 \/ assumed' = assumed
    BY <1>7 DEF InitializeNewForwardFrame
  <2>2. ASSUME NEW b \in Unreached
        PROVE  /\ Checked(b) = frames
               /\ \/ Checked(b)' = frames
                  \/ Checked(b)' = frames + 1 /\ <<b, frames>> \in gap'
    BY <1>2, <1>3, <2>1 DEF Checked
  <2>4. frames = 0 => proved = {}
    BY <1>1 DEF Undecided, Typed
  <2>5. ASSUME NEW b \in Unreached, NEW n \in 0..(Checked(b)' - 1)
        PROVE  n \in 0..(Checked(b) - 1) \/ <<b, n>> \in gap'
    <3>1. n \in 0..(frames - 1) \/ (n = frames /\ <<b, frames>> \in gap')
      BY <1>3, <2>2
    <3> QED
      BY <2>2, <3>1
  <2>3. Quiet
    BY <2>1, <2>4, <2>5
  <2> QED
    BY <2>3, QuietBounds
<1>8. CASE SkipBad
  <2>1. /\ UNCHANGED <<sysVars, reached, proved, gap, assumed, frames, pc>>
        /\ pc = "check" /\ i \notin frame_bad /\ i' = i + 1
    BY <1>8 DEF SkipBad
  <2>2. ASSUME NEW b \in Unreached PROVE Checked(b)' = Checked(b)
    <3>1. b # i /\ b \in Nat
      BY <1>1, <1>2, <1>3, <2>1 DEF Loop, Checking
    <3> QED
      BY <1>3, <2>1, <3>1 DEF Checked
  <2>3. Quiet
    BY <2>1, <2>2
  <2> QED
    BY <2>3, QuietBounds
<1>9. CASE BaseUnsat
  <2>1. /\ UNCHANGED <<sysVars, reached, proved, gap, assumed, frames>>
        /\ pc = "check" /\ i \in frame_bad /\ BaseModels(i) = {}
        /\ \/ pc' = "induct" /\ i' = i
           \/ pc' = "check" /\ i' = i + 1
    BY <1>9 DEF BaseUnsat
  <2>2. ASSUME NEW b \in Unreached, b # i PROVE Checked(b)' = Checked(b)
    <3>1. b \in Nat
      BY <1>2, <1>3
    <3> QED
      BY <1>3, <2>1, <2>2, <3>1 DEF Checked
  <2>3. \A b : b = i => Checked(b)' = frames /\ Checked(b) = frames - 1
    BY <1>3, <2>1 DEF Checked
  <2>4. ~Shortest(i, frames - 1)
    BY <2>1, BaseCaseComplete
  <2>5. ASSUME NEW b \in Unreached, NEW n \in 0..(Checked(b)' - 1)
        PROVE  n \in 0..(Checked(b) - 1) \/ ~Shortest(b, n)
    <3>1. CASE b = i
      BY <1>3, <2>1, <2>3, <2>4, <3>1
    <3>2. CASE b # i
      BY <2>2, <3>2
    <3> QED
      BY <3>1, <3>2
  <2>6. Quiet
    BY <2>1, <2>5
  <2> QED
    BY <2>6, QuietBounds
<1>10. CASE InductionFails
  <2>1. /\ UNCHANGED <<sysVars, reached, proved, gap, assumed, frames>> /\ pc = "induct"
        /\ \/ UNCHANGED <<pc, i>>
           \/ pc' = "check" /\ i' = i + 1
    BY <1>10 DEF InductionFails
  <2>2. ASSUME NEW b \in Unreached PROVE Checked(b)' = Checked(b)
    <3>1. b \in Nat
      BY <1>2, <1>3
    <3> QED
      BY <1>3, <2>1, <3>1 DEF Checked
  <2>3. Quiet
    BY <2>1, <2>2
  <2> QED
    BY <2>3, QuietBounds
<1>11. CASE CheckDone
  <2>1. /\ UNCHANGED <<sysVars, reached, proved, gap, assumed, frames, i>> /\ pc = "check"
        /\ pc' = "decide" /\ i > Len(bad)
    BY <1>11 DEF CheckDone, runVars
  <2>2. ASSUME NEW b \in Unreached PROVE Checked(b)' = Checked(b)
    <3>1. b < i
      BY <1>1, <1>2, <1>3, <2>1, Indices
    <3> QED
      BY <2>1, <3>1 DEF Checked
  <2>3. Quiet
    BY <2>1, <2>2
  <2> QED
    BY <2>3, QuietBounds
<1>12. CASE /\ frames > 0 /\ UNCHANGED <<runVars, reached>>
            /\ pc \notin {"check", "induct"} /\ pc' \notin {"check", "induct"}
  <2>1. UNCHANGED <<sysVars, reached, proved, gap, assumed, frames>>
    BY <1>12, UndecidedStep DEF runVars
  <2>2. \A b : Checked(b)' = Checked(b)
    BY <1>12, <2>1 DEF Checked
  <2>3. Quiet
    BY <2>1, <2>2
  <2> QED
    BY <2>3, QuietBounds
<1>13. \/ frames' = 0 \/ ReachBad \/ InductionHolds \/ InitializeNewForwardFrame
       \/ SkipBad \/ BaseUnsat \/ InductionFails \/ CheckDone
       \/ /\ frames > 0 /\ UNCHANGED <<runVars, reached>>
          /\ pc \notin {"check", "induct"} /\ pc' \notin {"check", "induct"}
       \/ UNCHANGED vars
  <2>1. CASE UserStep
    <3>1. /\ pc = "idle" /\ pc' = pc /\ UNCHANGED runVars /\ frames' = frames
          /\ MayDeclare \/ UNCHANGED reached
      BY <2>1, UserSteps DEF runVars
    <3>2. MayDeclare => frames = 0
      BY <1>1 DEF MayDeclare, Undecided
    <3> QED
      BY <1>3, <3>1, <3>2
  <2>2. ASSUME NEW mode, NEW mink, NEW maxk, Call(mode, mink, maxk)
        PROVE  /\ pc = "idle" /\ pc' = "loop" /\ UNCHANGED <<runVars, reached>>
               /\ frames' = frames
    BY <2>2 DEF Call, runVars
  <2>3. CASE Return \/ NextBound \/ BoundsExhausted
    <3>1. /\ pc \in {"decide", "loop"} /\ pc' \in {"idle", "loop"}
          /\ UNCHANGED <<runVars, reached>> /\ frames' = frames
      BY <2>3 DEF Return, NextBound, BoundsExhausted, runVars
    <3> QED
      BY <1>3, <3>1
  <2> QED
    BY <1>3, <2>1, <2>2, <2>3 DEF Next, CheckStep, UserStep
<1>14. CASE UNCHANGED vars
  <2>1. UNCHANGED <<sysVars, reached, proved, gap, assumed, frames, pc, i>>
    BY <1>14 DEF vars, runVars
  <2>2. \A b : Checked(b)' = Checked(b)
    BY <2>1 DEF Checked
  <2>3. Quiet
    BY <2>1, <2>2
  <2> QED
    BY <2>3, QuietBounds
<1> QED
  BY <1>4, <1>5, <1>6, <1>7, <1>8, <1>9, <1>10, <1>11, <1>12, <1>13, <1>14

LEMMA CountedStep ==
  ASSUME MCInv, [Next]_vars
  PROVE  Counted'
<1>1. Counted /\ Undecided /\ Undecided'
  BY UndecidedStep DEF MCInv
<1>2. CASE ReachBad \/ InductionHolds
  <2>1. num_reached' = num_reached + 1
    BY <1>2 DEF ReachBad, InductionHolds
  <2>2. Known' = Known \cup {i} /\ i \notin Known
    BY <1>2, Recorded
  <2>3. /\ IsFiniteSet(Known \cup {i})
        /\ Cardinality(Known \cup {i}) = Cardinality(Known) + 1
    BY <1>1, <2>2, FS_AddElement DEF Counted
  <2> QED
    BY <1>1, <2>1, <2>2, <2>3 DEF Counted
<1>3. CASE Known' = Known /\ num_reached' = num_reached
  BY <1>1, <1>3 DEF Counted
<1>4. CASE UserStep
  <2>1. UNCHANGED <<frames, num_reached>> /\ (MayDeclare \/ UNCHANGED <<bad, reached>>)
    BY <1>4, UserSteps DEF runVars, sysVars
  <2>2. MayDeclare => frames = 0
    BY <1>1 DEF MayDeclare, Undecided
  <2>3. Known' = Known
    BY <1>1, <2>1, <2>2 DEF Undecided, Known
  <2> QED
    BY <1>3, <2>1, <2>3
<1>5. ASSUME NEW mode, NEW mink, NEW maxk, Call(mode, mink, maxk)
      PROVE  UNCHANGED <<bad, reached, num_reached>>
  BY <1>5 DEF Call, runVars, sysVars
<1>6. UserStep \/ ReachBad \/ InductionHolds \/ UNCHANGED <<bad, reached, num_reached>>
  <2>1. ASSUME CheckStep, ~ReachBad, ~InductionHolds
        PROVE  UNCHANGED <<bad, reached, num_reached>>
    BY <2>1 DEF CheckStep, InitializeNewForwardFrame, SkipBad, BaseUnsat, InductionFails,
                CheckDone, Return, NextBound, BoundsExhausted, runVars, sysVars
  <2>2. ASSUME UNCHANGED vars PROVE UNCHANGED <<bad, reached, num_reached>>
    BY <2>2 DEF vars, runVars, sysVars
  <2> QED
    BY <1>5, <2>1, <2>2 DEF Next, UserStep
<1>7. UNCHANGED <<bad, reached, num_reached>> => Known' = Known
  BY DEF Known
<1> QED
  BY <1>2, <1>3, <1>4, <1>6, <1>7

LEMMA SameWitness ==
  ASSUME UNCHANGED <<sysVars, model, forward, frames, reached, proved>>
  PROVE  Witnesses' <=> Witnesses
BY DEF Witnesses, sysVars, k

LEMMA WitnessedStep ==
  ASSUME MCInv, [Next]_vars
  PROVE  Witnessed'
<1>1. Typed /\ Undecided /\ Loop /\ Counted /\ Witnessed
  BY DEF MCInv
<1>2. DOMAIN bad = 1..Len(bad) /\ Len(bad) \in Nat /\ i \in Nat /\ frame_bad \subseteq DOMAIN bad
  BY <1>1, Indices DEF Typed
<1> USE DEF NONE, SAT, UNSAT
<1>3. CASE UNCHANGED vars
  <2>1. /\ UNCHANGED <<sysVars, model, forward, frames, reached, proved>>
        /\ UNCHANGED <<pc, state, frame_bad, i, result, call, bad, model2const>>
    BY <1>3 DEF vars, runVars, sysVars
  <2>2. (Witnesses' <=> Witnesses) /\ Unreached' = Unreached /\ k' = k
    BY <2>1, SameWitness DEF Unreached, k
  <2> QED
    BY <1>1, <2>1, <2>2 DEF Witnessed, Checking
<1>4. CASE UserStep
  <2>1. /\ pc = "idle" /\ pc' = "idle" /\ UNCHANGED <<runVars, state, result>>
        /\ MayDeclare \/ UNCHANGED <<sysVars, reached>>
    BY <1>4, UserSteps
  <2>2. SUFFICES ASSUME state = SAT
                 PROVE  /\ Witnesses' /\ result' = k'
                        /\ \A t \in DOMAIN model2const' : model2const'[t] = model'[t + 1]
    BY <2>1 DEF Witnessed, Checking
  <2>3. UNCHANGED <<sysVars, model, forward, frames, reached, proved>>
    BY <2>1, <2>2 DEF MayDeclare, runVars
  <2>4. Witnesses' /\ result' = k'
    BY <1>1, <2>1, <2>2, <2>3, SameWitness DEF Witnessed, k
  <2>5. CASE UNCHANGED model2const
    BY <1>1, <2>1, <2>2, <2>3, <2>4, <2>5 DEF Witnessed
  <2>6. ASSUME NEW t \in ReadTimes, Assignment(t)
        PROVE  \A u \in DOMAIN model2const' : model2const'[u] = model'[u + 1]
    BY <1>1, <2>1, <2>2, <2>3, <2>6 DEF Assignment, Witnessed
  <2> QED
    BY <1>4, <2>4, <2>5, <2>6 DEF UserStep, DeclareInit, DeclareNext, DeclareBad,
       DeclareConstraint, SetOpt
<1>5. ASSUME NEW mode, NEW mink, NEW maxk, Call(mode, mink, maxk)
      PROVE  Witnessed'
  BY <1>5 DEF Call, ReleaseAssignments, Witnessed, Checking
<1>6. CASE InitializeNewForwardFrame
  <2>1. /\ pc = "loop" /\ pc' \in {"loop", "check"} /\ i' = 1 /\ frame_bad' = Unreached
        /\ UNCHANGED <<bad, reached, state, call, model2const>>
    BY <1>6 DEF InitializeNewForwardFrame, sysVars
  <2>2. Unreached' = Unreached /\ \A j \in frame_bad' : ~ (j < 1)
    BY <1>2, <2>1 DEF Unreached
  <2> QED
    BY <1>1, <2>1, <2>2 DEF Witnessed, Checking
<1>7. CASE SkipBad
  <2>1. /\ UNCHANGED <<sysVars, model, forward, frames, reached, proved>>
        /\ UNCHANGED <<pc, state, frame_bad, call, model2const>>
        /\ pc = "check" /\ i \notin frame_bad /\ i' = i + 1
    BY <1>7 DEF SkipBad
  <2>2. Witnesses' <=> Witnesses
    BY <2>1, SameWitness
  <2>3. \A j \in frame_bad : j < i + 1 => j < i
    BY <1>2, <2>1
  <2> QED
    BY <1>1, <2>1, <2>2, <2>3 DEF Witnessed, Checking
<1>8. CASE ReachBad
  <2>1. /\ pc = "check" /\ pc' \in {"check", "decide"} /\ model' \in BaseModels(i)
        /\ UNCHANGED <<sysVars, frames, frame_bad, forward, model2const, proved>>
    BY <1>8 DEF ReachBad
  <2>2. /\ i \in DOMAIN bad /\ i \in frame_bad /\ reached'[i] = frames - 1 /\ i \notin Known
    BY <1>8, Recorded
  <2>3. model' \in forward /\ model'[1][1] \in init /\ model'[frames] \in bad[i]
    BY <2>1, BaseModelViolates DEF BaseModels, InductionModels
  <2>4. Witnesses'
    <3>1. /\ init' = init /\ bad' = bad /\ frames' = frames /\ proved' = proved
          /\ forward' = forward /\ i \notin proved
      BY <1>1, <2>1, <2>2 DEF sysVars, Typed
    <3> QED
      BY <2>2, <2>3, <3>1 DEF Witnesses, k
  <2> QED
    BY <1>1, <2>1, <2>2, <2>4 DEF Witnessed, Checking
<1>9. CASE BaseUnsat
  <2>1. /\ pc = "check" /\ UNCHANGED <<call, frame_bad, model2const>>
        /\ \/ pc' = "induct" /\ state' = state
           \/ pc' = "check" /\ state' = UNSAT
    BY <1>9 DEF BaseUnsat
  <2> QED
    BY <1>1, <2>1 DEF Witnessed, Checking
<1>10. CASE InductionFails
  <2>1. /\ pc = "induct" /\ UNCHANGED <<call, frame_bad, model2const>>
        /\ \/ pc' = "induct" /\ state' = state
           \/ pc' = "check" /\ state' = NONE
    BY <1>10 DEF InductionFails
  <2> QED
    BY <1>1, <2>1 DEF Witnessed, Checking
<1>11. CASE InductionHolds
  BY <1>1, <1>11 DEF InductionHolds, Witnessed, Checking
<1>12. CASE CheckDone
  <2>1. /\ UNCHANGED <<sysVars, model, forward, frames, reached, proved>>
        /\ UNCHANGED <<state, frame_bad, call, model2const>>
        /\ pc = "check" /\ pc' = "decide" /\ i > Len(bad)
    BY <1>12 DEF CheckDone, runVars
  <2>2. Witnesses' <=> Witnesses
    BY <2>1, SameWitness
  <2>3. \A j \in frame_bad : j < i
    BY <1>2, <2>1
  <2> QED
    BY <1>1, <2>1, <2>2, <2>3 DEF Witnessed, Checking
<1>13. CASE Return
  <2>1. /\ UNCHANGED <<sysVars, model, forward, frames, reached, proved, state, model2const>>
        /\ pc = "decide" /\ pc' = "idle" /\ result' = k /\ Decided
    BY <1>13 DEF Return, runVars
  <2>2. (Witnesses' <=> Witnesses) /\ k' = k
    BY <2>1, SameWitness DEF k
  <2>3. state = SAT => frame_bad # {}
    BY <1>1, <2>1 DEF Decided, Loop, Witnessed, Checking, Typed
  <2>4. DOMAIN model2const' = {}
    BY <1>1, <2>1 DEF Witnessed, NoConst
  <2> QED
    BY <1>1, <2>1, <2>2, <2>3, <2>4 DEF Witnessed, Checking
<1>14. CASE NextBound
  <2>1. /\ UNCHANGED <<bad, reached, state, call, model2const>>
        /\ pc = "decide" /\ pc' = "loop" /\ ~Decided
    BY <1>14 DEF NextBound, sysVars
  <2>2. call.mode = "kind" /\ state = SAT => Unreached # {}
    <3>1. SUFFICES ASSUME call.mode = "kind", state = SAT, Unreached = {} PROVE FALSE
      OBVIOUS
    <3>2. num_reached # Len(bad)
      BY <2>1, <3>1 DEF Decided
    <3>3. Known = 1..Len(bad)
      BY <1>1, <1>2, <3>1 DEF Known, Unreached, Typed
    <3>4. Cardinality(1..Len(bad)) = Len(bad)
      BY <1>2, FS_Interval
    <3> QED
      BY <1>1, <3>2, <3>3, <3>4 DEF Counted
  <2>3. Unreached' = Unreached
    BY <2>1 DEF Unreached
  <2> QED
    BY <1>1, <2>1, <2>2, <2>3 DEF Witnessed, Checking
<1>15. CASE BoundsExhausted
  BY <1>1, <1>15 DEF BoundsExhausted, Witnessed, Checking
<1> QED
  BY <1>3, <1>4, <1>5, <1>6, <1>7, <1>8, <1>9, <1>10, <1>11, <1>12, <1>13, <1>14, <1>15
  DEF Next, CheckStep, UserStep

-----------------------------------------------------------------------------
LEMMA MCInit ==
  ASSUME Init
  PROVE  MCInv
<1>1. DOMAIN bad = {} /\ bad \in Seq(SUBSET Point) /\ reached \in [DOMAIN bad -> Int]
  BY DEF Init
<1>2. Known = {} /\ Unreached = {}
  BY <1>1 DEF Known, Unreached
<1>3. Typed
  BY <1>1, <1>2 DEF Init, Typed, Option
<1>4. Counted
  BY <1>2, FS_EmptySet DEF Init, Counted
<1>5. Undecided /\ Unrolling
  BY <1>2 DEF Init, Undecided, Unrolling
<1>6. Loop /\ Witnessed
  BY <1>2 DEF Init, Loop, Witnessed, Checking, NONE, SAT
<1>7. Bounds
  <2>1. proved = {}
    BY DEF Init
  <2> QED
    BY <1>2, <2>1 DEF Bounds
<1> QED
  BY <1>3, <1>4, <1>5, <1>6, <1>7 DEF MCInv

LEMMA MCCorrect == Spec => []MCInv
<1>1. Init => MCInv
  BY MCInit
<1>2. MCInv /\ [Next]_vars => MCInv'
  BY TypedStep, UndecidedStep, UnrollingStep, LoopStep, BoundsStep, CountedStep,
     WitnessedStep DEF MCInv
<1> QED
  BY <1>1, <1>2, PTL DEF Spec

(* What ShortestAt says of the points that runs reach.                      *)
LEMMA ShortestAtMeaning ==
  ASSUME constraint \subseteq Point, NEW b, NEW n \in Nat
  PROVE  ShortestAt(b, n) <=> Shortest(b, n)
<1>1. \A m \in Nat : HitsAt(b, m) <=> Violated(b, m)
  BY HitsAtMeaning
<1>2. \A m : m \in 0..n - 1 <=> m \in Nat /\ m < n
  OBVIOUS
<1> QED
  BY <1>1, <1>2 DEF ShortestAt, Shortest

(* A recorded bound is the length of a violation; if there is a shorter     *)
(* one, also of a property without a recorded bound, then the shortest ones *)
(* have a length at which the property was left unchecked:                  *)
(* check_last_forward_frame, for every system, every number of properties   *)
(* and every sequence of calls, bounds and options.                         *)
THEOREM BoundsCorrect == Spec => []ReachedExact
<1>1. MCInv => ReachedExact
  <2>1. SUFFICES ASSUME MCInv PROVE ReachedExact
    OBVIOUS
  <2>2. Typed /\ Bounds /\ constraint \subseteq Point
    BY <2>1 DEF MCInv, Typed
  <2>3. \A b : \A n \in Nat : /\ HitsAt(b, n) <=> Violated(b, n)
                              /\ ShortestAt(b, n) <=> Shortest(b, n)
    BY <2>2, HitsAtMeaning, ShortestAtMeaning
  <2>4. ASSUME NEW b \in DOMAIN bad, reached[b] >= 0, b \notin proved
        PROVE  /\ HitsAt(b, reached[b])
               /\ \A n \in 0..reached[b] - 1 : ShortestAt(b, n) => <<b, n>> \in gap
    <3>1. b \in Known \ proved /\ reached[b] \in Nat
      BY <2>2, <2>4 DEF Known, Typed
    <3>2. Violated(b, reached[b]) /\ Missed(b, reached[b] - 1)
      BY <2>2, <3>1 DEF Bounds
    <3>3. ASSUME NEW n \in 0..reached[b] - 1, ShortestAt(b, n) PROVE <<b, n>> \in gap
      <4>1. n \in 0..(reached[b] - 1) /\ n \in Nat
        BY <3>1
      <4> QED
        BY <2>3, <3>2, <3>3, <4>1 DEF Missed
    <3> QED
      BY <2>3, <3>1, <3>2, <3>3
  <2>5. ASSUME pc = "idle", NEW b \in Unreached
        PROVE  \A n \in 0..k : ShortestAt(b, n) => <<b, n>> \in gap
    <3>1. Checked(b) - 1 = k
      BY <2>5 DEF Checked, k
    <3>2. Missed(b, k)
      BY <2>2, <3>1 DEF Bounds
    <3>3. \A n \in 0..k : n \in Nat
      BY <2>2 DEF Typed, k
    <3>4. ASSUME NEW n \in 0..k, ShortestAt(b, n) PROVE <<b, n>> \in gap
      <4>1. Shortest(b, n)
        BY <2>3, <3>3, <3>4
      <4> QED
        BY <3>2, <4>1 DEF Missed
    <3> QED
      BY <3>4
  <2> QED
    BY <2>4, <2>5 DEF ReachedExact
<1> QED
  BY <1>1, MCCorrect, PTL

(* What k-induction reports unsat is violated by no run of any length,      *)
(* unless the shortest violations have a length at which the property was   *)
(* left unchecked: the induction step of check_last_forward_frame with      *)
(* simple path constraints that other properties and bounds gave rise to.   *)
(* If k-induction was set when there were frames already, what is said is   *)
(* that of all violations up to the bound of the report.                    *)
THEOREM InductionCorrect == Spec => []ProofsSound
<1>1. MCInv => ProofsSound
  <2>1. SUFFICES ASSUME MCInv,
                        NEW b \in proved,
                        NEW n \in 0..(IF assumed THEN Cardinality(State) ELSE reached[b])
                 PROVE  ShortestAt(b, n) => <<b, n>> \in gap
    BY DEF ProofsSound
  <2>2. Typed /\ Bounds /\ constraint \subseteq Point
    BY <2>1 DEF MCInv, Typed
  <2>3. Cardinality(State) \in Nat /\ reached[b] \in Int
    BY <2>2, FiniteAssumption, FS_CardinalityType DEF Typed, Known
  <2>4. n \in Nat /\ (assumed \/ n <= reached[b])
    BY <2>3
  <2>5. Missed(b, n)
    BY <2>2, <2>4 DEF Bounds
  <2>6. Shortest(b, n) => <<b, n>> \in gap
    BY <2>4, <2>5 DEF Missed
  <2> QED
    BY <2>2, <2>4, <2>6, ShortestAtMeaning
<1> QED
  BY <1>1, MCCorrect, PTL

(* In the SAT state the forward instance still holds the violation that was *)
(* found at the returned bound, and what btor_mc_assignment reads is of it. *)
THEOREM WitnessCorrect == Spec => []WitnessStands
<1>1. MCInv => WitnessStands
  BY DEF MCInv, Witnessed, Witnesses, WitnessStands
<1> QED
  BY <1>1, MCCorrect, PTL
=============================================================================
