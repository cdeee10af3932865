----------------------- MODULE BtorSessionRefinement -----------------------
(* The session implements what SmtContext promises an incremental user, for *)
(* every set of expressions, every set of worlds and every bound.           *)
EXTENDS BtorSessionProofs

(* The context levels as SmtContext sees them. *)
Frames == [i \in 1..Len(assertions_trail) |-> Frame(i)]
Pending == IF valid_assignments THEN {} ELSE assumed
Used == IF valid_assignments THEN assumed ELSE {}

(* How many assertions the levels up to i hold. *)
Mark(i) == IF i = Len(assertions_trail) THEN Len(assertions)
           ELSE assertions_trail[i + 1]

LEMMA MarkType ==
  ASSUME TypeOK, ContextInv
  PROVE  /\ Len(assertions_trail) \in Nat /\ Len(assertions) \in Nat
         /\ \A i \in 1..Len(assertions_trail) :
              /\ Mark(i) \in 0..Len(assertions)
              /\ Frame(i) = {assertions[j] : j \in 1..Mark(i)}
              /\ Frame(i) \subseteq Exp
<1>1. Len(assertions_trail) \in Nat /\ Len(assertions) \in Nat
  BY DEF TypeOK
<1>2. ASSUME NEW i \in 1..Len(assertions_trail)
      PROVE  Mark(i) \in 0..Len(assertions)
  <2>1. CASE i = Len(assertions_trail)
    BY <1>1, <2>1 DEF Mark
  <2>2. CASE i # Len(assertions_trail)
    <3>1. i + 1 \in DOMAIN assertions_trail
      BY <1>1, <2>2 DEF TypeOK
    <3> QED
      BY <1>1, <2>2, <3>1 DEF Mark, TypeOK, ContextInv
  <2> QED
    BY <2>1, <2>2
<1>3. \A i \in 1..Len(assertions_trail) :
        Frame(i) = {assertions[j] : j \in 1..Mark(i)}
  BY DEF Frame, Mark
<1>4. \A j \in 1..Len(assertions) : assertions[j] \in Exp
  BY DEF TypeOK
<1>5. ASSUME NEW i \in 1..Len(assertions_trail)
      PROVE  Frame(i) \subseteq Exp
  <2>1. \A j \in 1..Mark(i) : j \in 1..Len(assertions)
    BY <1>1, <1>2
  <2> QED
    BY <1>3, <1>4, <2>1
<1> QED
  BY <1>1, <1>2, <1>3, <1>5

(* The levels form a sequence; the innermost one holds every assertion.     *)
LEMMA FramesType ==
  ASSUME TypeOK, ContextInv
  PROVE  /\ Frames \in Seq(SUBSET Exp)
         /\ Len(Frames) = Len(assertions_trail)
         /\ Frames = <<>> <=> assertions_trail = <<>>
         /\ Elements(assertions) =
              IF Frames = <<>> THEN {} ELSE Frames[Len(Frames)]
<1>1. Frames \in Seq(SUBSET Exp) /\ Len(Frames) = Len(assertions_trail)
  BY MarkType DEF Frames
<1>2. Frames = <<>> <=> Len(Frames) = 0
  BY <1>1
<1>3. assertions_trail = <<>> <=> Len(assertions_trail) = 0
  BY DEF TypeOK
<1>4. CASE assertions_trail = <<>>
  BY <1>1, <1>2, <1>3, <1>4 DEF ContextInv, Elements
<1>5. CASE assertions_trail # <<>>
  <2>1. Len(assertions_trail) \in 1..Len(assertions_trail)
    BY <1>3, <1>5, MarkType
  <2>2. Frames[Len(Frames)] = {assertions[j] : j \in 1..Len(assertions)}
    BY <1>1, <2>1, MarkType DEF Frames, Mark
  <2>3. DOMAIN assertions = 1..Len(assertions)
    BY DEF TypeOK
  <2> QED
    BY <1>1, <1>2, <1>3, <1>5, <2>2, <2>3 DEF Elements
<1> QED
  BY <1>1, <1>2, <1>3, <1>4, <1>5

(* boolector_push opens levels that hold what the innermost one held. *)
LEMMA PushFrames ==
  ASSUME TypeOK, ContextInv, TypeOK', ContextInv',
         NEW n \in 1..MaxLevel, Push(n)
  PROVE  Frames' = Frames \o [i \in 1..n |-> Elements(assertions)]
<1> DEFINE len == Len(assertions_trail)
           more == [i \in 1..n |-> Elements(assertions)]
<1>1. n \in Nat /\ n >= 1 /\ len \in Nat
  BY BoundAssumption, MarkType
<1>2. /\ assertions' = assertions
      /\ assertions_trail' =
           assertions_trail \o [i \in 1..n |-> Len(assertions)]
  BY DEF Push
<1>3. [i \in 1..n |-> Len(assertions)] \in Seq(Nat)
      /\ Len([i \in 1..n |-> Len(assertions)]) = n
  BY <1>1, MarkType
<1>4. /\ Len(assertions_trail') = len + n
      /\ \A i \in 1..(len + n) :
           assertions_trail'[i] = IF i <= len THEN assertions_trail[i]
                                  ELSE Len(assertions)
  BY <1>1, <1>2, <1>3 DEF TypeOK
<1>5. Elements(assertions) = {assertions[j] : j \in 1..Len(assertions)}
  BY DEF Elements, TypeOK
<1>6. \A i \in 1..len : Frame(i)' = Frame(i)
  BY <1>1, <1>2, <1>4 DEF Frame
<1>7. ASSUME NEW i \in (len + 1)..(len + n)
      PROVE  Frame(i)' = Elements(assertions)
  <2>1. (IF i = Len(assertions_trail') THEN Len(assertions')
         ELSE assertions_trail'[i + 1]) = Len(assertions)
    <3>1. CASE i = len + n
      BY <1>2, <1>4, <3>1
    <3>2. CASE i # len + n
      <4>1. i + 1 \in 1..(len + n) /\ ~(i + 1 <= len)
        BY <1>1, <3>2
      <4> QED
        BY <1>4, <3>2, <4>1
    <3> QED
      BY <3>1, <3>2
  <2> QED
    BY <1>2, <1>5, <2>1 DEF Frame
<1>8. more \in Seq(SUBSET Exp) /\ Len(more) = n
  BY <1>1, ElementsType
<1>9. Frames' = [i \in 1..(len + n) |-> Frame(i)']
  BY <1>4 DEF Frames
<1>10. Frames = [i \in 1..len |-> Frame(i)]
  BY DEF Frames
<1>11. Frames \o more = [i \in 1..(len + n) |->
                          IF i <= len THEN Frame(i) ELSE more[i - len]]
  BY <1>1, <1>8, <1>10, FramesType
<1>12. \A i \in 1..(len + n) :
         Frame(i)' = IF i <= len THEN Frame(i) ELSE more[i - len]
  BY <1>1, <1>6, <1>7
<1> HIDE DEF more, len
<1>13. Frames' = Frames \o more
  BY <1>9, <1>11, <1>12
<1> QED
  BY <1>13 DEF more

(* boolector_pop leaves the outer levels as they are. *)
LEMMA PopFrames ==
  ASSUME TypeOK, ContextInv, TypeOK', ContextInv',
         NEW n \in 1..MaxLevel, Pop(n)
  PROVE  /\ n \in 1..Len(Frames)
         /\ Frames' = SubSeq(Frames, 1, Len(Frames) - n)
<1> DEFINE len == Len(assertions_trail) - n
           pos == assertions_trail[len + 1]
<1>1. /\ n \in 1..Len(assertions_trail)
      /\ assertions' = SubSeq(assertions, 1, pos)
      /\ assertions_trail' = SubSeq(assertions_trail, 1, len)
  BY DEF Pop
<1>2. /\ len \in Nat /\ len + 1 \in 1..Len(assertions_trail)
      /\ pos \in Nat /\ pos <= Len(assertions)
  BY <1>1, MarkType DEF ContextInv, TypeOK
<1>3. /\ Len(assertions_trail') = len
      /\ \A i \in 1..len : assertions_trail'[i] = assertions_trail[i]
  BY <1>1, <1>2 DEF TypeOK
<1>4. /\ Len(assertions') = pos
      /\ \A j \in 1..pos : assertions'[j] = assertions[j]
  BY <1>1, <1>2 DEF TypeOK
<1>5. ASSUME NEW i \in 1..len PROVE Frame(i)' = Frame(i)
  <2>1. i # Len(assertions_trail) /\ Mark(i) = assertions_trail[i + 1]
    BY <1>1, <1>2 DEF Mark
  <2>2. Mark(i)' = Mark(i)
    BY <1>2, <1>3, <1>4, <2>1 DEF Mark
  <2>3. Mark(i) <= pos
    <3>1. /\ i + 1 \in DOMAIN assertions_trail /\ len + 1 \in DOMAIN assertions_trail
          /\ i + 1 <= len + 1
      BY <1>1, <1>2 DEF TypeOK
    <3> QED
      BY <2>1, <3>1 DEF ContextInv
  <2>4. /\ Frame(i) = {assertions[j] : j \in 1..Mark(i)}
        /\ Frame(i)' = {assertions'[j] : j \in 1..Mark(i)'}
    BY DEF Frame, Mark
  <2>5. Mark(i) \in Nat
    <3>1. i \in 1..Len(assertions_trail)
      BY <1>1, <1>2
    <3>2. Mark(i) \in 0..Len(assertions) /\ Len(assertions) \in Nat
      BY <3>1, MarkType
    <3> QED
      BY <3>2
  <2>6. \A j \in 1..Mark(i) : assertions'[j] = assertions[j]
    BY <1>2, <1>4, <2>3, <2>5
  <2> QED
    BY <2>2, <2>4, <2>6
<1>6. Frames' = [i \in 1..len |-> Frame(i)']
  BY <1>3 DEF Frames
<1>7. Len(Frames) = len + n
  BY <1>1, <1>2, FramesType
<1> HIDE DEF pos, len
<1>8. SubSeq(Frames, 1, len) = [i \in 1..len |-> Frame(i)]
  <2>1. Frames \in Seq(SUBSET Exp) /\ len <= Len(Frames)
    BY <1>1, <1>2, <1>7, FramesType
  <2>2. SubSeq(Frames, 1, len) = [i \in 1..len |-> Frames[i]]
    BY <1>2, <2>1
  <2>3. \A i \in 1..len : Frames[i] = Frame(i)
    BY <1>1, <1>2 DEF Frames, len
  <2> QED
    BY <2>2, <2>3
<1>9. Frames' = SubSeq(Frames, 1, len)
  BY <1>5, <1>6, <1>8
<1>10. len = Len(Frames) - n /\ Len(Frames) = Len(assertions_trail)
  BY FramesType DEF len
<1> QED
  BY <1>1, <1>9, <1>10

(* An assertion above level 0 goes to the innermost level only. *)
LEMMA AssertFrames ==
  ASSUME TypeOK, ContextInv, TypeOK', ContextInv',
         NEW e \in Input, AssertInContext(e)
  PROVE  /\ Frames # <<>>
         /\ Frames' = [Frames EXCEPT ![Len(Frames)] = @ \cup {e}]
<1> DEFINE len == Len(assertions_trail)
<1>1. assertions_trail # <<>> /\ assertions_trail' = assertions_trail
  BY DEF AssertInContext
<1>2. len \in Nat /\ len >= 1 /\ len \in 1..len
  BY <1>1 DEF TypeOK
<1>3. Len(Frames) = len /\ Frames # <<>>
  BY <1>1, FramesType
<1>4. Elements(assertions') = Elements(assertions) \cup {e}
  <2>1. assertions_cache = Elements(assertions)
        /\ assertions_cache' = Elements(assertions')
    BY DEF ContextInv, Elements
  <2> QED
    BY <2>1 DEF AssertInContext
<1>5. \A i \in 1..len : i # len => Frame(i)' = Frame(i)
  <2>1. CASE assertions' = assertions
    BY <1>1, <2>1 DEF Frame
  <2>2. CASE assertions' = Append(assertions, e)
    <3>1. \A j \in 1..Len(assertions) : assertions'[j] = assertions[j]
      BY <2>2, ExpAssumption DEF TypeOK
    <3>2. ASSUME NEW i \in 1..len, i # len PROVE Frame(i)' = Frame(i)
      <4>1. Mark(i) \in 0..Len(assertions) /\ Len(assertions) \in Nat
            /\ Mark(i) = assertions_trail[i + 1]
        BY <3>2, MarkType DEF Mark
      <4>2. /\ Frame(i) = {assertions[j] : j \in 1..Mark(i)}
            /\ Frame(i)' = {assertions'[j] : j \in 1..Mark(i)}
        BY <1>1, <3>2, <4>1 DEF Frame
      <4>3. \A j \in 1..Mark(i) : assertions'[j] = assertions[j]
        BY <3>1, <4>1
      <4> QED
        BY <4>2, <4>3
    <3> QED
      BY <3>2
  <2> QED
    BY <2>1, <2>2 DEF AssertInContext
<1>6. \A i \in 1..len : i = len => /\ Frame(i) = Elements(assertions)
                                   /\ Frame(i)' = Elements(assertions')
  <2>1. DOMAIN assertions = 1..Len(assertions)
        /\ DOMAIN assertions' = 1..Len(assertions')
    BY DEF TypeOK
  <2> QED
    BY <1>1, <2>1 DEF Frame, Elements
<1>7. Frames' = [i \in 1..len |-> Frame(i)'] /\ Frames = [i \in 1..len |-> Frame(i)]
  BY <1>1 DEF Frames
<1> HIDE DEF len
<1>8. [Frames EXCEPT ![len] = @ \cup {e}] =
        [i \in 1..len |-> IF i = len THEN Frame(len) \cup {e} ELSE Frame(i)]
  BY <1>2, <1>7
<1>9. \A i \in 1..len :
        Frame(i)' = IF i = len THEN Frame(len) \cup {e} ELSE Frame(i)
  BY <1>2, <1>4, <1>5, <1>6
<1> QED
  BY <1>3, <1>7, <1>8, <1>9

-----------------------------------------------------------------------------
(* A fresh instance allows every world and has no level open. *)
LEMMA ContextInit == Init => Context!Init
<1> SUFFICES ASSUME Init PROVE Context!Init
  OBVIOUS
<1>1. Base = World
  <2>1. Models({}) = World
    BY ModelsFacts
  <2>2. Equiv(simplified) = World
    BY DEF Init, Equiv
  <2> QED
    BY <2>1, <2>2 DEF Init, Base
<1>2. Frames = <<>>
  <2>1. TypeOK /\ ContextInv
    BY InitInv
  <2> QED
    BY <2>1, FramesType DEF Init
<1> QED
  BY <1>1, <1>2 DEF Init, Context!Init, Frames

(* What the user assumed is assumed; until the next check nothing else is.  *)
AssumedInv ==
  assumed \subseteq orig_assumptions /\ (~valid_assignments => orig_assumptions = assumed)

(* Only a check adds assumptions that are not the user's.                   *)
LEMMA AssumedStep ==
  ASSUME AssumedInv, [Next]_vars
  PROVE  AssumedInv'
<1> USE DEF AssumedInv
<1>1. ASSUME NEW n \in 1..MaxLevel, Push(n) \/ Pop(n) PROVE AssumedInv'
  BY <1>1 DEF Push, Pop, assumeVars, modelVars
<1>2. ASSUME NEW e \in Input, AssertInContext(e) PROVE AssumedInv'
  BY <1>2 DEF AssertInContext, assumeVars, modelVars
<1>3. ASSUME NEW e \in Input, AssertAtBase(e) PROVE AssumedInv'
  BY <1>3 DEF AssertAtBase, AssertExp, ResetModel, Fresh
<1>4. ASSUME NEW e \in Input, Assume(e) PROVE AssumedInv'
  BY <1>4 DEF Assume, AssumedOrig, ResetModel, Fresh
<1>5. CASE ResetAssumptions \/ FixateAssumptions
  BY <1>5 DEF ResetAssumptions, FixateAssumptions
<1>6. CASE GetFailedAssumptions \/ UNCHANGED vars
  BY <1>6 DEF GetFailedAssumptions, vars, assumeVars, modelVars
<1>7. CASE Simplify
  BY <1>7 DEF Simplify, BtorSimplify, ResetModel, Fresh
<1>8. CASE CheckSat
  BY <1>8 DEF CheckSat, BtorSimplify, AssumedOrig, Fresh
<1> QED
  BY <1>1, <1>2, <1>3, <1>4, <1>5, <1>6, <1>7, <1>8 DEF Next

(* Every call of the session is a step of the abstract one or invisible:    *)
(* boolector_get_failed_assumptions is not seen, boolector_simplify only    *)
(* forgets the answer, and a check answers for what the levels and the      *)
(* pending assumptions say together.                                        *)
LEMMA ContextNext ==
  ASSUME SessionInv, SessionInv', AssumedInv, [Next]_vars
  PROVE  [FixatesContexts \/ Context!Next]_(Context!vars)
<1> USE DEF SessionInv
<1>1. ASSUME NEW n \in 1..MaxLevel, Push(n) PROVE Context!Next
  <2>1. Frames' = Frames \o [i \in 1..n |-> Context!Top]
    BY <1>1, PushFrames, FramesType DEF Context!Top, Frames
  <2>2. UNCHANGED <<Base, Pending, Used, last_sat_result>>
    BY <1>1 DEF Push, formulaVars, assumeVars, solverVars, modelVars, Base,
                Models, Equiv, Pending, Used
  <2>3. Context!Push(n)
    BY <2>1, <2>2 DEF Context!Push, Frames, Pending, Used
  <2>4. n \in 1..(Len(Frames') - Len(Frames))
    <3>1. Len(assertions_trail') = Len(assertions_trail) + n
      <4>1. n \in Nat /\ [i \in 1..n |-> Len(assertions)] \in Seq(Nat)
            /\ Len([i \in 1..n |-> Len(assertions)]) = n
        BY BoundAssumption, MarkType
      <4> QED
        BY <1>1, <4>1 DEF Push, TypeOK
    <3>2. Len(Frames) = Len(assertions_trail) /\ Len(assertions_trail) \in Nat
      BY FramesType, MarkType
    <3>3. Frames' = [i \in 1..Len(assertions_trail') |-> Frame(i)']
      BY DEF Frames
    <3>4. Len(Frames') = Len(assertions_trail')
      BY <3>1, <3>2, <3>3, BoundAssumption
    <3> QED
      BY <3>1, <3>2, <3>4, BoundAssumption
  <2> QED
    BY <2>3, <2>4 DEF Context!Next, Frames
<1>2. ASSUME NEW n \in 1..MaxLevel, Pop(n) PROVE Context!Next
  <2>1. n \in 1..Len(Frames) /\ Frames' = SubSeq(Frames, 1, Len(Frames) - n)
    BY <1>2, PopFrames
  <2>2. UNCHANGED <<Base, Pending, Used, last_sat_result>>
    BY <1>2 DEF Pop, formulaVars, assumeVars, solverVars, modelVars, Base,
                Models, Equiv, Pending, Used
  <2>3. Context!Pop(n)
    BY <2>1, <2>2 DEF Context!Pop, Frames, Pending, Used
  <2> QED
    BY <2>1, <2>3 DEF Context!Next, Frames
<1>3. ASSUME NEW e \in Input, AssertInContext(e) PROVE Context!Next
  <2>1. Frames # <<>> /\ Frames' = [Frames EXCEPT ![Len(Frames)] = @ \cup {e}]
    BY <1>3, AssertFrames
  <2>2. UNCHANGED <<Base, Pending, Used, last_sat_result>>
    BY <1>3 DEF AssertInContext, formulaVars, assumeVars, solverVars, modelVars,
                Base, Models, Equiv, Pending, Used
  <2>3. Context!AssertTop(e)
    BY <2>1, <2>2 DEF Context!AssertTop, Frames, Pending, Used
  <2> QED
    BY <2>3, ExpAssumption DEF Context!Next
<1>4. ASSUME UNCHANGED ctxVars PROVE Frames' = Frames
  BY <1>4 DEF ctxVars, Frames, Frame
<1>5. ASSUME NEW e \in Input, AssertAtBase(e) PROVE Context!Next
  <2>1. Base' = Base \cap Den[e]
    <3>1. e \in Exp /\ {e} \subseteq Exp /\ Den[e] \subseteq World
      BY ExpAssumption
    <3>2. Base' = Base \cap Models({e})
      BY <1>5, <3>1, AssertMeaning DEF AssertAtBase
    <3> QED
      BY <3>1, <3>2 DEF Models
  <2>2. Frames = <<>> /\ Frames' = Frames
    BY <1>4, <1>5, FramesType DEF AssertAtBase
  <2>3. Used' = {} /\ UNCHANGED <<Pending, last_sat_result>>
    BY <1>5 DEF AssertAtBase, AssertExp, ResetModel, Fresh, solverVars, Used,
                Pending
  <2>4. Context!AssertBase(e)
    BY <2>1, <2>2, <2>3 DEF Context!AssertBase, Frames, Pending, Used
  <2> QED
    BY <2>4, ExpAssumption DEF Context!Next
<1>6. ASSUME NEW e \in Input, Assume(e) PROVE Context!Next
  <2>1. Base' = Base
    BY <1>6 DEF Assume, formulaVars, Base, Models, Equiv
  <2>2. Frames' = Frames
    BY <1>4, <1>6 DEF Assume
  <2>3. Used' = {} /\ Pending' = Pending \cup {e}
        /\ UNCHANGED last_sat_result
    BY <1>6 DEF Assume, AssumedOrig, ResetModel, Fresh, solverVars, Used, Pending
  <2>4. Context!Assume(e)
    BY <2>1, <2>2, <2>3 DEF Context!Assume, Frames, Pending, Used
  <2> QED
    BY <2>4, ExpAssumption DEF Context!Next
<1>7. ASSUME ResetAssumptions PROVE Context!Next
  <2>1. Base' = Base
    BY <1>7 DEF ResetAssumptions, formulaVars, Base, Models, Equiv
  <2>2. Frames' = Frames
    BY <1>4, <1>7 DEF ResetAssumptions
  <2>3. Used' = {} /\ Pending' = {} /\ UNCHANGED last_sat_result
    BY <1>7 DEF ResetAssumptions, solverVars, Used, Pending
  <2>4. Context!Reset
    BY <2>1, <2>2, <2>3 DEF Context!Reset, Frames, Pending, Used
  <2> QED
    BY <2>4 DEF Context!Next
<1>8. ASSUME FixateAssumptions, orig_assumptions \subseteq assumed PROVE Context!Next
  <2>1. Base' = Base \cap Models(assumptions)
    <3>1. CASE assumptions = {}
      <4>1. Base' = Base
        BY <1>8, <3>1 DEF FixateAssumptions, formulaVars, Base, Models, Equiv
      <4>2. Base \cap Models({}) = Base
        BY DEF Base, Models
      <4> QED
        BY <3>1, <4>1, <4>2
    <3>2. CASE assumptions # {}
      <4>1. AssertExp(assumptions) /\ assumptions \subseteq Exp
        BY <1>8, <3>2 DEF FixateAssumptions, TypeOK
      <4> QED
        BY <4>1, AssertMeaning
    <3> QED
      BY <3>1, <3>2
  <2>2. Pending \cup Used = orig_assumptions
    BY <1>8 DEF Pending, Used, AssumedInv
  <2>3. Base' = Base \cap Models(Pending \cup Used)
    BY <2>1, <2>2 DEF AssumptionsFaithful
  <2>4. Frames' = Frames
    BY <1>4, <1>8 DEF FixateAssumptions
  <2>5. Used' = {} /\ Pending' = {} /\ UNCHANGED last_sat_result
    BY <1>8 DEF FixateAssumptions, solverVars, Used, Pending
  <2>6. Models(Pending \cup Used) = Context!Models(Pending \cup Used)
    BY DEF Models, Context!Models
  <2>7. Context!Fixate
    BY <2>3, <2>4, <2>5, <2>6 DEF Context!Fixate, Frames, Pending, Used
  <2> QED
    BY <2>7 DEF Context!Next
<1>9. ASSUME GetFailedAssumptions \/ UNCHANGED vars PROVE UNCHANGED Context!vars
  <2>1. Base' = Base
    <3>1. UNCHANGED <<constraints, simplified, inconsistent>>
      BY <1>9 DEF GetFailedAssumptions, vars, formulaVars
    <3> QED
      BY <3>1 DEF Base, Models, Equiv
  <2>2. Frames' = Frames
    BY <1>4, <1>9 DEF GetFailedAssumptions, vars
  <2>3. UNCHANGED <<Pending, Used, last_sat_result>>
    BY <1>9 DEF GetFailedAssumptions, vars, assumeVars, solverVars, modelVars,
                Used, Pending
  <2> QED
    BY <2>1, <2>2, <2>3 DEF Context!vars, Frames, Pending, Used
<1>10. ASSUME Simplify PROVE Context!Next
  <2>1. Base' = Base
    <3>1. Fresh(orig_assumptions, {}) \subseteq Exp
      BY DEF Fresh, TypeOK
    <3> QED
      BY <1>10, <3>1, BtorSimplifyKeepsBase DEF Simplify
  <2>2. Frames' = Frames
    BY <1>4, <1>10 DEF Simplify
  <2>3. Used' = {} /\ Pending' = Pending /\ UNCHANGED last_sat_result
    BY <1>10 DEF Simplify, BtorSimplify, ResetModel, Fresh, solverVars, Used,
                 Pending
  <2>4. Context!Forget
    BY <2>1, <2>2, <2>3 DEF Context!Forget, Frames, Pending, Used
  <2> QED
    BY <2>4 DEF Context!Next
<1>11. ASSUME CheckSat PROVE Context!Next
  <2> DEFINE orig == AssumedOrig(Elements(assertions))
             worlds == Base \cap Models(Elements(assertions) \cup Pending)
  <2>1. Base' = Base
    <3>1. orig \subseteq Exp
      BY AssumedMeaning, ElementsType
    <3> QED
      BY <1>11, <3>1, BtorSimplifyKeepsBase DEF CheckSat
  <2>2. orig_assumptions' = Elements(assertions) \cup Pending
    BY <1>11 DEF CheckSat, BtorSimplify, AssumedOrig, Fresh, Pending, AssumedInv
  <2>3. Base' \cap Models(assumptions') = worlds
    BY <2>1, <2>2 DEF AssumptionsFaithful, Models
  <2>4. Frames' = Frames
    BY <1>4, <1>11 DEF CheckSat
  <2>5. Used' = Pending /\ Pending' = {}
    BY <1>11 DEF CheckSat, Fresh, Used, Pending
  <2>6. /\ last_sat_result' \in {"SAT", "UNSAT", "UNKNOWN"}
        /\ last_sat_result' = "SAT" => worlds # {}
        /\ last_sat_result' = "UNSAT" => worlds = {}
    <3>1. CASE inconsistent'
      <4>1. last_sat_result' = "UNSAT" /\ Base' = {}
        BY <1>11, <3>1 DEF CheckSat, Base
      <4> QED
        BY <2>1, <4>1
    <3>2. CASE ~inconsistent'
      <4>1. Solve
        BY <1>11, <3>2 DEF CheckSat
      <4> QED
        BY <2>3, <4>1 DEF Solve
    <3> QED
      BY <3>1, <3>2
  <2>7. Context!Top = Elements(assertions)
    BY FramesType DEF Context!Top, Frames
  <2>8. worlds = Base \cap Context!Models(Context!Top \cup Pending)
    BY <2>7 DEF Models, Context!Models
  <2> HIDE DEF worlds
  <2>9. Context!Check
    BY <2>1, <2>4, <2>5, <2>6, <2>7, <2>8
      DEF Context!Check, Frames, Pending, Used
  <2> QED
    BY <2>9 DEF Context!Next
<1> QED
  BY <1>1, <1>2, <1>3, <1>5, <1>6, <1>7, <1>8, <1>9, <1>10, <1>11 DEF Next, FixatesContexts

(* boolector_push, _pop, _assert, _assume, _sat and the rest together do    *)
(* what an incremental solver promises: simplification is invisible,        *)
(* contexts nest, assumptions count for one check, and every answer is      *)
(* right for the constraints, the open levels and the assumptions.  Only a  *)
(* fixate of assertions of contexts is no step of the abstract solver.      *)
THEOREM SessionImplementsContext == Spec => ImplementsContext
<1>1. Spec => []AssumedInv
  <2>1. AssumedInv /\ [Next]_vars => AssumedInv'
    BY AssumedStep
  <2>2. Init => AssumedInv
    BY DEF Init, AssumedInv
  <2> QED
    BY <2>1, <2>2, PTL DEF Spec
<1> QED
  BY <1>1, SessionCorrect, ContextInit, ContextNext, PTL DEF Spec, ImplementsContext
=============================================================================
