------------------------------- MODULE BtorMC -------------------------------
(***************************************************************************)
(* The model checker of btormc.c: declaration of a transition system, the  *)
(* unrolling of its frames into a second, incremental solver instance      *)
(* ("forward"), bounded model checking, k-induction with simple paths, the *)
(* recorded bounds and the assignments of a witness.                       *)
(*                                                                         *)
(* Data abstraction.  The state variables of a system together take a      *)
(* value in State, its inputs one in Input; a point is a pair of both.     *)
(* next[p] are the states that may follow point p: one if every state has  *)
(* a next function, several if some state has none and is read as an       *)
(* input.  The forward instance is the set of its models: the paths        *)
(* (sequences of points, one per frame) that satisfy all it was told to    *)
(* assert.  A call of boolector_sat picks a model of the assertions and    *)
(* assumptions if there is one (module BtorSession is about that call).    *)
(* Trace generation keeps its default, on.                                 *)
(***************************************************************************)
EXTENDS Integers, Sequences, FiniteSets

CONSTANTS
  State, Input,
  Inits,        \* what a user may initialise the states to: sets of states
  Nexts,        \* the next state functions a user may declare
  Bads,         \* bad state properties a user may declare: sets of points
  Constraints,  \* environment constraints a user may declare: sets of points
  MinBounds,    \* the values of mink in a call
  MaxBounds,    \* the values of maxk in a call
  MaxBad,       \* bound: declared bad state properties
  ReadTimes,    \* the times at which a witness is read
  Calls,        \* the functions that are called, and with k-induction set or not
  FirstOptions, \* options that are set before there are frames
  LateOptions   \* options that are set when there are frames

Point == State \X Input
Option == {"stopFirst", "kind", "simplePath"}

ASSUME SystemAssumption ==
  /\ Inits \subseteq SUBSET State
  /\ Nexts \subseteq [Point -> SUBSET State]
  /\ Bads \subseteq SUBSET Point
  /\ Constraints \subseteq SUBSET Point
  /\ MinBounds \subseteq Nat /\ MaxBounds \subseteq Nat
  /\ MaxBad \in Nat /\ ReadTimes \subseteq Nat
  /\ Calls \subseteq {"bmc", "kind"} \X BOOLEAN
  /\ FirstOptions \subseteq Option /\ LateOptions \subseteq Option

(* The states of a system are a product of bit-vectors and arrays.         *)
ASSUME FiniteAssumption == IsFiniteSet(State)

(* How the model checker is used: bounded model checking is what runs      *)
(* without k-induction (btormcmain.c).                                     *)
ASSUME UsageAssumption == <<"bmc", TRUE>> \notin Calls

VARIABLES
  init, next, constraint,  \* the declared system
  bad,         \* mc->bad
  opt,         \* mc->options
  state,       \* mc->state
  reached,     \* mc->reached
  num_reached, \* mc->num_reached
  frames,      \* number of mc->frames
  frame_bad,   \* f->bad of the last frame: the properties it still checks
  assumed,     \* mc->init_assumptions has been filled
  forward,     \* models of mc->forward
  model,       \* model of the last boolector_sat on it, <<>> if none
  model2const, \* f->model2const of the frames that have one
  pc,          \* where the running call stands
  call,        \* its arguments
  i,           \* property that check_last_forward_frame is at
  reachable,   \* it found a reachable property
  result,      \* what the last call returned
  proved,      \* properties reported "unsat" (printed, not kept by the code)
  gap          \* the bounds at which a property was left unchecked (not in
               \* the code): pairs of both

sysVars == <<init, next, constraint, bad>>
runVars == <<frames, frame_bad, assumed, forward, model, num_reached, i, reachable,
             proved, gap>>
vars == <<sysVars, runVars, opt, state, reached, model2const, pc, call, result>>

NONE == "NO_MC_STATE"
SAT == "SAT_MC_STATE"
UNSAT == "UNSAT_MC_STATE"

NoConst == [t \in {} |-> <<>>]

Init ==
  /\ init = State /\ next = [p \in Point |-> State] /\ constraint = Point
  /\ bad = <<>> /\ reached = <<>>
  /\ opt = [o \in Option |-> o = "stopFirst"]
  /\ state = NONE /\ num_reached = 0
  /\ frames = 0 /\ frame_bad = {} /\ assumed = FALSE
  /\ forward = {<<>>} /\ model = <<>> /\ model2const = NoConst
  /\ pc = "idle" /\ call = [mode |-> "bmc", mink |-> 0, maxk |-> 0]
  /\ i = 1 /\ reachable = FALSE /\ result = -1
  /\ proved = {} /\ gap = {}

(***************************************************************************)
(* Declaring the system: only before the model checker ran.                *)
(***************************************************************************)
MayDeclare == pc = "idle" /\ state = NONE

DeclareInit(S) ==
  /\ MayDeclare
  /\ init = State
  /\ init' = S
  /\ UNCHANGED <<next, constraint, bad, runVars, opt, state, reached, model2const,
                 pc, call, result>>

DeclareNext(f) ==
  /\ MayDeclare
  /\ next = [p \in Point |-> State]
  /\ next' = f
  /\ UNCHANGED <<init, constraint, bad, runVars, opt, state, reached, model2const,
                 pc, call, result>>

DeclareBad(b) ==
  /\ MayDeclare
  /\ Len(bad) < MaxBad
  /\ bad' = Append(bad, b)
  /\ reached' = Append(reached, -1)
  /\ UNCHANGED <<init, next, constraint, runVars, opt, state, model2const,
                 pc, call, result>>

DeclareConstraint(c) ==
  /\ MayDeclare
  /\ constraint' = constraint \cap c
  /\ UNCHANGED <<init, next, bad, runVars, opt, state, reached, model2const,
                 pc, call, result>>

SetOpt(o) ==
  /\ pc = "idle"
  /\ o \in (IF frames = 0 THEN FirstOptions ELSE LateOptions)
  /\ opt' = [opt EXCEPT ![o] = ~@]
  /\ UNCHANGED <<sysVars, runVars, state, reached, model2const, pc, call, result>>

ReleaseAssignments == model2const' = NoConst

Call(mode, mink, maxk) ==
  /\ pc = "idle"
  /\ <<mode, opt["kind"]>> \in Calls
  /\ ReleaseAssignments
  /\ state' = NONE
  /\ call' = [mode |-> mode, mink |-> mink, maxk |-> maxk]
  /\ pc' = "loop"
  /\ UNCHANGED <<sysVars, runVars, opt, reached, result>>

(* The states of frame 0 take their initial values, which k-induction only *)
(* assumes when it wants them; later frames follow the one before.         *)
FirstPoints == {p \in constraint : opt["kind"] \/ p[1] \in init}

Unrolled ==
  IF frames = 0
    THEN {<<p>> : p \in FirstPoints}
    ELSE UNION {{Append(path, p) : p \in {q \in constraint : q[1] \in next[path[frames]]}}
                  : path \in forward}

Unreached == {b \in DOMAIN bad : reached[b] < 0}

(* Seeded fault: the bound mink itself is not checked. *)
InitializeNewForwardFrameLate ==
  /\ pc = "loop"
  /\ frames <= call.maxk
  /\ forward' = Unrolled
  /\ assumed' = IF frames = 0 THEN opt["kind"] ELSE assumed
  /\ frame_bad' = Unreached
  /\ frames' = frames + 1
  /\ model' = <<>>
  /\ i' = 1 /\ reachable' = FALSE
  /\ pc' = IF frames <= call.mink THEN "loop" ELSE "check"
  /\ gap' = IF frames < call.mink THEN gap \cup (Unreached \X {frames}) ELSE gap
  /\ UNCHANGED <<sysVars, opt, state, reached, num_reached, model2const, call,
                 result, proved>>

InitializeNewForwardFrame ==
  /\ pc = "loop"
  /\ frames <= call.maxk
  /\ forward' = Unrolled
  /\ assumed' = IF frames = 0 THEN opt["kind"] ELSE assumed
  /\ frame_bad' = Unreached
  /\ frames' = frames + 1
  /\ model' = <<>>
  /\ i' = 1 /\ reachable' = FALSE
  /\ IF frames < call.mink
       THEN pc' = "loop" /\ gap' = gap \cup (Unreached \X {frames})
       ELSE pc' = "check" /\ gap' = gap
  /\ UNCHANGED <<sysVars, opt, state, reached, num_reached, model2const, call,
                 result, proved>>

k == frames - 1

(* The models under which boolector_sat answers: property b at the last    *)
(* frame, with and without the initial states.  If k-induction was set     *)
(* only after frame 0 was built, there is nothing to assume and both are *)
(* the same; if it was cleared since, an assertion of the code fails, and  *)
(* the model goes on as a build without assertions does.                   *)
InductionModels(b) == {path \in forward : path[frames] \in bad[b]}

BaseModels(b) ==
  {path \in InductionModels(b) : assumed => path[1][1] \in init}

SkipBad ==
  /\ pc = "check" /\ i \in DOMAIN bad \ frame_bad
  /\ i' = i + 1
  /\ UNCHANGED <<sysVars, opt, state, reached, num_reached, frames, frame_bad, assumed,
                 forward, model, model2const, pc, call, reachable, result, proved, gap>>

ReachBad ==
  /\ pc = "check" /\ i \in frame_bad
  /\ \E m \in BaseModels(i) : model' = m
  /\ state' = SAT
  /\ reachable' = TRUE
  /\ num_reached' = num_reached + 1
  /\ reached' = [reached EXCEPT ![i] = k]
  /\ IF opt["stopFirst"]
       THEN /\ pc' = "decide" /\ i' = i
            /\ gap' = gap \cup ({b \in frame_bad : b > i} \X {k})
       ELSE pc' = pc /\ i' = i + 1 /\ gap' = gap
  /\ UNCHANGED <<sysVars, opt, frames, frame_bad, assumed, forward, model2const, call,
                 result, proved>>

BaseUnsat ==
  /\ pc = "check" /\ i \in frame_bad
  /\ BaseModels(i) = {}
  /\ model' = <<>>
  /\ IF opt["kind"]
       THEN pc' = "induct" /\ UNCHANGED <<state, i>>
       ELSE pc' = pc /\ state' = UNSAT /\ i' = i + 1
  /\ UNCHANGED <<sysVars, opt, reached, num_reached, frames, frame_bad, assumed, forward,
                 model2const, call, reachable, result, proved, gap>>

(* The pairs of frames in which a path visits the same state.              *)
Repeats(path) ==
  {pair \in (1..frames) \X (1..frames) :
     pair[1] < pair[2] /\ path[pair[1]][1] = path[pair[2]][1]}

(* Seeded fault: the simple path constraints are built but not asserted. *)
AddNoConstraints(m) == forward' = {path \in forward : Repeats(m) # {}}

AddSimplePathConstraints(m) ==
  forward' = {path \in forward : Repeats(path) \cap Repeats(m) = {}}

InductionFails ==
  /\ pc = "induct"
  /\ \E m \in InductionModels(i) :
       IF opt["simplePath"] /\ Repeats(m) # {}
         THEN /\ AddSimplePathConstraints(m)
              /\ model' = <<>>
              /\ UNCHANGED <<pc, state, i>>
         ELSE /\ model' = m
              /\ state' = NONE
              /\ i' = i + 1
              /\ pc' = "check"
              /\ UNCHANGED forward
  /\ UNCHANGED <<sysVars, opt, reached, num_reached, frames, frame_bad, assumed,
                 model2const, call, reachable, result, proved, gap>>

(* Seeded fault: the induction step starts in the initial states. *)
InductionHoldsFromInit ==
  /\ pc = "induct"
  /\ BaseModels(i) = {}
  /\ model' = <<>>
  /\ state' = UNSAT
  /\ num_reached' = num_reached + 1
  /\ reached' = [reached EXCEPT ![i] = k]
  /\ proved' = proved \cup {i}
  /\ i' = i + 1
  /\ pc' = "check"
  /\ UNCHANGED <<sysVars, opt, frames, frame_bad, assumed, forward, model2const, call,
                 reachable, result, gap>>

(* Seeded fault: a proof leaves the state of the property checked before. *)
InductionHoldsSilently ==
  /\ pc = "induct"
  /\ InductionModels(i) = {}
  /\ model' = <<>>
  /\ num_reached' = num_reached + 1
  /\ reached' = [reached EXCEPT ![i] = k]
  /\ proved' = proved \cup {i}
  /\ i' = i + 1
  /\ pc' = "check"
  /\ UNCHANGED <<sysVars, opt, state, frames, frame_bad, assumed, forward, model2const, call,
                 reachable, result, gap>>

InductionHolds ==
  /\ pc = "induct"
  /\ InductionModels(i) = {}
  /\ model' = <<>>
  /\ state' = UNSAT
  /\ num_reached' = num_reached + 1
  /\ reached' = [reached EXCEPT ![i] = k]
  /\ proved' = proved \cup {i}
  /\ i' = i + 1
  /\ pc' = "check"
  /\ UNCHANGED <<sysVars, opt, frames, frame_bad, assumed, forward, model2const, call,
                 reachable, result, gap>>

CheckDone ==
  /\ pc = "check" /\ i > Len(bad)
  /\ pc' = "decide"
  /\ UNCHANGED <<sysVars, runVars, opt, state, reached, model2const, call, result>>

(* The call returns at this bound if the frame decided something and there *)
(* is no reason to go on.                                                  *)
Decided ==
  /\ IF call.mode = "bmc" THEN reachable ELSE state # NONE
  /\ opt["stopFirst"] \/ num_reached = Len(bad) \/ k = call.maxk

Return ==
  /\ pc = "decide"
  /\ Decided
  /\ result' = k
  /\ pc' = "idle"
  /\ UNCHANGED <<sysVars, runVars, opt, state, reached, model2const, call>>

NextBound ==
  /\ pc = "decide"
  /\ ~Decided
  /\ pc' = "loop"
  /\ UNCHANGED <<sysVars, runVars, opt, state, reached, model2const, call, result>>

BoundsExhausted ==
  /\ pc = "loop"
  /\ frames > call.maxk
  /\ state' = UNSAT
  /\ result' = -1
  /\ pc' = "idle"
  /\ UNCHANGED <<sysVars, runVars, opt, reached, model2const, call>>

(* Reading the value of a term at a time: terms other than inputs and      *)
(* states are evaluated through a map the frame keeps.                     *)
Assignment(t) ==
  /\ pc = "idle" /\ state = SAT
  /\ t \in 0..frames - 1
  /\ model # <<>>
  /\ model2const' = IF t \in DOMAIN model2const THEN model2const
                    ELSE [u \in DOMAIN model2const \cup {t} |->
                            IF u = t THEN model[t + 1] ELSE model2const[u]]
  /\ UNCHANGED <<sysVars, runVars, opt, state, reached, pc, call, result>>

CheckStep ==
  \/ InitializeNewForwardFrame
  \/ SkipBad
  \/ ReachBad
  \/ BaseUnsat
  \/ InductionFails
  \/ InductionHolds
  \/ CheckDone
  \/ Return
  \/ NextBound
  \/ BoundsExhausted

Next ==
  \/ \E S \in Inits : DeclareInit(S)
  \/ \E f \in Nexts : DeclareNext(f)
  \/ \E b \in Bads : DeclareBad(b)
  \/ \E c \in Constraints : DeclareConstraint(c)
  \/ \E o \in Option : SetOpt(o)
  \/ \E mode \in {"bmc", "kind"}, mink \in MinBounds, maxk \in MaxBounds :
       Call(mode, mink, maxk)
  \/ \E t \in ReadTimes : Assignment(t)
  \/ CheckStep

Spec == Init /\ [][Next]_vars /\ WF_vars(CheckStep)
-----------------------------------------------------------------------------
(* What the declared system can do, without frames and solvers: the points *)
(* that some run is at after n steps.                                      *)
ReachAt ==
  LET R[n \in Nat] ==
        IF n = 0 THEN {p \in constraint : p[1] \in init}
        ELSE {q \in constraint : \E p \in R[n - 1] : q[1] \in next[p]}
  IN R

HitsAt(b, n) == ReachAt[n] \cap bad[b] # {}

(* The shortest runs that violate property b have n steps.                 *)
ShortestAt(b, n) == HitsAt(b, n) /\ \A m \in 0..n - 1 : ~HitsAt(b, m)

(* A property that has a recorded bound and was not reported unsat is      *)
(* violated by a run of just that length.  If a shorter run violates it,   *)
(* then the shortest ones have a length at which the property was left     *)
(* unchecked, below a minimal bound or behind the first one reached: the   *)
(* unrolling, the initial states, the environment constraints and the      *)
(* simple path constraints of other properties never make or hide a        *)
(* violation.  Between calls the same is true of a property without a      *)
(* recorded bound and all violations as long as the frames reach.          *)
ReachedExact ==
  /\ \A b \in DOMAIN bad : reached[b] >= 0 /\ b \notin proved =>
       /\ HitsAt(b, reached[b])
       /\ \A n \in 0..reached[b] - 1 : ShortestAt(b, n) => <<b, n>> \in gap
  /\ pc = "idle" =>
       \A b \in Unreached : \A n \in 0..k : ShortestAt(b, n) => <<b, n>> \in gap

(* A property reported unsat by k-induction is violated by no run of any   *)
(* length, unless its shortest violations have a length at which it was    *)
(* left unchecked: the minimal bound and the stop at the first property    *)
(* are the only ways to a wrong proof if k-induction was set before there  *)
(* were frames.  If it was set later, the induction step starts in the     *)
(* initial states, and no more is claimed than that no violation up to the *)
(* bound of the report is missed.  A shortest violation visits no state    *)
(* twice, so lengths below |State| are enough.                             *)
ProofsSound ==
  \A b \in proved :
    \A n \in 0..(IF assumed THEN Cardinality(State) ELSE reached[b]) :
      ShortestAt(b, n) => <<b, n>> \in gap

(* When the model checker is left in its SAT state, the forward instance   *)
(* still holds the run that violates a property at the returned bound, and *)
(* everything read through the maps of the frames is of that run.          *)
WitnessStands ==
  pc = "idle" /\ state = SAT =>
    /\ model \in forward /\ model[1][1] \in init
    /\ result = k
    /\ \E b \in DOMAIN bad \ proved : reached[b] = k /\ model[frames] \in bad[b]
    /\ \A t \in DOMAIN model2const : model2const[t] = model[t + 1]

(* Every call returns: the loop over the bounds and the rechecks with more *)
(* simple path constraints end.                                            *)
CallReturns == pc # "idle" ~> pc = "idle"
=============================================================================
