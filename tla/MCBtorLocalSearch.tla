------------------------- MODULE MCBtorLocalSearch --------------------------
(***************************************************************************)
(* Small formulas for the two local search engines: for PROP one formula   *)
(* per kind of node, with satisfiable and with contradictory roots; for    *)
(* SLS one formula of nested conjunctions under every search strategy.     *)
(***************************************************************************)
EXTENDS BtorLocalSearch

V(w) == [k |-> "var", w |-> w, e |-> <<>>, x |-> 0, y |-> 0]
C(w, v) == [k |-> "const", w |-> w, e |-> <<>>, x |-> v, y |-> 0]
Op(k, w, s, t) == [k |-> k, w |-> w, e |-> <<s, t>>, x |-> 0, y |-> 0]
Ite(w, c, s, t) == [k |-> "cond", w |-> w, e |-> <<c, s, t>>, x |-> 0, y |-> 0]
Sl(s, u, l) == [k |-> "slice", w |-> u - l + 1, e |-> <<s>>, x |-> u, y |-> l]

Default ==
  [engine |-> "prop", path |-> "essential", noMove |-> FALSE, flips |-> FALSE,
   inverse |-> BOOLEAN, bandit |-> FALSE, term |-> FALSE, restarts |-> FALSE, nprops |-> 0,
   nflips |-> 0, constProb |-> 0, flipCond |-> TRUE, strategy |-> "best", just |-> FALSE,
   gw |-> FALSE, range |-> FALSE, segment |-> FALSE, randWalk |-> FALSE, randAll |-> FALSE,
   randRange |-> FALSE, moveProp |-> FALSE, nProp |-> 1, nSls |-> 1, forceRw |-> FALSE,
   incTest |-> FALSE]

P(nodes, cons, asms, o) == [nodes |-> nodes, cons |-> cons, asms |-> asms, o |-> o]

(* x op y = ~z, false at first and with every target to come; 0 / 0 is ~0 *)
Binary(k, w, o) ==
  P(<<V(w), V(w), Op(k, w, 1, 2), V(w), Op("eq", 1, 3, IF k = "udiv" THEN 4 ELSE -4)>>, {5}, {}, o)

(* x shifted by n is ~y: n may be too large for UintBits, or even for ShiftBits; *)
(* x shifted by ~y is 2                                                          *)
ShiftBy(k, w, n) ==
  P(<<V(w), C(w, n), Op(k, w, 1, 2), V(w), Op("eq", 1, 3, -4)>>, {5}, {},
    [Default EXCEPT !.inverse = {TRUE}])
WideShift(k, w) ==
  P(<<V(w), V(w), Op(k, w, 1, -2), C(w, 2), Op("eq", 1, 3, 4)>>, {5}, {}, Default)

(* ((2 << x) & 2) # 2: some targets exclude each other *)
Stuck(o) ==
  P(<<V(2), C(2, 2), Op("sll", 2, 2, 1), Op("and", 2, 3, 2), Op("eq", 1, 4, 2)>>, {-5}, {},
    [o EXCEPT !.noMove = TRUE, !.inverse = {TRUE}])

PropPrograms ==
  {Binary(k, 2, [Default EXCEPT !.path = p]) :
     k \in {"add", "and", "mul", "udiv", "urem", "sll", "srl"},
     p \in {"essential", "random"}}
    \cup {Binary(k, 3, Default) : k \in {"mul", "udiv", "urem", "sll", "srl"}}
    \cup {ShiftBy(k, 4, n) : k \in {"sll", "srl"}, n \in {8, 10}}
    \cup {ShiftBy("srl", 5, 18), WideShift("sll", 5), WideShift("srl", 5)}
    \cup
  {\* a comparison, an inverted disequality; a consistent value may be a flipped bit
   P(<<V(2), V(2), Op("ult", 1, 1, 2), Op("eq", 1, -1, 2), Op("and", 1, 3, -4)>>, {5}, {},
     [Default EXCEPT !.path = "controlling", !.bandit = TRUE, !.restarts = TRUE]),
   P(<<V(1), V(2), Op("concat", 3, 1, -2), Sl(3, 1, 0), Op("eq", 1, 4, 2), Op("eq", 1, 1, 5)>>,
     {-5}, {-6}, [Default EXCEPT !.flips = TRUE, !.nprops = 3]),
   \* a condition whose enabled branch is a constant
   P(<<V(1), V(2), C(2, 0), Ite(2, 1, 3, 2), C(2, 2), Op("eq", 1, 4, 5)>>, {6}, {},
     [Default EXCEPT !.constProb = 1, !.term = TRUE]),
   Stuck([Default EXCEPT !.nprops = 4]),
   \* no solution: a false root, opposite assumptions
   P(<<C(1, 0), V(1)>>, {1}, {2}, Default),
   P(<<V(1), V(1), Op("and", 1, 1, 2)>>, {}, {3, -3}, Default)}

(* x < y, (x = 1) and p and q, nested so that an average of scores may round to 1.0 *)
Search(o) ==
  P(<<V(2), V(1), C(2, 1), Op("eq", 1, 1, 3), Op("and", 1, 4, 2), V(1), Op("and", 1, 5, 6),
      Op("ult", 1, 1, -1)>>, {7}, {-8}, o)
Sls == [Default EXCEPT !.engine = "sls"]

(* x = 6 for x of w bits: segments fit in words of 4 bits and more; then x and y = 3 *)
Segments(w) ==
  P(<<V(w), C(w, 6), Op("eq", 1, 1, 2)>>, {3}, {}, [Sls EXCEPT !.segment = TRUE])
TwoSegments ==
  P(<<V(4), V(5), Sl(2, 3, 0), Op("and", 4, 1, 3), C(4, 3), Op("eq", 1, 4, 5)>>,
    {6}, {}, [Sls EXCEPT !.segment = TRUE, !.gw = TRUE, !.restarts = TRUE])

SlsPrograms ==
  {Search([Sls EXCEPT !.strategy = s]) : s \in {"best", "bestSame", "first", "randWalk"}}
    \cup
  {Stuck([Sls EXCEPT !.strategy = "alwaysProp", !.forceRw = TRUE]),
   Stuck([Sls EXCEPT !.strategy = "alwaysProp"]),
   Search([Sls EXCEPT !.moveProp = TRUE, !.randWalk = TRUE, !.range = TRUE, !.just = TRUE]),
   Search([Sls EXCEPT !.gw = TRUE, !.incTest = TRUE, !.randAll = TRUE, !.restarts = TRUE]),
   Search([Sls EXCEPT !.randRange = TRUE, !.nflips = 60]),
   Segments(3), Segments(4), Segments(5), TwoSegments,
   P(<<C(1, 0), V(1)>>, {1}, {2}, Sls),
   P(<<C(2, 0), C(2, 2), Op("eq", 1, 1, 2)>>, {3}, {}, Sls)}

(* (p and ~q) and (q or r), with a shared input and an inverted root *)
Aig(cons, asms, o) ==
  P(<<V(1), V(1), V(1), Op("and", 1, 1, -2), Op("and", 1, -2, -3), Op("and", 1, 4, -5)>>, cons, asms,
    [o EXCEPT !.engine = "aigprop"])
AigPrograms ==
  {Aig({6}, {-1}, [Default EXCEPT !.restarts = TRUE]), Aig({6}, {}, [Default EXCEPT !.term = TRUE]),
   Aig({4}, {-5, 3}, Default), Aig({-6}, {}, Default), Aig({6, -6}, {}, Default)}

MCPrograms == PropPrograms \cup SlsPrograms \cup AigPrograms
=============================================================================
