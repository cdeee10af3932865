--------------------------- MODULE MCBtorFunSolver ---------------------------
(***************************************************************************)
(* Four candidates, of which one extends to functions.  Lemma "la" and     *)
(* "lb" exclude one candidate each, "lab" both, and "ext" is an instance   *)
(* of extensionality that is built for a consistent candidate too.         *)
(***************************************************************************)
EXTENDS BtorFunSolver

MCCand == 1..4
MCConsistent == {4}
MCLemma == {"la", "lb", "lab", "ext"}

MCCuts == [l \in MCLemma |->
  CASE l = "la" -> {1} [] l = "lb" -> {2} [] l = "lab" -> {1, 2} [] l = "ext" -> {3}]

MCReport == [c \in MCCand |->
  CASE c = 1 -> {{"la"}, {"la", "lb"}, {"lab"}}
    [] c = 2 -> {{"lb"}, {"lab", "ext"}}
    [] c = 3 -> {{"ext"}}
    [] c = 4 -> {{}, {"ext"}}]

MCFormula == {{1, 2, 3}, {2, 4}}
MCLimit == {-1, 1}
=============================================================================
