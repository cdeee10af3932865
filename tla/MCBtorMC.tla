------------------------------ MODULE MCBtorMC ------------------------------
(***************************************************************************)
(* A state of three values: a counter, two loops of which only one can be  *)
(* reached, and a state that may stay or count because a part of it has no *)
(* next function; without a declaration it is free.  What inputs choose is *)
(* part of that freedom, so there is one input value.                      *)
(***************************************************************************)
EXTENDS BtorMC

MCState == 0..2
MCInits == {{0}}

MCNexts ==
  {[p \in Point |-> {(p[1] + 1) % 3}],
   [p \in Point |-> {IF p[1] = 0 THEN 0 ELSE 2}],
   [p \in Point |-> {p[1], (p[1] + 1) % 3}]}

MCBads == {{0} \X Input, {2} \X Input}
MCConstraints == {Point \ {<<1, 1>>}}

ByOption == {<<"bmc", FALSE>>, <<"kind", FALSE>>, <<"kind", TRUE>>}
=============================================================================
