---------------------------- MODULE MCBtorNodes ----------------------------
EXTENDS BtorNodes

\* Any terms over two variables, two references to each.
Free ==
  [numVars |-> 2, script |-> <<>>, releasable |-> 2..10,
   maxUse |-> 5, maxId |-> 9, maxExt |-> 2]

Scripted(script) ==
  [numVars |-> 3, script |-> script, releasable |-> {2, 6},
   maxUse |-> 8, maxId |-> 16, maxExt |-> 1]

(* With variables 2, 3, 4.  Node 5 is 3 = 4, 6 is 2 = 5, 7 is 2 = 4 and 8   *)
(* is 3 = 7, so that asserting 6 and 8 gives the cyclic substitutions       *)
(* 2 -> (3 = 4) and 3 -> (2 = 4).                                           *)
Cyclic == Scripted(<<<<3, 4>>, <<2, 5>>, <<2, 4>>, <<3, 7>>>>)

(* Here 5 is 2 = 3 and 6 is 2 = 5, a constraint that gives no substitution  *)
(* because 2 occurs on both sides; 7 and 8 contain it, which makes it       *)
(* embedded.                                                                *)
Embedded == Scripted(<<<<2, 3>>, <<2, 5>>, <<4, 6>>, <<3, 7>>>>)

AllUsers == {Free, Cyclic, Embedded}
=============================================================================
