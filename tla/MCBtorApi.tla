----------------------------- MODULE MCBtorApi ------------------------------
(***************************************************************************)
(* Programs over two variables of two bits, one of one bit and one of      *)
(* three: calls on inputs at every rewrite level, calls on one built       *)
(* operand, and calls on two built operands, where most of the rewrite     *)
(* rules apply.  The bound Ample on the recursion is never reached; those  *)
(* of Scarce are, and rules stop half way.  The last program splits sums   *)
(* of sums and inverted sums.                                              *)
(***************************************************************************)
EXTENDS BtorApi

A == Var(0, 2)
B == Var(1, 2)
P == Var(2, 1)
C == Var(3, 3)
MCValues ==
  {env \in [0..3 -> 0..7] :
     env[0] < 4 /\ env[1] < 4 /\ env[2] < 2 /\ env[3] = (env[0] + 3 * env[1]) % 8}

AllFunctions ==
  UnaryFunctions \cup BinaryFunctions \cup ShiftFunctions \cup BooleanFunctions
    \cup NodeFunctions \cup IndexedFunctions \cup ConstFunctions \cup TestFunctions \cup {"linear"}

Ample == 16
Scarce == 0..2

Program(level, bound, inputs, functions, operands) ==
  [level |-> level, bound |-> bound, inputs |-> inputs, functions |-> functions,
   operands |-> operands]

SumOfTwo == RewriteAdd(Context(3, Ample), A, Invert(B))

MCPrograms ==
  {Program(l, Ample, {A, B, Invert(A), P, C, Const(2, 1), Const(2, 2)}, AllFunctions, 0) :
     l \in 0..3}
    \cup {Program(3, n, {A, B, P, Const(2, 1)}, AllFunctions, 1) : n \in Scarce}
    \cup {Program(1, Ample, {A, B, P, Const(2, 1)}, NodeFunctions, 1),
          Program(3, Ample, {A, B, P, Const(2, 1)}, AllFunctions, 1),
          Program(3, Ample, {A, B, P, Const(2, 1)}, NodeFunctions, 2),
          Program(3, Ample, {C, Const(3, 3), Const(3, 4)},
                  CoreFunctions \cup {"slice", "neg", "concat"}, 2),
          Program(3, Ample, {A, B, Invert(A), SumOfTwo, Invert(SumOfTwo), Const(2, 1)},
                  {"add", "linear"}, 1)}
=============================================================================
