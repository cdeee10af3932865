----------------------------- MODULE BtorTerms ------------------------------
(***************************************************************************)
(* Bit-vector terms as the node layer represents them (btornode.c).  A     *)
(* node is a record; a pointer to it may carry the inversion tag, which is *)
(* the field inv.  Hash consing makes equal nodes one node, so equality of *)
(* pointers is equality of these values.                                   *)
(*                                                                         *)
(* k is the node's kind, w its width, e its children; x is the number of a *)
(* variable, the bits of a constant or the upper index of a slice, y the   *)
(* lower index.                                                            *)
(***************************************************************************)
EXTENDS Integers, Sequences

Node(k, w, e, x, y) == [k |-> k, inv |-> FALSE, w |-> w, e |-> e, x |-> x, y |-> y]

None == Node("none", 0, <<>>, 0, 0)     \* the null pointer

Invert(t) == [t EXCEPT !.inv = ~@]
Real(t) == [t EXCEPT !.inv = FALSE]
CondInvert(t, s) == IF t.inv THEN Invert(s) ELSE s

Ones(w) == 2^w - 1

-----------------------------------------------------------------------------
(* Creating nodes.                                                          *)

Var(name, w) == Node("var", w, <<>>, name, 0)

\* btor_node_create_bv_const: the bits of a constant node are even.
Const(w, v) ==
  IF v % 2 = 1 THEN Invert(Node("const", w, <<>>, Ones(w) - v, 0))
  ELSE Node("const", w, <<>>, v, 0)

ZeroExp(w) == Const(w, 0)
OneExp(w) == Const(w, 1)
OnesExp(w) == Const(w, Ones(w))
True == Const(1, 1)
False == Const(1, 0)

IsConst(t) == t.k = "const"
ConstVal(t) == IF t.inv THEN Ones(t.w) - t.x ELSE t.x
IsConstOne(t) == IsConst(t) /\ ConstVal(t) = 1
IsConstZero(t) == IsConst(t) /\ ConstVal(t) = 0

(* Children of commutative kinds are sorted by the ids of their nodes.  Ids *)
(* follow creation; any fixed choice between two nodes stands for it.       *)
Commutative == {"and", "eq", "add", "mul"}
CreatedFirst(s, t) == Real(s) = CHOOSE n \in {Real(s), Real(t)} : TRUE

Sorted(k, s, t) ==
  \/ k \notin Commutative
  \/ s = t
  \/ Invert(s) = t /\ t.inv
  \/ Real(s) # Real(t) /\ CreatedFirst(s, t)
  \/ Real(s) = Real(t)

Width(k, s, t) ==
  CASE k \in {"eq", "ult"} -> 1
    [] k = "concat" -> s.w + t.w
    [] OTHER -> s.w

(* create_exp and find_bv_exp: (= ~a b) and (= a ~b) are one node, the one  *)
(* that was created first.                                                  *)
Create(k, s, t) ==
  LET e == IF Sorted(k, s, t) THEN <<s, t>> ELSE <<t, s>>
      f == IF k = "eq" THEN CHOOSE p \in {e, <<Invert(e[1]), Invert(e[2])>>} : TRUE ELSE e
  IN Node(k, Width(k, s, t), f, 0, 0)

CreateCond(t, s, r) == Node("cond", s.w, <<t, s, r>>, 0, 0)

\* unary_exp_slice_exp: a slice of an inverted node is the inverted slice.
CreateSlice(level, t, u, l) ==
  IF level > 0 THEN CondInvert(t, Node("slice", u - l + 1, <<Real(t)>>, u, l))
  ELSE Node("slice", u - l + 1, <<t>>, u, l)

\* btor_node_bv_is_neg: what t is the negation of, None if it is none.
Neg(t) ==
  CASE t.inv \/ t.k # "add" -> None
    [] ~t.inv /\ t.k = "add" /\ IsConstOne(t.e[1]) -> Invert(t.e[2])
    [] ~t.inv /\ t.k = "add" /\ ~IsConstOne(t.e[1]) /\ IsConstOne(t.e[2]) -> Invert(t.e[1])
    [] OTHER -> None

-----------------------------------------------------------------------------
(* What a term means: SMT-LIB's bit-vectors as numbers below 2^w.           *)

Meaning(k, w, v, u) ==     \* w is the width of the operands (concat: of the second)
  CASE k = "and" -> LET bit(i) == ((v \div 2^i) % 2) * ((u \div 2^i) % 2) * 2^i
                        sum[i \in 0..w] == IF i = 0 THEN 0 ELSE sum[i - 1] + bit(i - 1)
                    IN sum[w]
    [] k = "eq" -> IF v = u THEN 1 ELSE 0
    [] k = "ult" -> IF v < u THEN 1 ELSE 0
    [] k = "add" -> (v + u) % 2^w
    [] k = "mul" -> (v * u) % 2^w
    [] k = "udiv" -> IF u = 0 THEN Ones(w) ELSE v \div u
    [] k = "urem" -> IF u = 0 THEN v ELSE v % u
    [] k = "sll" -> IF u >= w THEN 0 ELSE (v * 2^u) % 2^w
    [] k = "srl" -> IF u >= w THEN 0 ELSE v \div 2^u
    [] k = "concat" -> v * 2^w + u
=============================================================================
