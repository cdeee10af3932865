----------------------------- MODULE MCBtorBlast ----------------------------
(***************************************************************************)
(* Small expressions to blast: every operator at a width that is a power   *)
(* of two and one that is not, with shared and inverted operands; all      *)
(* graphs of a few conjunctions; constraints and assumptions over nodes    *)
(* that share their parts.                                                 *)
(***************************************************************************)
EXTENDS BtorBlast

E(k, w, e, x, y) == [k |-> k, w |-> w, e |-> e, x |-> x, y |-> y]
V(w) == E("var", w, <<>>, 0, 0)
Op(k, w, p, q) == E(k, w, <<p, q>>, 0, 0)

Options == [sort |-> TRUE, restore |-> FALSE, know |-> FALSE, sat |-> FALSE, deletes |-> FALSE]
P(terms, roots, o) ==
  [exps |-> terms, roots |-> roots, asms |-> 1, max |-> 0, kinds |-> {}, o |-> o]

Widths(k) == IF k \in {"mul", "udiv", "urem"} THEN {1, 2} ELSE {1, 2, 3}
Operators == {"and", "eq", "add", "mul", "ult", "sll", "srl", "udiv", "urem"}
OperandPairs == {<<1, 2>>, <<-2, 1>>, <<1, -1>>, <<2, 2>>}

\* One operation, then the deletion of its result
Circuits ==
  UNION {{P(<<V(w), V(w), Op(k, IF k \in {"eq", "ult"} THEN 1 ELSE w, e[1], e[2])>>, {},
            [Options EXCEPT !.deletes = TRUE, !.sort = s]) :
              w \in Widths(k), e \in OperandPairs, s \in BOOLEAN} : k \in Operators}
    \cup
  {P(<<V(1), V(2), V(2), E("cond", 2, <<1, -2, 3>>, 0, 0), Op("concat", 3, -1, 4),
       E("slice", 2, <<-5>>, 2, 1), E("const", 2, <<>>, 2, 0), Op("add", 2, 6, 7),
       E("cond", 1, <<1, -1, 1>>, 0, 0)>>, {},
     [Options EXCEPT !.deletes = TRUE])}

\* Every graph of a few nodes over two variables; an exclusive or built in two ways
Free(n, max, roots, o) ==
  [P([i \in 1..n |-> V(1)], roots, o) EXCEPT !.max = max, !.kinds = {"and"}]
Graphs ==
  {Free(2, 5, {}, Options), Free(2, 4, {}, [Options EXCEPT !.sort = FALSE])}
    \cup
  {P(<<V(1), V(1), Op("and", 1, 1, -2), Op("and", 1, -1, 2), Op("and", 1, -3, -4),
       Op("and", 1, 1, 2), Op("and", 1, -1, -2), Op("and", 1, -6, -7)>>, {}, Options)}

(* Constraints and assumptions, on nodes that share the parts of others;    *)
(* the SAT solver may know what follows from the clauses.                   *)
Sat == [Options EXCEPT !.sat = TRUE, !.know = TRUE, !.deletes = TRUE]
Compared(o) ==
  P(<<V(2), V(2), Op("eq", 1, 1, 2), E("slice", 1, <<1>>, 1, 1), E("slice", 1, <<-2>>, 1, 1),
      Op("eq", 1, 4, 5), Op("ult", 1, 1, -2)>>, {3, 6, -7}, [o EXCEPT !.deletes = FALSE])
Chosen(o) ==
  P(<<V(1), V(1), V(1), E("cond", 1, <<1, 2, -3>>, 0, 0), Op("and", 1, -2, 4), Op("eq", 1, 4, 1)>>,
    {4, -5, 6, -6}, o)
Solved ==
  {Compared(Sat), Chosen([Sat EXCEPT !.restore = TRUE]), Chosen([Sat EXCEPT !.know = FALSE]),
   Free(2, 4, {-4}, Sat)}

MCPrograms == Circuits \cup Graphs \cup Solved
=============================================================================
