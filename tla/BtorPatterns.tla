---------------------------- MODULE BtorPatterns ----------------------------
(***************************************************************************)
(* What the rules of the rewriter look at (btorrewrite.c): tests on a term *)
(* and on the operands of a tree of one operator.  Nothing here builds a   *)
(* term.  The context of a rewrite call holds the option values and how    *)
(* many recursive calls are left of BTOR_REC_RW_BOUND.                     *)
(***************************************************************************)
EXTENDS BtorTerms, SequencesExt

Context(level, left) == [level |-> level, left |-> left, normalize |-> TRUE,
                         normalizeAdd |-> TRUE, zeroLowerSlice |-> TRUE]

Bound(c) == c.left > 0                       \* rec_rw_calls < BTOR_REC_RW_BOUND
Deep(c) == c.level > 2 /\ Bound(c)           \* most rules are for level 3 only
In(c) == [c EXCEPT !.left = @ - 1]           \* BTOR_INC_REC_RW_CALL

When(applies, result) == IF applies THEN result ELSE None
r ?? s == IF r = None THEN s ELSE r          \* ADD_RW_RULE

-----------------------------------------------------------------------------
(* Tests.                                                                   *)

IsZeroOrOnes(t) == IsConst(t) /\ t.x \in {0, Ones(t.w)}

\* is_xor_exp: ~(~a & ~b) & ~(a & b) or ~(~(~a & b) & ~(a & ~b))
IsXor(t) ==
  LET r == t.e[1]
      s == t.e[2]
  IN /\ t.k = "and" /\ r.inv /\ r.k = "and" /\ s.inv /\ s.k = "and"
     /\ Real(r.e[1]) = Real(s.e[1]) /\ Real(r.e[2]) = Real(s.e[2])
     /\ IF ~t.inv
        THEN /\ r.e[1].inv = r.e[2].inv /\ s.e[1].inv = s.e[2].inv
             /\ r.e[1].inv # s.e[1].inv
        ELSE /\ r.e[1].inv # s.e[1].inv /\ r.e[2].inv # s.e[2].inv
             /\ r.e[1].inv # r.e[2].inv
IsXnor(t) == IsXor(Invert(t))

SliceSimplifiable(t) == t.k \in {"var", "const", "slice"}
ConcatSimplifiable(t) == t.k \in {"var", "const"}

\* The constant and the other operand of an addition, None and None without one.
ConstOperand(t) ==
  CASE t.k = "add" /\ IsConst(t.e[1]) -> <<t.e[1], t.e[2]>>
    [] t.k = "add" /\ ~IsConst(t.e[1]) /\ IsConst(t.e[2]) -> <<t.e[2], t.e[1]>>
    [] OTHER -> <<None, None>>

(* is_always_unequal; the test for b = const + a compares b with itself and *)
(* never holds.                                                             *)
IsAlwaysUnequal(a, b) ==
  LET p == ConstOperand(a)
      q == ConstOperand(b)
      offset(o, t, s) == o[1] # None /\ ~IsConstZero(o[1]) /\ CondInvert(t, o[2]) = s
  IN \/ a = Invert(b)
     \/ IsConst(a) /\ IsConst(b) /\ a # b
     \/ offset(p, a, b)
     \/ offset(q, b, b)
     \/ /\ p[1] # None /\ q[1] # None /\ a.inv = b.inv
        /\ p[2] = q[2] /\ p[1] # q[1]

RECURSIVE AndContradiction(_, _, _, _)

\* find_and_contradiction_exp: whether one is found, and the calls made by then.
AndContradiction(t, a, b, calls) ==
  LET left == AndContradiction(t.e[1], a, b, calls + 1)
  IN CASE calls >= 16 \/ t.inv \/ t.k # "and" -> [found |-> FALSE, calls |-> calls]
       [] calls < 16 /\ ~t.inv /\ t.k = "and"
          /\ {t.e[1], t.e[2]} \cap {Invert(a), Invert(b)} # {} -> [found |-> TRUE, calls |-> calls]
       [] OTHER -> IF left.found THEN left ELSE AndContradiction(t.e[2], a, b, left.calls)

\* is_urem_exp: whether x + -mul is x - (x / y) * y, and which y.
IsUremOf(x, mul, udiv, y) ==
  /\ ~mul.inv /\ mul.k = "mul" /\ ~udiv.inv /\ udiv.k = "udiv" /\ udiv.e = <<x, y>>
UremDivisor(x, mul) ==
  LET i == IF ~mul.e[1].inv /\ mul.e[1].k = "udiv" THEN 1 ELSE 2
  IN When(mul.k = "mul" /\ IsUremOf(x, mul, mul.e[i], mul.e[3 - i]), mul.e[3 - i])

IsOddConst(t) == IsConst(t) /\ ~t.inv /\ t.x % 2 = 1

-----------------------------------------------------------------------------
(* The operands of a tree.                                                  *)

RECURSIVE Operands(_, _)

\* The operands of a tree of one associative operator, and its inner nodes.
Operands(k, t) ==
  IF t.inv \/ t.k # k THEN [leaves |-> <<t>>, inner |-> <<>>]
  ELSE LET l == Operands(k, t.e[1])
           r == Operands(k, t.e[2])
       IN [leaves |-> l.leaves \o r.leaves, inner |-> <<t>> \o l.inner \o r.inner]

Count(s, x) == Cardinality({i \in DOMAIN s : s[i] = x})

MostRepeated(s) == Max({Count(s, x) : x \in ToSet(s)} \cup {0})

\* The operands as bags: those of each tree, and what both have of each.
OperandBags(l, r) ==
  LET ops == ToSet(l) \cup ToSet(r)
  IN [left |-> [x \in ops |-> Count(l, x)], right |-> [x \in ops |-> Count(r, x)],
      common |-> [x \in ops |-> Min({Count(l, x), Count(r, x)})]]

CondInvertPair(a, b, n) == <<CondInvert(a, n[1]), CondInvert(b, n[2])>>

RECURSIVE FindTopOp(_, _)

\* find_top_op: the topmost such operator below slices and shifts
FindTopOp(c, t) ==
  CASE t.k \in {"add", "mul", "and"} -> Real(t)
    [] t.k \in {"slice", "sll", "srl"} /\ Bound(c) -> FindTopOp(In(c), t.e[1])
    [] OTHER -> None

Uninverted(p) == IF p[1].inv /\ p[2].inv THEN <<Invert(p[1]), Invert(p[2])>> ELSE p

RECURSIVE ConcatParts(_)

ConcatParts(t) ==
  IF t.k = "concat"
  THEN ConcatParts(CondInvert(t, t.e[1])) \o ConcatParts(CondInvert(t, t.e[2]))
  ELSE <<t>>
=============================================================================
