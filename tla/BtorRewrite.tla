---------------------------- MODULE BtorRewrite -----------------------------
(***************************************************************************)
(* The rewriter for bit-vector terms (btorrewrite.c): every term is built  *)
(* through it.  A rewrite function normalizes its operands, tries its      *)
(* rules in order, commutative operators a second time with the operands   *)
(* swapped, and creates a node when no rule gives a result.                *)
(*                                                                         *)
(* A rule is an operator that gives the new term, or None where it does    *)
(* not apply.  Its first argument is the context of BtorPatterns.          *)
(***************************************************************************)
EXTENDS BtorPatterns

RECURSIVE Make(_, _, _)

(* Calls of the functions that make an expression, all through Make below.  *)
RewriteSlice(c, t, u, l) == Make(c, "slice", <<t, u, l>>)
RewriteCond(c, t, a, b) == Make(c, "cond", <<t, a, b>>)
RewriteBinary(c, k, a, b) == Make(c, k, <<a, b>>)     \* btor_rewrite_binary_exp
RewriteEq(c, a, b) == Make(c, "eq", <<a, b>>)
RewriteUlt(c, a, b) == Make(c, "ult", <<a, b>>)
RewriteAnd(c, a, b) == Make(c, "and", <<a, b>>)
RewriteAdd(c, a, b) == Make(c, "add", <<a, b>>)
RewriteMul(c, a, b) == Make(c, "mul", <<a, b>>)
RewriteUrem(c, a, b) == Make(c, "urem", <<a, b>>)
RewriteConcat(c, a, b) == Make(c, "concat", <<a, b>>)
RewriteSll(c, a, b) == Make(c, "sll", <<a, b>>)
RewriteSrl(c, a, b) == Make(c, "srl", <<a, b>>)

-----------------------------------------------------------------------------
(* Functions of btorexp.c that the rules call.                              *)

Exp(c, k, a, b) == Make(c, k, <<a, b>>)     \* btor_exp_bv_and and so on
ExpOr(c, a, b) == Invert(Exp(c, "and", Invert(a), Invert(b)))
ExpXor(c, a, b) ==
  LET or == ExpOr(c, a, b) IN Exp(c, "and", or, Invert(Exp(c, "and", a, b)))
ExpNeg(c, a) == Exp(c, "add", Invert(a), OneExp(a.w))
ExpSub(c, a, b) == Exp(c, "add", a, ExpNeg(c, b))
ExpUext(c, a, n) == IF n = 0 THEN a ELSE Exp(c, "concat", ZeroExp(n), a)

-----------------------------------------------------------------------------
(* Constants.                                                               *)

ConstBinary(k, a, b) ==
  When(IsConst(a) /\ IsConst(b),
       Const(Width(k, a, b), Meaning(k, b.w, ConstVal(a), ConstVal(b))))

(* A constant compared with a conjunction or a disjunction: the bits of the *)
(* constant are taken in runs of equal bits, from the front.                *)
Runs(w, v) ==
  LET bit(i) == (v \div 2^i) % 2
      starts == {i \in 0..w - 1 : i = 0 \/ bit(i) # bit(i - 1)}
      run(l) == [lower |-> l, bit |-> bit(l),
                 upper |-> CHOOSE u \in l..w - 1 :
                             /\ \A i \in l..u : bit(i) = bit(l)
                             /\ u = w - 1 \/ bit(u + 1) # bit(l)]
      up[i \in 0..w] == \* the runs that start below i, the topmost first
        IF i = 0 THEN <<>>
        ELSE IF i - 1 \in starts THEN <<run(i - 1)>> \o up[i - 1] ELSE up[i - 1]
  IN up[w]

\* The equations for one run: each operand alone, or both together.
RunEqs(c, t, r) ==
  LET op(i) == RewriteSlice(c, CondInvert(t, t.e[i]), r.upper, r.lower)
      w == r.upper - r.lower + 1
      k == Const(w, IF r.bit = 1 THEN Ones(w) ELSE 0)
      each == r.bit = (IF t.inv THEN 0 ELSE 1)
  IN CASE each -> <<RewriteEq(c, op(1), k), RewriteEq(c, op(2), k)>>
       [] ~each /\ t.inv -> <<RewriteEq(c, ExpOr(c, op(1), op(2)), k)>>
       [] OTHER -> <<RewriteEq(c, RewriteAnd(c, op(1), op(2)), k)>>

\* All of them, popped from a stack.
AllOf(c, eqs) ==
  LET all[i \in 1..Len(eqs) + 1] ==
        IF i = Len(eqs) + 1 THEN True ELSE RewriteAnd(c, all[i + 1], eqs[i])
  IN all[1]

EqOfRuns(c, t, runs) == AllOf(c, FlattenSeq([i \in 1..Len(runs) |-> RunEqs(c, t, runs[i])]))

EqConstAnd(c, k, t) ==
  When(t.k = "and" /\ Bound(c), EqOfRuns(In(c), t, Runs(t.w, ConstVal(k))))

\* An equation of the constant k with t.
SpecialEq(c, k, t) ==
  LET v == ConstVal(k)
      xorEq == RewriteEq(In(c), Real(Real(t.e[1]).e[1]), Real(Real(t.e[1]).e[2]))
      split == LET left == RewriteEq(In(c), CondInvert(t, t.e[1]), k)
               IN RewriteAnd(In(c), left, RewriteEq(In(c), CondInvert(t, t.e[2]), k))
  IN CASE t.w = 1 -> IF v = 0 THEN Invert(t) ELSE t
       [] t.w > 1 /\ v = 0 /\ IsXor(t) -> When(Bound(c), xorEq)
       [] t.w > 1 /\ v = 0 /\ ~IsXor(t) -> When(t.inv /\ t.k = "and" /\ Bound(c), split)
       [] t.w > 1 /\ v = Ones(t.w) /\ IsXnor(t) -> When(Bound(c), xorEq)
       [] t.w > 1 /\ v = Ones(t.w) /\ ~IsXnor(t) -> When(~t.inv /\ t.k = "and" /\ Bound(c), split)
       [] t.w > 1 /\ v = 1 -> None
       [] OTHER -> EqConstAnd(c, k, t)

\* apply_special_const_lhs_binary_exp and _rhs_, for equations and the others
SpecialConstLhsEq(c, a, b) == When(IsConst(a) /\ ~IsConst(b), SpecialEq(c, a, b))
SpecialConstRhsEq(c, a, b) == When(~IsConst(a) /\ IsConst(b), SpecialEq(c, b, a))

SpecialConstLhs(c, k, a, b) ==
  LET w == a.w
      v == ConstVal(a)
      special ==
        CASE k = "ult" /\ v = 0 -> Invert(RewriteEq(c, a, b))
          [] k = "ult" /\ v = Ones(w) -> False
          [] k = "add" /\ v = 0 -> b
          [] k \in {"mul", "sll", "srl", "urem", "and"} /\ v = 0 -> ZeroExp(w)
          [] k = "udiv" /\ v = 0 ->
               RewriteCond(c, RewriteEq(c, b, ZeroExp(w)), OnesExp(w), ZeroExp(w))
          [] k = "and" /\ v = Ones(w) -> b
          [] k = "mul" /\ v = 1 -> b
          [] k = "mul" /\ v = Ones(w) /\ w > 1 -> ExpNeg(c, b)
          [] OTHER -> None
  IN When(IsConst(a) /\ ~IsConst(b), special)

SpecialConstRhs(c, k, a, b) ==
  LET w == b.w
      v == ConstVal(b)
      special ==
        CASE k \in {"sll", "srl", "urem", "add"} /\ v = 0 -> a
          [] k \in {"mul", "and"} /\ v = 0 -> ZeroExp(a.w)
          [] k = "ult" /\ v = 0 -> False
          [] k = "udiv" /\ v = 0 -> OnesExp(a.w)
          [] k \in {"mul", "udiv"} /\ v = 1 -> a
          [] k = "urem" /\ v = 1 /\ w > 1 -> ZeroExp(a.w)
          [] k = "ult" /\ v = 1 /\ w > 1 -> RewriteEq(In(c), a, ZeroExp(a.w))
          [] k = "and" /\ v = Ones(w) -> a
          [] k = "ult" /\ v = Ones(w) /\ w > 1 -> Invert(RewriteEq(In(c), a, b))
          [] k = "mul" /\ v = Ones(w) /\ w > 1 -> ExpNeg(c, a)
          [] OTHER -> None
  IN When(~IsConst(a) /\ IsConst(b), special)

-----------------------------------------------------------------------------
(* Slices.                                                                  *)

FullSlice(t, u, l) == When(t.w = u - l + 1, t)
ConstSlice(t, u, l) ==
  When(IsConst(t), CondInvert(t, Const(u - l + 1, (t.x \div 2^l) % 2^(u - l + 1))))
SliceSlice(c, t, u, l) ==
  When(Bound(c) /\ t.k = "slice",
       RewriteSlice(In(c), CondInvert(t, t.e[1]), t.y + u, t.y + l))
ConcatLowerSlice(t, u, l) ==
  When(t.k = "concat" /\ l = 0 /\ t.e[2].w = u - l + 1, CondInvert(t, t.e[2]))
ConcatUpperSlice(c, t, u, l) ==
  When(t.k = "concat" /\ c.level < 3 /\ u = t.w - 1 /\ t.e[1].w = u - l + 1,
       CondInvert(t, t.e[1]))
ConcatRecUpperSlice(c, t, u, l) ==
  When(Deep(c) /\ t.k = "concat" /\ l >= t.e[2].w,
       RewriteSlice(In(c), CondInvert(t, t.e[1]), u - t.e[2].w, l - t.e[2].w))
ConcatRecLowerSlice(c, t, u, l) ==
  When(Deep(c) /\ t.k = "concat" /\ u < t.e[2].w,
       RewriteSlice(In(c), CondInvert(t, t.e[2]), u, l))
ConcatRecSlice(c, t, u, l) ==
  When(Deep(c) /\ t.k = "concat" /\ l = 0 /\ u >= t.e[2].w,
       RewriteConcat(In(c), RewriteSlice(In(c), CondInvert(t, t.e[1]), u - t.e[2].w, 0),
                     CondInvert(t, t.e[2])))
AndSlice(c, t, u, l) ==
  When(/\ Deep(c) /\ t.k = "and"
       /\ SliceSimplifiable(t.e[1]) \/ SliceSimplifiable(t.e[2]),
       CondInvert(t, Exp(In(c), "and", RewriteSlice(In(c), t.e[1], u, l),
                         RewriteSlice(In(c), t.e[2], u, l))))
BcondSlice(c, t, u, l) ==
  When(/\ Deep(c) /\ t.k = "cond"
       /\ SliceSimplifiable(t.e[2]) \/ SliceSimplifiable(t.e[3]),
       CondInvert(t, RewriteCond(In(c), t.e[1], RewriteSlice(In(c), t.e[2], u, l),
                                 RewriteSlice(In(c), t.e[3], u, l))))
ZeroLowerSlice(c, t, u, l) ==
  When(/\ c.zeroLowerSlice /\ Deep(c) /\ l = 0 /\ u < t.w \div 2
       /\ t.k \in {"mul", "add"},
       CondInvert(t, RewriteBinary(In(c), t.k, RewriteSlice(In(c), t.e[1], u, l),
                                   RewriteSlice(In(c), t.e[2], u, l))))

SliceExp(c, t, u, l) ==
     FullSlice(t, u, l) ?? ConstSlice(t, u, l) ?? SliceSlice(c, t, u, l)
  ?? ConcatLowerSlice(t, u, l) ?? ConcatUpperSlice(c, t, u, l)
  ?? ConcatRecUpperSlice(c, t, u, l) ?? ConcatRecLowerSlice(c, t, u, l)
  ?? ConcatRecSlice(c, t, u, l) ?? AndSlice(c, t, u, l) ?? BcondSlice(c, t, u, l)
  ?? ZeroLowerSlice(c, t, u, l) ?? CreateSlice(c.level, t, u, l)

-----------------------------------------------------------------------------
(* Normalization of the operands.                                           *)

ChainOf(c, k, all) ==
  LET chain[i \in 1..Len(all)] ==
        IF i = 1 THEN all[1] ELSE RewriteBinary(c, k, chain[i - 1], all[i])
  IN chain[Len(all)]

(* mk_norm_node_from_hash_table: a chain over the operands in a fixed order *)
(* (of ids), each as often as num says.                                     *)
Chain(c, k, ops, num) ==
  ChainOf(In(c), k, FlattenSeq([i \in 1..Cardinality(ops) |->
                                 LET x == SetToSeq(ops)[i] IN [j \in 1..num[x] |-> x]]))

(* normalize_bin_comm_ass_exp: common operands of two trees become one      *)
(* subterm.  A tree with a repeated inner node is only normalized if there  *)
(* are no other operands (and no node repeats more than VisitLimit times).  *)
VisitLimit == 32

\* The chain over the operands in own that are not common, and the common subterm.
WithShared(c, k, own, common, shared) ==
  LET rest == {x \in DOMAIN own : own[x] > common[x]}
  IN Chain(c, k, rest \cup {shared},
           [x \in rest \cup {shared} |->
              (IF x \in rest THEN own[x] - common[x] ELSE 0) + (IF x = shared THEN 1 ELSE 0)])

RebuildCommon(c, k, bags) ==
  LET shared == Chain(c, k, {x \in DOMAIN bags.common : bags.common[x] > 0}, bags.common)
  IN <<WithShared(c, k, bags.left, bags.common, shared),
       WithShared(c, k, bags.right, bags.common, shared)>>

NormalizeOperands(c, a, b, p, q, bags) ==
  LET repeats == Max({MostRepeated(p.inner), MostRepeated(q.inner)})
  IN IF /\ c.normalize
        /\ Cardinality({x \in DOMAIN bags.common : bags.common[x] > 0}) >= 2
        /\ repeats <= 1 \/ (repeats <= VisitLimit /\ bags.left = bags.right)
     THEN RebuildCommon(c, a.k, bags)
     ELSE <<a, b>>

NormalizeBinCommAss(c, a, b) ==
  LET p == Operands(a.k, a)
      q == Operands(b.k, b)
  IN NormalizeOperands(c, a, b, p, q, OperandBags(p.leaves, q.leaves))

NormalizeAddsMulsAnds(c, a, b) ==
  IF /\ c.level > 2 /\ a.k = b.k
     /\ a.k \in (IF c.normalizeAdd THEN {"add"} ELSE {}) \cup {"mul", "and"}
  THEN CondInvertPair(a, b, NormalizeBinCommAss(c, Real(a), Real(b)))
  ELSE <<a, b>>

RECURSIVE RebuildTopOp(_, _, _, _)

RebuildTopOp(c, t, op, new) ==
  LET sub == RebuildTopOp(c, t.e[1], op, new)
  IN CASE t.inv -> Invert(RebuildTopOp(c, Real(t), op, new))
       [] ~t.inv /\ t = op -> new
       [] ~t.inv /\ t # op /\ t.k = "slice" -> RewriteSlice(c, sub, t.x, t.y)
       [] ~t.inv /\ t # op /\ t.k = "sll" -> RewriteSll(c, sub, t.e[2])
       [] ~t.inv /\ t # op /\ t.k = "srl" -> RewriteSrl(c, sub, t.e[2])

\* c0 = c1 + b becomes b = c0 - c1.
MoveConst(c, p) ==
  LET i == IF IsConst(p[1]) /\ p[2].k = "add" THEN 1 ELSE 2
      k == CondInvert(p[3 - i], p[i])
      o == ConstOperand(p[3 - i])
  IN IF c.level > 2 /\ IsConst(p[i]) /\ p[3 - i].k = "add" /\ o[1] # None
     THEN <<o[2], ExpSub(c, k, o[1])>> ELSE p

\* The topmost operators below slices and shifts, normalized in place.
RebuildTopOps(c, a, b, op0, op1, n) ==
  <<RebuildTopOp(c, a, op0, n[1]), RebuildTopOp(c, b, op1, n[2])>>

NormalizeTopOps(c, a, b, op0, op1) ==
  IF /\ c.level > 2 /\ op0 # None /\ op1 # None
     /\ op0.k = op1.k /\ op0.w = op1.w
     /\ op0.k # "and" \/ c.normalizeAdd
  THEN RebuildTopOps(c, a, b, op0, op1, NormalizeBinCommAss(c, op0, op1))
  ELSE <<a, b>>

NormalizeEqOperands(c, p) ==
  LET q == IF c.level > 1 /\ p[1].inv /\ p[1].k = "var"
           THEN <<Invert(p[1]), Invert(p[2])>> ELSE p
  IN NormalizeAddsMulsAnds(c, q[1], q[2])

NormalizeEqTops(c, p) == NormalizeTopOps(c, p[1], p[2], FindTopOp(c, p[1]), FindTopOp(c, p[2]))

NormalizeEq(c, a, b) ==
  Uninverted(MoveConst(c, NormalizeEqTops(c, NormalizeEqOperands(c, Uninverted(<<a, b>>)))))

NormalizeUlt(c, a, b) ==
  LET p == IF a.inv /\ b.inv THEN <<Real(b), Real(a)>> ELSE <<a, b>>
  IN NormalizeAddsMulsAnds(c, p[1], p[2])

\* normalize_and, normalize_add and normalize_mul, only for some operands
NormalizeAnd(c, a, b) ==
  IF a.k = "mul" \/ b.k = "add" THEN NormalizeAddsMulsAnds(c, a, b) ELSE <<a, b>>
NormalizeAdd(c, a, b) ==
  IF a.k \in {"mul", "and"} THEN NormalizeAddsMulsAnds(c, a, b) ELSE <<a, b>>
NormalizeMul(c, a, b) ==
  IF a.k \in {"add", "and"} THEN NormalizeAddsMulsAnds(c, a, b) ELSE <<a, b>>

\* normalize_concat: concatenations associate to the left.
NormalizeConcat(c, a, b) ==
  LET parts == ConcatParts(b)
      n == Len(parts)
      left[i \in 0..n - 1] ==
        IF i = 0 THEN a ELSE RewriteConcat(In(c), left[i - 1], parts[i])
  IN IF Deep(c) /\ b.k = "concat" THEN <<left[n - 1], parts[n]>> ELSE <<a, b>>

NormalizeCond(c, t, a, b) ==
  <<Real(t)>> \o NormalizeAddsMulsAnds(c, IF t.inv THEN b ELSE a, IF t.inv THEN a ELSE b)

-----------------------------------------------------------------------------
(* A rule for several operators: operands that are conditionals on one      *)
(* condition and agree in a branch (bcond_eq, bcond_ult, bcond_add,         *)
(* bcond_udiv).                                                             *)
Bcond(c, k, a, b) ==
  LET branch(i) == RewriteBinary(In(c), k, CondInvert(a, a.e[i]), CondInvert(b, b.e[i]))
  IN When(/\ Bound(c) /\ a.k = "cond" /\ b.k = "cond" /\ a.inv = b.inv
          /\ a.e[1] = b.e[1]
          /\ a.e[2] = b.e[2] \/ a.e[3] = b.e[3],
          RewriteCond(In(c), a.e[1], branch(2), branch(3)))

BcondEq(c, a, b) == Bcond(c, "eq", a, b)
BcondUlt(c, a, b) == Bcond(c, "ult", a, b)
BcondAdd(c, a, b) == Bcond(c, "add", a, b)
BcondUdiv(c, a, b) == Bcond(c, "udiv", a, b)

(* Equality.                                                                *)

TrueEq(a, b) == When(a = b, True)
FalseEq(a, b) == When(IsAlwaysUnequal(a, b), False)
AddLeftEq(c, a, b) ==
  When(Deep(c) /\ ~a.inv /\ a.k = "add" /\ a.e[1] = b, RewriteEq(In(c), ZeroExp(a.w), a.e[2]))
AddRightEq(c, a, b) ==
  When(Deep(c) /\ ~a.inv /\ a.k = "add" /\ a.e[2] = b, RewriteEq(In(c), ZeroExp(a.w), a.e[1]))

\* a + b = c + d with operand i of the one the same as operand j of the other
AddAddEq(c, a, b, i, j) ==
  When(Deep(c) /\ ~a.inv /\ ~b.inv /\ a.k = "add" /\ b.k = "add" /\ a.e[i] = b.e[j],
       RewriteEq(In(c), a.e[3 - i], b.e[3 - j]))
AddAdd1Eq(c, a, b) == AddAddEq(c, a, b, 1, 1)
AddAdd2Eq(c, a, b) == AddAddEq(c, a, b, 1, 2)
AddAdd3Eq(c, a, b) == AddAddEq(c, a, b, 2, 1)
AddAdd4Eq(c, a, b) == AddAddEq(c, a, b, 2, 2)

SubEq(c, a, b) ==
  LET i == IF Neg(b.e[1]) # None THEN 1 ELSE 2
  IN When(/\ Deep(c) /\ ~b.inv /\ b.k = "add"
          /\ Neg(b.e[1]) # None \/ Neg(b.e[2]) # None,
          RewriteEq(In(c), RewriteAdd(In(c), a, Neg(b.e[i])), b.e[3 - i]))

BcondUneqIfEq(c, a, b) ==
  When(Deep(c) /\ ~a.inv /\ a.k = "cond" /\ IsAlwaysUnequal(a.e[2], b),
       RewriteAnd(In(c), Invert(a.e[1]), RewriteEq(In(c), a.e[3], b)))
BcondUneqElseEq(c, a, b) ==
  When(Deep(c) /\ ~a.inv /\ a.k = "cond" /\ IsAlwaysUnequal(a.e[3], b),
       RewriteAnd(In(c), a.e[1], RewriteEq(In(c), a.e[2], b)))
BcondIfEq(c, a, b) ==
  LET eq == RewriteEq(In(c), CondInvert(b, b.e[3]), a)
  IN When(Deep(c) /\ b.k = "cond" /\ b.e[2] = a,
          IF b.inv THEN RewriteAnd(In(c), Invert(b.e[1]), eq) ELSE ExpOr(In(c), b.e[1], eq))
BcondElseEq(c, a, b) ==
  LET eq == RewriteEq(In(c), CondInvert(b, b.e[2]), a)
  IN When(Deep(c) /\ b.k = "cond" /\ b.e[3] = a,
          IF b.inv THEN RewriteAnd(In(c), b.e[1], eq) ELSE ExpOr(In(c), Invert(b.e[1]), eq))

\* a * b + a * c as a * (b + c)
AddMulDistrib(c, a, b) ==
  LET same(p) == a.e[p[1]] = b.e[p[2]]
      p == CASE same(<<1, 1>>) -> <<1, 1>>
             [] ~same(<<1, 1>>) /\ same(<<1, 2>>) -> <<1, 2>>
             [] ~same(<<1, 1>>) /\ ~same(<<1, 2>>) /\ same(<<2, 1>>) -> <<2, 1>>
             [] OTHER -> <<2, 2>>
  IN When(/\ Deep(c) /\ ~a.inv /\ ~b.inv /\ a.k = "mul" /\ b.k = "mul" /\ same(p),
          RewriteMul(In(c), a.e[p[1]], RewriteAdd(In(c), a.e[3 - p[1]], b.e[3 - p[2]])))
DistribAddMulEq(c, a, b) ==
  When(c.level > 2 /\ ~a.inv /\ ~b.inv /\ a.k = "mul" /\ b.k = "add"
         /\ AddMulDistrib(c, b.e[1], b.e[2]) = a,
       True)

\* A concatenation is compared part by part, unless both parts of b stay slices.
ConcatEq(c, a, b) ==
  LET l == a.e[2].w
      s(t, upper) == IF upper THEN RewriteSlice(In(c), t, a.w - 1, l)
                     ELSE RewriteSlice(In(c), t, l - 1, 0)
  IN When(/\ Deep(c) /\ a.k = "concat"
          /\ ~(s(b, TRUE).k = "slice" /\ s(b, FALSE).k = "slice"),
          RewriteAnd(In(c), RewriteEq(In(c), s(a, TRUE), s(b, TRUE)),
                     RewriteEq(In(c), s(a, FALSE), s(b, FALSE))))

\* The rules that are tried for both orders of the operands.
EqRules(c, a, b) ==
     AddLeftEq(c, a, b) ?? AddRightEq(c, a, b)
  ?? AddAdd1Eq(c, a, b) ?? AddAdd2Eq(c, a, b) ?? AddAdd3Eq(c, a, b) ?? AddAdd4Eq(c, a, b)
  ?? SubEq(c, a, b) ?? BcondUneqIfEq(c, a, b) ?? BcondUneqElseEq(c, a, b)
  ?? BcondIfEq(c, a, b) ?? BcondElseEq(c, a, b)
  ?? DistribAddMulEq(c, a, b) ?? ConcatEq(c, a, b)

EqNormalized(c, a, b) ==
  ConstBinary("eq", a, b) ?? TrueEq(a, b) ?? FalseEq(a, b) ?? BcondEq(c, a, b)
    ?? SpecialConstLhsEq(c, a, b) ?? SpecialConstRhsEq(c, a, b)
    ?? EqRules(c, a, b) ?? EqRules(c, b, a) ?? Create("eq", a, b)
EqOfPair(c, n) == EqNormalized(c, n[1], n[2])
EqExp(c, t, s) == EqOfPair(c, NormalizeEq(c, t, s))

-----------------------------------------------------------------------------
(* Unsigned less than.                                                      *)

FalseUlt(a, b) == When(a = b, False)
BoolUlt(c, a, b) == When(Bound(c) /\ a.w = 1, RewriteAnd(In(c), Invert(a), b))
ConcatUpperUlt(c, a, b) ==
  When(Deep(c) /\ ~a.inv /\ ~b.inv /\ a.k = "concat" /\ b.k = "concat" /\ a.e[1] = b.e[1],
       RewriteUlt(In(c), a.e[2], b.e[2]))
ConcatLowerUlt(c, a, b) ==
  When(Deep(c) /\ ~a.inv /\ ~b.inv /\ a.k = "concat" /\ b.k = "concat" /\ a.e[2] = b.e[2],
       RewriteUlt(In(c), a.e[1], b.e[1]))

UltNormalized(c, a, b) ==
  ConstBinary("ult", a, b)
    ?? SpecialConstLhs(c, "ult", a, b) ?? SpecialConstRhs(c, "ult", a, b)
    ?? FalseUlt(a, b) ?? BoolUlt(c, a, b)
    ?? ConcatUpperUlt(c, a, b) ?? ConcatLowerUlt(c, a, b) ?? BcondUlt(c, a, b)
    ?? Create("ult", a, b)
UltOfPair(c, n) == UltNormalized(c, n[1], n[2])
UltExp(c, t, s) == UltOfPair(c, NormalizeUlt(c, t, s))

-----------------------------------------------------------------------------
(* Conjunction.                                                             *)

Regular(a, k) == ~a.inv /\ a.k = k
Inverted(a, k) == a.inv /\ a.k = k
Children(a) == {a.e[1], a.e[2]}
InvertedChildren(a) == {Invert(a.e[1]), Invert(a.e[2])}

Idem1And(a, b) == When(a = b, a)
Contr1And(a, b) == When(Invert(a) = b, ZeroExp(a.w))
Contr2And(a, b) ==
  When(Regular(a, "and") /\ Regular(b, "and") /\ Children(a) \cap InvertedChildren(b) # {},
       ZeroExp(a.w))
Idem2And(c, a, b) ==
  When(Bound(c) /\ Regular(a, "and") /\ Regular(b, "and") /\ b.e[1] \in Children(a),
       RewriteAnd(In(c), a, b.e[2]))
CommAnd(c, a, b) ==
  When(Bound(c) /\ Regular(a, "and") /\ Regular(b, "and") /\ b.e[2] \in Children(a),
       RewriteAnd(In(c), a, b.e[1]))
BoolXnorAnd(c, a, b) ==
  When(/\ Bound(c) /\ Inverted(a, "and") /\ Inverted(b, "and") /\ a.w = 1
       /\ a.e[1].inv # a.e[2].inv /\ b.e[1].inv # b.e[2].inv
       /\ \/ a.e[1] = Invert(b.e[1]) /\ a.e[2] = Invert(b.e[2])
          \/ a.e[1] = Invert(b.e[2]) /\ a.e[2] = Invert(b.e[1]),
       RewriteEq(In(c), Real(a.e[1]), Real(a.e[2])))
Resol1And(c, a, b) ==
  When(/\ Bound(c) /\ Inverted(a, "and") /\ Inverted(b, "and")
       /\ \/ a.e[1] = b.e[1] /\ a.e[2] = Invert(b.e[2])
          \/ a.e[1] = b.e[2] /\ a.e[2] = Invert(b.e[1]),
       Invert(a.e[1]))
Resol2And(c, a, b) ==
  When(/\ Bound(c) /\ Inverted(a, "and") /\ Inverted(b, "and")
       /\ \/ b.e[2] = a.e[2] /\ b.e[1] = Invert(a.e[1])
          \/ b.e[2] = a.e[1] /\ b.e[1] = Invert(a.e[2]),
       Invert(b.e[2]))
UltFalseAnd(a, b) ==
  When(Regular(a, "ult") /\ Regular(b, "ult") /\ a.e = <<b.e[2], b.e[1]>>, False)
UltAnd(c, a, b) ==
  When(Bound(c) /\ Inverted(a, "ult") /\ Inverted(b, "ult") /\ a.e = <<b.e[2], b.e[1]>>,
       RewriteEq(In(c), a.e[1], a.e[2]))
ContrRecAnd(a, b) ==
  LET left == AndContradiction(a, a, b, 0)
  IN When(left.found \/ AndContradiction(b, a, b, left.calls).found, ZeroExp(a.w))

Subsum1And(a, b) ==
  When(Regular(a, "and") /\ Inverted(b, "and") /\ Children(a) \cap InvertedChildren(b) # {}, a)
Subst1And(c, a, b) ==
  When(Bound(c) /\ Regular(a, "and") /\ Inverted(b, "and") /\ b.e[1] \in Children(a),
       RewriteAnd(In(c), a, Invert(b.e[2])))
Subst2And(c, a, b) ==
  When(Bound(c) /\ Regular(a, "and") /\ Inverted(b, "and") /\ b.e[2] \in Children(a),
       RewriteAnd(In(c), a, Invert(b.e[1])))
Subsum2And(a, b) == When(Inverted(a, "and") /\ Invert(b) \in Children(a), b)
Subst3And(c, a, b) ==
  When(Bound(c) /\ Inverted(a, "and") /\ a.e[2] = b, RewriteAnd(In(c), Invert(a.e[1]), b))
Subst4And(c, a, b) ==
  When(Bound(c) /\ Inverted(a, "and") /\ a.e[1] = b, RewriteAnd(In(c), Invert(a.e[2]), b))
Contr3And(a, b) == When(Regular(a, "and") /\ Invert(b) \in Children(a), ZeroExp(a.w))
Idem3And(a, b) == When(Regular(a, "and") /\ b \in Children(a), a)
Const1And(c, a, b) ==
  When(Bound(c) /\ Regular(a, "and") /\ IsConst(b) /\ IsConst(a.e[1]),
       RewriteAnd(In(c), RewriteAnd(In(c), b, a.e[1]), a.e[2]))
Const2And(c, a, b) ==
  When(Bound(c) /\ Regular(a, "and") /\ IsConst(b) /\ IsConst(a.e[2]),
       RewriteAnd(In(c), RewriteAnd(In(c), b, a.e[2]), a.e[1]))
ConcatAnd(c, a, b) ==
  LET p(t, i) == CondInvert(t, t.e[i])
  IN When(/\ Bound(c) /\ a.k = "concat" /\ b.k = "concat" /\ a.e[1].w = b.e[1].w
          /\ \/ IsZeroOrOnes(p(a, 1)) /\ IsZeroOrOnes(p(b, 2))
             \/ IsZeroOrOnes(p(a, 2)) /\ IsZeroOrOnes(p(b, 1)),
          RewriteConcat(In(c), Exp(In(c), "and", p(a, 1), p(b, 1)),
                        Exp(In(c), "and", p(a, 2), p(b, 2))))

AndRules(c, a, b) ==
     Subsum1And(a, b) ?? Subst1And(c, a, b) ?? Subst2And(c, a, b) ?? Subsum2And(a, b)
  ?? Subst3And(c, a, b) ?? Subst4And(c, a, b) ?? Contr3And(a, b) ?? Idem3And(a, b)
  ?? Const1And(c, a, b) ?? Const2And(c, a, b) ?? ConcatAnd(c, a, b)

AndNormalized(c, a, b) ==
  ConstBinary("and", a, b)
    ?? SpecialConstLhs(c, "and", a, b) ?? SpecialConstRhs(c, "and", a, b)
    ?? Idem1And(a, b) ?? Contr1And(a, b) ?? Contr2And(a, b) ?? Idem2And(c, a, b)
    ?? CommAnd(c, a, b) ?? BoolXnorAnd(c, a, b) ?? Resol1And(c, a, b) ?? Resol2And(c, a, b)
    ?? UltFalseAnd(a, b) ?? UltAnd(c, a, b) ?? ContrRecAnd(a, b)
    ?? AndRules(c, a, b) ?? AndRules(c, b, a) ?? Create("and", a, b)
AndOfPair(c, n) == AndNormalized(c, n[1], n[2])
AndExp(c, t, s) == AndOfPair(c, NormalizeAnd(c, t, s))

-----------------------------------------------------------------------------
(* Addition.                                                                *)

BoolAdd(c, a, b) == When(Bound(c) /\ a.w = 1, ExpXor(In(c), a, b))
MultAdd(c, a, b) ==
  When(Bound(c) /\ a = b /\ a.w >= 2, RewriteMul(In(c), a, Const(a.w, 2 % 2^a.w)))
NotAdd(a, b) == When(Real(a) = Real(b) /\ a # b, OnesExp(a.w))
UremBy(c, x, y) == When(y # None, RewriteUrem(c, x, y))
UremAdd(c, a, b) ==
  IF Neg(a) # None THEN UremBy(c, b, UremDivisor(b, Neg(a)))
  ELSE UremBy(c, a, UremDivisor(a, Neg(b)))
NegAdd(a, b) ==
  When(/\ Regular(b, "add")
       /\ \/ a = Invert(b.e[1]) /\ IsConstOne(b.e[2])
          \/ a = Invert(b.e[2]) /\ IsConstOne(b.e[1]),
       ZeroExp(a.w))
ZeroAdd(a, b) == When(IsConstZero(a), b)
ConstLhsAdd(c, a, b) ==
  When(Bound(c) /\ IsConst(a) /\ Regular(b, "add") /\ IsConst(b.e[1]),
       RewriteAdd(In(c), RewriteAdd(In(c), a, b.e[1]), b.e[2]))
ConstRhsAdd(c, a, b) ==
  When(Bound(c) /\ IsConst(a) /\ Regular(b, "add") /\ IsConst(b.e[2]),
       RewriteAdd(In(c), RewriteAdd(In(c), a, b.e[2]), b.e[1]))
\* ~(c * a) + b becomes ((-c) * a - 1) + b
ConstNegLhsAdd(c, a, b) ==
  When(Deep(c) /\ Inverted(a, "mul") /\ IsConst(a.e[1]),
       RewriteAdd(In(c), ExpSub(In(c), RewriteMul(In(c), ExpNeg(In(c), a.e[1]), a.e[2]),
                                OneExp(a.w)), b))
ConstNegRhsAdd(c, a, b) ==
  When(Deep(c) /\ Inverted(a, "mul") /\ IsConst(a.e[2]),
       RewriteAdd(In(c), ExpSub(In(c), RewriteMul(In(c), a.e[1], ExpNeg(In(c), a.e[2])),
                                OneExp(a.w)), b))

\* push_ite_add and push_ite_mul: into a conditional with a zero branch
PushIte(c, k, a, b) ==
  When(/\ Deep(c) /\ Regular(a, "cond")
       /\ IsConstZero(a.e[2]) \/ IsConstZero(a.e[3]),
       RewriteCond(In(c), a.e[1], RewriteBinary(In(c), k, a.e[2], b),
                   RewriteBinary(In(c), k, a.e[3], b)))
PushIteAdd(c, a, b) == PushIte(c, "add", a, b)
PushIteMul(c, a, b) == PushIte(c, "mul", a, b)

AddRules(c, a, b) ==
     NegAdd(a, b) ?? ZeroAdd(a, b) ?? ConstLhsAdd(c, a, b) ?? ConstRhsAdd(c, a, b)
  ?? ConstNegLhsAdd(c, a, b) ?? ConstNegRhsAdd(c, a, b) ?? PushIteAdd(c, a, b)

AddNormalized(c, a, b) ==
  ConstBinary("add", a, b)
    ?? SpecialConstLhs(c, "add", a, b) ?? SpecialConstRhs(c, "add", a, b)
    ?? BoolAdd(c, a, b) ?? MultAdd(c, a, b) ?? NotAdd(a, b) ?? BcondAdd(c, a, b)
    ?? UremAdd(c, a, b)
    ?? AddRules(c, a, b) ?? AddRules(c, b, a) ?? Create("add", a, b)
AddOfPair(c, n) == AddNormalized(c, n[1], n[2])
AddExp(c, t, s) == AddOfPair(c, NormalizeAdd(c, t, s))

-----------------------------------------------------------------------------
(* Multiplication, division and remainder.                                  *)

BoolMul(c, a, b) == When(Bound(c) /\ a.w = 1, RewriteAnd(In(c), a, b))
ConstLhsMul(c, a, b) ==
  When(Bound(c) /\ IsConst(a) /\ Regular(b, "mul") /\ IsConst(b.e[1]),
       RewriteMul(In(c), RewriteMul(In(c), a, b.e[1]), b.e[2]))
ConstRhsMul(c, a, b) ==
  When(Bound(c) /\ IsConst(a) /\ Regular(b, "mul") /\ IsConst(b.e[2]),
       RewriteMul(In(c), RewriteMul(In(c), a, b.e[2]), b.e[1]))
ConstMul(c, a, b) ==
  When(/\ Deep(c) /\ IsConst(a) /\ Regular(b, "add")
       /\ IsConst(b.e[1]) \/ IsConst(b.e[2]),
       RewriteAdd(In(c), RewriteMul(In(c), a, b.e[1]), RewriteMul(In(c), a, b.e[2])))
SllMul(c, a, b) ==
  When(Deep(c) /\ Regular(a, "sll"), RewriteSll(In(c), RewriteMul(In(c), a.e[1], b), a.e[2]))
NegMul(c, a, b) ==
  When(Deep(c) /\ Neg(a) # None /\ Neg(b) # None, RewriteMul(In(c), Neg(a), Neg(b)))

MulRules(c, a, b) ==
     ConstLhsMul(c, a, b) ?? ConstRhsMul(c, a, b) ?? ConstMul(c, a, b)
  ?? PushIteMul(c, a, b) ?? SllMul(c, a, b) ?? NegMul(c, a, b)

MulNormalized(c, a, b) ==
  ConstBinary("mul", a, b)
    ?? SpecialConstLhs(c, "mul", a, b) ?? SpecialConstRhs(c, "mul", a, b)
    ?? BoolMul(c, a, b)
    ?? MulRules(c, a, b) ?? MulRules(c, b, a) ?? Create("mul", a, b)
MulOfPair(c, n) == MulNormalized(c, n[1], n[2])
MulExp(c, t, s) == MulOfPair(c, NormalizeMul(c, t, s))

BoolUdiv(c, a, b) == When(Bound(c) /\ a.w = 1, Invert(RewriteAnd(In(c), Invert(a), b)))

\* Division by 2^n; a constant node with the inversion tag is odd.
Power2Udiv(c, a, b) ==
  LET n == CHOOSE i \in 1..b.w - 1 : b.x = 2^i
  IN When(Bound(c) /\ ~b.inv /\ IsConst(b) /\ \E i \in 1..b.w - 1 : b.x = 2^i,
          RewriteConcat(In(c), ZeroExp(n), RewriteSlice(In(c), a, a.w - 1, n)))

\* Seeded fault: the quotient 0 / 0 is forgotten.
OneUdivNoZero(c, a, b) == When(Bound(c) /\ a = b, OneExp(a.w))
OneUdiv(c, a, b) ==
  When(Bound(c) /\ a = b,
       RewriteCond(In(c), RewriteEq(In(c), a, ZeroExp(a.w)), OnesExp(a.w), OneExp(a.w)))

UdivNormalized(c, a, b) ==
  ConstBinary("udiv", a, b)
    ?? SpecialConstLhs(c, "udiv", a, b) ?? SpecialConstRhs(c, "udiv", a, b)
    ?? BoolUdiv(c, a, b) ?? Power2Udiv(c, a, b) ?? OneUdiv(c, a, b) ?? BcondUdiv(c, a, b)
    ?? Create("udiv", a, b)
UdivOfPair(c, n) == UdivNormalized(c, n[1], n[2])
UdivExp(c, t, s) == UdivOfPair(c, NormalizeAddsMulsAnds(c, t, s))

BoolUrem(c, a, b) == When(Bound(c) /\ a.w = 1, RewriteAnd(In(c), a, Invert(b)))
ZeroUrem(a, b) == When(a = b, ZeroExp(a.w))

UremNormalized(c, a, b) ==
  ConstBinary("urem", a, b)
    ?? SpecialConstLhs(c, "urem", a, b) ?? SpecialConstRhs(c, "urem", a, b)
    ?? BoolUrem(c, a, b) ?? ZeroUrem(a, b) ?? Create("urem", a, b)
UremOfPair(c, n) == UremNormalized(c, n[1], n[2])
UremExp(c, t, s) == UremOfPair(c, NormalizeAddsMulsAnds(c, t, s))

-----------------------------------------------------------------------------
(* Concatenation and shifts.                                                *)

ConstConcat(c, a, b) ==
  When(Bound(c) /\ IsConst(b) /\ a.k = "concat" /\ IsConst(a.e[2]),
       RewriteConcat(In(c), CondInvert(a, a.e[1]),
                     RewriteConcat(In(c), CondInvert(a, a.e[2]), b)))
SliceConcat(c, a, b) ==
  When(/\ c.level > 0 /\ Bound(c) /\ a.inv = b.inv /\ a.k = "slice" /\ b.k = "slice"
       /\ a.e[1] = b.e[1] /\ a.y = b.x + 1,
       CondInvert(a, RewriteSlice(In(c), a.e[1], a.x, b.y)))
AndLhsConcat(c, a, b) ==
  LET part(i) == RewriteConcat(In(c), a.e[i], CondInvert(a, b))
  IN When(/\ Deep(c) /\ a.k = "and"
          /\ ConcatSimplifiable(a.e[1]) \/ ConcatSimplifiable(a.e[2]),
          CondInvert(a, Exp(In(c), "and", part(1), part(2))))
AndRhsConcat(c, a, b) ==
  LET part(i) == RewriteConcat(In(c), CondInvert(b, a), b.e[i])
  IN When(/\ Deep(c) /\ b.k = "and"
          /\ ConcatSimplifiable(b.e[1]) \/ ConcatSimplifiable(b.e[2]),
          CondInvert(b, Exp(In(c), "and", part(1), part(2))))

ConcatNormalized(c, a, b) ==
  ConstBinary("concat", a, b)
    ?? SpecialConstLhs(c, "concat", a, b) ?? SpecialConstRhs(c, "concat", a, b)
    ?? ConstConcat(c, a, b) ?? SliceConcat(c, a, b)
    ?? AndLhsConcat(c, a, b) ?? AndRhsConcat(c, a, b) ?? Create("concat", a, b)
ConcatOfPair(c, n) == ConcatNormalized(c, n[1], n[2])
ConcatExp(c, t, s) == ConcatOfPair(c, NormalizeConcat(c, t, s))

ConstSll(c, a, b) ==
  LET n == ConstVal(b)
  IN When(Bound(c) /\ IsConst(b),        \* and the shift amount has at most 32 bits
          CASE n = 0 -> a
            [] n >= a.w -> ZeroExp(a.w)
            [] OTHER -> RewriteConcat(In(c), RewriteSlice(In(c), a, a.w - n - 1, 0), ZeroExp(n)))
ConstSrl(c, a, b) ==
  LET n == ConstVal(b)
  IN When(Bound(c) /\ IsConst(b),
          CASE n = 0 -> a
            [] n >= a.w -> ZeroExp(a.w)
            [] OTHER -> RewriteConcat(In(c), ZeroExp(n), RewriteSlice(In(c), a, a.w - 1, n)))

SllExp(c, a, b) ==
  ConstBinary("sll", a, b)
    ?? SpecialConstLhs(c, "sll", a, b) ?? SpecialConstRhs(c, "sll", a, b)
    ?? ConstSll(c, a, b) ?? Create("sll", a, b)
SrlExp(c, a, b) ==
  ConstBinary("srl", a, b)
    ?? SpecialConstLhs(c, "srl", a, b) ?? SpecialConstRhs(c, "srl", a, b)
    ?? ConstSrl(c, a, b) ?? Create("srl", a, b)

-----------------------------------------------------------------------------
(* Conditionals; after normalization the condition t is not inverted.       *)

EqualBranchesCond(t, a, b) == When(a = b, a)
ConstCond(t, a, b) == When(IsConst(t), IF t.x % 2 = 1 THEN a ELSE b)
CondIfDomCond(c, t, a, b) ==
  When(Bound(c) /\ a.k = "cond" /\ a.e[1] = t,
       RewriteCond(In(c), t, CondInvert(a, a.e[2]), b))
CondIfMergeIfCond(c, t, a, b) ==
  When(Bound(c) /\ a.k = "cond" /\ CondInvert(a, a.e[2]) = b,
       RewriteCond(In(c), RewriteAnd(In(c), t, Invert(a.e[1])), CondInvert(a, a.e[3]), b))
CondIfMergeElseCond(c, t, a, b) ==
  When(Bound(c) /\ a.k = "cond" /\ CondInvert(a, a.e[3]) = b,
       RewriteCond(In(c), RewriteAnd(In(c), t, a.e[1]), CondInvert(a, a.e[2]), b))
CondElseDomCond(c, t, a, b) ==
  When(Bound(c) /\ b.k = "cond" /\ b.e[1] = t,
       RewriteCond(In(c), t, a, CondInvert(b, b.e[3])))
CondElseMergeIfCond(c, t, a, b) ==
  When(Bound(c) /\ b.k = "cond" /\ CondInvert(b, b.e[2]) = a,
       RewriteCond(In(c), RewriteAnd(In(c), Invert(t), Invert(b.e[1])), CondInvert(b, b.e[3]), a))
CondElseMergeElseCond(c, t, a, b) ==
  When(Bound(c) /\ b.k = "cond" /\ CondInvert(b, b.e[3]) = a,
       RewriteCond(In(c), RewriteAnd(In(c), Invert(t), b.e[1]), CondInvert(b, b.e[2]), a))
BoolCond(c, t, a, b) ==
  When(Bound(c) /\ a.w = 1,
       RewriteAnd(In(c), ExpOr(In(c), Invert(t), a), ExpOr(In(c), t, b)))

\* t is s + 1
Incremented(t, s) ==
  /\ Regular(t, "add")
  /\ \/ t.e[1] = s /\ IsConstOne(t.e[2])
     \/ t.e[2] = s /\ IsConstOne(t.e[1])
AddIfCond(c, t, a, b) ==
  When(Bound(c) /\ Incremented(a, b), RewriteAdd(In(c), b, ExpUext(In(c), t, a.w - 1)))
AddElseCond(c, t, a, b) ==
  When(Bound(c) /\ Incremented(b, a), RewriteAdd(In(c), a, ExpUext(In(c), Invert(t), a.w - 1)))
ConcatCond(c, t, a, b) ==
  LET p(s, i) == CondInvert(s, s.e[i])
  IN When(/\ Deep(c) /\ a.k = "concat" /\ b.k = "concat"
          /\ p(a, 1) = p(b, 1) \/ p(a, 2) = p(b, 2),
          RewriteConcat(In(c), RewriteCond(In(c), t, p(a, 1), p(b, 1)),
                        RewriteCond(In(c), t, p(a, 2), p(b, 2))))

\* Both branches are one operation, and operand i of a is operand j of b.
OpCond(c, kinds, t, a, b, i, j) ==
  /\ Deep(c) /\ ~a.inv /\ ~b.inv /\ a.k = b.k /\ a.k \in kinds /\ a.e[i] = b.e[j]
OpLhsCond(c, t, a, b) ==
  When(OpCond(c, {"add", "and", "mul", "udiv", "urem"}, t, a, b, 1, 1),
       RewriteBinary(In(c), a.k, a.e[1], RewriteCond(In(c), t, a.e[2], b.e[2])))
OpRhsCond(c, t, a, b) ==
  When(OpCond(c, {"add", "and", "mul", "udiv", "urem"}, t, a, b, 2, 2),
       RewriteBinary(In(c), a.k, RewriteCond(In(c), t, a.e[1], b.e[1]), a.e[2]))
CommOp1Cond(c, t, a, b) ==
  When(OpCond(c, {"add", "and", "mul"}, t, a, b, 1, 2),
       RewriteBinary(In(c), a.k, a.e[1], RewriteCond(In(c), t, a.e[2], b.e[1])))
CommOp2Cond(c, t, a, b) ==
  When(OpCond(c, {"add", "and", "mul"}, t, a, b, 2, 1),
       RewriteBinary(In(c), a.k, a.e[2], RewriteCond(In(c), t, a.e[1], b.e[2])))

CondNormalized(c, t, a, b) ==
  EqualBranchesCond(t, a, b) ?? ConstCond(t, a, b) ?? CondIfDomCond(c, t, a, b)
    ?? CondIfMergeIfCond(c, t, a, b) ?? CondIfMergeElseCond(c, t, a, b)
    ?? CondElseDomCond(c, t, a, b) ?? CondElseMergeIfCond(c, t, a, b)
    ?? CondElseMergeElseCond(c, t, a, b) ?? BoolCond(c, t, a, b)
    ?? AddIfCond(c, t, a, b) ?? AddElseCond(c, t, a, b) ?? ConcatCond(c, t, a, b)
    ?? OpLhsCond(c, t, a, b) ?? OpRhsCond(c, t, a, b)
    ?? CommOp1Cond(c, t, a, b) ?? CommOp2Cond(c, t, a, b) ?? CreateCond(t, a, b)
CondOfTriple(c, n) == CondNormalized(c, n[1], n[2], n[3])
CondExp(c, t, a, b) == CondOfTriple(c, NormalizeCond(c, t, a, b))

-----------------------------------------------------------------------------
(* The functions by their names.                                            *)

CoreFunctions == {"and", "add", "mul", "udiv", "urem", "eq", "ult"}
NodeFunctions == CoreFunctions \cup {"sll", "srl", "concat", "slice", "cond"}

Nodes(c, k, e) ==
  CASE k = "slice" -> CreateSlice(c.level, e[1], e[2], e[3])
    [] k = "cond" -> CreateCond(e[1], e[2], e[3])
    [] OTHER -> Create(k, e[1], e[2])

\* The rewrite functions by kind: rewrite_slice_exp and so on.
Rewritten(c, k, e) ==
  CASE k = "slice" -> SliceExp(c, e[1], e[2], e[3])
    [] k = "cond" -> CondExp(c, e[1], e[2], e[3])
    [] k = "eq" -> EqExp(c, e[1], e[2])
    [] k = "ult" -> UltExp(c, e[1], e[2])
    [] k = "and" -> AndExp(c, e[1], e[2])
    [] k = "add" -> AddExp(c, e[1], e[2])
    [] k = "mul" -> MulExp(c, e[1], e[2])
    [] k = "udiv" -> UdivExp(c, e[1], e[2])
    [] k = "urem" -> UremExp(c, e[1], e[2])
    [] k = "concat" -> ConcatExp(c, e[1], e[2])
    [] k = "sll" -> SllExp(c, e[1], e[2])
    [] k = "srl" -> SrlExp(c, e[1], e[2])

\* What btor_exp_f returns; a node is rewritten unless the level is 0.
Make(c, f, e) ==
  CASE f \in NodeFunctions -> IF c.level > 0 THEN Rewritten(c, f, e) ELSE Nodes(c, f, e)
    [] f = "or" -> ExpOr(c, e[1], e[2])
    [] f = "xor" -> ExpXor(c, e[1], e[2])
    [] f = "neg" -> ExpNeg(c, e[1])
    [] f = "sub" -> ExpSub(c, e[1], e[2])
    [] f = "uext" -> ExpUext(c, e[1], e[2])

-----------------------------------------------------------------------------
(* btor_rewrite_linear_term: t as factor * variable + rest with an odd      *)
(* factor.  The bound counts the calls; a multiplication is never taken     *)
(* apart, since no constant node that is not inverted is odd.               *)
RECURSIVE LinearTerm(_, _, _)

NotLinear(bound) == [ok |-> FALSE, factor |-> 0, lhs |-> None, rhs |-> None, bound |-> bound]

\* Seeded fault: the factor keeps its sign under an inversion.
SplitInvertedSameFactor(sub, t) == [sub EXCEPT !.rhs = Invert(@)]

\* ~(f * x + r) = -f * x + ~r
SplitInverted(sub, t) == [sub EXCEPT !.rhs = Invert(@), !.factor = (-@) % 2^t.w]

LinearTerm(c, t, bound) ==
  LET sub == LinearTerm(c, Real(t), bound - 1)
      left == LinearTerm(c, t.e[1], bound - 1)
      right == LinearTerm(c, t.e[2], left.bound)
      i == IF IsOddConst(t.e[1]) THEN 1 ELSE 2
      other == LinearTerm(c, t.e[3 - i], bound - 1)
  IN CASE bound <= 0 -> NotLinear(bound)
       [] bound > 0 /\ t.inv ->
            IF ~sub.ok THEN sub ELSE SplitInverted(sub, t)
       [] bound > 0 /\ Regular(t, "add") ->
            IF left.ok THEN [left EXCEPT !.rhs = RewriteAdd(c, t.e[2], @)]
            ELSE IF right.ok THEN [right EXCEPT !.rhs = RewriteAdd(c, t.e[1], @)]
            ELSE right
       [] bound > 0 /\ Regular(t, "mul") ->
            IF ~IsOddConst(t.e[i]) THEN NotLinear(bound - 1)
            ELSE IF ~other.ok THEN other
            ELSE [other EXCEPT !.factor = (@ * t.e[i].x) % 2^t.w,
                               !.rhs = RewriteMul(c, t.e[i], @)]
       [] bound > 0 /\ Regular(t, "var") ->
            [ok |-> TRUE, factor |-> 1 % 2^t.w, lhs |-> t, rhs |-> ZeroExp(t.w), bound |-> bound - 1]
       [] OTHER -> NotLinear(bound - 1)
=============================================================================
