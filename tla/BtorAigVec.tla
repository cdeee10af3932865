----------------------------- MODULE BtorAigVec -----------------------------
(***************************************************************************)
(* Vectors of and-inverter graphs (btoraigvec.c): the circuits of the      *)
(* bit-vector operators.  A vector is the sequence of its pointers, most   *)
(* significant bit first.                                                  *)
(*                                                                         *)
(* Which calls of the AIG manager an operation makes depends on the widths *)
(* alone, never on what a call returns.  An operation is therefore written *)
(* as the list c.calls of its calls, in their order, and Perform makes     *)
(* them: a number stands for a bit of an operand or for the result of an   *)
(* earlier call, negative when inverted; 1 is true.                        *)
(***************************************************************************)
EXTENDS BtorAig

A(l, r) == [op |-> "and", l |-> l, r |-> r]
R(p) == [op |-> "release", l |-> p, r |-> 1]
Calls(c, list) ==
  [n |-> c.n + Cardinality({i \in DOMAIN list : list[i].op # "release"}), calls |-> c.calls \o list]

CallAnd(c, l, r) == [m |-> Calls(c, <<A(l, r)>>), p |-> c.n + 1]
CallNew(c) == [m |-> Calls(c, <<[op |-> "var", l |-> 1, r |-> 1]>>), p |-> c.n + 1]
CallCopy(c, p) == [m |-> Calls(c, <<[op |-> "copy", l |-> p, r |-> 1]>>), p |-> c.n + 1]
CallReleaseAll(c, v) == Calls(c, [i \in DOMAIN v |-> R(v[i])])

\* regs: what the numbers stand for
Value(regs, p) == IF p < 0 THEN -regs[-p] ELSE regs[p]
Made(s, r) == [m |-> r.m, regs |-> Append(s.regs, r.p)]
PerformOne(s, x) ==
  LET l == Value(s.regs, x.l)
  IN CASE x.op = "and" -> Made(s, And(s.m, l, Value(s.regs, x.r)))
       [] x.op = "copy" -> Made(s, Copy(s.m, l))
       [] x.op = "var" -> Made(s, Var(s.m))
       [] x.op = "release" -> [s EXCEPT !.m = Release(s.m, l)]

\* Halves keep the recursion shallow; a state always has the register of true.
RECURSIVE Perform(_, _)
Perform(s, calls) ==
  LET half == Len(calls) \div 2
  IN CASE calls = <<>> \/ s.regs = <<>> -> s
       [] Len(calls) = 1 -> PerformOne(s, calls[1])
       [] OTHER -> Perform(Perform(s, SubSeq(calls, 1, half)), SubSeq(calls, half + 1, Len(calls)))

\* btor_aig_or
CallOr(c, l, r) == [m |-> Calls(c, <<A(-l, -r)>>), p |-> -(c.n + 1)]

\* btor_aig_eq
CallEq(c, l, r) ==
  LET n == c.n
  IN [m |-> Calls(c, <<A(l, -r), A(-l, r), A(-(n + 1), -(n + 2)), R(n + 1), R(n + 2)>>), p |-> n + 3]

\* btor_aig_cond
CallCond(c, i, t, e) ==
  LET n == c.n
  IN [m |-> Calls(c, <<A(t, i), A(e, -i), A(-(n + 1), -(n + 2)), R(n + 1), R(n + 2)>>), p |-> -(n + 3)]

\* The vector of F(c, 1), F(c, 2)...
Build(c, n, F(_, _)) ==
  FoldLeft(LAMBDA acc, i : LET r == F(acc.m, i) IN [m |-> r.m, v |-> Append(acc.v, r.p)],
           [m |-> c, v |-> <<>>], [i \in 1..n |-> i])

Bit(v, i) == v[Len(v) - i]
Zeros(n) == [i \in 1..n |-> AigFalse]
Inverted(v) == [i \in DOMAIN v |-> -v[i]]

\* btor_aigvec_release_delete
ReleaseVec(c, v) == CallReleaseAll(c, v)

VecConst(m, w, x) ==
  [m |-> m, v |-> [i \in 1..w |-> IF (x \div 2^(w - i)) % 2 = 1 THEN AigTrue ELSE AigFalse]]

\* btor_aigvec_var: the least significant bit has the smallest id
VecVar(m, w) ==
  LET r == Build(m, w, LAMBDA n, i : CallNew(n)) IN [m |-> r.m, v |-> Reverse(r.v)]

VecCopy(m, v) == Build(m, Len(v), LAMBDA n, i : CallCopy(n, v[i]))
VecSlice(m, v, upper, lower) ==
  Build(m, upper - lower + 1, LAMBDA n, i : CallCopy(n, v[Len(v) - upper - 1 + i]))
VecConcat(m, u, v) == VecCopy(m, u \o v)
VecAnd(m, u, v) == Build(m, Len(u), LAMBDA n, i : CallAnd(n, u[i], v[i]))
VecCond(m, c, t, e) == Build(m, Len(t), LAMBDA n, i : CallCond(n, c[1], t[i], e[i]))

\* lt_aigvec, from the least significant bit
LtStep(acc, x, y) ==
  LET n == acc.m.n
  IN [m |-> Calls(acc.m, <<A(x, -y), A(-(n + 1), acc.p), R(n + 1), R(acc.p),
                           A(-x, y), A(-(n + 3), -(n + 2)), R(n + 3), R(n + 2)>>),
      p |-> -(n + 4)]
VecUlt(m, u, v) ==
  LET r == FoldLeft(LAMBDA acc, i : LtStep(acc, Bit(u, i), Bit(v, i)),
                    [m |-> m, p |-> AigFalse], [i \in DOMAIN u |-> i - 1])
  IN [m |-> r.m, v |-> <<r.p>>]

EqStep(acc, e) ==
  [m |-> Calls(e.m, <<A(acc.p, e.p), R(e.p), R(acc.p)>>), p |-> e.m.n + 1]
VecEq(m, u, v) ==
  LET r == FoldLeft(LAMBDA acc, i : EqStep(acc, CallEq(acc.m, u[i], v[i])),
                    CallEq(m, u[1], v[1]), [i \in 1..Len(u) - 1 |-> i + 1])
  IN [m |-> r.m, v |-> <<r.p>>]

\* half_adder_aig_aigvec: c is the carry
HalfAdder(m, x, y) ==
  LET n == m.n
  IN [m |-> Calls(m, <<A(x, y), A(-x, -y), A(-(n + 1), -(n + 2)), R(n + 2)>>), p |-> n + 3, c |-> n + 1]

\* full_adder_aig_aigvec: s is the sum of x and y, res that of s and the carry
FullAdderOf(s, res) ==
  [m |-> Calls(res.m, <<A(-s.c, -res.c), R(s.p), R(s.c), R(res.c)>>), p |-> res.p, c |-> -(res.m.n + 1)]
CarriedIn(s, cin) == FullAdderOf(s, HalfAdder(s.m, s.p, cin))
FullAdder(m, x, y, cin) == CarriedIn(HalfAdder(m, x, y), cin)

\* btor_aig_compare and compare_aigvec_lsb_first: the first bits that differ
CompareAig(p, q) ==
  IF p = q THEN 0
  ELSE IF p = -q THEN (IF (p < 0) = ~IsConst(p) THEN -1 ELSE 1)
  ELSE IF IsConst(p) THEN -1
  ELSE IF IsConst(q) THEN 1 ELSE Real(p) - Real(q)
\* The operands of an addition or a multiplication, as they are sorted
Ordered(m, u, v) ==
  LET differ == {i \in DOMAIN u : u[i] # v[i]}
      i == CHOOSE j \in differ : \A k \in differ : j <= k
  IN IF m.sortVec /\ differ # {} /\ CompareAig(u[i], v[i]) > 0 THEN <<v, u>> ELSE <<u, v>>

VecAdd(m, u, v) ==
  LET step(acc, i) ==
        LET s == FullAdder(acc.m, Bit(u, i), Bit(v, i), acc.c)
        IN [m |-> CallReleaseAll(s.m, <<acc.c>>), c |-> s.c, v |-> <<s.p>> \o acc.v]
      r == FoldLeft(step, [m |-> m, c |-> AigFalse, v |-> <<>>], [i \in DOMAIN u |-> i - 1])
  IN [m |-> CallReleaseAll(r.m, <<r.c>>), v |-> r.v]

-----------------------------------------------------------------------------
(* Shifts: one multiplexer per bit of the shift amount.                     *)

\* sll_n_bits_aigvec, srl_n_bits_aigvec
Mux(m, x, y, shift, not) ==
  LET n == m.n
  IN [m |-> Calls(m, <<A(x, not), A(y, shift), A(-(n + 1), -(n + 2)), R(n + 1), R(n + 2)>>), p |-> -(n + 3)]
SllBits(m, v, n, shift) ==
  LET w == Len(v)
      not == CallCopy(m, -shift)
      r == Build(not.m, w, LAMBDA k, i : IF i <= w - n THEN Mux(k, v[i], v[i + n], shift, not.p)
                                         ELSE CallAnd(k, v[i], not.p))
  IN [m |-> CallReleaseAll(r.m, <<not.p>>), v |-> r.v]
SrlBits(m, v, n, shift) ==
  LET not == CallCopy(m, -shift)
      r == Build(not.m, Len(v), LAMBDA k, i : IF i > n THEN Mux(k, v[i], v[i - n], shift, not.p)
                                              ELSE CallAnd(k, v[i], not.p))
  IN [m |-> CallReleaseAll(r.m, <<not.p>>), v |-> r.v]

\* aigvec_sll, aigvec_srl: by 2^i for every bit i of the amount
ShiftStages(m, v, s, left) ==
  LET step(acc, i) ==
        LET r == IF left THEN SllBits(acc.m, acc.v, 2^i, Bit(s, i))
                 ELSE SrlBits(acc.m, acc.v, 2^i, Bit(s, i))
        IN [m |-> IF i = 0 THEN r.m ELSE ReleaseVec(r.m, acc.v), v |-> r.v]
  IN FoldLeft(step, [m |-> m, v |-> v], [i \in DOMAIN s |-> i - 1])

WidthShift(w) == CHOOSE i \in 0..w : 2^i >= w /\ \A j \in 0..i - 1 : 2^j < w

(* translate_shift: ite (amount too large, 0, shift of the padded vector).   *)
(* The amount is too large if it has an upper bit.                          *)
NonZero(upper) ==
  IF Len(upper.v) = 1 THEN VecCopy(upper.m, upper.v)
  ELSE LET none == VecEq(upper.m, Zeros(Len(upper.v)), upper.v)
           many == CallCopy(none.m, -none.v[1])
       IN [m |-> ReleaseVec(many.m, none.v), v |-> <<many.p>>]

Padded(c, u, s, left) ==
  LET padded == VecCopy(c, Zeros(2^Len(s) - Len(u)) \o u)
      all == ShiftStages(padded.m, padded.v, s, left)
  IN [m |-> ReleaseVec(ReleaseVec(all.m, padded.v), s), v |-> all.v]

Cut(all, w) ==
  LET cut == VecSlice(all.m, all.v, w - 1, 0)
  IN IF Len(all.v) = w THEN all ELSE [m |-> ReleaseVec(cut.m, all.v), v |-> cut.v]

IteTooLarge(cond, else) ==
  LET res == VecCond(else.m, cond.v, Zeros(Len(else.v)), else.v)
  IN [m |-> ReleaseVec(ReleaseVec(res.m, cond.v), else.v), v |-> res.v]

ShiftBy(u, left, upper, lower, cond) ==
  IteTooLarge(cond, Cut(Padded(ReleaseVec(cond.m, upper), u, lower, left), Len(u)))
ShiftSplit(u, left, upper, lower) ==
  ShiftBy(u, left, upper.v, lower.v, NonZero([upper EXCEPT !.m = lower.m]))
ShiftLower(u, v, left, upper) ==
  ShiftSplit(u, left, upper, VecSlice(upper.m, v, Len(u) - Len(upper.v) - 1, 0))
VecShift(m, u, v, left) ==
  LET w == Len(u)
  IN IF w = 1 THEN VecAnd(m, u, Inverted(v))
     ELSE ShiftLower(u, v, left, VecSlice(m, v, w - 1, WidthShift(w)))

-----------------------------------------------------------------------------
\* mul_aigvec: the partial product of bit i is added to the upper bits
MulSum(acc, i, prod, cin, sum) ==
  [m |-> CallReleaseAll(sum.m, <<prod, acc.v[i], cin>> \o (IF i = 1 THEN <<sum.c>> ELSE <<>>)),
   v |-> [acc.v EXCEPT ![i] = sum.p], c |-> sum.c]
MulBit(acc, i, prod, cin) == MulSum(acc, i, prod.p, cin, FullAdder(prod.m, acc.v[i], prod.p, cin))
VecMul(m, u, v) ==
  LET w == Len(u)
      bit(acc, t) ==  \* t: row of v, column of the result
        MulBit(acc, t[2], CallAnd(acc.m, u[w - t[1] + t[2]], v[t[1]]),
               IF t[1] = t[2] THEN AigFalse ELSE acc.c)
      row(acc, i) == FoldLeft(bit, acc, [j \in 1..i |-> <<i, i + 1 - j>>])
      first == Build(m, w, LAMBDA n, k : CallAnd(n, u[k], v[w]))
  IN FoldLeft(row, [m |-> first.m, v |-> first.v, c |-> AigFalse], [i \in 1..w - 1 |-> w - i])

\* SC_GATE_CO_aigvec: or, and, mid; the carry
GateCarry(m, r, d, ci) ==
  LET n == m.n
  IN [m |-> Calls(m, <<A(-d, -ci), A(d, ci), A(-(n + 1), r), A(-(n + 3), -(n + 2)),
                       R(-(n + 1)), R(n + 2), R(n + 3)>>),
      p |-> -(n + 4)]

\* Seeded fault: one intermediate AIG is not released.
GateSumLeak(m, r, d, ci, q) ==
  LET n == m.n
  IN [m |-> Calls(m, <<A(-d, -ci), A(d, ci), A(-(n + 1), -(n + 2)), A(n + 3, q),
                       A(-(n + 4), -r), A(n + 4, r), A(-(n + 5), -(n + 6)),
                       R(n + 3), R(n + 4), R(n + 2), R(n + 1), R(n + 6)>>),
      p |-> n + 7]

\* SC_GATE_S_aigvec: or, and, t1, t2, t2 or r, t2 and r; the sum
GateSum(m, r, d, ci, q) ==
  LET n == m.n
  IN [m |-> Calls(m, <<A(-d, -ci), A(d, ci), A(-(n + 1), -(n + 2)), A(n + 3, q),
                       A(-(n + 4), -r), A(n + 4, r), A(-(n + 5), -(n + 6)),
                       R(n + 3), R(n + 4), R(n + 2), R(n + 1), R(n + 6), R(n + 5)>>),
      p |-> n + 7]

(* udiv_urem_aigvec: row j subtracts the divisor if it fits.  The sums and  *)
(* carries of all rows are released at the end.                             *)
RowSums(acc, s0, carries, sums, q) ==
  [m |-> sums.m, s |-> sums.v, q |-> Append(acc.q, q), old |-> acc.old \o carries \o s0]
RowQuotient(acc, nd, s0, carries, q) ==
  RowSums(acc, s0, carries,
          Build(q.m, Len(nd), LAMBDA n, i : GateSum(n, s0[i], nd[i], carries[i], q.p)), q.p)
RowCarries(acc, nd, s0, cs) ==
  RowQuotient(acc, nd, s0, cs.v, CallOr(cs.m, Last(cs.v), Last(s0)))
Row(acc, nd, s0, m) ==  \* s0: S[j], nd: the inverted divisor, both from bit 0
  LET carry(c, i) == LET g == GateCarry(c.m, s0[i], nd[i], Last(c.v))
                     IN [m |-> g.m, v |-> Append(c.v, g.p)]
  IN RowCarries(acc, nd, s0, FoldLeft(carry, [m |-> m, v |-> <<AigTrue>>], [i \in DOMAIN nd |-> i]))
DivRem(m, u, v) ==
  LET w == Len(u)
      nd == Reverse(Inverted(v))
      row(acc, j) == LET first == CallCopy(acc.m, u[j]) IN Row(acc, nd, <<first.p>> \o acc.s, first.m)
      r == FoldLeft(row, [m |-> m, s |-> Zeros(w), q |-> <<>>, old |-> <<>>], [j \in 1..w |-> j])
      rem == VecCopy(r.m, Reverse(r.s))
  IN [m |-> CallReleaseAll(rem.m, r.old \o r.s), q |-> r.q, r |-> rem.v]

VecUdiv(m, u, v) == LET d == DivRem(m, u, v) IN [m |-> ReleaseVec(d.m, d.r), v |-> d.q]
VecUrem(m, u, v) == LET d == DivRem(m, u, v) IN [m |-> ReleaseVec(d.m, d.q), v |-> d.r]

\* btor_aigvec_to_sat_tseitin
VecToSat(m, v) == IF m.init THEN FoldLeft(Tseitin, m, v) ELSE m
=============================================================================
