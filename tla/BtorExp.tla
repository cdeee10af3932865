------------------------------ MODULE BtorExp -------------------------------
(***************************************************************************)
(* The functions that make expressions which are not nodes (btorexp.c):    *)
(* each is put together from others, down to the rewriter.  A branch for   *)
(* one or two bits is there where the construction would need a slice of   *)
(* no bits.                                                                *)
(***************************************************************************)
EXTENDS BtorRewrite

RECURSIVE Build(_, _, _)

\* The calls of one function by another, all through Build below.
Fn(c, f, a, b) == Build(c, f, <<a, b>>)
Slice(c, t, u, l) == Build(c, "slice", <<t, u, l>>)
Cond(c, t, a, b) == Build(c, "cond", <<t, a, b>>)
NegFn(c, t) == Build(c, "neg", <<t>>)

Bit(c, t, i) == Slice(c, t, i, i)
Sign(c, t) == Bit(c, t, t.w - 1)

MinSignedExp(w) == Const(w, 2^(w - 1))
MaxSignedExp(w) == Const(w, 2^(w - 1) - 1)
UnsignedExp(w, n) == Const(w, n % 2^w)
IntExp(w, n) == Const(w, n % 2^w)           \* two's complement of a negative n

(* Boolean and bit-wise.                                                    *)

ExpImplies(c, a, b) == Invert(Fn(c, "and", a, Invert(b)))
ExpIff(c, a, b) == Fn(c, "eq", a, b)
ExpNe(c, a, b) == Invert(Fn(c, "eq", a, b))
ExpXnor(c, a, b) == Invert(Fn(c, "xor", a, b))
ExpNand(c, a, b) == Invert(Fn(c, "and", a, b))
ExpNor(c, a, b) == Invert(Fn(c, "or", a, b))

ExpRedor(c, t) == Invert(Fn(c, "eq", t, ZeroExp(t.w)))
ExpRedand(c, t) == Fn(c, "eq", t, OnesExp(t.w))
ExpRedxor(c, t) ==
  LET xor[i \in 0..t.w - 1] ==
        IF i = 0 THEN Bit(c, t, 0) ELSE Fn(c, "xor", xor[i - 1], Bit(c, t, i))
  IN xor[t.w - 1]

ExpSext(c, t, n) ==
  IF n = 0 THEN t
  ELSE Fn(c, "concat", Cond(c, Sign(c, t), OnesExp(n), ZeroExp(n)), t)

ExpRepeat(c, t, n) ==
  LET rep[i \in 1..n] == IF i = 1 THEN t ELSE Fn(c, "concat", rep[i - 1], t) IN rep[n]

(* Comparison.                                                              *)

ExpSlt(c, a, b) ==
  LET s0 == Sign(c, a)
      s1 == Sign(c, b)
      ult == Fn(c, "ult", Slice(c, a, a.w - 2, 0), Slice(c, b, a.w - 2, 0))
      bySign == Fn(c, "and", s0, Invert(s1))
      r == Fn(c, "and", Invert(s0), s1)
      eqSign == Fn(c, "and", Invert(bySign), Invert(r))
  IN IF a.w = 1 THEN Fn(c, "and", a, Invert(b))
     ELSE Fn(c, "or", bySign, Fn(c, "and", eqSign, ult))

ExpUlte(c, a, b) == Invert(Fn(c, "ult", b, a))
ExpSlte(c, a, b) == Invert(ExpSlt(c, b, a))
ExpUgt(c, a, b) == Fn(c, "ult", b, a)
ExpSgt(c, a, b) == ExpSlt(c, b, a)
ExpUgte(c, a, b) == Invert(Fn(c, "ult", a, b))
ExpSgte(c, a, b) == Invert(ExpSlt(c, a, b))

(* Shifts and rotations.                                                    *)

ExpSra(c, a, b) ==
  LET srl1 == Fn(c, "srl", a, b)
      srl2 == Fn(c, "srl", Invert(a), b)
  IN Cond(c, Sign(c, a), Invert(srl2), srl1)

\* exp_rotate: by the value of b modulo the width
ExpRotate(c, a, b, left) ==
  LET w == UnsignedExp(a.w, a.w)
      nbits == Fn(c, "urem", b, w)
      dbits == Fn(c, "sub", w, nbits)
      lshift == Fn(c, "sll", a, IF left THEN nbits ELSE dbits)
      rshift == Fn(c, "srl", a, IF left THEN dbits ELSE nbits)
  IN IF a.w = 1 THEN a
     ELSE Cond(c, Fn(c, "eq", nbits, ZeroExp(a.w)), a, Fn(c, "or", lshift, rshift))

\* exp_bv_rotate_i: by a number
ExpRotateI(c, t, n, left) ==
  LET m == n % t.w
      nbits == IF left THEN t.w - m ELSE m
  IN IF m = 0 THEN t
     ELSE Fn(c, "concat", Slice(c, t, nbits - 1, 0), Slice(c, t, t.w - 1, nbits))

(* Arithmetic.                                                              *)

ExpInc(c, t) == Fn(c, "add", t, OneExp(t.w))
ExpDec(c, t) == Fn(c, "sub", t, OneExp(t.w))

\* The absolute value and a negation under a condition.
NegIf(c, sign, t) == Cond(c, sign, NegFn(c, t), t)
Abs(c, t) == NegIf(c, Sign(c, t), t)

ExpSdiv(c, a, b) ==
  LET xor == Fn(c, "xor", Sign(c, a), Sign(c, b))
      udiv == Fn(c, "udiv", Abs(c, a), Abs(c, b))
  IN IF a.w = 1 THEN Invert(Fn(c, "and", Invert(a), b)) ELSE NegIf(c, xor, udiv)

ExpSrem(c, a, b) ==
  LET urem == Fn(c, "urem", Abs(c, a), Abs(c, b))
  IN IF a.w = 1 THEN Fn(c, "and", a, Invert(b)) ELSE NegIf(c, Sign(c, a), urem)

ExpSmod(c, a, b) ==
  LET zero == ZeroExp(a.w)
      s0 == Sign(c, a)
      s1 == Sign(c, b)
      urem == Fn(c, "urem", Abs(c, a), Abs(c, b))
      isZero == Fn(c, "eq", urem, zero)
      neg == NegFn(c, urem)
      sum(t) == Cond(c, isZero, zero, Fn(c, "add", t, b))
      quadrant(p, q, t) == Cond(c, Fn(c, "and", p, q), t, zero)
  IN Fn(c, "or", Fn(c, "or", quadrant(Invert(s0), Invert(s1), urem),
                       quadrant(s0, Invert(s1), sum(neg))),
              Fn(c, "or", quadrant(Invert(s0), s1, sum(urem)),
                       quadrant(s0, s1, neg)))

(* Overflow tests.                                                          *)

ExpUaddo(c, a, b) ==
  Bit(c, Fn(c, "add", Fn(c, "uext", a, 1), Fn(c, "uext", b, 1)), a.w)

\* Both operands have one sign (p and q say so) and the result has the other.
SignChange(c, p, q, r) == Fn(c, "and", Fn(c, "and", p, q), r)

ExpSaddo(c, a, b) ==
  LET s0 == Sign(c, a)
      s1 == Sign(c, b)
      r == Sign(c, Fn(c, "add", a, b))
  IN Fn(c, "or", SignChange(c, s0, s1, Invert(r)), SignChange(c, Invert(s0), Invert(s1), r))

ExpUsubo(c, a, b) ==
  LET neg == Fn(c, "add", Fn(c, "uext", Invert(b), 1), OneExp(a.w + 1))
  IN Invert(Bit(c, Fn(c, "add", Fn(c, "uext", a, 1), neg), a.w))

ExpSsubo(c, a, b) ==
  LET s0 == Sign(c, a)
      s1 == Sign(c, b)
      r == Sign(c, Fn(c, "sub", a, b))
  IN Fn(c, "or", SignChange(c, Invert(s0), s1, r), SignChange(c, s0, Invert(s1), Invert(r)))

ExpSdivo(c, a, b) ==
  Fn(c, "and", Fn(c, "eq", a, MinSignedExp(a.w)), Fn(c, "eq", b, OnesExp(b.w)))

(* Two operands with enough leading bits overflow: bit i + 1 of a is set    *)
(* and one of the top i + 1 of the bits of b below bit top.                 *)
LeadingBits(c, a, b, top) ==
  LET temps[i \in 0..top - 1] ==
        IF i = 0 THEN Bit(c, b, top) ELSE Fn(c, "or", temps[i - 1], Bit(c, b, top - i))
      result[i \in 0..top - 1] ==
        LET and == Fn(c, "and", Bit(c, a, i + 1), temps[i])
        IN IF i = 0 THEN and ELSE Fn(c, "or", result[i - 1], and)
  IN result[top - 1]

ExpUmulo(c, a, b) ==
  LET mul == Fn(c, "mul", Fn(c, "uext", a, 1), Fn(c, "uext", b, 1))
  IN IF a.w = 1 THEN False
     ELSE Fn(c, "or", LeadingBits(c, a, b, a.w - 1), Bit(c, mul, a.w))

ExpSmulo(c, a, b) ==
  LET mul == Fn(c, "mul", ExpSext(c, a, 1), ExpSext(c, b, 1))
      xor == Fn(c, "xor", Bit(c, mul, a.w), Bit(c, mul, a.w - 1))
      unsign(t) == Fn(c, "xor", t, ExpSext(c, Sign(c, t), t.w - 1))
  IN CASE a.w = 1 -> Fn(c, "and", a, b)
       [] a.w = 2 -> xor
       [] a.w > 2 -> Fn(c, "or", LeadingBits(c, unsign(a), unsign(b), a.w - 2), xor)

-----------------------------------------------------------------------------
(* The functions by their names.                                            *)

UnaryFunctions == {"not", "neg", "redor", "redxor", "redand", "inc", "dec", "copy"}

UnaryExp(c, f, t) ==
  CASE f = "not" -> Invert(t)
    [] f = "redor" -> ExpRedor(c, t)
    [] f = "redxor" -> ExpRedxor(c, t)
    [] f = "redand" -> ExpRedand(c, t)
    [] f = "inc" -> ExpInc(c, t)
    [] f = "dec" -> ExpDec(c, t)
    [] f = "copy" -> t

BitwiseFunctions == {"xor", "xnor", "nand", "or", "nor", "ne"}
CompareFunctions == {"slt", "ulte", "slte", "ugt", "sgt", "ugte", "sgte"}
ArithmeticFunctions == {"sub", "sdiv", "srem", "smod"}
OverflowFunctions == {"uaddo", "saddo", "usubo", "ssubo", "umulo", "smulo", "sdivo"}
BinaryFunctions ==
  CoreFunctions \cup BitwiseFunctions \cup CompareFunctions
    \cup ArithmeticFunctions \cup OverflowFunctions
ShiftFunctions == {"sll", "srl", "sra", "rol", "ror"}
BooleanFunctions == {"implies", "iff"}

BitwiseExp(c, f, a, b) ==
  CASE f = "xnor" -> ExpXnor(c, a, b)
    [] f = "nand" -> ExpNand(c, a, b)
    [] f = "nor" -> ExpNor(c, a, b)
    [] f = "ne" -> ExpNe(c, a, b)

CompareExp(c, f, a, b) ==
  CASE f = "slt" -> ExpSlt(c, a, b)
    [] f = "ulte" -> ExpUlte(c, a, b)
    [] f = "slte" -> ExpSlte(c, a, b)
    [] f = "ugt" -> ExpUgt(c, a, b)
    [] f = "sgt" -> ExpSgt(c, a, b)
    [] f = "ugte" -> ExpUgte(c, a, b)
    [] f = "sgte" -> ExpSgte(c, a, b)

ArithmeticExp(c, f, a, b) ==
  CASE f = "sdiv" -> ExpSdiv(c, a, b)
    [] f = "srem" -> ExpSrem(c, a, b)
    [] f = "smod" -> ExpSmod(c, a, b)

OverflowExp(c, f, a, b) ==
  CASE f = "uaddo" -> ExpUaddo(c, a, b)
    [] f = "saddo" -> ExpSaddo(c, a, b)
    [] f = "usubo" -> ExpUsubo(c, a, b)
    [] f = "ssubo" -> ExpSsubo(c, a, b)
    [] f = "umulo" -> ExpUmulo(c, a, b)
    [] f = "smulo" -> ExpSmulo(c, a, b)
    [] f = "sdivo" -> ExpSdivo(c, a, b)

BinaryExp(c, f, a, b) ==
  CASE f \in BitwiseFunctions -> BitwiseExp(c, f, a, b)
    [] f \in CompareFunctions -> CompareExp(c, f, a, b)
    [] f \in ArithmeticFunctions -> ArithmeticExp(c, f, a, b)
    [] f \in OverflowFunctions -> OverflowExp(c, f, a, b)

ShiftExp(c, f, a, b) ==
  CASE f = "sra" -> ExpSra(c, a, b)
    [] f = "rol" -> ExpRotate(c, a, b, TRUE)
    [] f = "ror" -> ExpRotate(c, a, b, FALSE)

BooleanExp(c, f, a, b) ==
  CASE f = "implies" -> ExpImplies(c, a, b)
    [] f = "iff" -> ExpIff(c, a, b)

IndexedFunctions == {"uext", "sext", "repeat", "roli", "rori"}

IndexedExp(c, f, t, n) ==
  CASE f = "sext" -> ExpSext(c, t, n)
    [] f = "repeat" -> ExpRepeat(c, t, n)
    [] f = "roli" -> ExpRotateI(c, t, n, TRUE)
    [] f = "rori" -> ExpRotateI(c, t, n, FALSE)

\* What btor_exp_f returns; a node, and what rules make themselves, is of BtorRewrite.
Build(c, f, e) ==
  CASE f \in NodeFunctions \cup {"or", "xor", "neg", "sub", "uext"} -> Make(c, f, e)
    [] f \in UnaryFunctions \ {"neg"} -> UnaryExp(c, f, e[1])
    [] f \in BinaryFunctions \ (CoreFunctions \cup {"or", "xor", "sub"}) ->
         BinaryExp(c, f, e[1], e[2])
    [] f \in ShiftFunctions \ {"sll", "srl"} -> ShiftExp(c, f, e[1], e[2])
    [] f \in BooleanFunctions -> BooleanExp(c, f, e[1], e[2])
    [] f \in IndexedFunctions \ {"uext"} -> IndexedExp(c, f, e[1], e[2])
=============================================================================
