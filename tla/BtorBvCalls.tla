---------------------------- MODULE BtorBvCalls ----------------------------
(***************************************************************************)
(* One call of an operation of btorbv.c on arbitrary values, and what it   *)
(* should return: arithmetic on numbers, without limbs.                    *)
(***************************************************************************)
EXTENDS BtorBv

CONSTANTS
  MaxWidth,   \* bound: width of the operands
  MaxConcat   \* bound: width of the result of a concatenation

ASSUME WidthAssumption == MaxWidth \in Nat \ {0} /\ MaxConcat \in Nat

VARIABLES
  args,       \* the operands
  op,         \* the operation, with the parameters that are not bit-vectors
  res         \* its result: a bit-vector, or a number or string where it says so

vars == <<args, op, res>>

\* The bit-vectors of width bw.
BitVec(bw) == {Extended(StripZeroes(Digit(v, bw)), bw) : v \in 0..2^bw - 1}

Same == UNION {BitVec(bw) \X BitVec(bw) : bw \in 1..MaxWidth}
Any == UNION {BitVec(m) \X BitVec(n) : <<m, n>> \in
                {p \in (1..MaxConcat) \X (1..MaxConcat) : p[1] + p[2] <= MaxConcat}}
Single == {<<a>> : a \in UNION {BitVec(bw) : bw \in 1..MaxWidth}}

Init == args \in Single \cup Same \cup Any /\ op = <<"none">> /\ res = 0

\* Before the call, with one operand or with two of the same width.
Alone == op = <<"none">> /\ Len(args) = 1
Paired == op = <<"none">> /\ Len(args) = 2 /\ args[1].width = args[2].width /\ args[1].width <= MaxWidth

Returns(o, r) == op' = o /\ res' = r /\ UNCHANGED args

Unary == Alone /\ LET a == args[1] IN
  \/ Returns(<<"not">>, Not(a)) \/ Returns(<<"neg">>, Neg(a))
  \/ Returns(<<"inc">>, Inc(a)) \/ Returns(<<"dec">>, Dec(a))
  \/ Returns(<<"redand">>, RedAnd(a)) \/ Returns(<<"redor">>, RedOr(a))
  \/ Returns(<<"ones">>, Ones(a.width)) \/ Returns(<<"one">>, One(a.width))
  \/ Returns(<<"min_signed">>, MinSigned(a.width))
  \/ Returns(<<"max_signed">>, MaxSigned(a.width))
  \/ GetBit(a, 0) = 1 /\ Returns(<<"mod_inverse">>, ModInverse(a))
  \/ \E up \in 0..a.width - 1 : \E lo \in 0..up :
       \/ Returns(<<"slice", up, lo>>, Slice(a, up, lo))
       \/ Returns(<<"flip", up, lo>>, FlippedBitRange(a, up, lo))
  \/ \E n \in 0..MaxWidth :
       \/ Returns(<<"uext", n>>, Uext(a, n)) \/ Returns(<<"sext", n>>, Sext(a, n))

\* Machine integers as bit-vectors of the width of the operand.
FromInteger == Alone /\ IsZero(args[1]) /\ LET bw == args[1].width IN
  \/ \E v \in 0..Uint64 - 1 : Returns(<<"uint64", v>>, Uint64ToBv(v, bw))
  \/ \E v \in -(Uint64 \div 2)..(Uint64 \div 2) - 1 : Returns(<<"int64", v>>, Int64ToBv(v, bw))

Binary == Paired /\ LET a == args[1] b == args[2] IN
  \/ Returns(<<"and">>, And(a, b)) \/ Returns(<<"or">>, Or(a, b))
  \/ Returns(<<"xor">>, Xor(a, b)) \/ Returns(<<"implies">>, Implies(a, b))
  \/ Returns(<<"nand">>, Nand(a, b)) \/ Returns(<<"nor">>, Nor(a, b))
  \/ Returns(<<"xnor">>, Xnor(a, b))
  \/ Returns(<<"add">>, Add(a, b)) \/ Returns(<<"sub">>, Sub(a, b))
  \/ Returns(<<"mul">>, Mul(a, b))
  \/ Returns(<<"udiv">>, Udiv(a, b)) \/ Returns(<<"urem">>, Urem(a, b))
  \/ Returns(<<"sdiv">>, Sdiv(a, b)) \/ Returns(<<"srem">>, Srem(a, b))
  \/ Returns(<<"sll">>, Sll(a, b)) \/ Returns(<<"srl">>, Srl(a, b))
  \/ Returns(<<"sra">>, Sra(a, b))
  \/ Returns(<<"ite", 0>>, Ite(Bool(FALSE), a, b))
  \/ Returns(<<"ite", 1>>, Ite(Bool(TRUE), a, b))

Compares == Paired /\ LET a == args[1] b == args[2] IN
  \/ Returns(<<"eq">>, Eq(a, b)) \/ Returns(<<"ne">>, Ne(a, b))
  \/ Returns(<<"ult">>, Ult(a, b)) \/ Returns(<<"ulte">>, Ulte(a, b))
  \/ Returns(<<"ugt">>, Ugt(a, b)) \/ Returns(<<"ugte">>, Ugte(a, b))
  \/ Returns(<<"slt">>, Slt(a, b)) \/ Returns(<<"slte">>, Slte(a, b))
  \/ Returns(<<"sgt">>, Sgt(a, b)) \/ Returns(<<"sgte">>, Sgte(a, b))

ConcatCall ==
  /\ op = <<"none">> /\ Len(args) = 2 /\ args[1].width + args[2].width <= MaxConcat
  /\ Returns(<<"concat">>, Concat(args[1], args[2]))

RandomRange ==
  /\ Paired /\ Compare(args[1], args[2]) <= 0
  /\ \E r \in NewRandomRange(args[1], args[2]) : Returns(<<"random_range">>, r)

RandomBits ==
  Alone /\ \E up \in 0..args[1].width - 1 : \E lo \in 0..up :
    \E r \in RandomBitRange(args[1].width, up, lo) : Returns(<<"random_bits", up, lo>>, r)

\* Functions that return a number or a truth value, as a record of all of them.
Measure == Alone /\ LET a == args[1] IN
  Returns(<<"measure">>,
    [zero |-> IsZero(a), one |-> IsOne(a), ones |-> IsOnes(a),
     min |-> IsMinSigned(a), max |-> IsMaxSigned(a),
     special |-> IsSpecialConst(a), pow2 |-> PowerOfTwo(a), small |-> SmallPositiveInt(a),
     trailing |-> NumTrailingZeros(a),
     leading |-> NumLeading(a, TRUE), ones_leading |-> NumLeading(a, FALSE)])

Relates == Paired /\
  Returns(<<"relate">>, [cmp |-> Compare(args[1], args[2]), umulo |-> IsUmulo(args[1], args[2])])

Prints == Alone /\ LET a == args[1] IN
  \/ Returns(<<"to_char">>, ToChar(a))
  \/ Returns(<<"to_hex_char">>, ToHexChar(a))
  \/ Returns(<<"to_dec_char">>, ToDecChar(a))

Next == \/ Unary \/ FromInteger \/ Binary \/ Compares \/ ConcatCall
        \/ RandomRange \/ RandomBits \/ Measure \/ Relates \/ Prints

Spec == Init /\ [][Next]_vars

-----------------------------------------------------------------------------
IsBv(bv, bw) ==
  /\ bv.width = bw /\ bv.bits \in [1..NumLimbs(bw) -> 0..Limb - 1]
  /\ bw % LimbBits # 0 => bv.bits[1] < 2^(bw % LimbBits)

x == Val(args[1])
y == Val(args[2])
w == args[1].width
Signed(v, bw) == IF v >= 2^(bw - 1) THEN v - 2^bw ELSE v
Truth(p) == IF p THEN 1 ELSE 0
BitWise(f(_, _), n) == Number(LAMBDA j : f(Bit(x, j), Bit(y, j)), n, 2)

\* Division of numbers with the quotient rounded towards zero.
Abs(v) == IF v < 0 THEN -v ELSE v
Quot(u, v) == IF (u < 0) = (v < 0) THEN Abs(u) \div Abs(v) ELSE -(Abs(u) \div Abs(v))

BvOps == {"not", "neg", "inc", "dec", "redand", "redor", "ones", "one", "min_signed",
  "max_signed", "mod_inverse", "slice", "flip", "uext", "sext", "and", "or", "xor",
  "implies", "nand", "nor", "xnor", "add", "sub", "mul", "udiv", "urem", "sdiv", "srem",
  "sll", "srl", "sra", "ite", "eq", "ne", "ult", "ulte", "ugt", "ugte", "slt", "slte",
  "sgt", "sgte", "concat", "uint64", "int64"}

\* The width of a result.
ResultWidth ==
  CASE op[1] \in {"eq", "ne", "ult", "ulte", "ugt", "ugte", "slt", "slte", "sgt", "sgte",
                  "redand", "redor"} -> 1
    [] op[1] = "slice" -> op[2] - op[3] + 1
    [] op[1] \in {"uext", "sext"} -> w + op[2]
    [] op[1] = "concat" -> w + args[2].width
    [] OTHER -> w

\* What the operation means.
Meaning ==
  LET sx == Signed(x, w)
      sy == Signed(y, w)
  IN CASE op[1] = "not" -> 2^w - 1 - x
       [] op[1] = "neg" -> (2^w - x) % 2^w
       [] op[1] = "inc" -> (x + 1) % 2^w
       [] op[1] = "dec" -> (x - 1) % 2^w
       [] op[1] = "redand" -> Truth(x = 2^w - 1)
       [] op[1] = "redor" -> Truth(x # 0)
       [] op[1] = "ones" -> 2^w - 1
       [] op[1] = "one" -> 1
       [] op[1] = "min_signed" -> 2^(w - 1)
       [] op[1] = "max_signed" -> 2^(w - 1) - 1
       [] op[1] = "mod_inverse" -> CHOOSE v \in 0..2^w - 1 : (v * x) % 2^w = 1
       [] op[1] = "slice" -> (x \div 2^op[3]) % 2^(op[2] - op[3] + 1)
       [] op[1] = "flip" -> Number(LAMBDA j :
            IF j \in op[3]..op[2] THEN 1 - Bit(x, j) ELSE Bit(x, j), w, 2)
       [] op[1] = "uext" -> x
       [] op[1] = "sext" -> sx % 2^(w + op[2])
       [] op[1] = "and" -> BitWise(LAMBDA p, q : IF p = 1 /\ q = 1 THEN 1 ELSE 0, w)
       [] op[1] = "or" -> BitWise(LAMBDA p, q : IF p = 1 \/ q = 1 THEN 1 ELSE 0, w)
       [] op[1] = "xor" -> BitWise(LAMBDA p, q : IF p # q THEN 1 ELSE 0, w)
       [] op[1] = "implies" -> BitWise(LAMBDA p, q : IF p = 1 => q = 1 THEN 1 ELSE 0, w)
       [] op[1] = "nand" -> BitWise(LAMBDA p, q : IF p = 1 /\ q = 1 THEN 0 ELSE 1, w)
       [] op[1] = "nor" -> BitWise(LAMBDA p, q : IF p = 1 \/ q = 1 THEN 0 ELSE 1, w)
       [] op[1] = "xnor" -> BitWise(LAMBDA p, q : IF p = q THEN 1 ELSE 0, w)
       [] op[1] = "add" -> (x + y) % 2^w
       [] op[1] = "sub" -> (x - y) % 2^w
       [] op[1] = "mul" -> (x * y) % 2^w
       [] op[1] = "udiv" -> IF y = 0 THEN 2^w - 1 ELSE x \div y
       [] op[1] = "urem" -> IF y = 0 THEN x ELSE x % y
       [] op[1] = "sdiv" -> (IF sy = 0 THEN (IF sx < 0 THEN 1 ELSE -1)
                             ELSE Quot(sx, sy)) % 2^w
       [] op[1] = "srem" -> (IF sy = 0 THEN sx ELSE sx - sy * Quot(sx, sy)) % 2^w
       [] op[1] = "sll" -> IF y >= w THEN 0 ELSE (x * 2^y) % 2^w
       [] op[1] = "srl" -> IF y >= w THEN 0 ELSE x \div 2^y
       [] op[1] = "sra" -> (IF y >= w THEN (IF sx < 0 THEN -1 ELSE 0)
                            ELSE sx \div 2^y) % 2^w
       [] op[1] = "ite" -> IF op[2] = 1 THEN x ELSE y
       [] op[1] = "eq" -> Truth(x = y)      [] op[1] = "ne" -> Truth(x # y)
       [] op[1] = "ult" -> Truth(x < y)     [] op[1] = "ulte" -> Truth(x <= y)
       [] op[1] = "ugt" -> Truth(x > y)     [] op[1] = "ugte" -> Truth(x >= y)
       [] op[1] = "slt" -> Truth(sx < sy)   [] op[1] = "slte" -> Truth(sx <= sy)
       [] op[1] = "sgt" -> Truth(sx > sy)   [] op[1] = "sgte" -> Truth(sx >= sy)
       [] op[1] \in {"uint64", "int64"} -> op[2] % 2^w
       [] op[1] = "concat" -> x * 2^args[2].width + y

(* The tests and counts of bit-vectors agree with the number they read.     *)
MeasuresExact ==
  /\ op = <<"measure">> =>
       /\ res.zero = (x = 0) /\ res.one = (x = 1) /\ res.ones = (x = 2^w - 1)
       /\ res.min = (x = 2^(w - 1)) /\ res.max = (x = 2^(w - 1) - 1)
       /\ res.special = CASE x = 0 -> "zero"
                          [] x = 1 -> IF w = 1 THEN "one_ones" ELSE "one"
                          [] x # 1 /\ x = 2^w - 1 -> "ones"
                          [] OTHER -> "none"
       /\ x # 0 => res.pow2 = IF \E p \in 0..w - 1 : x = 2^p
                               THEN CHOOSE p \in 0..w - 1 : x = 2^p ELSE -1
       /\ res.small = IF x < 2^(LimbBits - 1) THEN x ELSE -1
       /\ res.trailing \in 0..w /\ x % 2^res.trailing = 0
       /\ res.trailing < w => x % 2^(res.trailing + 1) # 0
       /\ res.leading \in 0..w /\ x < 2^(w - res.leading)
       /\ res.leading < w => x >= 2^(w - res.leading - 1)
       /\ res.ones_leading \in 0..w
       /\ 2^w - 1 - x < 2^(w - res.ones_leading)
       /\ res.ones_leading < w => 2^w - 1 - x >= 2^(w - res.ones_leading - 1)
  /\ op = <<"relate">> =>
       /\ res.cmp = IF x < y THEN -1 ELSE IF x = y THEN 0 ELSE 1
       /\ res.umulo = (x * y >= 2^w)
  /\ op[1] \in {"random_range", "random_bits"} => IsBv(res, w)
  /\ op = <<"random_range">> => x <= Val(res) /\ Val(res) <= y
  /\ op[1] = "random_bits" => \A j \in 0..w - 1 : j \notin op[3]..op[2] => GetBit(res, j) = 0

(* Every operation computes what it means on numbers, for values of one     *)
(* limb, of two and of more, with and without spare bits, at the borders of *)
(* shifts, for a zero divisor and for the smallest negative number; its     *)
(* result has the right width and no bit set above it.  (The exponent of    *)
(* zero is left open: btorbv.h:153 has -1, the code and its test have 0.)   *)
OperationsExact ==
  /\ op[1] \in BvOps => IsBv(res, ResultWidth) /\ Val(res) = Meaning
  /\ MeasuresExact

(* What is printed in a base is accepted as a constant of the same width    *)
(* and reads back as the same value, also with a minus sign in front if the *)
(* width has such a negative number (-0 is refused in a single bit).        *)
RoundTrip ==
  /\ op = <<"to_char">> => Const(res) = args[1]
  /\ op = <<"to_hex_char">> => CheckHexToBv(res, w) /\ Consth(res, w) = args[1]
  /\ op = <<"to_dec_char">> =>
       /\ CheckDecToBv(FALSE, res, w) /\ Constd(FALSE, res, w) = args[1]
       /\ CheckDecToBv(TRUE, res, w) = (x <= 2^(w - 1) /\ (x = 0 => w > 1))
       /\ CheckDecToBv(TRUE, res, w) => Val(Constd(TRUE, res, w)) = (2^w - x) % 2^w
=============================================================================
