------------------------------- MODULE BtorBv -------------------------------
(***************************************************************************)
(* Bit-vector values (btorbv.c, the default build without GMP): a value is *)
(* an array of words ("limbs") of BTOR_BV_TYPE_BW bits, the most           *)
(* significant one first, whose spare bits in front are zero.  Values of   *)
(* up to two limbs take short cuts through uint64_t.                       *)
(*                                                                         *)
(* LimbBits stands for the 32 of BTOR_BV_TYPE_BW and 2 * LimbBits for the  *)
(* 64 of uint64_t, so that small instances have several limbs, spare bits  *)
(* and carries between limbs.  A digit string is a sequence of numbers.    *)
(***************************************************************************)
EXTENDS Integers, Sequences, FiniteSetsExt

CONSTANT LimbBits

ASSUME LimbAssumption == LimbBits \in Nat \ {0}

Limb == 2^LimbBits        \* 1 + UINT32_MAX
Uint64Bits == 2 * LimbBits
Uint64 == 2^Uint64Bits    \* 1 + UINT64_MAX

\* The number with the digits d(n - 1) .. d(0) to the base.
Number(d(_), n, base) ==
  LET v[i \in 0..n] == IF i = 0 THEN 0 ELSE base * v[i - 1] + d(n - i) IN v[n]

\* A bit-vector as a number.
Val(bv) == Number(LAMBDA i : bv.bits[Len(bv.bits) - i], Len(bv.bits), Limb)

Bit(x, j) == (x \div 2^j) % 2

\* The limb whose bit j is f(j).
LimbOf(f(_)) == Number(f, LimbBits, 2)

\* The array of n elements written one after the other, element i being f(i).
Array(f(_), n) ==
  LET s[i \in 0..n] == IF i = 0 THEN <<>> ELSE Append(s[i - 1], f(i)) IN s[n]

-----------------------------------------------------------------------------
\* btor_bv_new: all limbs zero
NumLimbs(bw) == (bw \div LimbBits) + (IF bw % LimbBits > 0 THEN 1 ELSE 0)
Bv(bw, limb(_)) == [width |-> bw, bits |-> Array(limb, NumLimbs(bw))]
New(bw) == Bv(bw, LAMBDA i : 0)

\* BTOR_MASK_REM_BITS, as the number of values it lets through
RemValues(bv) == 2^(bv.width % LimbBits)

SetRemBitsToZero(bv) ==
  IF bv.width = LimbBits * Len(bv.bits) THEN bv
  ELSE [bv EXCEPT !.bits[1] = @ % RemValues(bv)]

\* The limb that holds bit pos of bv, and where in it.
LimbAt(bv, pos) == Len(bv.bits) - (pos \div LimbBits)

GetBit(bv, pos) == Bit(bv.bits[LimbAt(bv, pos)], pos % LimbBits)

SetBit(bv, pos, bit) ==
  [bv EXCEPT !.bits[LimbAt(bv, pos)] =
     @ + (bit - GetBit(bv, pos)) * 2^(pos % LimbBits)]

\* A new bit-vector whose bit i was set to f(i), for every i.
BvOf(f(_), bw) ==
  Bv(bw, LAMBDA i : LimbOf(LAMBDA j :
           LET pos == (NumLimbs(bw) - i) * LimbBits + j IN IF pos < bw THEN f(pos) ELSE 0))

ToUint64(bv) == Val(bv)     \* asserts a width of at most 64

Uint64ToBv(value, bw) ==
  LET n == NumLimbs(bw)
      low == [New(bw) EXCEPT !.bits[n] = value % Limb]
  IN SetRemBitsToZero(
       IF bw > LimbBits THEN [low EXCEPT !.bits[n - 1] = (value \div Limb) % Limb]
       ELSE low)

\* btor_bv_int64_to_bv: a negative value fills the limbs above the 64 bits.
Int64ToBv(value, bw) ==
  LET n == NumLimbs(bw)
      fill == IF value < 0 /\ bw > Uint64Bits THEN Limb - 1 ELSE 0
      \* value >> BTOR_BV_TYPE_BW keeps the sign, the cast to a limb cuts it off
      limb(i) == CASE i = n -> value % Limb
                   [] i = n - 1 -> (value \div Limb) % Limb
                   [] OTHER -> fill
  IN SetRemBitsToZero(Bv(bw, limb))

-----------------------------------------------------------------------------
(* Operations limb by limb.                                                 *)

LimbWise(f(_, _), a, b) ==
  Bv(a.width, LAMBDA i : LimbOf(LAMBDA j : f(Bit(a.bits[i], j), Bit(b.bits[i], j))))

Not(bv) == SetRemBitsToZero(LimbWise(LAMBDA x, y : 1 - x, bv, bv))
And(a, b) == LimbWise(LAMBDA x, y : x * y, a, b)
Or(a, b) == LimbWise(LAMBDA x, y : x + y - x * y, a, b)
Xor(a, b) == LimbWise(LAMBDA x, y : (x + y) % 2, a, b)
Implies(a, b) == SetRemBitsToZero(LimbWise(LAMBDA x, y : 1 - x + x * y, a, b))
Nand(a, b) == SetRemBitsToZero(LimbWise(LAMBDA x, y : 1 - x * y, a, b))
Nor(a, b) == SetRemBitsToZero(LimbWise(LAMBDA x, y : (1 - x) * (1 - y), a, b))
Xnor(a, b) == SetRemBitsToZero(LimbWise(LAMBDA x, y : (x + 1 - y) % 2, a, b))
Ite(c, t, e) ==
  LET cc == GetBit(c, 0)
  IN LimbWise(LAMBDA x, y : cc * x + (1 - cc) * y, t, e)

Bool(p) == SetBit(New(1), 0, IF p THEN 1 ELSE 0)

Ones(bw) == Not(New(bw))
One(bw) == SetBit(New(bw), 0, 1)
MinSigned(bw) == SetBit(New(bw), bw - 1, 1)
MaxSigned(bw) == SetBit(Ones(bw), bw - 1, 0)

\* btor_bv_redand and btor_bv_redor
FirstOnes(bv) ==
  IF bv.width = LimbBits * Len(bv.bits) THEN Limb - 1 ELSE RemValues(bv) - 1
RedAnd(bv) ==
  Bool(/\ bv.bits[1] = FirstOnes(bv)
       /\ \A i \in 2..Len(bv.bits) : bv.bits[i] = Limb - 1)
RedOr(bv) == Bool(\E i \in DOMAIN bv.bits : bv.bits[i] # 0)

-----------------------------------------------------------------------------
(* Comparisons: the first limb that differs decides.                        *)

Differ(a, b) == {i \in DOMAIN a.bits : a.bits[i] # b.bits[i]}
FirstDiff(a, b) == Min(Differ(a, b))

Eq(a, b) == Bool(Differ(a, b) = {})
Ne(a, b) == Bool(Differ(a, b) # {})
Ult(a, b) == Bool(/\ Differ(a, b) # {}
                  /\ LET i == FirstDiff(a, b) IN a.bits[i] < b.bits[i])
Ulte(a, b) == Bool(\/ Differ(a, b) = {}
                   \/ LET i == FirstDiff(a, b) IN a.bits[i] <= b.bits[i])
Ugt(a, b) == Bool(/\ Differ(a, b) # {}
                  /\ LET i == FirstDiff(a, b) IN a.bits[i] > b.bits[i])
Ugte(a, b) == Bool(\/ Differ(a, b) = {}
                   \/ LET i == FirstDiff(a, b) IN a.bits[i] >= b.bits[i])

Compare(a, b) ==
  CASE a.width # b.width -> -1
    [] a.width = b.width /\ Differ(a, b) = {} -> 0
    [] OTHER -> LET i == FirstDiff(a, b) IN IF a.bits[i] > b.bits[i] THEN 1 ELSE -1

Msb(bv) == GetBit(bv, bv.width - 1)

\* Signed comparisons: signs that differ decide.
Slt(a, b) == IF Msb(a) # Msb(b) THEN Bool(Msb(a) = 1) ELSE Ult(a, b)
Slte(a, b) == IF Msb(a) # Msb(b) THEN Bool(Msb(a) = 1) ELSE Ulte(a, b)
Sgt(a, b) == IF Msb(a) # Msb(b) THEN Bool(Msb(b) = 1) ELSE Ugt(a, b)
Sgte(a, b) == IF Msb(a) # Msb(b) THEN Bool(Msb(b) = 1) ELSE Ugte(a, b)

-----------------------------------------------------------------------------
(* Arithmetic.                                                              *)

Add(a, b) ==
  IF a.width <= Uint64Bits
  THEN Uint64ToBv((ToUint64(a) + ToUint64(b)) % Uint64, a.width)
  ELSE LET n == Len(a.bits)
           sum[i \in 1..n] ==
             a.bits[i] + b.bits[i] + (IF i = n THEN 0 ELSE sum[i + 1] \div Limb)
       IN SetRemBitsToZero(Bv(a.width, LAMBDA i : sum[i] % Limb))

Neg(bv) == Add(Not(bv), Uint64ToBv(1, bv.width))
Sub(a, b) == Add(a, Neg(b))
Inc(bv) == Add(bv, Uint64ToBv(1, bv.width))
Dec(bv) == Add(bv, Neg(Uint64ToBv(1, bv.width)))

\* btor_bv_sll_uint64: limb i goes to i - skip, its upper bits one further.
SllUint64(a, shift) ==
  LET n == Len(a.bits)
      k == shift % LimbBits
      skip == shift \div LimbBits
      below(i) == IF k = 0 \/ i = n THEN 0 ELSE a.bits[i + 1] \div 2^(LimbBits - k)
  IN IF shift >= a.width THEN New(a.width)
     ELSE SetRemBitsToZero(Bv(a.width, LAMBDA j :
            IF j + skip > n THEN 0
            ELSE below(j + skip) + ((a.bits[j + skip] * 2^k) % Limb)))

\* btor_bv_srl_uint64: limb i goes to i + skip, its lower bits one further.
SrlUint64(a, shift) ==
  LET k == shift % LimbBits
      skip == shift \div LimbBits
      above(i) == IF k = 0 \/ i = 1 THEN 0 ELSE (a.bits[i - 1] * 2^(LimbBits - k)) % Limb
  IN IF shift >= a.width THEN New(a.width)
     ELSE Bv(a.width, LAMBDA j :
            IF j <= skip THEN 0 ELSE above(j - skip) + (a.bits[j - skip] \div 2^k))

Slice(bv, upper, lower) == BvOf(LAMBDA i : GetBit(bv, lower + i), upper - lower + 1)

(* get_num_leading: get_limb finds the first limb that is not all zeros (or *)
(* ones, with the spare bits set), clz counts in it.                        *)
LeadingLimb(bv, i, zeros) ==
  IF zeros THEN bv.bits[i]
  ELSE LET rem == bv.width % LimbBits
       IN Limb - 1 - (bv.bits[i] + (IF rem > 0 /\ i = 1 THEN Limb - 2^rem ELSE 0))

Clz(limb) == CHOOSE z \in 0..LimbBits - 1 : limb \div 2^(LimbBits - 1 - z) = 1

NumLeading(bv, zeros) ==
  LET n == Len(bv.bits)
      limbs == {i \in 1..n : LeadingLimb(bv, i, zeros) > 0}
      i == Min(limbs)
  IN IF limbs = {} THEN bv.width
     ELSE Clz(LeadingLimb(bv, i, zeros))
            + ((bv.width \div LimbBits) + 1 - (n - i + 1)) * LimbBits
            - (LimbBits - (bv.width % LimbBits))

NumTrailingZeros(bv) ==
  LET set == {i \in 0..bv.width - 1 : GetBit(bv, i) = 1}
  IN IF set = {} THEN bv.width ELSE Min(set)

\* Seeded fault: only the last two limbs of a wide shift amount are read.
ShiftCutOff(b) ==
  IF b.width <= Uint64Bits THEN ToUint64(b)
  ELSE ToUint64(Slice(b, Uint64Bits - 1, 0))

\* shift_is_uint64: the shift amount, -1 if it has more than 64 bits.
ShiftIsUint64(b) ==
  LET zeroes == NumLeading(b, TRUE)
  IN CASE b.width <= Uint64Bits -> ToUint64(b)
       [] b.width > Uint64Bits /\ zeroes < b.width - Uint64Bits -> -1
       [] OTHER -> ToUint64(Slice(b, IF zeroes < b.width THEN b.width - 1 - zeroes ELSE 0, 0))

Sll(a, b) ==
  LET shift == ShiftIsUint64(b)
  IN IF shift >= 0 THEN SllUint64(a, shift) ELSE New(a.width)
Srl(a, b) ==
  LET shift == ShiftIsUint64(b)
  IN IF shift >= 0 THEN SrlUint64(a, shift) ELSE New(a.width)
Sra(a, b) == IF Msb(a) = 1 THEN Not(Srl(Not(a), b)) ELSE Srl(a, b)

Mul(a, b) ==
  IF a.width <= Uint64Bits
  THEN Uint64ToBv((ToUint64(a) * ToUint64(b)) % Uint64, a.width)
  ELSE LET and(i) == IF GetBit(b, i) = 1 THEN a ELSE New(a.width)
           res[i \in 0..a.width] ==
             IF i = 0 THEN New(a.width) ELSE Add(res[i - 1], SllUint64(and(i - 1), i - 1))
       IN res[a.width]

(* udiv_urem_bv: restoring division from the most significant bit; the      *)
(* short cut treats a zero divisor apart.                                   *)
DivideBit(a, b, q, i) ==
  LET rem == SetBit(SllUint64(q.rem, 1), 0, GetBit(a, i))
  IN IF Ult(b, rem) = Bool(TRUE) \/ Eq(b, rem) = Bool(TRUE)
     THEN [quot |-> SetBit(q.quot, i, 1), rem |-> Add(rem, Neg(b))]
     ELSE [q EXCEPT !.rem = rem]

UdivUrem(a, b) ==
  LET bw == a.width
      x == ToUint64(a)
      y == ToUint64(b)
      zero == [quot |-> New(bw), rem |-> New(bw)]
      long[i \in 0..bw] == IF i = bw THEN zero ELSE DivideBit(a, b, long[i + 1], i)
  IN CASE bw > Uint64Bits -> long[0]
       [] bw <= Uint64Bits /\ y = 0 ->
            [quot |-> Uint64ToBv(Uint64 - 1, bw), rem |-> Uint64ToBv(x, bw)]
       [] OTHER ->
            [quot |-> Uint64ToBv(x \div y, bw), rem |-> Uint64ToBv(x % y, bw)]

Udiv(a, b) == UdivUrem(a, b).quot
Urem(a, b) == UdivUrem(a, b).rem

Sdiv(a, b) ==
  LET div == Udiv(IF Msb(a) = 1 THEN Neg(a) ELSE a, IF Msb(b) = 1 THEN Neg(b) ELSE b)
  IN IF Msb(a) # Msb(b) THEN Neg(div) ELSE div
Srem(a, b) ==
  LET rem == Urem(IF Msb(a) = 1 THEN Neg(a) ELSE a, IF Msb(b) = 1 THEN Neg(b) ELSE b)
  IN IF Msb(a) = 1 THEN Neg(rem) ELSE rem

-----------------------------------------------------------------------------
(* btor_bv_concat: b's limbs at the end, a's shifted by b's spare room.     *)
Concat(a, b) ==
  LET bw == a.width + b.width
      n == NumLimbs(bw)
      k == b.width % LimbBits
      low == n - Len(b.bits)           \* limbs in front of b's
      last == IF k = 0 THEN low ELSE low + 1
      \* the limb of a that is written to limb j of the result
      src(j) == Len(a.bits) - (last - j)
      own(j) == IF src(j) \in DOMAIN a.bits THEN (a.bits[src(j)] * 2^k) % Limb ELSE 0
      over(j) == IF k # 0 /\ src(j) + 1 \in DOMAIN a.bits /\ j < last
                 THEN a.bits[src(j) + 1] \div 2^(LimbBits - k) ELSE 0
      ofB(j) == IF j > low THEN b.bits[j - low] ELSE 0
  IN Bv(bw, LAMBDA j : IF j > last THEN ofB(j) ELSE ofB(j) + own(j) + over(j))

Uext(bv, len) ==
  LET d == NumLimbs(bv.width + len) - Len(bv.bits)
  IN Bv(bv.width + len, LAMBDA j : IF j > d THEN bv.bits[j - d] ELSE 0)

Sext(bv, len) ==
  IF len = 0 THEN bv
  ELSE Concat(IF Msb(bv) = 1 THEN Ones(len) ELSE New(len), bv)

FlippedBitRange(bv, upper, lower) ==
  BvOf(LAMBDA i : IF i \in lower..upper THEN 1 - GetBit(bv, i) ELSE GetBit(bv, i), bv.width)

(* Tests of special values.                                                 *)
IsZero(bv) == \A i \in DOMAIN bv.bits : bv.bits[i] = 0
IsOnes(bv) ==
  LET n == LimbBits - (bv.width % LimbBits)
  IN /\ \A i \in 2..Len(bv.bits) : bv.bits[i] = Limb - 1
     /\ bv.bits[1] = (IF n = LimbBits THEN Limb - 1 ELSE (Limb - 1) \div 2^n)
IsOne(bv) ==
  /\ bv.bits[Len(bv.bits)] = 1
  /\ \A i \in 1..Len(bv.bits) - 1 : bv.bits[i] = 0

(* For a width that is a multiple of the limb size the shifts of the next   *)
(* two are by -1 and by one more than the limb size, which C leaves         *)
(* undefined; the machine's shift takes the amount modulo the limb size.    *)
IsMinSigned(bv) ==
  /\ bv.bits[1] = 2^(((bv.width % LimbBits) - 1) % LimbBits)
  /\ \A i \in 2..Len(bv.bits) : bv.bits[i] = 0
IsMaxSigned(bv) ==
  LET msc == LimbBits - (bv.width % LimbBits) + 1
  IN /\ bv.bits[1] = (IF msc = LimbBits THEN 0 ELSE (Limb - 1) \div 2^(msc % LimbBits))
     /\ \A i \in 2..Len(bv.bits) : bv.bits[i] = Limb - 1

IsSpecialConst(bv) ==
  CASE IsZero(bv) -> "zero"
    [] IsOne(bv) -> IF bv.width = 1 THEN "one_ones" ELSE "one"
    [] ~IsOne(bv) /\ IsOnes(bv) -> "ones"
    [] OTHER -> "none"

PowerOfTwo(bv) ==
  LET set == {i \in 0..bv.width - 1 : GetBit(bv, i) = 1}
  IN CASE set = {} -> 0
       [] \E i \in set : set = {i} -> Min(set)
       [] OTHER -> -1

SmallPositiveInt(bv) ==
  LET n == Len(bv.bits)
  IN IF (\E i \in 1..n - 1 : bv.bits[i] # 0) \/ bv.bits[n] >= 2^(LimbBits - 1)
     THEN -1 ELSE bv.bits[n]

IsUmulo(a, b) ==
  LET bw == a.width
      mul == Mul(Uext(a, bw), Uext(b, bw))
  IN bw > 1 /\ ~IsZero(Slice(mul, 2 * bw - 1, bw))

\* btor_bv_mod_inverse: extended Euclid on 2^bw and an odd bv, in bw + 1 bits.
EuclidStep(s) ==
  LET d == UdivUrem(s.a, s.b)
  IN [a |-> s.b, b |-> d.rem, y |-> Sub(s.ly, Mul(s.y, d.quot)), ly |-> s.y]

ModInverse(bv) ==
  LET bw == bv.width
      start == [a |-> SetBit(New(bw + 1), bw, 1),
                b |-> BvOf(LAMBDA i : IF i < bw THEN GetBit(bv, i) ELSE 0, bw + 1),
                y |-> One(bw + 1), ly |-> New(bw + 1)]
      run[n \in Nat] ==
        IF n = 0 THEN start
        ELSE LET s == run[n - 1] IN IF IsZero(s.b) THEN s ELSE EuclidStep(s)
      \* two rounds at least halve the remainder
  IN Slice(run[2 * (bw + 1)].ly, bw - 1, 0)

-----------------------------------------------------------------------------
(* Digit strings, most significant digit first.                             *)

\* strip_zeroes
StripZeroes(s) ==
  LET nz == {i \in DOMAIN s : s[i] # 0}
  IN IF nz = {} THEN <<>> ELSE SubSeq(s, Min(nz), Len(s))

\* Binary addition of strings of one length; the carry comes first.
Ripple(x, y) ==
  LET n == Len(x)
      sum[i \in 1..n + 1] == IF i = n + 1 THEN 0 ELSE x[i] + y[i] + (sum[i + 1] \div 2)
  IN <<IF n = 0 THEN 0 ELSE sum[1] \div 2>> \o Array(LAMBDA i : sum[i] % 2, n)

Zeroes(n) == Array(LAMBDA i : 0, n)

AddUnboundedBinStr(a, b) ==
  LET x == StripZeroes(a)
      y == StripZeroes(b)
      n == IF Len(x) < Len(y) THEN Len(y) ELSE Len(x)
  IN IF x = <<>> THEN y ELSE IF y = <<>> THEN x
     ELSE StripZeroes(Ripple(Zeroes(n - Len(x)) \o x, Zeroes(n - Len(y)) \o y))

(* mult_unbounded_bin_str: a register of both lengths that starts with a at *)
(* its end; b is added at the front for every 1 that is shifted out.        *)
MultUnboundedBinStr(a, b) ==
  LET x == StripZeroes(a)
      y == StripZeroes(b)
      round(r) == LET top == SubSeq(r, 1, Len(y))
                      rest == SubSeq(r, Len(y) + 1, Len(r) - 1)
                  IN (IF r[Len(r)] = 1 THEN Ripple(top, y) ELSE <<0>> \o top) \o rest
      run[i \in 0..Len(x)] == IF i = 0 THEN Zeroes(Len(y)) \o x ELSE round(run[i - 1])
  IN CASE x = <<>> -> <<>>
       [] x = <<1>> -> b
       [] x \notin {<<>>, <<1>>} /\ y = <<>> -> <<>>
       [] x \notin {<<>>, <<1>>} /\ y = <<1>> -> x
       [] OTHER -> run[Len(x)]

OrZero(s) == IF s = <<>> THEN <<0>> ELSE s

\* The digit d in n bits.
Digit(d, n) == Array(LAMBDA i : Bit(d, n - i), n)

DecToBinStr(s) ==
  LET res[i \in 0..Len(s)] ==
        IF i = 0 THEN <<>>
        ELSE AddUnboundedBinStr(MultUnboundedBinStr(res[i - 1], <<1, 0, 1, 0>>),
                                StripZeroes(Digit(s[i], 4)))
  IN OrZero(res[Len(s)])

HexToBinStr(s) ==
  OrZero(StripZeroes(Array(LAMBDA i : Digit(s[((i - 1) \div 4) + 1], 4)[((i - 1) % 4) + 1],
                           4 * Len(s))))

\* btor_bv_const and btor_bv_char_to_bv
Const(s) == BvOf(LAMBDA i : s[Len(s) - i], Len(s))

Extended(bits, bw) ==
  IF Len(bits) < bw THEN Uext(Const(bits), bw - Len(bits)) ELSE Const(bits)

Constd(neg, s, bw) ==
  LET res == Extended(DecToBinStr(s), bw) IN IF neg THEN Neg(res) ELSE res
Consth(s, bw) == Extended(HexToBinStr(s), bw)

(* btor_util_check_dec_to_bv and btor_util_check_hex_to_bv: what a caller   *)
(* tests first.                                                             *)
CheckDecToBv(neg, s, bw) ==
  LET bits == DecToBinStr(s)
      minval == neg /\ bits[1] = 1 /\ \A i \in 2..Len(bits) : bits[i] = 0
  IN /\ (neg /\ ~minval) \/ Len(bits) <= bw
     /\ ~neg \/ minval \/ Len(bits) + 1 <= bw
CheckHexToBv(s, bw) == Len(HexToBinStr(s)) <= bw

ToChar(bv) == Array(LAMBDA i : GetBit(bv, bv.width - i), bv.width)

ToHexChar(bv) ==
  LET n == (bv.width + 3) \div 4
      bit(i) == IF i < bv.width THEN GetBit(bv, i) ELSE 0
  IN Array(LAMBDA j : Number(LAMBDA k : bit(4 * (n - j) + k), 4, 2), n)

\* Seeded fault: ten does not fit in less than four bits.
ToDecCharNarrow(bv) ==
  LET ten == Uint64ToBv(10, bv.width)
      run[n \in Nat] == IF n = 0 THEN [rest |-> bv, digits |-> <<>>]
        ELSE LET s == run[n - 1]
             IN IF IsZero(s.rest) THEN s
                ELSE [rest |-> Udiv(s.rest, ten),
                      digits |-> <<Val(Urem(s.rest, ten))>> \o s.digits]
  IN IF IsZero(bv) THEN <<0>> ELSE run[bv.width].digits

\* btor_bv_to_dec_char: divide by ten, at least in four bits.
ToDecChar(bv) ==
  LET wide == IF bv.width < 4 THEN Uext(bv, 4 - bv.width) ELSE bv
      ten == Uint64ToBv(10, wide.width)
      run[n \in Nat] == IF n = 0 THEN [rest |-> wide, digits |-> <<>>]
        ELSE LET s == run[n - 1]
             IN IF IsZero(s.rest) THEN s
                ELSE [rest |-> Udiv(s.rest, ten),
                      digits |-> <<Val(Urem(s.rest, ten))>> \o s.digits]
  IN IF IsZero(bv) THEN <<0>> ELSE run[bv.width].digits

-----------------------------------------------------------------------------
(* Random values: what the generator may produce.  The first limb is picked *)
(* from 0 to UINT32_MAX - 1, since ~0 is a negative int.                    *)
RandomBitRange(bw, up, lo) ==
  LET n == NumLimbs(bw)
      clear(bv) == BvOf(LAMBDA i : IF i \in lo..up THEN GetBit(bv, i) ELSE 0, bw)
  IN {clear(SetRemBitsToZero([width |-> bw, bits |-> f])) :
        f \in {g \in [1..n -> 0..Limb - 1] : g[1] < Limb - 1}}

NewRandom(bw) == RandomBitRange(bw, bw - 1, 0)

NewRandomRange(from, to) ==
  LET f == Uext(from, 1)
      span == Sub(Inc(Uext(to, 1)), f)
  IN {Slice(Add(Urem(Uext(r, 1), span), f), from.width - 1, 0) : r \in NewRandom(from.width)}
=============================================================================
