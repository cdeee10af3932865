------------------------------ MODULE BtorProp ------------------------------
(***************************************************************************)
(* Propagating a target value down one node (btorproputils.c): which       *)
(* operand is followed, and which value it has to get so that the node     *)
(* gets its target.  A choice of the random number generator is a choice   *)
(* from a set: every operator yields the set of its possible results.      *)
(*                                                                         *)
(* A step p describes the node: its kind k, width w, the indices x and y   *)
(* of a slice, its operands' widths ow, which of them are constants (c),   *)
(* their current values v, and the target t.  Operands are numbered from   *)
(* 0, as the code's eidx; a bit-vector is a number.                        *)
(*                                                                         *)
(* An option set o holds path (how operands are selected), noMove (give up *)
(* when the other operand is a constant that excludes the target) and      *)
(* flips (values may be derived from the current one by flipping a bit).   *)
(***************************************************************************)
EXTENDS BtorTerms, FiniteSetsExt

CONSTANTS
  WordBits,    \* 64: the widths up to which a shift is read as one word
  ShiftBits,   \* 33: the bits of a shift that are read beyond that width
  UintBits,    \* 32: the bits of a uint32_t, in which an inverse keeps a shift
  MaxWidth     \* UINT32_MAX: the largest width (boolector_concat)

ASSUME ShiftAssumption ==
  /\ {WordBits, UintBits} \subseteq Nat \ {0}
  /\ ShiftBits = UintBits + 1

(* The prover leaves exponentiation open: that powers of two double is all  *)
(* that is taken of it.                                                     *)
ASSUME PowerAssumption ==
  MaxWidth \in Nat \ {0} /\ \A n \in 0..MaxWidth : 2^(n + 1) = 2 * 2^n

Null == -1     \* no value: a conflict that cannot be resolved

Values(w) == 0..Ones(w)
BitOf(a, j) == (a \div 2^j) % 2
Flip(a, j) == a + (1 - 2 * BitOf(a, j)) * 2^j
And(w, a, b) == Meaning("and", w, a, b)
TrailingZeros(a, w) == Min({w} \cup {j \in 0..w - 1 : BitOf(a, j) = 1})
LeadingZeros(a, w) == w - Max({0} \cup {j + 1 : j \in {l \in 0..w - 1 : BitOf(a, l) = 1}})
Overflows(w, a, b) == a * b > Ones(w)     \* btor_bv_is_umulo

\* The values whose lowest (highest) n bits are those of a.
SameLow(w, a, n) == {r \in Values(w) : r % 2^n = a % 2^n}
SameHigh(w, a, n) == {r \in Values(w) : r \div 2^(w - n) = a \div 2^(w - n)}

Operand(p, i) == p.v[i + 1]
Other(i) == IF i = 0 THEN 1 ELSE 0
OtherValue(p, i) == p.v[Other(i) + 1]

\* The value of the node when its operands have the values v.
Result(p, v) ==
  CASE p.k = "slice" -> (v[1] \div 2^p.y) % 2^(p.x - p.y + 1)
    [] p.k = "cond" -> IF v[1] = 1 THEN v[2] ELSE v[3]
    [] OTHER -> Meaning(p.k, p.ow[2], v[1], v[2])

\* The amount a selection reads, in 64 bits, and what is left of it in inv_sll_bv
\* and inv_srl_bv, which keep it in 32.
ShiftOf(w, s) == IF w > WordBits THEN s % 2^ShiftBits ELSE s
CutShift(w, s) == ShiftOf(w, s) % 2^UintBits

-----------------------------------------------------------------------------
(* Selecting an operand.  The essential operands are those whose current    *)
(* value excludes the target whatever the other one is.                     *)

EssentialUlt(p) ==
  {i \in {0, 1} : /\ p.t = 1
                  /\ Operand(p, i) = IF i = 0 THEN Ones(p.ow[1]) ELSE 0}

EssentialSll(p) ==
  LET s == ShiftOf(p.w, p.v[2])
      far == p.t # 0 /\ (s >= p.w \/ p.v[2] >= p.w)
      cut == s < p.w /\ p.t % 2^s # 0
      differ == s < p.w /\ p.v[1] % 2^(p.w - s) # p.t \div 2^s
  IN IF far \/ cut THEN {1} ELSE IF differ THEN {0} ELSE {}

EssentialSrl(p) ==
  LET s == ShiftOf(p.w, p.v[2])
      far == p.t # 0 /\ (s >= p.w \/ p.v[2] >= p.w)
      cut == s < p.w /\ p.t \div 2^(p.w - s) # 0
      differ == s < p.w /\ p.v[1] \div 2^s # p.t % 2^(p.w - s)
  IN IF far \/ cut THEN {1} ELSE IF differ THEN {0} ELSE {}

EssentialMul(p) ==
  LET zero == {i \in {0, 1} : Operand(p, i) = 0}
      even == {i \in {0, 1} : Operand(p, i) % 2 = 0}
  IN CASE p.t # 0 /\ zero # {} -> zero
       [] (p.t = 0 \/ zero = {}) /\ p.t % 2 = 1 /\ even # {} -> even
       [] OTHER -> {i \in {0, 1} : TrailingZeros(p.t, p.w) < TrailingZeros(Operand(p, i), p.w)}

EssentialUdiv(p) ==
  LET max == Ones(p.w)
      a == p.v[1]
      b == p.v[2]
      first == \/ p.t = 0 /\ a = max
               \/ a < p.t
               \/ /\ p.t # 0
                  /\ a \div (p.t + 1) + 1 > a \div p.t
  IN IF p.t = max THEN {1}
     ELSE (IF first THEN {0} ELSE {}) \cup (IF b = 0 \/ Overflows(p.w, b, p.t) THEN {1} ELSE {})

EssentialUrem(p) ==
  LET max == Ones(p.w)
      a == p.v[1]
      b == p.v[2]
  IN CASE p.t = max -> (IF b # 0 THEN {1} ELSE {}) \cup (IF a # max THEN {0} ELSE {})
       [] p.t # max /\ ((p.t > 0 /\ b = 1) \/ (b # 0 /\ b <= p.t)) -> {1}
       [] OTHER -> IF a < p.t \/ (a > p.t /\ (a - p.t <= p.t \/ a - 1 = p.t)) THEN {0} ELSE {}

EssentialConcat(p) ==
  {i \in {0, 1} :
     Operand(p, i) # IF i = 0 THEN p.t \div 2^p.ow[2] ELSE p.t % 2^p.ow[2]}

EssentialAnd(p) == {i \in {0, 1} : And(p.w, p.t, Operand(p, i)) # p.t}

Essential(p, o) ==
  CASE p.k = "and" ->
         IF p.w = 1 /\ o.path # "random" THEN {i \in {0, 1} : Operand(p, i) = 0}
         ELSE IF p.w # 1 /\ o.path = "essential" THEN EssentialAnd(p) ELSE {}
    [] p.k # "and" /\ o.path # "essential" -> {}
    [] p.k = "ult" /\ o.path = "essential" -> EssentialUlt(p)
    [] p.k = "sll" /\ o.path = "essential" -> EssentialSll(p)
    [] p.k = "srl" /\ o.path = "essential" -> EssentialSrl(p)
    [] p.k = "mul" /\ o.path = "essential" -> EssentialMul(p)
    [] p.k = "udiv" /\ o.path = "essential" -> EssentialUdiv(p)
    [] p.k = "urem" /\ o.path = "essential" -> EssentialUrem(p)
    [] p.k = "concat" /\ o.path = "essential" -> EssentialConcat(p)
    [] OTHER -> {}

\* select_path_non_const: the operand beside the first constant
NonConst(p) == IF p.c[1] THEN {1} ELSE IF p.c[2] THEN {0} ELSE {}

\* select_path_random, unless the node leaves no choice
SelectPath(p, o) ==
  CASE p.k = "slice" -> {0}
    [] p.k # "slice" /\ NonConst(p) # {} -> NonConst(p)
    [] OTHER -> IF Cardinality(Essential(p, o)) = 1 THEN Essential(p, o) ELSE {0, 1}

\* select_path_cond: the condition is flipped, or the enabled branch followed.
EnabledBranch(p) == IF p.v[1] = 1 THEN 1 ELSE 2
EnabledIsConst(p) == p.c[EnabledBranch(p) + 1]
SelectPathCond(p, flip) == IF flip /\ ~p.c[1] THEN 0 ELSE EnabledBranch(p)

-----------------------------------------------------------------------------
(* Consistent values: those that some value of the other operand completes  *)
(* to the target.                                                           *)

ConsAnd(p, i, o) ==
  LET set == {r \in Values(p.w) : And(p.w, r, p.t) = p.t}
      base == Operand(p, i) + p.t - And(p.w, Operand(p, i), p.t)
      free == {j \in 0..p.w - 1 : BitOf(p.t, j) = 0}
  IN set \cup (IF o.flips THEN {Flip(base, j) : j \in free} ELSE {})

ConsEq(p, i, o) == Values(p.ow[1])

ConsUlt(p, i) ==
  LET w == p.ow[1]
  IN CASE p.t = 1 /\ i = 1 -> 1..Ones(w)
       [] p.t = 1 /\ i = 0 -> 0..Ones(w) - 1
       [] OTHER -> Values(w)

ConsSll(p, i) ==
  LET zeros == TrailingZeros(p.t, p.w)
      shifts == 0..(IF zeros = p.w THEN zeros - 1 ELSE zeros)
  IN IF i = 1 THEN shifts
     ELSE UNION {SameLow(p.w, p.t \div 2^s, p.w - s) : s \in shifts}

ConsSrl(p, i) ==
  LET zeros == LeadingZeros(p.t, p.w)
      shifts == 0..(IF zeros = p.w THEN zeros - 1 ELSE zeros)
  IN IF i = 1 THEN shifts
     ELSE UNION {SameHigh(p.w, (p.t * 2^s) % 2^p.w, p.w - s) : s \in shifts}

ConsMul(p) ==
  CASE p.t = 0 -> Values(p.w)
    [] p.t % 2 = 1 -> {r \in Values(p.w) : r % 2 = 1}
    [] OTHER -> {r \in 1..Ones(p.w) : TrailingZeros(r, p.w) <= TrailingZeros(p.t, p.w)}

ConsUdiv(p, i) ==
  LET max == Ones(p.w)
      factors == {r \in 1..max : ~Overflows(p.w, r, p.t)}
  IN CASE i = 1 /\ p.t = max -> {0, 1}
       [] i = 1 /\ p.t # max -> factors
       [] i = 0 /\ p.t = 0 -> 0..max - 1
       [] i = 0 /\ p.t = max -> Values(p.w)
       [] OTHER -> {r * p.t : r \in factors}

ConsUrem(p, i) ==
  LET max == Ones(p.w)
  IN CASE i = 1 /\ p.t = max -> {0}
       [] i = 1 /\ p.t # max -> p.t + 1..max
       [] OTHER -> p.t..max     \* both cases of the code

ConsConcat(p, i, o) ==
  LET part == IF i = 1 THEN p.t % 2^p.ow[2] ELSE p.t \div 2^p.ow[2]
      cur == Operand(p, i)
  IN {part} \cup (IF o.flips /\ p.c[Other(i) + 1]
                  THEN {cur} \cup {Flip(cur, j) : j \in 0..p.ow[i + 1] - 1}
                  ELSE {})

\* inv_slice_bv: the bits outside the slice are kept, flipped or random.
InvSlice(p) == {r \in Values(p.ow[1]) : Result(p, <<r>>) = p.t}

\* inv_cond_bv: flip the condition, or hand the target to the branch.
InvCond(p, i) == {IF i = 0 THEN 1 - p.v[1] ELSE p.t}

ConsistentValues(p, i, o) ==
  CASE p.k = "add" -> Values(p.w)
    [] p.k = "and" -> ConsAnd(p, i, o)
    [] p.k = "eq" -> ConsEq(p, i, o)
    [] p.k = "ult" -> ConsUlt(p, i)
    [] p.k = "sll" -> ConsSll(p, i)
    [] p.k = "srl" -> ConsSrl(p, i)
    [] p.k = "mul" -> ConsMul(p)
    [] p.k = "udiv" -> ConsUdiv(p, i)
    [] p.k = "urem" -> ConsUrem(p, i)
    [] p.k = "concat" -> ConsConcat(p, i, o)
    [] p.k = "slice" -> InvSlice(p)
    [] p.k = "cond" -> InvCond(p, i)

-----------------------------------------------------------------------------
(* Inverse values: those that give the node its target with the other       *)
(* operand as it is.  The empty set is the code's conflict.                 *)

InvAdd(p, i) == {(p.t - OtherValue(p, i)) % 2^p.w}

InvAnd(p, i) ==
  LET s == OtherValue(p, i)
  IN IF And(p.w, p.t, s) # p.t THEN {} ELSE {r \in Values(p.w) : And(p.w, r, s) = p.t}

\* With a flip the code repeats until the value differs from the other operand.
InvEq(p, i) ==
  LET s == OtherValue(p, i) IN IF p.t = 0 THEN Values(p.ow[1]) \ {s} ELSE {s}

InvUlt(p, i) ==
  LET s == OtherValue(p, i)
      max == Ones(p.ow[1])
  IN CASE i = 1 /\ p.t = 0 -> 0..s
       [] i = 1 /\ p.t = 1 -> s + 1..max     \* none when s is the maximum
       [] i = 0 /\ p.t = 0 -> s..max
       [] i = 0 /\ p.t = 1 -> 0..s - 1       \* none when s is 0

InvSll(p, i) ==
  LET s == OtherValue(p, i)
      w == p.w
      zeros == TrailingZeros(p.t, w)
      diff == zeros - TrailingZeros(s, w)
      shift == CutShift(w, s)
      out == Min({shift, w})
  IN CASE i = 1 /\ s = 0 /\ p.t = 0 -> Values(w)
       [] i = 1 /\ s # 0 /\ p.t = 0 -> diff..Ones(w)
       [] i = 1 /\ p.t # 0 -> IF diff >= 0 /\ s % 2^(w - diff) = p.t \div 2^diff THEN {diff} ELSE {}
       [] i = 0 -> IF (shift < w /\ zeros < shift) \/ (shift >= w /\ p.t # 0) THEN {}
                   ELSE SameLow(w, Meaning("srl", w, p.t, s), w - out)

InvSrl(p, i) ==
  LET s == OtherValue(p, i)
      w == p.w
      zeros == LeadingZeros(p.t, w)
      diff == zeros - LeadingZeros(s, w)
      shift == CutShift(w, s)
      out == Min({shift, w})
  IN CASE i = 1 /\ s = 0 /\ p.t = 0 -> Values(w)
       [] i = 1 /\ s # 0 /\ p.t = 0 -> diff..Ones(w)
       [] i = 1 /\ p.t # 0 -> IF diff >= 0 /\ s \div 2^diff = p.t % 2^(w - diff) THEN {diff} ELSE {}
       [] i = 0 -> IF (shift < w /\ zeros < shift) \/ (shift >= w /\ p.t # 0) THEN {}
                   ELSE SameHigh(w, Meaning("sll", w, p.t, s), w - out)

ModInverse(w, a) == CHOOSE r \in Values(w) : (r * a) % 2^w = 1     \* a odd

InvMul(p, i) ==
  LET s == OtherValue(p, i)
      w == p.w
      n == TrailingZeros(s, w)
  IN CASE s = 0 -> IF p.t = 0 THEN Values(w) ELSE {}
       [] s # 0 /\ TrailingZeros(p.t, w) < n -> {}
       [] OTHER -> SameLow(w, (p.t \div 2^n) * ModInverse(w, s \div 2^n), w - n)

\* Seeded fault: the bound itself counts as a dividend.
LastDividendInclusive(w, s, t) ==
  IF Overflows(w, s, t + 1) THEN Ones(w) ELSE s * (t + 1)

\* The largest e[0] whose quotient by s is t, if there is one.
LastDividend(w, s, t) ==
  IF Overflows(w, s, t + 1) THEN Ones(w) ELSE s * (t + 1) - 1

InvDivisor(p) ==
  LET s == p.v[1]
      max == Ones(p.w)
  IN CASE p.t = max -> IF s = max THEN {0, 1} ELSE {0}
       [] p.t = 0 /\ p.t # max -> s + 1..max     \* none when s is the maximum
       [] p.t # 0 /\ p.t # max ->
            IF s < p.t THEN {}
            ELSE (IF s % p.t = 0 THEN {s \div p.t} ELSE {}) \cup s \div (p.t + 1) + 1..s \div p.t

InvDividend(p) ==
  LET s == p.v[2]
      max == Ones(p.w)
  IN CASE p.t = max -> IF s = 1 THEN {max} ELSE IF s = 0 THEN Values(p.w) ELSE {}
       [] OTHER -> IF s = 0 \/ Overflows(p.w, s, p.t) THEN {} ELSE s * p.t..LastDividend(p.w, s, p.t)

InvUdiv(p, i) == IF i = 1 THEN InvDivisor(p) ELSE InvDividend(p)

\* Why no divisor e[1] leaves the remainder t of s, when s # t and t is not 1...1.
NoDivisor(s, t) == s < t \/ s - t <= t \/ (t # 0 /\ s - t = 1)

InvModulus(p) ==
  LET s == p.v[1]
      max == Ones(p.w)
      sub == s - p.t
      up == IF p.t = 0 THEN s ELSE IF sub % p.t = 0 THEN sub \div p.t - 1 ELSE sub \div p.t
  IN CASE p.t = max -> IF s = max THEN {0} ELSE {}
       [] p.t # max /\ s = p.t -> {0} \cup p.t + 1..max
       [] OTHER -> IF NoDivisor(s, p.t) THEN {}
                   ELSE {sub} \cup {sub \div n : n \in {n \in 1..up : sub % n = 0}}

InvRemDividend(p) ==
  LET s == p.v[2]
      max == Ones(p.w)
  IN CASE s = 0 -> {p.t}
       [] OTHER -> IF s <= p.t THEN {} ELSE {s * n + p.t : n \in {n \in 0..max : s * n + p.t <= max}}

InvUrem(p, i) == IF i = 1 THEN InvModulus(p) ELSE InvRemDividend(p)

InvConcat(p, i) ==
  LET high == p.t \div 2^p.ow[2]
      low == p.t % 2^p.ow[2]
      s == OtherValue(p, i)
  IN IF i = 1 THEN (IF high = s THEN {low} ELSE {}) ELSE (IF low = s THEN {high} ELSE {})

InverseValues(p, i) ==
  CASE p.k = "add" -> InvAdd(p, i)
    [] p.k = "and" -> InvAnd(p, i)
    [] p.k = "eq" -> InvEq(p, i)
    [] p.k = "ult" -> InvUlt(p, i)
    [] p.k = "sll" -> InvSll(p, i)
    [] p.k = "srl" -> InvSrl(p, i)
    [] p.k = "mul" -> InvMul(p, i)
    [] p.k = "udiv" -> InvUdiv(p, i)
    [] p.k = "urem" -> InvUrem(p, i)
    [] p.k = "concat" -> InvConcat(p, i)
    [] p.k = "slice" -> InvSlice(p)
    [] p.k = "cond" -> InvCond(p, i)

\* res_rec_conf: what a conflict leaves.
Recover(p, i, o) ==
  IF o.noMove /\ p.c[Other(i) + 1] THEN {Null} ELSE ConsistentValues(p, i, o)

\* compute_value: an inverse or a consistent value, as the generator decides.
ComputeValue(p, i, o, useInverse) ==
  IF ~useInverse THEN ConsistentValues(p, i, o)
  ELSE IF InverseValues(p, i) = {} THEN Recover(p, i, o)
  ELSE InverseValues(p, i)
=============================================================================
