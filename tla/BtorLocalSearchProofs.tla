----------------------- MODULE BtorLocalSearchProofs -----------------------
(***************************************************************************)
(* What the local search engines keep up to date is exact, for every       *)
(* formula and every option: the model, the table of violated roots and    *)
(* the scores are what one would compute from scratch, the AIG engine's    *)
(* moves flip an input, and the answers are right.                         *)
(***************************************************************************)
EXTENDS BtorLocalSearch, BtorRecursion, FiniteSetTheorems, TLAPS

-----------------------------------------------------------------------------
(* Powers of two *)

(* Every power of two is positive, and larger than its exponent. *)
LEMMA PowerType ==
  \A n \in 0..MaxWidth + 1 : 2^n \in Nat \ {0} /\ n < 2^n
<1> DEFINE Bad == {n \in 0..MaxWidth + 1 : ~(2^n \in Nat \ {0} /\ n < 2^n)}
<1> SUFFICES ASSUME Bad # {} PROVE FALSE
  OBVIOUS
<1>1. MaxWidth \in Nat /\ \A n \in 0..MaxWidth : 2^(n + 1) = 2 * 2^n
  BY PowerAssumption
<1>2. Bad \subseteq Nat
  BY <1>1
<1>3. PICK n \in Bad : \A j \in Bad : n <= j
  BY <1>2, LeastNumber
<1>4. n # 0
  <2>1. 2^0 = 1
    OBVIOUS
  <2>2. 2^0 \in Nat \ {0} /\ 0 < 2^0
    BY <2>1
  <2> QED
    BY <2>2
<1>5. n - 1 \in 0..MaxWidth /\ n - 1 \notin Bad
  BY <1>1, <1>3, <1>4
<1>6. 2^(n - 1) \in Nat \ {0} /\ n - 1 < 2^(n - 1)
  BY <1>1, <1>5
<1>7. 2^((n - 1) + 1) = 2 * 2^(n - 1)
  BY <1>1, <1>5
<1>8. (n - 1) + 1 = n
  BY <1>5
<1>9. 2^n = 2 * 2^(n - 1)
  BY <1>7, <1>8
<1> QED
  BY <1>5, <1>6, <1>9

(* The power of a sum is the product of the powers. *)
LEMMA PowerSum ==
  ASSUME NEW a \in Nat, NEW b \in Nat, a + b <= MaxWidth + 1
  PROVE  2^(a + b) = 2^a * 2^b
<1> DEFINE Bad == {n \in Nat : a + n <= MaxWidth + 1 /\ 2^(a + n) # 2^a * 2^n}
<1> SUFFICES ASSUME Bad # {} PROVE FALSE
  OBVIOUS
<1>1. MaxWidth \in Nat /\ \A n \in 0..MaxWidth : 2^(n + 1) = 2 * 2^n
  BY PowerAssumption
<1>2. PICK n \in Bad : \A j \in Bad : n <= j
  BY LeastNumber
<1>3. n \in Nat /\ a + n <= MaxWidth + 1 /\ 2^(a + n) # 2^a * 2^n
  OBVIOUS
<1>4. n # 0
  <2>1. 2^0 = 1 /\ a + 0 = a
    OBVIOUS
  <2>2. 2^a \in Nat
    BY <1>1, PowerType
  <2>3. 2^(a + 0) = 2^a * 2^0
    BY <2>1, <2>2
  <2> QED
    BY <1>3, <2>3
<1>5. n - 1 \in Nat /\ n - 1 \notin Bad /\ a + (n - 1) \in 0..MaxWidth /\ n - 1 \in 0..MaxWidth
  BY <1>1, <1>2, <1>3, <1>4
<1>6. 2^(a + (n - 1)) = 2^a * 2^(n - 1)
  BY <1>1, <1>5
<1>7. 2^((a + (n - 1)) + 1) = 2 * 2^(a + (n - 1)) /\ 2^((n - 1) + 1) = 2 * 2^(n - 1)
  BY <1>1, <1>5
<1>8. (a + (n - 1)) + 1 = a + n /\ (n - 1) + 1 = n
  BY <1>3
<1>9. 2^(a + n) = 2 * 2^(a + (n - 1)) /\ 2^n = 2 * 2^(n - 1)
  BY <1>7, <1>8
<1>10. 2^a \in Nat /\ 2^(n - 1) \in Nat /\ 2^(a + (n - 1)) \in Nat
  BY <1>1, <1>5, <1>3, PowerType
<1>11. \A x, y, z \in Nat : x = y * z => 2 * x = y * (2 * z)
  OBVIOUS
<1>12. 2 * 2^(a + (n - 1)) = 2^a * (2 * 2^(n - 1))
  BY <1>6, <1>10, <1>11
<1> QED
  BY <1>3, <1>9, <1>12

(* The values of a width. *)
LEMMA ValuesType ==
  ASSUME NEW w \in 0..MaxWidth + 1
  PROVE  /\ Ones(w) \in Nat /\ Ones(w) = 2^w - 1 /\ 2^w \in Nat \ {0} /\ w <= Ones(w)
         /\ Values(w) = 0..Ones(w) /\ Values(w) \subseteq Nat
         /\ \A v \in Nat : v < 2^w <=> v \in Values(w)
         /\ \A v \in Values(w) : Ones(w) - v \in Values(w)
  BY PowerType DEF Ones, Values

(* The values of one bit. *)
LEMMA OneBit == 2^1 = 2 /\ 2^0 = 1 /\ Ones(1) = 1 /\ Values(1) = {0, 1}
<1>1. 2^1 = 2 /\ 2^0 = 1
  OBVIOUS
<1>2. Ones(1) = 1
  BY <1>1 DEF Ones
<1> QED
  BY <1>1, <1>2 DEF Values

(* Quotients and remainders of numbers. *)
LEMMA Division ==
  ASSUME NEW v \in Nat, NEW d \in Nat \ {0}
  PROVE  /\ v \div d \in Nat /\ v % d \in Nat /\ v % d < d
         /\ v % d = v - d * (v \div d) /\ d * (v \div d) <= v /\ v < d * (v \div d) + d
         /\ v \div d <= v /\ v % d <= v
<1>1. v \div d \in Nat /\ v % d \in Nat /\ v % d < d
  OBVIOUS
<1>2. v % d = v - d * (v \div d)
  OBVIOUS
<1>3. d * (v \div d) <= v
  OBVIOUS
<1>4. v < d * (v \div d) + d
  OBVIOUS
<1>5. v \div d <= v /\ v % d <= v
  OBVIOUS
<1> QED
  BY <1>1, <1>2, <1>3, <1>4, <1>5

(* A quotient is below the factor that bounds the dividend. *)
LEMMA DivisionBound ==
  ASSUME NEW v \in Nat, NEW d \in Nat \ {0}, NEW q \in Nat, v < q * d
  PROVE  v \div d < q
<1>1. v \div d \in Nat /\ v >= d * (v \div d)
  BY Division
<1>2. ASSUME v \div d >= q PROVE FALSE
  <2>1. \A x \in Nat : x >= q => d * x >= q * d
    OBVIOUS
  <2> QED
    BY <1>1, <1>2, <2>1
<1> QED
  BY <1>1, <1>2

(* Quotient and remainder are the only ones that add up. *)
LEMMA DivisionUnique ==
  ASSUME NEW v \in Nat, NEW d \in Nat \ {0}, NEW q \in Nat, NEW r \in Nat, v = d * q + r, r < d
  PROVE  v \div d = q /\ v % d = r
<1>1. v \div d = q
  OBVIOUS
<1>2. v % d = r
  OBVIOUS
<1> QED
  BY <1>1, <1>2

(* A bit is 0 or 1. *)
LEMMA BitType ==
  ASSUME NEW v \in Nat, NEW j \in 0..MaxWidth
  PROVE  BitOf(v, j) \in {0, 1} /\ BitOf(v, j) = (v \div 2^j) % 2
<1>1. 2^j \in Nat \ {0}
  BY PowerType, PowerAssumption
<1>2. v \div 2^j \in Nat
  BY <1>1, Division
<1>3. \A x \in Nat : x % 2 \in {0, 1}
  OBVIOUS
<1> QED
  BY <1>2, <1>3 DEF BitOf

(* Flipping a bit stays within the width. *)
LEMMA FlipType ==
  ASSUME NEW w \in 1..MaxWidth, NEW a \in Values(w), NEW j \in 0..w - 1
  PROVE  Flip(a, j) \in Values(w)
<1> DEFINE d == 2^j
           h == 2^((w - 1) - j)
           q == a \div d
           b == BitOf(a, j)
<1>1. MaxWidth \in Nat /\ j \in 0..MaxWidth /\ j \in Nat /\ (w - 1) - j \in Nat /\ w - 1 \in Nat
      /\ w - 1 \in 0..MaxWidth /\ w - j \in Nat /\ (w - 1) - j \in 0..MaxWidth /\ w \in 0..MaxWidth + 1
  BY PowerAssumption
<1>2. d \in Nat \ {0} /\ h \in Nat \ {0}
  BY <1>1, PowerType
<1>3. a \in Nat /\ a < 2^w /\ 2^w \in Nat
  BY <1>1, ValuesType
<1>4. 2^w = 2 * (d * h)
  <2>1. 2^(j + ((w - 1) - j)) = d * h
    BY <1>1, PowerSum
  <2>2. j + ((w - 1) - j) = w - 1 /\ (w - 1) + 1 = w
    BY <1>1
  <2>3. 2^((w - 1) + 1) = 2 * 2^(w - 1)
    BY <1>1, PowerAssumption
  <2> QED
    BY <2>1, <2>2, <2>3
<1>5. b \in {0, 1} /\ b = q % 2
  BY <1>1, <1>3, BitType
<1>6. q \in Nat /\ d * q <= a /\ a < d * q + d
  BY <1>2, <1>3, Division
<1>7. Flip(a, j) = a + (1 - 2 * b) * d
  BY DEF Flip
<1> HIDE DEF d, h, q, b
<1>8. CASE b = 1
  <2>1. q >= 1
    BY <1>5, <1>6, <1>8
  <2>2. d * q >= d
    BY <1>2, <1>6, <2>1
  <2>3. a - d \in Nat /\ a - d < 2^w
    BY <1>2, <1>3, <1>6, <2>2
  <2>4. Flip(a, j) = a - d
    BY <1>2, <1>3, <1>7, <1>8
  <2> QED
    BY <1>1, <2>3, <2>4, ValuesType
<1>9. CASE b = 0
  <2>1. PICK e \in Nat : q = 2 * e
    <3>1. q % 2 = q - 2 * (q \div 2) /\ q \div 2 \in Nat
      BY <1>6, Division
    <3> QED
      BY <1>5, <1>6, <1>9, <3>1
  <2>2. e < h
    <3> SUFFICES ASSUME e >= h PROVE FALSE
      BY <1>2, <2>1
    <3>1. \A x, y, z \in Nat : x >= y => z * (2 * x) >= 2 * (z * y)
      OBVIOUS
    <3>2. d * q >= 2 * (d * h)
      BY <1>2, <2>1, <3>1
    <3> QED
      BY <1>2, <1>3, <1>4, <1>6, <3>2
  <2>3. d * (2 * (e + 1)) <= 2 * (d * h)
    <3>1. \A x, y, z \in Nat : x <= y => z * (2 * x) <= 2 * (z * y)
      OBVIOUS
    <3>2. e + 1 \in Nat /\ e + 1 <= h
      BY <1>2, <2>2
    <3> QED
      BY <1>2, <3>1, <3>2
  <2>4. d * (2 * (e + 1)) = d * q + d + d
    BY <1>2, <2>1
  <2>5. a + d < 2^w
    BY <1>2, <1>3, <1>4, <1>6, <2>3, <2>4
  <2>6. Flip(a, j) = a + d
    BY <1>2, <1>3, <1>7, <1>9
  <2> QED
    BY <1>1, <1>2, <1>3, <2>5, <2>6, ValuesType
<1> QED
  BY <1>5, <1>8, <1>9

(* One more bit of a number. *)
LEMMA LowBits ==
  ASSUME NEW v \in Nat, NEW j \in 0..MaxWidth
  PROVE  v % 2^(j + 1) = (v % 2^j) + BitOf(v, j) * 2^j
<1> DEFINE d == 2^j
           q == v \div d
           e == q \div 2
<1>1. MaxWidth \in Nat /\ 2^(j + 1) = 2 * d /\ d \in Nat \ {0}
  BY PowerAssumption, PowerType
<1>2. BitOf(v, j) = q % 2
  BY DEF BitOf
<1>3. q \in Nat /\ v % d = v - d * q /\ v % d \in Nat /\ v % d < d
  BY <1>1, Division
<1> HIDE DEF d, q
<1>4. e \in Nat /\ q % 2 = q - 2 * e /\ q % 2 \in {0, 1}
  BY <1>3, Division
<1> HIDE DEF e
<1> DEFINE b == q % 2
           r == v % d
           rest == r + b * d
<1>5. rest \in Nat /\ rest < 2 * d
  <2>1. CASE b = 0
    BY <1>1, <1>3, <2>1
  <2>2. CASE b = 1
    BY <1>1, <1>3, <2>2
  <2> QED
    BY <1>4, <2>1, <2>2
<1>6. v = (2 * d) * e + rest
  <2>1. v = d * q + r /\ q = 2 * e + b /\ r \in Nat /\ b \in Nat
    BY <1>1, <1>3, <1>4
  <2> HIDE DEF r, b
  <2>2. d * (2 * e + b) = (2 * d) * e + b * d
    BY <1>1, <1>4, <2>1
  <2> QED
    BY <1>1, <1>3, <1>4, <2>1, <2>2
<1> HIDE DEF rest
<1>7. v % (2 * d) = rest
  BY <1>1, <1>4, <1>5, <1>6, DivisionUnique
<1> QED
  BY <1>1, <1>2, <1>7 DEF rest, d

-----------------------------------------------------------------------------
(* The values of nodes *)

(* Conjunction is computed bit by bit: the partial sums. *)
AndBit(v, u, i) == ((v \div 2^i) % 2) * ((u \div 2^i) % 2) * 2^i
AndSum(w, v, u) ==
  CHOOSE sum : sum = [i \in 0..w |-> IF i = 0 THEN 0 ELSE sum[i - 1] + AndBit(v, u, i - 1)]

(* What one bit contributes to a conjunction. *)
LEMMA AndBitType ==
  ASSUME NEW v \in Nat, NEW u \in Nat, NEW i \in 0..MaxWidth
  PROVE  /\ AndBit(v, u, i) \in Nat
         /\ AndBit(v, u, i) = IF BitOf(v, i) = 1 /\ BitOf(u, i) = 1 THEN 2^i ELSE 0
<1>1. 2^i \in Nat
  BY PowerType, PowerAssumption
<1>2. BitOf(v, i) \in {0, 1} /\ BitOf(u, i) \in {0, 1}
  BY BitType
<1>3. AndBit(v, u, i) = BitOf(v, i) * BitOf(u, i) * 2^i
  BY DEF AndBit, BitOf
<1> QED
  BY <1>1, <1>2, <1>3

(* A conjunction is the sum over its bits. *)
LEMMA AndSumFacts ==
  ASSUME NEW w \in 1..MaxWidth, NEW v \in Nat, NEW u \in Nat
  PROVE  /\ And(w, v, u) = AndSum(w, v, u)[w]
         /\ Meaning("and", w, v, u) = AndSum(w, v, u)[w]
         /\ AndSum(w, v, u)[0] = 0
         /\ \A i \in 0..w : AndSum(w, v, u)[i] \in Nat
         /\ \A i \in 1..w : AndSum(w, v, u)[i] = AndSum(w, v, u)[i - 1] + AndBit(v, u, i - 1)
<1> DEFINE D == 0..w
           Body(i, F) == IF i = 0 THEN 0 ELSE F[i - 1] + AndBit(v, u, i - 1)
           step == [x \in D \X [D -> Nat] |-> Body(x[1], x[2])]
           rank == [i \in D |-> i]
<1>0. w \in Nat /\ \A i \in D : i \in Nat /\ (i # 0 => i - 1 \in D /\ i - 1 \in 0..MaxWidth)
  BY PowerAssumption
<1>1. \A i \in D : i # 0 => AndBit(v, u, i - 1) \in Nat
  BY <1>0, AndBitType
<1>2. step \in [D \X [D -> Nat] -> Nat]
  BY <1>0, <1>1
<1>3. rank \in [D -> Nat]
  BY <1>0
<1>4. ASSUME NEW i \in D, NEW F \in [D -> Nat], NEW G \in [D -> Nat],
             \A j \in D : rank[j] < rank[i] => F[j] = G[j]
      PROVE  step[<<i, F>>] = step[<<i, G>>]
  BY <1>0, <1>1, <1>4
<1>5. \A i \in D : \A F \in [D -> Nat] : step[<<i, F>>] = Body(i, F)
  OBVIOUS
<1> HIDE DEF step, rank
<1>6. Solvable(D, Nat, step)
  BY <1>2, <1>3, <1>4, RankedRecursion
<1>7. PICK F \in [D -> Nat] : \A i \in D : F[i] = Body(i, F)
  BY <1>5, <1>6 DEF Solvable
<1>8. F = [i \in D |-> Body(i, F)]
  <2>1. F = [i \in D |-> F[i]]
    OBVIOUS
  <2> HIDE DEF Body, D
  <2> QED
    BY <1>7, <2>1
<1> DEFINE S == AndSum(w, v, u)
<1>9. S = [i \in D |-> Body(i, S)]
  BY <1>8 DEF AndSum
<1>10. \A i \in D : S[i] = Body(i, S)
  <2> HIDE DEF Body, S
  <2> QED
    BY <1>9
<1>11. S[0] = 0 /\ \A i \in 1..w : S[i] = S[i - 1] + AndBit(v, u, i - 1)
  <2> HIDE DEF S
  <2> QED
    BY <1>0, <1>10
<1>12. \A i \in D : S[i] \in Nat
  <2> DEFINE Bad == {i \in D : S[i] \notin Nat}
  <2> HIDE DEF S
  <2> SUFFICES ASSUME Bad # {} PROVE FALSE
    OBVIOUS
  <2>1. PICK i \in Bad : \A j \in Bad : i <= j
    BY <1>0, LeastNumber
  <2>2. i # 0
    BY <1>11
  <2>3. i - 1 \in D /\ i - 1 \notin Bad
    BY <1>0, <2>1, <2>2
  <2>4. S[i - 1] \in Nat
    BY <2>3
  <2> QED
    BY <1>0, <1>1, <1>11, <2>2, <2>4
<1>13. Meaning("and", w, v, u) = S[w]
  BY DEF Meaning, AndSum, AndBit
<1> QED
  BY <1>11, <1>12, <1>13 DEF And

(* A conjunction, and the disjunction computed from it, fit the width. *)
LEMMA AndType ==
  ASSUME NEW w \in 1..MaxWidth, NEW v \in Values(w), NEW u \in Values(w)
  PROVE  /\ Meaning("and", w, v, u) \in Values(w)
         /\ And(w, v, u) \in Values(w)
         /\ v + u - And(w, v, u) \in Values(w)
<1> DEFINE S == AndSum(w, v, u)
           or(i) == (v % 2^i) + (u % 2^i) - S[i]
           Ok(i) == S[i] < 2^i /\ or(i) >= 0 /\ or(i) < 2^i
           Bad == {i \in 0..w : ~Ok(i)}
<1>0. w \in Nat /\ w \in 0..MaxWidth + 1 /\ v \in Nat /\ u \in Nat /\ v < 2^w /\ u < 2^w
      /\ \A i \in 0..w : i \in Nat /\ i \in 0..MaxWidth + 1 /\ (i # 0 => i - 1 \in 0..MaxWidth)
  <2>1. w \in Nat /\ w \in 0..MaxWidth + 1
        /\ \A i \in 0..w : i \in Nat /\ i \in 0..MaxWidth + 1 /\ (i # 0 => i - 1 \in 0..MaxWidth)
    BY PowerAssumption
  <2>2. v \in Nat /\ u \in Nat /\ v < 2^w /\ u < 2^w
    BY <2>1, ValuesType
  <2> QED
    BY <2>1, <2>2
<1>1. \A i \in 0..w : 2^i \in Nat \ {0} /\ v % 2^i \in Nat /\ u % 2^i \in Nat
  BY <1>0, PowerType, Division
<1>2. \A i \in 0..w : S[i] \in Nat
  BY <1>0, AndSumFacts
<1>3. Ok(0)
  <2>1. S[0] = 0 /\ 2^0 = 1
    BY <1>0, AndSumFacts, OneBit
  <2>2. \A x \in Nat : x % 1 = 0
    OBVIOUS
  <2>3. v % 2^0 = 0 /\ u % 2^0 = 0
    BY <1>0, <2>1, <2>2
  <2> HIDE DEF S
  <2>4. or(0) = 0
    BY <2>1, <2>3
  <2> QED
    BY <2>1, <2>4
<1>4. ASSUME NEW i \in 1..w, Ok(i - 1) PROVE Ok(i)
  <2>1. i - 1 \in 0..w /\ i \in 0..w /\ i - 1 \in 0..MaxWidth /\ (i - 1) + 1 = i
    BY <1>0
  <2> DEFINE d == 2^(i - 1)
             x == BitOf(v, i - 1)
             y == BitOf(u, i - 1)
  <2>2. 2^((i - 1) + 1) = 2 * d /\ d \in Nat \ {0}
    BY <1>1, <2>1, PowerAssumption
  <2>3. 2^i = 2 * d
    BY <2>1, <2>2
  <2>4. v % 2^((i - 1) + 1) = (v % d) + x * d /\ u % 2^((i - 1) + 1) = (u % d) + y * d
    BY <1>0, <2>1, LowBits
  <2>5. v % 2^i = (v % d) + x * d /\ u % 2^i = (u % d) + y * d
    BY <2>1, <2>4
  <2>6. x \in {0, 1} /\ y \in {0, 1}
    BY <1>0, <2>1, BitType
  <2>7. S[i] = S[i - 1] + AndBit(v, u, i - 1)
    BY <1>0, AndSumFacts
  <2>8. AndBit(v, u, i - 1) = IF x = 1 /\ y = 1 THEN d ELSE 0
    BY <1>0, <2>1, AndBitType
  <2>9. S[i - 1] \in Nat /\ v % d \in Nat /\ u % d \in Nat /\ S[i] \in Nat
    BY <1>1, <1>2, <2>1
  <2>10. S[i - 1] < d /\ (v % d) + (u % d) - S[i - 1] >= 0 /\ (v % d) + (u % d) - S[i - 1] < d
    BY <1>4
  <2> DEFINE r == v % d
             t == u % d
  <2> HIDE DEF d, x, y, S
  <2>11. S[i] < 2 * d /\ (r + x * d) + (t + y * d) - S[i] >= 0
         /\ (r + x * d) + (t + y * d) - S[i] < 2 * d
    <3> HIDE DEF r, t
    <3>1. r \in Nat /\ t \in Nat /\ S[i - 1] < d /\ r + t - S[i - 1] >= 0 /\ r + t - S[i - 1] < d
      BY <2>9, <2>10 DEF r, t
    <3>2. CASE x = 0 /\ y = 0
      BY <2>2, <2>7, <2>8, <2>9, <3>1, <3>2
    <3>3. CASE x = 0 /\ y = 1
      BY <2>2, <2>7, <2>8, <2>9, <3>1, <3>3
    <3>4. CASE x = 1 /\ y = 0
      BY <2>2, <2>7, <2>8, <2>9, <3>1, <3>4
    <3>5. CASE x = 1 /\ y = 1
      BY <2>2, <2>7, <2>8, <2>9, <3>1, <3>5
    <3> QED
      BY <2>6, <3>2, <3>3, <3>4, <3>5
  <2>12. or(i) = (r + x * d) + (t + y * d) - S[i]
    BY <2>5
  <2> QED
    BY <2>3, <2>11, <2>12
<1>5. \A i \in 0..w : Ok(i)
  <2> HIDE DEF Ok
  <2> SUFFICES ASSUME Bad # {} PROVE FALSE
    OBVIOUS
  <2>1. PICK i \in Bad : \A j \in Bad : i <= j
    BY <1>0, LeastNumber
  <2>2. i # 0
    BY <1>3
  <2>3. i \in 1..w /\ i - 1 \in 0..w /\ i - 1 \notin Bad
    BY <1>0, <2>1, <2>2
  <2> QED
    BY <1>4, <2>1, <2>3
<1>6. \A x, y \in Nat : x < y => x % y = x
  OBVIOUS
<1>7. w \in 0..w
  BY <1>0
<1>8. Ok(w) /\ v % 2^w = v /\ u % 2^w = u /\ S[w] \in Nat
  BY <1>0, <1>1, <1>2, <1>5, <1>6, <1>7
<1>9. And(w, v, u) = S[w] /\ Meaning("and", w, v, u) = S[w]
  BY <1>0, AndSumFacts
<1> HIDE DEF S
<1>10. v + u - S[w] \in Nat /\ v + u - S[w] < 2^w
  <2>1. or(w) = v + u - S[w]
    BY <1>8
  <2>2. or(w) >= 0 /\ or(w) < 2^w
    BY <1>8
  <2> QED
    BY <1>0, <1>8, <2>1, <2>2
<1> QED
  BY <1>0, <1>8, <1>9, <1>10, ValuesType

(* The conjunction of two bits. *)
LEMMA AndOneBit ==
  ASSUME NEW v \in {0, 1}, NEW u \in {0, 1}
  PROVE  Meaning("and", 1, v, u) = IF v = 1 /\ u = 1 THEN 1 ELSE 0
<1>1. 1 \in 1..MaxWidth /\ 0 \in 0..MaxWidth
  BY PowerAssumption
<1>2. Meaning("and", 1, v, u) = AndSum(1, v, u)[1] /\ AndSum(1, v, u)[0] = 0
      /\ \A i \in 1..1 : AndSum(1, v, u)[i] = AndSum(1, v, u)[i - 1] + AndBit(v, u, i - 1)
  BY <1>1, AndSumFacts
<1>3. AndSum(1, v, u)[1] = AndBit(v, u, 0)
  <2>1. AndSum(1, v, u)[1] = AndSum(1, v, u)[1 - 1] + AndBit(v, u, 1 - 1) /\ 1 - 1 = 0
    BY <1>2
  <2>2. AndBit(v, u, 0) \in Nat
    BY <1>1, AndBitType
  <2> QED
    BY <1>2, <2>1, <2>2
<1>4. AndBit(v, u, 0) = IF BitOf(v, 0) = 1 /\ BitOf(u, 0) = 1 THEN 1 ELSE 0
  <2>1. v \in Nat /\ u \in Nat
    OBVIOUS
  <2> QED
    BY <1>1, <2>1, AndBitType, OneBit
<1>5. \A x \in {0, 1} : x \div 1 = x /\ x % 2 = x
  OBVIOUS
<1>6. BitOf(v, 0) = v /\ BitOf(u, 0) = u
  BY <1>5, OneBit DEF BitOf
<1> QED
  BY <1>2, <1>3, <1>4, <1>6

(* The other operators, one by one. *)
LEMMA MeaningCases ==
  ASSUME NEW w, NEW v, NEW u
  PROVE  /\ Meaning("eq", w, v, u) = IF v = u THEN 1 ELSE 0
         /\ Meaning("ult", w, v, u) = IF v < u THEN 1 ELSE 0
         /\ Meaning("add", w, v, u) = (v + u) % 2^w
         /\ Meaning("mul", w, v, u) = (v * u) % 2^w
         /\ Meaning("udiv", w, v, u) = IF u = 0 THEN Ones(w) ELSE v \div u
         /\ Meaning("urem", w, v, u) = IF u = 0 THEN v ELSE v % u
         /\ Meaning("sll", w, v, u) = IF u >= w THEN 0 ELSE (v * 2^u) % 2^w
         /\ Meaning("srl", w, v, u) = IF u >= w THEN 0 ELSE v \div 2^u
         /\ Meaning("concat", w, v, u) = v * 2^w + u
  BY DEF Meaning

(* The value of an operator on two words of one width. *)
LEMMA MeaningType ==
  ASSUME NEW w \in 1..MaxWidth, NEW v \in Values(w), NEW u \in Values(w)
  PROVE  /\ \A k \in WordKinds : Meaning(k, w, v, u) \in Values(w)
         /\ \A k \in {"eq", "ult"} : Meaning(k, w, v, u) \in {0, 1}
<1>1. w \in Nat /\ w \in 0..MaxWidth + 1
  BY PowerAssumption
<1>2. v \in Nat /\ u \in Nat /\ v < 2^w /\ 2^w \in Nat \ {0} /\ Ones(w) \in Values(w) /\ 0 \in Values(w)
  BY <1>1, ValuesType
<1>3. \A x \in Nat : x < 2^w => x \in Values(w)
  BY <1>1, ValuesType
<1>4. \A x \in Nat : x % 2^w \in Values(w)
  BY <1>2, <1>3, Division
<1>5. \A x \in Nat : x <= v => x \in Values(w)
  BY <1>2, <1>3
<1>6. Meaning("add", w, v, u) \in Values(w) /\ Meaning("mul", w, v, u) \in Values(w)
  <2>1. v + u \in Nat /\ v * u \in Nat
    BY <1>2
  <2> QED
    BY <1>4, <2>1, MeaningCases
<1>7. Meaning("udiv", w, v, u) \in Values(w) /\ Meaning("urem", w, v, u) \in Values(w)
  <2>1. CASE u = 0
    BY <1>2, <2>1, MeaningCases
  <2>2. CASE u # 0
    <3>1. u \in Nat \ {0}
      BY <1>2, <2>2
    <3>2. v \div u \in Nat /\ v % u \in Nat /\ v \div u <= v /\ v % u <= v
      BY <1>2, <3>1, Division
    <3>3. v \div u \in Values(w) /\ v % u \in Values(w)
      BY <1>5, <3>2
    <3> QED
      BY <2>2, <3>3, MeaningCases
  <2> QED
    BY <2>1, <2>2
<1>8. ASSUME u < w
      PROVE  (v * 2^u) % 2^w \in Values(w) /\ v \div 2^u \in Values(w)
  <2>1. u \in 0..MaxWidth + 1
    BY <1>1, <1>2, <1>8, PowerAssumption
  <2>2. 2^u \in Nat \ {0} /\ v * 2^u \in Nat
    BY <1>2, <2>1, PowerType
  <2> QED
    BY <1>2, <1>4, <1>5, <2>2, Division
<1>9. Meaning("sll", w, v, u) \in Values(w) /\ Meaning("srl", w, v, u) \in Values(w)
  BY <1>1, <1>2, <1>8, MeaningCases
<1> QED
  BY <1>6, <1>7, <1>9, AndType, MeaningCases DEF WordKinds

(* A word made of two, and the two parts of a word. *)
LEMMA ConcatType ==
  ASSUME NEW a \in 1..MaxWidth, NEW b \in 1..MaxWidth, a + b \in 1..MaxWidth
  PROVE  /\ \A v \in Values(a), u \in Values(b) : Meaning("concat", b, v, u) \in Values(a + b)
         /\ \A t \in Values(a + b) : t % 2^b \in Values(b) /\ t \div 2^b \in Values(a)
<1>1. {a, b, a + b} \subseteq 0..MaxWidth + 1 /\ {a, b, a + b} \subseteq Nat /\ a + b <= MaxWidth + 1
  BY PowerAssumption
<1>2. 2^(a + b) = 2^a * 2^b
  BY <1>1, PowerSum
<1>3. 2^a \in Nat \ {0} /\ 2^b \in Nat \ {0}
  BY <1>1, PowerType
<1> DEFINE x == 2^a
           y == 2^b
<1>4. ASSUME NEW v \in Values(a), NEW u \in Values(b)
      PROVE  Meaning("concat", b, v, u) \in Values(a + b)
  <2>1. v \in Nat /\ u \in Nat /\ v < x /\ u < y
    BY <1>1, ValuesType
  <2>2. x \in Nat \ {0} /\ y \in Nat \ {0}
    BY <1>3
  <2> HIDE DEF x, y
  <2>3. v * y + u \in Nat /\ v * y + u < x * y
    <3>1. \A n, m \in Nat : n <= m => n * y <= m * y
      BY <2>2
    <3>2. v + 1 \in Nat /\ v + 1 <= x
      BY <2>1, <2>2
    <3>3. (v + 1) * y <= x * y
      BY <2>2, <3>1, <3>2
    <3>4. (v + 1) * y = v * y + y
      BY <2>1, <2>2
    <3> QED
      BY <2>1, <2>2, <3>3, <3>4
  <2>4. Meaning("concat", b, v, u) = v * y + u
    BY MeaningCases DEF y
  <2>5. 2^(a + b) = x * y
    BY <1>2 DEF x, y
  <2> QED
    BY <1>1, <2>3, <2>4, <2>5, ValuesType
<1>5. ASSUME NEW t \in Values(a + b)
      PROVE  t % 2^b \in Values(b) /\ t \div 2^b \in Values(a)
  <2>1. t \in Nat /\ t < 2^a * 2^b
    BY <1>1, <1>2, ValuesType
  <2>2. t % 2^b \in Nat /\ t % 2^b < 2^b /\ t \div 2^b \in Nat
    BY <1>3, <2>1, Division
  <2>3. t \div 2^b < 2^a
    BY <1>3, <2>1, DivisionBound
  <2> QED
    BY <1>1, <2>2, <2>3, ValuesType
<1> QED
  BY <1>4, <1>5

-----------------------------------------------------------------------------
(* Programs *)

Ptrs == {p \in Int : Idx(p) \in Ids}

(* What the assumption on programs says of the one at hand. *)
LEMMA NodeFacts ==
  ASSUME f \in Programs
  PROVE  /\ Len(f.nodes) \in Nat /\ Ids \subseteq Nat \ {0} /\ DOMAIN f.nodes = Ids
         /\ \A i \in Ids :
              /\ N(i).k \in NodeKinds /\ N(i).w \in 1..MaxWidth /\ N(i).w \in Nat
              /\ N(i).x \in Nat /\ N(i).y \in Nat
              /\ DOMAIN N(i).e = 1..Arity(N(i).k)
              /\ \A j \in DOMAIN N(i).e :
                   N(i).e[j] \in Ptrs /\ Idx(N(i).e[j]) \in Ids /\ Idx(N(i).e[j]) < i
<1>1. IsProgram(f)
  BY ProgramAssumption
<1>2. f.nodes \in Seq([k : NodeKinds, w : 1..MaxWidth, e : Seq(Int), x : Nat, y : Nat])
      /\ \A i \in DOMAIN f.nodes : IsNodeOf(f, i)
  BY <1>1 DEF IsProgram
<1>3. Len(f.nodes) \in Nat /\ DOMAIN f.nodes = Ids /\ Ids \subseteq Nat \ {0}
  BY <1>2 DEF Ids
<1>4. ASSUME NEW i \in Ids
      PROVE  /\ N(i).k \in NodeKinds /\ N(i).w \in 1..MaxWidth /\ N(i).w \in Nat
             /\ N(i).x \in Nat /\ N(i).y \in Nat /\ N(i).e \in Seq(Int)
  <2> DEFINE R == [k : NodeKinds, w : 1..MaxWidth, e : Seq(Int), x : Nat, y : Nat]
  <2>1. N(i) \in R
    <3>1. f.nodes \in Seq(R) /\ i \in 1..Len(f.nodes)
      BY <1>2 DEF Ids
    <3> HIDE DEF R
    <3> QED
      BY <3>1 DEF N
  <2>2. /\ N(i).k \in NodeKinds /\ N(i).w \in 1..MaxWidth
        /\ N(i).x \in Nat /\ N(i).y \in Nat /\ N(i).e \in Seq(Int)
    BY <2>1
  <2> QED
    BY <2>2, PowerAssumption
<1>5. ASSUME NEW i \in Ids
      PROVE  /\ DOMAIN N(i).e = 1..Arity(N(i).k)
             /\ \A j \in DOMAIN N(i).e : Idx(N(i).e[j]) \in 1..i - 1
  BY <1>2, <1>3 DEF IsNodeOf, N
<1>6. ASSUME NEW i \in Ids, NEW j \in DOMAIN N(i).e
      PROVE  N(i).e[j] \in Ptrs /\ Idx(N(i).e[j]) \in Ids /\ Idx(N(i).e[j]) < i
  <2>1. N(i).e[j] \in Int /\ Idx(N(i).e[j]) \in 1..i - 1
    BY <1>4, <1>5
  <2>2. Idx(N(i).e[j]) \in Ids /\ Idx(N(i).e[j]) < i
    BY <1>3, <2>1 DEF Ids
  <2> QED
    BY <2>1, <2>2 DEF Ptrs
<1> QED
  BY <1>3, <1>4, <1>5, <1>6

(* A pointer, its inverse and its node. *)
LEMMA PtrFacts ==
  ASSUME f \in Programs, NEW p \in Ptrs
  PROVE  /\ p \in Int /\ p # 0 /\ Idx(p) \in Ids /\ -p \in Ptrs /\ Idx(-p) = Idx(p)
         /\ Idx(p) = (IF p < 0 THEN -p ELSE p) /\ Idx(p) \in Nat \ {0}
         /\ Idx(p) \in Ptrs /\ Idx(Idx(p)) = Idx(p)
         /\ N(Idx(p)).w \in 1..MaxWidth
  BY NodeFacts DEF Ptrs, Idx

(* The widths of the children. *)
LEMMA WidthFacts ==
  ASSUME f \in Programs, NEW i \in Ids
  PROVE  /\ N(i).k = "const" => N(i).x \in Values(N(i).w)
         /\ N(i).k = "slice" => /\ DOMAIN N(i).e = {1} /\ N(i).y <= N(i).x
                                /\ N(i).x < N(Idx(N(i).e[1])).w /\ N(i).w = N(i).x - N(i).y + 1
         /\ N(i).k = "cond" => /\ DOMAIN N(i).e = {1, 2, 3} /\ N(Idx(N(i).e[1])).w = 1
                               /\ N(Idx(N(i).e[2])).w = N(i).w /\ N(Idx(N(i).e[3])).w = N(i).w
         /\ N(i).k \in {"eq", "ult"} => /\ DOMAIN N(i).e = {1, 2} /\ N(i).w = 1
                                        /\ N(Idx(N(i).e[1])).w = N(Idx(N(i).e[2])).w
         /\ N(i).k = "concat" => /\ DOMAIN N(i).e = {1, 2}
                                 /\ N(i).w = N(Idx(N(i).e[1])).w + N(Idx(N(i).e[2])).w
         /\ N(i).k \in WordKinds => /\ DOMAIN N(i).e = {1, 2}
                                    /\ N(Idx(N(i).e[1])).w = N(i).w /\ N(Idx(N(i).e[2])).w = N(i).w
         /\ N(i).k \in {"var", "const"} => DOMAIN N(i).e = {}
<1>1. IsNodeOf(f, i)
  BY NodeFacts, ProgramAssumption DEF IsProgram
<1>2. DOMAIN N(i).e = 1..Arity(N(i).k)
  BY NodeFacts
<1>3. /\ N(i).k \in {"var", "const"} => Arity(N(i).k) = 0
      /\ N(i).k = "slice" => Arity(N(i).k) = 1
      /\ N(i).k = "cond" => Arity(N(i).k) = 3
      /\ N(i).k \in {"eq", "ult", "concat"} \cup WordKinds => Arity(N(i).k) = 2
  BY DEF Arity, WordKinds
<1>4. 1..0 = {} /\ 1..1 = {1} /\ 1..2 = {1, 2} /\ 1..3 = {1, 2, 3}
  OBVIOUS
<1>5. /\ N(i).k \in {"var", "const"} => DOMAIN N(i).e = {}
      /\ N(i).k = "slice" => DOMAIN N(i).e = {1}
      /\ N(i).k = "cond" => DOMAIN N(i).e = {1, 2, 3}
      /\ N(i).k \in {"eq", "ult", "concat"} \cup WordKinds => DOMAIN N(i).e = {1, 2}
  BY <1>2, <1>3, <1>4
<1> QED
  BY <1>1, <1>5 DEF IsNodeOf, N

(* The roots are Boolean, and the nodes of an AIG are as btor_aig_and makes them. *)
LEMMA RootFacts ==
  ASSUME f \in Programs
  PROVE  /\ Roots \subseteq Ptrs
         /\ \A p \in Roots : N(Idx(p)).w = 1
         /\ ~OverAigs => \A p \in f.cons : -p \notin f.cons
         /\ OverAigs => \A i \in Ids :
              /\ N(i).k \in {"var", "const", "and"} /\ N(i).w = 1
              /\ \A j \in DOMAIN N(i).e : ~ConstPtr(N(i).e[j])
<1>1. IsProgram(f)
  BY ProgramAssumption
<1>2. DOMAIN f.nodes = Ids
  BY NodeFacts
<1>3. \A p \in f.cons \cup f.asms : p \in Int /\ Idx(p) \in Ids /\ N(Idx(p)).w = 1
  BY <1>1, <1>2 DEF IsProgram, N
<1>4. ~OverAigs => \A p \in f.cons : -p \notin f.cons
  BY <1>1 DEF IsProgram, OverAigs
<1>5. OverAigs => \A i \in Ids : IsAigNodeOf(f, i)
  BY <1>1, <1>2 DEF IsProgram, OverAigs
<1> QED
  BY <1>3, <1>4, <1>5 DEF IsAigNodeOf, Roots, Ptrs, ConstPtr, N

(* The value a pointer reads. *)
LEMMA ValueInType ==
  ASSUME f \in Programs, NEW p \in Ptrs, NEW m, m[Idx(p)] \in Values(N(Idx(p)).w)
  PROVE  /\ ValueIn(m, p) \in Values(N(Idx(p)).w) /\ ValueIn(m, p) \in Nat
         /\ ValueIn(m, -p) = Ones(N(Idx(p)).w) - ValueIn(m, p)
         /\ N(Idx(p)).w = 1 =>
              /\ m[Idx(p)] \in {0, 1} /\ ValueIn(m, p) \in {0, 1}
              /\ ValueIn(m, p) = (IF p < 0 THEN 1 - m[Idx(p)] ELSE m[Idx(p)])
<1>1. /\ p \in Int /\ p # 0 /\ Idx(p) = (IF p < 0 THEN -p ELSE p) /\ N(Idx(p)).w \in 1..MaxWidth
  BY PtrFacts
<1>2. N(Idx(p)).w \in 0..MaxWidth + 1
  BY <1>1, PowerAssumption
<1>3. m[Idx(p)] \in Nat /\ Ones(N(Idx(p)).w) \in Nat /\ Ones(N(Idx(p)).w) - m[Idx(p)] \in Values(N(Idx(p)).w)
      /\ Values(N(Idx(p)).w) \subseteq Nat
  BY <1>2, ValuesType
<1>4. ValueIn(m, p) = IF p < 0 THEN Ones(N(Idx(p)).w) - m[Idx(p)] ELSE m[Idx(p)]
  BY <1>1 DEF ValueIn
<1>5. ValueIn(m, -p) = IF p > 0 THEN Ones(N(Idx(p)).w) - m[Idx(p)] ELSE m[Idx(p)]
  BY <1>1 DEF ValueIn
<1> QED
  BY <1>1, <1>3, <1>4, <1>5, OneBit

(* A node's value depends on its children only. *)
LEMMA NodeValueSame ==
  ASSUME f \in Programs, NEW i \in Ids, N(i).k # "var", NEW m1, NEW m2,
         \A j \in DOMAIN N(i).e : m1[Idx(N(i).e[j])] = m2[Idx(N(i).e[j])]
  PROVE  NodeValue(N(i), m1) = NodeValue(N(i), m2)
<1>1. \A j \in DOMAIN N(i).e : ValueIn(m1, N(i).e[j]) = ValueIn(m2, N(i).e[j])
  <2> SUFFICES ASSUME NEW j \in DOMAIN N(i).e
               PROVE  ValueIn(m1, N(i).e[j]) = ValueIn(m2, N(i).e[j])
    OBVIOUS
  <2>1. N(i).e[j] \in Ptrs
    BY NodeFacts
  <2> QED
    BY <2>1, PtrFacts DEF ValueIn
<1>2. CASE N(i).k = "const"
  BY <1>2 DEF NodeValue
<1>3. CASE N(i).k = "slice"
  <2>1. ValueIn(m1, N(i).e[1]) = ValueIn(m2, N(i).e[1])
    BY <1>1, <1>3, WidthFacts
  <2> QED
    BY <1>3, <2>1 DEF NodeValue
<1>4. CASE N(i).k = "cond"
  <2>1. \A j \in {1, 2, 3} : ValueIn(m1, N(i).e[j]) = ValueIn(m2, N(i).e[j])
    BY <1>1, <1>4, WidthFacts
  <2> QED
    BY <1>4, <2>1 DEF NodeValue
<1>5. CASE N(i).k \in {"eq", "ult", "concat"} \cup WordKinds
  <2>1. \A j \in {1, 2} : ValueIn(m1, N(i).e[j]) = ValueIn(m2, N(i).e[j])
    BY <1>1, <1>5, WidthFacts
  <2> QED
    BY <1>5, <2>1 DEF NodeValue, WordKinds
<1> QED
  BY <1>2, <1>3, <1>4, <1>5, NodeFacts DEF NodeKinds

(* A node's value fits its width if those of its children do. *)
LEMMA NodeValueType ==
  ASSUME f \in Programs, NEW i \in Ids, N(i).k # "var", NEW m,
         \A j \in DOMAIN N(i).e : m[Idx(N(i).e[j])] \in Values(N(Idx(N(i).e[j])).w)
  PROVE  NodeValue(N(i), m) \in Values(N(i).w)
<1> DEFINE u(j) == N(Idx(N(i).e[j])).w
           v(j) == ValueIn(m, N(i).e[j])
<1>1. \A j \in DOMAIN N(i).e : /\ v(j) \in Values(u(j)) /\ v(j) \in Nat /\ u(j) \in 1..MaxWidth
                               /\ u(j) = 1 => v(j) \in {0, 1}
  BY NodeFacts, PtrFacts, ValueInType
<1>2. N(i).w \in 1..MaxWidth /\ N(i).x \in Nat /\ N(i).y \in Nat /\ MaxWidth \in Nat
  BY NodeFacts, PowerAssumption
<1> HIDE DEF u, v
<1>3. CASE N(i).k = "const"
  BY <1>3, WidthFacts DEF NodeValue
<1>4. CASE N(i).k = "slice"
  <2>1. v(1) \in Nat /\ N(i).w = N(i).x - N(i).y + 1 /\ N(i).x < u(1) /\ u(1) \in 1..MaxWidth
    BY <1>1, <1>4, WidthFacts DEF u
  <2>2. NodeValue(N(i), m) = (v(1) \div 2^N(i).y) % 2^N(i).w
    BY <1>4, <2>1 DEF NodeValue, v
  <2>3. N(i).y \in 0..MaxWidth + 1 /\ N(i).w \in 0..MaxWidth + 1
    BY <1>2, <2>1
  <2>4. 2^N(i).y \in Nat \ {0} /\ 2^N(i).w \in Nat \ {0}
    BY <2>3, PowerType
  <2>5. v(1) \div 2^N(i).y \in Nat
    BY <2>1, <2>4, Division
  <2>6. NodeValue(N(i), m) \in Nat /\ NodeValue(N(i), m) < 2^N(i).w
    BY <2>2, <2>4, <2>5, Division
  <2> QED
    BY <2>3, <2>6, ValuesType
<1>5. CASE N(i).k = "cond"
  <2>1. v(2) \in Values(N(i).w) /\ v(3) \in Values(N(i).w)
    BY <1>1, <1>5, WidthFacts DEF u
  <2>2. NodeValue(N(i), m) = IF v(1) = 1 THEN v(2) ELSE v(3)
    BY <1>5 DEF NodeValue, v
  <2> QED
    BY <2>1, <2>2
<1>6. CASE N(i).k \in {"eq", "ult"} \cup WordKinds
  <2>1. v(1) \in Values(u(2)) /\ v(2) \in Values(u(2)) /\ u(2) \in 1..MaxWidth
    BY <1>1, <1>6, WidthFacts DEF u
  <2>2. NodeValue(N(i), m) = Meaning(N(i).k, u(2), v(1), v(2))
    BY <1>6 DEF NodeValue, v, u, WordKinds
  <2>3. CASE N(i).k \in WordKinds
    BY <2>1, <2>2, <2>3, MeaningType, WidthFacts DEF u
  <2>4. CASE N(i).k \in {"eq", "ult"}
    <3>1. NodeValue(N(i), m) \in {0, 1}
      BY <2>1, <2>2, <2>4, MeaningType
    <3> QED
      BY <2>4, <3>1, OneBit, WidthFacts
  <2> QED
    BY <1>6, <2>3, <2>4
<1>7. CASE N(i).k = "concat"
  <2>1. v(1) \in Values(u(1)) /\ v(2) \in Values(u(2)) /\ u(1) \in 1..MaxWidth
        /\ u(2) \in 1..MaxWidth /\ N(i).w = u(1) + u(2)
    BY <1>1, <1>7, WidthFacts DEF u
  <2>2. NodeValue(N(i), m) = Meaning("concat", u(2), v(1), v(2))
    BY <1>7 DEF NodeValue, v, u
  <2> QED
    BY <1>2, <2>1, <2>2, ConcatType
<1> QED
  BY <1>3, <1>4, <1>5, <1>6, <1>7, NodeFacts DEF NodeKinds

-----------------------------------------------------------------------------
(* Assignments *)

Models == {m \in [Ids -> Nat] : \A i \in Ids : m[i] \in Values(N(i).w)}

AssignBody(base, exps, cone, i, m) ==
  IF i \in DOMAIN exps THEN exps[i] ELSE IF i \in cone THEN NodeValue(N(i), m) ELSE base[i]

(* Everything above the nodes that were set is computed from its children. *)
LEMMA AssignFacts ==
  ASSUME f \in Programs, NEW base, NEW exps, NEW cone,
         \A i \in Ids : /\ i \in DOMAIN exps => exps[i] \in Values(N(i).w)
                        /\ i \notin DOMAIN exps /\ i \in cone => N(i).k # "var"
                        /\ i \notin DOMAIN exps /\ i \notin cone => base[i] \in Values(N(i).w)
  PROVE  /\ Assign(base, exps, cone) \in Models
         /\ \A i \in Ids : Assign(base, exps, cone)[i]
              = AssignBody(base, exps, cone, i, Assign(base, exps, cone))
<1> DEFINE Body(i, m) == AssignBody(base, exps, cone, i, m)
           step == [x \in Ids \X [Ids -> Nat] |-> IF Body(x[1], x[2]) \in Nat THEN Body(x[1], x[2]) ELSE 0]
           rank == [i \in Ids |-> i]
           m == CHOOSE m : m = [i \in Ids |-> Body(i, m)]
<1>0. \A i \in Ids : i \in Nat /\ Values(N(i).w) \subseteq Nat
  <2>1. \A i \in Ids : i \in Nat /\ N(i).w \in 0..MaxWidth + 1
    BY NodeFacts, PowerAssumption
  <2> QED
    BY <2>1, ValuesType
<1>1. ASSUME NEW F, NEW i \in Ids, \A j \in Ids : j < i => F[j] \in Values(N(j).w)
      PROVE  Body(i, F) \in Values(N(i).w)
  <2>1. CASE i \in DOMAIN exps \/ i \notin cone
    BY <2>1 DEF AssignBody
  <2>2. CASE i \notin DOMAIN exps /\ i \in cone
    <3>1. \A j \in DOMAIN N(i).e : F[Idx(N(i).e[j])] \in Values(N(Idx(N(i).e[j])).w)
      BY <1>1, NodeFacts
    <3>2. N(i).k # "var"
      BY <2>2
    <3>3. NodeValue(N(i), F) \in Values(N(i).w)
      BY <3>1, <3>2, NodeValueType
    <3> QED
      BY <2>2, <3>3 DEF AssignBody
  <2> QED
    BY <2>1, <2>2
<1>2. ASSUME NEW F, \A i \in Ids : Body(i, F) \in Nat => F[i] = Body(i, F)
      PROVE  \A i \in Ids : F[i] \in Values(N(i).w) /\ F[i] = Body(i, F)
  <2> HIDE DEF Body
  <2>1. \A i \in Ids : Body(i, F) \in Values(N(i).w) => F[i] = Body(i, F) /\ F[i] \in Values(N(i).w)
    BY <1>0, <1>2
  <2> DEFINE Bad == {i \in Ids : Body(i, F) \notin Values(N(i).w)}
  <2> SUFFICES ASSUME Bad # {} PROVE FALSE
    BY <2>1
  <2>2. PICK i \in Bad : \A j \in Bad : i <= j
    <3>1. Bad \subseteq Nat
      BY <1>0
    <3> QED
      BY <3>1, LeastNumber
  <2>3. \A j \in Ids : j < i => F[j] \in Values(N(j).w)
    BY <1>0, <2>1, <2>2
  <2> QED
    BY <1>1, <2>2, <2>3
<1>3. ASSUME NEW i \in Ids, NEW F \in [Ids -> Nat], NEW G \in [Ids -> Nat],
             \A j \in Ids : rank[j] < rank[i] => F[j] = G[j]
      PROVE  Body(i, F) = Body(i, G)
  <2>1. CASE i \in DOMAIN exps \/ i \notin cone
    BY <2>1 DEF AssignBody
  <2>2. CASE i \notin DOMAIN exps /\ i \in cone
    <3>1. \A j \in DOMAIN N(i).e : F[Idx(N(i).e[j])] = G[Idx(N(i).e[j])]
      BY <1>3, NodeFacts
    <3>2. N(i).k # "var"
      BY <2>2
    <3>3. NodeValue(N(i), F) = NodeValue(N(i), G)
      BY <3>1, <3>2, NodeValueSame
    <3> QED
      BY <2>2, <3>3 DEF AssignBody
  <2> QED
    BY <2>1, <2>2
<1> HIDE DEF Body
<1>4. \A i \in Ids, F \in [Ids -> Nat] : step[<<i, F>>] = IF Body(i, F) \in Nat THEN Body(i, F) ELSE 0
  OBVIOUS
<1>5. step \in [Ids \X [Ids -> Nat] -> Nat]
  OBVIOUS
<1>6. rank \in [Ids -> Nat]
  BY <1>0
<1> HIDE DEF step
<1>7. Solvable(Ids, Nat, step)
  <2>1. \A i \in Ids : \A F, G \in [Ids -> Nat] :
          (\A j \in Ids : rank[j] < rank[i] => F[j] = G[j]) => step[<<i, F>>] = step[<<i, G>>]
    BY <1>3, <1>4
  <2> HIDE DEF rank
  <2> QED
    BY <1>5, <1>6, <2>1, RankedRecursion
<1>8. PICK F \in [Ids -> Nat] : \A i \in Ids : F[i] = step[<<i, F>>]
  BY <1>7 DEF Solvable
<1>9. \A i \in Ids : F[i] = Body(i, F)
  BY <1>2, <1>4, <1>8
<1>10. F = [i \in Ids |-> Body(i, F)]
  <2>1. F = [i \in Ids |-> F[i]]
    OBVIOUS
  <2> QED
    BY <1>9, <2>1
<1>11. m = [i \in Ids |-> Body(i, m)]
  BY <1>10
<1> HIDE DEF m
<1>12. \A i \in Ids : m[i] = Body(i, m)
  BY <1>11
<1>13. \A i \in Ids : m[i] \in Values(N(i).w)
  BY <1>2, <1>12
<1>14. m = [i \in Ids |-> m[i]]
  BY <1>11
<1>15. m \in Models
  BY <1>0, <1>13, <1>14 DEF Models
<1>16. Assign(base, exps, cone) = [i \in Ids |-> m[i]]
  BY DEF Assign, AssignBody, Body, m
<1> QED
  BY <1>12, <1>14, <1>15, <1>16 DEF Body

(* What lies above a set of nodes: the set, and all parents of what lies    *)
(* above it.                                                                *)
LEMMA AboveFacts ==
  ASSUME f \in Programs, NEW S
  PROVE  /\ Above(S) \subseteq Ids
         /\ \A i \in Ids : i \in Above(S) <=> i \in S \/ Kids(i) \cap Above(S) # {}
<1> DEFINE Body(i, F) == i \in S \/ \E j \in DOMAIN N(i).e : F[Idx(N(i).e[j])]
           step == [x \in Ids \X [Ids -> BOOLEAN] |-> Body(x[1], x[2])]
           rank == [i \in Ids |-> i]
           above == CHOOSE above : above = [i \in Ids |-> Body(i, above)]
<1>1. ASSUME NEW i \in Ids, NEW F \in [Ids -> BOOLEAN], NEW G \in [Ids -> BOOLEAN],
             \A j \in Ids : rank[j] < rank[i] => F[j] = G[j]
      PROVE  Body(i, F) = Body(i, G)
  <2>1. \A j \in DOMAIN N(i).e : F[Idx(N(i).e[j])] = G[Idx(N(i).e[j])]
    BY <1>1, NodeFacts
  <2> QED
    BY <2>1
<1>2. \A i \in Ids, F \in [Ids -> BOOLEAN] : Body(i, F) \in BOOLEAN
  OBVIOUS
<1> HIDE DEF Body
<1>3. \A i \in Ids, F \in [Ids -> BOOLEAN] : step[<<i, F>>] = Body(i, F)
  OBVIOUS
<1>4. step \in [Ids \X [Ids -> BOOLEAN] -> BOOLEAN]
  BY <1>2
<1>5. rank \in [Ids -> Nat]
  BY NodeFacts
<1> HIDE DEF step
<1>6. Solvable(Ids, BOOLEAN, step)
  <2>1. \A i \in Ids : \A F, G \in [Ids -> BOOLEAN] :
          (\A j \in Ids : rank[j] < rank[i] => F[j] = G[j]) => step[<<i, F>>] = step[<<i, G>>]
    BY <1>1, <1>3
  <2> HIDE DEF rank
  <2> QED
    BY <1>4, <1>5, <2>1, RankedRecursion
<1>7. PICK F \in [Ids -> BOOLEAN] : \A i \in Ids : F[i] = Body(i, F)
  BY <1>3, <1>6 DEF Solvable
<1>8. F = [i \in Ids |-> Body(i, F)]
  <2>1. F = [i \in Ids |-> F[i]]
    OBVIOUS
  <2> QED
    BY <1>7, <2>1
<1>9. above = [i \in Ids |-> Body(i, above)]
  BY <1>8
<1> HIDE DEF above
<1>10. \A i \in Ids : above[i] = Body(i, above)
  BY <1>9
<1>11. Above(S) = {i \in Ids : above[i]}
  BY DEF Above, Body, above
<1>12. \A i \in Ids : above[i] <=> i \in S \/ \E j \in DOMAIN N(i).e : above[Idx(N(i).e[j])]
  BY <1>10 DEF Body
<1>13. \A i \in Ids : Kids(i) \cap Above(S) # {} <=> \E j \in DOMAIN N(i).e : above[Idx(N(i).e[j])]
  BY <1>11, NodeFacts DEF Kids
<1> QED
  BY <1>11, <1>12, <1>13

(* What is reached from a node is closed under the steps that are followed. *)
LEMMA DownFacts ==
  ASSUME f \in Programs, NEW kids \in [Ids -> SUBSET Ids],
         \A i \in Ids : \A j \in kids[i] : j < i,
         NEW n \in Ids
  PROVE  /\ Down(kids, n) \subseteq Ids /\ n \in Down(kids, n)
         /\ \A i \in Down(kids, n) : kids[i] \subseteq Down(kids, n)
<1> DEFINE V == SUBSET Ids
           Body(i, F) == {i} \cup UNION {F[j] : j \in kids[i]}
           step == [x \in Ids \X [Ids -> V] |-> Body(x[1], x[2])]
           rank == [i \in Ids |-> i]
           down == CHOOSE down : down = [i \in Ids |-> Body(i, down)]
<1>0. Ids \subseteq Nat
  BY NodeFacts
<1>1. ASSUME NEW i \in Ids, NEW F \in [Ids -> V], NEW G \in [Ids -> V],
             \A j \in Ids : rank[j] < rank[i] => F[j] = G[j]
      PROVE  Body(i, F) = Body(i, G)
  <2>1. \A j \in kids[i] : F[j] = G[j]
    BY <1>1
  <2> QED
    BY <2>1
<1>2. ASSUME NEW i \in Ids, NEW F, \A j \in kids[i] : F[j] \in V
      PROVE  Body(i, F) \in V
  BY <1>2
<1>3. \A i \in Ids, F \in [Ids -> V] : Body(i, F) \in V
  BY <1>2
<1> HIDE DEF Body, V
<1>4. \A i \in Ids, F \in [Ids -> V] : step[<<i, F>>] = Body(i, F)
  OBVIOUS
<1>5. step \in [Ids \X [Ids -> V] -> V]
  BY <1>3
<1>6. rank \in [Ids -> Nat]
  BY <1>0
<1> HIDE DEF step
<1>7. Solvable(Ids, V, step)
  <2>1. \A i \in Ids : \A F, G \in [Ids -> V] :
          (\A j \in Ids : rank[j] < rank[i] => F[j] = G[j]) => step[<<i, F>>] = step[<<i, G>>]
    BY <1>1, <1>4
  <2>2. V # {}
    BY DEF V
  <2> HIDE DEF rank
  <2> QED
    BY <1>5, <1>6, <2>1, <2>2, RankedRecursion
<1>8. PICK F \in [Ids -> V] : \A i \in Ids : F[i] = Body(i, F)
  BY <1>4, <1>7 DEF Solvable
<1>9. F = [i \in Ids |-> Body(i, F)]
  <2>1. F = [i \in Ids |-> F[i]]
    OBVIOUS
  <2> QED
    BY <1>8, <2>1
<1>10. down = [i \in Ids |-> Body(i, down)]
  BY <1>9
<1> HIDE DEF down
<1>11. \A i \in Ids : down[i] = Body(i, down)
  BY <1>10
<1>12. Down(kids, n) = down[n]
  BY DEF Down, Body, down
<1> DEFINE Good(i) == /\ down[i] \in V
                      /\ \A j \in down[i] : kids[j] \subseteq down[i]
           Bad == {i \in Ids : ~Good(i)}
<1>13. ASSUME NEW i \in Ids, \A j \in kids[i] : Good(j) PROVE Good(i)
  <2>1. down[i] \in V
    BY <1>2, <1>11, <1>13
  <2>2. \A j \in kids[i] : j \in down[j] /\ down[j] \subseteq down[i]
    BY <1>11 DEF Body
  <2>3. ASSUME NEW j \in down[i] PROVE kids[j] \subseteq down[i]
    <3>1. CASE j = i
      BY <2>2, <3>1
    <3>2. CASE \E l \in kids[i] : j \in down[l]
      BY <1>13, <2>2, <3>2
    <3> QED
      BY <1>11, <2>3, <3>1, <3>2 DEF Body
  <2> QED
    BY <2>1, <2>3
<1>14. \A i \in Ids : Good(i)
  <2> HIDE DEF Good
  <2> SUFFICES ASSUME Bad # {} PROVE FALSE
    OBVIOUS
  <2>1. PICK i \in Bad : \A j \in Bad : i <= j
    <3>1. Bad \subseteq Nat
      BY <1>0
    <3> QED
      BY <3>1, LeastNumber
  <2>2. \A j \in kids[i] : j \in Ids /\ j \notin Bad
    BY <1>0, <2>1
  <2> QED
    BY <1>13, <2>2
<1>15. n \in down[n]
  BY <1>11 DEF Body
<1> QED
  BY <1>12, <1>14, <1>15 DEF V

-----------------------------------------------------------------------------
(* Exact models *)

ExactModel(m) == m \in Models /\ \A i \in Ids \ Inputs : m[i] = NodeValue(N(i), m)
TypedMove(c) == DOMAIN c \subseteq Inputs /\ \A i \in DOMAIN c : c[i] \in Values(N(i).w)

(* The children of a node. *)
LEMMA KidsFacts ==
  ASSUME f \in Programs, NEW i \in Ids
  PROVE  /\ Kids(i) \subseteq Ids /\ \A j \in Kids(i) : j < i
         /\ \A j \in DOMAIN N(i).e : Idx(N(i).e[j]) \in Kids(i)
         /\ N(i).k \in {"var", "const"} => Kids(i) = {}
  BY NodeFacts, WidthFacts DEF Kids

(* The values of a model fit, read through any pointer. *)
LEMMA ModelFacts ==
  ASSUME f \in Programs, NEW m \in Models
  PROVE  /\ m \in [Ids -> Nat]
         /\ \A i \in Ids : m[i] \in Values(N(i).w) /\ m[i] \in Nat
         /\ \A p \in Ptrs :
              /\ ValueIn(m, p) \in Values(N(Idx(p)).w) /\ ValueIn(m, p) \in Nat
              /\ ValueIn(m, -p) = Ones(N(Idx(p)).w) - ValueIn(m, p)
              /\ N(Idx(p)).w = 1 =>
                   /\ m[Idx(p)] \in {0, 1} /\ ValueIn(m, p) \in {0, 1}
                   /\ ValueIn(m, p) = (IF p < 0 THEN 1 - m[Idx(p)] ELSE m[Idx(p)])
                   /\ ValueIn(m, -p) = 1 - ValueIn(m, p)
<1>1. m \in [Ids -> Nat] /\ \A i \in Ids : m[i] \in Values(N(i).w) /\ m[i] \in Nat
  BY DEF Models
<1>2. ASSUME NEW p \in Ptrs
      PROVE  /\ ValueIn(m, p) \in Values(N(Idx(p)).w) /\ ValueIn(m, p) \in Nat
             /\ ValueIn(m, -p) = Ones(N(Idx(p)).w) - ValueIn(m, p)
             /\ N(Idx(p)).w = 1 =>
                  /\ m[Idx(p)] \in {0, 1} /\ ValueIn(m, p) \in {0, 1}
                  /\ ValueIn(m, p) = (IF p < 0 THEN 1 - m[Idx(p)] ELSE m[Idx(p)])
                  /\ ValueIn(m, -p) = 1 - ValueIn(m, p)
  <2>1. m[Idx(p)] \in Values(N(Idx(p)).w)
    BY <1>1 DEF Ptrs
  <2> QED
    BY <2>1, ValueInType, OneBit
<1> QED
  BY <1>1, <1>2

(* A model in which the inputs of a move have their new values, what lies   *)
(* above them is computed anew and the rest is kept, is exact again.        *)
LEMMA UpdateExact ==
  ASSUME f \in Programs, NEW m0, ExactModel(m0), NEW S, S \subseteq Inputs, NEW m \in Models,
         \A i \in Above(S) \ S : m[i] = NodeValue(N(i), m),
         \A i \in Ids \ Above(S) : m[i] = m0[i]
  PROVE  ExactModel(m)
<1> SUFFICES ASSUME NEW i \in Ids \ Inputs PROVE m[i] = NodeValue(N(i), m)
  BY DEF ExactModel
<1>1. CASE i \in Above(S)
  BY <1>1
<1>2. CASE i \notin Above(S)
  <2>1. Kids(i) \cap Above(S) = {}
    BY <1>2, AboveFacts
  <2>2. \A j \in DOMAIN N(i).e : m[Idx(N(i).e[j])] = m0[Idx(N(i).e[j])]
    BY <2>1, KidsFacts
  <2>3. N(i).k # "var"
    BY DEF Inputs
  <2>4. NodeValue(N(i), m) = NodeValue(N(i), m0)
    BY <2>2, <2>3, NodeValueSame
  <2> QED
    BY <1>2, <2>4 DEF ExactModel
<1> QED
  BY <1>1, <1>2

(* The update of the cone (btor_lsutils_update_cone). *)
LEMMA MoveExact ==
  ASSUME f \in Programs, NEW m0, ExactModel(m0), NEW c, TypedMove(c)
  PROVE  LET m == Assign(m0, c, Cone(DOMAIN c))
         IN /\ ExactModel(m)
            /\ \A i \in Ids \ (DOMAIN c \cup Cone(DOMAIN c)) : m[i] = m0[i]
            /\ DOMAIN c \cup Cone(DOMAIN c) = Above(DOMAIN c)
            /\ \A i \in DOMAIN c : m[i] = c[i]
<1> DEFINE S == DOMAIN c
           m == Assign(m0, c, Cone(S))
<1>1. S \subseteq Inputs /\ S \subseteq Ids /\ \A i \in S : c[i] \in Values(N(i).w)
  BY DEF TypedMove, Inputs
<1>2. m0 \in Models
  BY DEF ExactModel
<1>3. S \cup Cone(S) = Above(S)
  BY <1>1, AboveFacts DEF Cone
<1>4. \A i \in Cone(S) : i \in Ids /\ i \notin S /\ i \in Above(S) /\ N(i).k # "var"
  <2> SUFFICES ASSUME NEW i \in Cone(S)
               PROVE  i \in Ids /\ i \notin S /\ i \in Above(S) /\ N(i).k # "var"
    OBVIOUS
  <2>1. i \in Ids /\ i \notin S /\ i \in Above(S)
    BY AboveFacts DEF Cone
  <2>2. Kids(i) # {}
    BY <2>1, AboveFacts
  <2> QED
    BY <2>1, <2>2, KidsFacts
<1>5. \A i \in Ids : /\ i \in DOMAIN c => c[i] \in Values(N(i).w)
                     /\ i \notin DOMAIN c /\ i \in Cone(S) => N(i).k # "var"
                     /\ i \notin DOMAIN c /\ i \notin Cone(S) => m0[i] \in Values(N(i).w)
  BY <1>1, <1>2, <1>4 DEF Models
<1>6. m \in Models /\ \A i \in Ids : m[i] = AssignBody(m0, c, Cone(S), i, m)
  BY <1>5, AssignFacts
<1> HIDE DEF m
<1>7. \A i \in Above(S) \ S : m[i] = NodeValue(N(i), m)
  BY <1>3, <1>6, AboveFacts DEF AssignBody, Cone
<1>8. \A i \in Ids \ Above(S) : m[i] = m0[i]
  BY <1>3, <1>6 DEF AssignBody
<1>9. ExactModel(m)
  BY <1>1, <1>6, <1>7, <1>8, UpdateExact
<1>10. \A i \in S : m[i] = c[i]
  BY <1>1, <1>6 DEF AssignBody
<1> QED
  BY <1>3, <1>8, <1>9, <1>10 DEF m

(* The model all of whose inputs are zero (btor_model_generate). *)
LEMMA ZeroExact ==
  ASSUME f \in Programs
  PROVE  ExactModel(ZeroModel) /\ \A i \in Inputs : ZeroModel[i] = 0
<1> DEFINE z == [i \in Inputs |-> 0]
           cone == Ids \ Inputs
           m == Assign(Empty, z, cone)
<1>1. \A i \in Ids : /\ i \in DOMAIN z => z[i] \in Values(N(i).w)
                     /\ i \notin DOMAIN z /\ i \in cone => N(i).k # "var"
                     /\ i \notin DOMAIN z /\ i \notin cone => Empty[i] \in Values(N(i).w)
  <2>1. \A i \in Ids : N(i).w \in 0..MaxWidth + 1
    BY NodeFacts, PowerAssumption
  <2>2. \A i \in Ids : 0 \in Values(N(i).w)
    BY <2>1, ValuesType
  <2> QED
    BY <2>2 DEF Inputs
<1>2. m \in Models /\ \A i \in Ids : m[i] = AssignBody(Empty, z, cone, i, m)
  <2> HIDE DEF z, cone
  <2> QED
    BY <1>1, AssignFacts
<1> HIDE DEF m
<1>3. \A i \in Ids \ Inputs : m[i] = NodeValue(N(i), m)
  BY <1>2 DEF AssignBody
<1>4. \A i \in Inputs : m[i] = 0
  BY <1>2 DEF AssignBody, Inputs
<1> QED
  BY <1>2, <1>3, <1>4 DEF ExactModel, ZeroModel, m

(* A constant has one value. *)
LEMMA ConstExact ==
  ASSUME f \in Programs, NEW m1, NEW m2, ExactModel(m1), ExactModel(m2),
         NEW p \in Ptrs, ConstPtr(p)
  PROVE  ValueIn(m1, p) = ValueIn(m2, p)
<1>1. Idx(p) \in Ids \ Inputs /\ N(Idx(p)).k = "const"
  BY PtrFacts DEF ConstPtr, Inputs
<1>2. m1[Idx(p)] = m2[Idx(p)]
  BY <1>1 DEF ExactModel, NodeValue
<1> QED
  BY <1>2, PtrFacts DEF ValueIn

-----------------------------------------------------------------------------
(* The table of violated roots *)

BadRoots(m) == {p \in Roots : ValueIn(m, p) = 0}
NoOpposites == \A p \in Roots : -p \notin Roots

(* A root is Boolean; it is violated or satisfied. *)
LEMMA RootValues ==
  ASSUME f \in Programs, NEW m \in Models, NEW p \in Roots
  PROVE  /\ p \in Ptrs /\ p \in Int /\ p # 0 /\ N(Idx(p)).w = 1
         /\ m[Idx(p)] \in {0, 1} /\ ValueIn(m, p) \in {0, 1}
         /\ ValueIn(m, p) = (IF p < 0 THEN 1 - m[Idx(p)] ELSE m[Idx(p)])
         /\ ValueIn(m, -p) = 1 - ValueIn(m, p)
         /\ Idx(p) \in Ids /\ Idx(p) = (IF p < 0 THEN -p ELSE p) /\ Idx(p) \in Nat \ {0}
         /\ IsRoot(Idx(p))
<1>1. p \in Ptrs /\ N(Idx(p)).w = 1
  BY RootFacts
<1>2. p \in Int /\ p # 0 /\ Idx(p) \in Ids /\ Idx(p) = (IF p < 0 THEN -p ELSE p) /\ Idx(p) \in Nat \ {0}
  BY <1>1, PtrFacts
<1>3. IsRoot(Idx(p))
  <2>1. p = Idx(p) \/ p = -Idx(p)
    BY <1>2
  <2> QED
    BY <2>1 DEF IsRoot
<1>4. /\ m[Idx(p)] \in {0, 1} /\ ValueIn(m, p) \in {0, 1}
      /\ ValueIn(m, p) = (IF p < 0 THEN 1 - m[Idx(p)] ELSE m[Idx(p)])
      /\ ValueIn(m, -p) = 1 - ValueIn(m, p)
  BY <1>1, ModelFacts
<1> QED
  BY <1>1, <1>2, <1>3, <1>4

TurnsInto(m, turned, new) ==
  \A q : q \in new <=>
    \/ q \in roots /\ \A i \in turned : {i, -i} \cap roots # {} => q \notin {i, -i}
    \/ \E i \in turned : {i, -i} \cap roots = {} /\ q = IF m[i] = 0 THEN i ELSE -i

(* When the turned roots of the table leave it and the other turned ones    *)
(* enter it in the phase that is false, it becomes the set of the violated  *)
(* roots of the new model, if it was that of the old one.                   *)
LEMMA TurnedRoots ==
  ASSUME f \in Programs, NoOpposites, NEW m0 \in Models, NEW m \in Models, roots = BadRoots(m0),
         NEW touched, \A i \in Ids \ touched : m[i] = m0[i],
         NEW turned, turned = {i \in touched : IsRoot(i) /\ m0[i] # m[i]},
         touched \subseteq Ids,
         NEW new, TurnsInto(m, turned, new)
  PROVE  new = BadRoots(m)
<1> USE DEF TurnsInto
<1>0. Ids \subseteq Nat \ {0}
  BY NodeFacts
<1>1. ASSUME NEW q \in BadRoots(m) PROVE q \in new
  <2> DEFINE i == Idx(q)
  <2>1. q \in Roots /\ ValueIn(m, q) = 0
    BY DEF BadRoots
  <2>2. /\ q \in Int /\ i = (IF q < 0 THEN -q ELSE q) /\ i \in Ids /\ i \in Nat \ {0}
        /\ IsRoot(i) /\ m[i] \in {0, 1} /\ m0[i] \in {0, 1}
        /\ ValueIn(m, q) = (IF q < 0 THEN 1 - m[i] ELSE m[i])
        /\ ValueIn(m0, q) = (IF q < 0 THEN 1 - m0[i] ELSE m0[i])
    BY <2>1, RootValues
  <2> HIDE DEF i
  <2>3. CASE m[i] = m0[i]
    <3>1. q \in roots
      BY <2>1, <2>2, <2>3 DEF BadRoots
    <3>2. ASSUME NEW j \in turned PROVE q \notin {j, -j}
      <4>1. j # i /\ j \in Nat \ {0}
        BY <1>0, <2>3
      <4> QED
        BY <2>2, <4>1
    <3> QED
      BY <3>1, <3>2
  <2>4. CASE m[i] # m0[i]
    <3>1. i \in turned
      BY <2>2, <2>4
    <3>2. q \notin roots /\ -q \notin roots
      BY <2>1, <2>2, <2>4 DEF BadRoots, NoOpposites
    <3>3. {i, -i} \cap roots = {}
      <4>1. \A r \in {i, -i} : r = q \/ r = -q
        BY <2>2
      <4> QED
        BY <3>2, <4>1
    <3>4. q = IF m[i] = 0 THEN i ELSE -i
      BY <2>1, <2>2
    <3> QED
      BY <3>1, <3>3, <3>4
  <2> QED
    BY <2>3, <2>4
<1>2. ASSUME NEW q \in new PROVE q \in BadRoots(m)
  <2>1. CASE q \in roots /\ \A i \in turned : {i, -i} \cap roots # {} => q \notin {i, -i}
    <3> DEFINE i == Idx(q)
    <3>1. q \in Roots /\ ValueIn(m0, q) = 0
      BY <2>1 DEF BadRoots
    <3>2. /\ q \in Int /\ i = (IF q < 0 THEN -q ELSE q) /\ i \in Ids /\ i \in Nat \ {0}
          /\ IsRoot(i)
          /\ ValueIn(m, q) = (IF q < 0 THEN 1 - m[i] ELSE m[i])
          /\ ValueIn(m0, q) = (IF q < 0 THEN 1 - m0[i] ELSE m0[i])
      BY <3>1, RootValues
    <3> HIDE DEF i
    <3>3. q \in {i, -i}
      BY <3>2
    <3>4. {i, -i} \cap roots # {}
      BY <2>1, <3>3
    <3>5. i \notin turned
      BY <2>1, <3>3, <3>4
    <3>6. m[i] = m0[i]
      BY <3>2, <3>5
    <3> QED
      BY <3>1, <3>2, <3>6 DEF BadRoots
  <2>2. ASSUME NEW i \in turned, {i, -i} \cap roots = {}, q = IF m[i] = 0 THEN i ELSE -i
        PROVE  q \in BadRoots(m)
    <3>1. PICK r \in Roots : r = i \/ r = -i
      BY DEF IsRoot
    <3>2. i \in Nat \ {0} /\ m[i] # m0[i]
      BY <1>0
    <3>3. /\ r \in Int /\ Idx(r) = (IF r < 0 THEN -r ELSE r)
          /\ m[Idx(r)] \in {0, 1} /\ m0[Idx(r)] \in {0, 1}
          /\ ValueIn(m, r) = (IF r < 0 THEN 1 - m[Idx(r)] ELSE m[Idx(r)])
          /\ ValueIn(m0, r) = (IF r < 0 THEN 1 - m0[Idx(r)] ELSE m0[Idx(r)])
      BY RootValues
    <3>4. Idx(r) = i
      BY <3>1, <3>2, <3>3
    <3>5. r \notin roots
      BY <2>2, <3>1
    <3>6. ValueIn(m0, r) # 0
      BY <3>5 DEF BadRoots
    <3>7. ValueIn(m, r) = 0 /\ r = q
      BY <2>2, <3>1, <3>2, <3>3, <3>4, <3>6
    <3> QED
      BY <3>7 DEF BadRoots
  <2> QED
    BY <1>2, <2>1, <2>2
<1> QED
  BY <1>1, <1>2

(* update_roots_table and update_unsatroots_table keep the table exact. *)
LEMMA RootsExact ==
  ASSUME f \in Programs, NoOpposites, model \in Models, NEW m \in Models, roots = BadRoots(model),
         NEW touched, touched \subseteq Ids, \A i \in Ids \ touched : m[i] = model[i]
  PROVE  UpdatedRoots(m, touched) = BadRoots(m) /\ AigUnsatRoots(m, touched) = BadRoots(m)
<1> DEFINE turned == {i \in touched : IsRoot(i) /\ model[i] # m[i]}
           On(q) == q \in roots /\ \A i \in turned : {i, -i} \cap roots # {} => q \notin {i, -i}
           In(q) == \E i \in turned : {i, -i} \cap roots = {} /\ q = IF m[i] = 0 THEN i ELSE -i
<1>1. \A q : q \in UpdatedRoots(m, touched) <=> On(q) \/ In(q)
  <2> DEFINE Gone == UNION {Toggle(i, m[i]).del : i \in turned}
             New == UNION {Toggle(i, m[i]).add : i \in turned}
  <2>1. UpdatedRoots(m, touched) = (roots \ Gone) \cup New
    BY DEF UpdatedRoots
  <2>2. \A i \in turned : /\ {i, -i} \cap roots # {} => Toggle(i, m[i]).del = {i, -i} /\ Toggle(i, m[i]).add = {}
                          /\ {i, -i} \cap roots = {} =>
                               /\ Toggle(i, m[i]).del = {}
                               /\ Toggle(i, m[i]).add = {IF m[i] = 0 THEN i ELSE -i}
    BY DEF Toggle
  <2> HIDE DEF turned
  <2>3. \A q : q \in Gone <=> \E i \in turned : {i, -i} \cap roots # {} /\ q \in {i, -i}
    BY <2>2
  <2>4. \A q : q \in New <=> In(q)
    BY <2>2
  <2> HIDE DEF Gone, New
  <2> QED
    BY <2>1, <2>3, <2>4
<1>2. \A q : q \in AigUnsatRoots(m, touched) <=> On(q) \/ In(q)
  <2> DEFINE listed == {i \in turned : {i, -i} \cap roots # {}}
  <2>1. AigUnsatRoots(m, touched)
          = (roots \ Pointers(listed)) \cup {IF m[i] = 0 THEN i ELSE -i : i \in turned \ listed}
    BY DEF AigUnsatRoots
  <2> HIDE DEF turned
  <2>2. \A q : q \in Pointers(listed) <=> \E i \in turned : {i, -i} \cap roots # {} /\ q \in {i, -i}
    BY DEF Pointers
  <2>3. \A q : q \in {IF m[i] = 0 THEN i ELSE -i : i \in turned \ listed} <=> In(q)
    OBVIOUS
  <2> HIDE DEF listed
  <2> QED
    BY <2>1, <2>2, <2>3
<1>3. turned = {i \in touched : IsRoot(i) /\ model[i] # m[i]}
  OBVIOUS
<1> HIDE DEF turned
<1>4. TurnsInto(m, turned, UpdatedRoots(m, touched)) /\ TurnsInto(m, turned, AigUnsatRoots(m, touched))
  BY <1>1, <1>2 DEF TurnsInto
<1>5. UpdatedRoots(m, touched) = BadRoots(m)
  BY <1>3, <1>4, TurnedRoots
<1>6. AigUnsatRoots(m, touched) = BadRoots(m)
  BY <1>3, <1>4, TurnedRoots
<1> QED
  BY <1>5, <1>6

-----------------------------------------------------------------------------
(* Scores *)

(* The smaller and the larger of two numbers. *)
LEMMA PairFacts ==
  ASSUME NEW s \in Int, NEW t \in Int
  PROVE  Min({s, t}) = (IF s <= t THEN s ELSE t) /\ Max({s, t}) = (IF s >= t THEN s ELSE t)
<1>1. Min({s, t}) \in {s, t} /\ \A x \in {s, t} : Min({s, t}) <= x
  <2>1. \E x \in {s, t} : \A y \in {s, t} : x <= y
    OBVIOUS
  <2> QED
    BY <2>1 DEF Min
<1>2. Max({s, t}) \in {s, t} /\ \A x \in {s, t} : Max({s, t}) >= x
  <2>1. \E x \in {s, t} : \A y \in {s, t} : x >= y
    OBVIOUS
  <2> QED
    BY <2>1 DEF Max
<1> QED
  BY <1>1, <1>2

(* The distances are numbers of bits (btor_slsutils_hamming_distance ff.).  *)
LEMMA DistanceType ==
  ASSUME NEW w \in 1..MaxWidth, NEW a, NEW b
  PROVE  HammingDistance(a, b, w) \in 0..w /\ MinFlip(a, b, w) \in 0..w /\ MinFlipInv(a, b, w) \in 0..w
<1>0. w \in Nat
  BY PowerAssumption
<1>1. IsFiniteSet(0..w - 1) /\ Cardinality(0..w - 1) = w
  BY <1>0, FS_Interval
<1>2. ASSUME NEW S, S \subseteq 0..w - 1 PROVE Cardinality(S) \in 0..w
  <2>1. IsFiniteSet(S) /\ Cardinality(S) <= Cardinality(0..w - 1)
    BY <1>1, <1>2, FS_Subset
  <2>2. Cardinality(S) \in Nat
    BY <2>1, FS_CardinalityType
  <2> QED
    BY <1>0, <1>1, <2>1, <2>2
<1>3. HammingDistance(a, b, w) \in 0..w
  BY <1>2 DEF HammingDistance
<1>4. MinFlip(a, b, w) \in 0..w
  <2>1. CASE b = 0
    BY <1>3, <2>1 DEF MinFlip
  <2>2. CASE b # 0
    <3> DEFINE last == Max({j \in BitsOf(a, w) : a % 2^j < b})
               S == {j \in BitsOf(a, w) : j >= last}
    <3>1. S \subseteq 0..w - 1
      BY DEF BitsOf
    <3>2. MinFlip(a, b, w) = Cardinality(S)
      BY <2>2 DEF MinFlip
    <3> HIDE DEF S
    <3> QED
      BY <1>2, <3>1, <3>2
  <2> QED
    BY <2>1, <2>2
<1>5. MinFlipInv(a, b, w) \in 0..w
  <2> DEFINE clear == (0..w - 1) \ BitsOf(a, w)
             filled(j) == a + SumSet({2^l : l \in {l \in clear : l >= j}})
             first == Max({l \in clear : filled(l) >= b})
             S == {j \in clear : j >= first}
  <2>1. MinFlipInv(a, b, w) = Cardinality(S)
    BY DEF MinFlipInv
  <2>2. S \subseteq 0..w - 1
    <3> HIDE DEF first
    <3> QED
      OBVIOUS
  <2> HIDE DEF S
  <2> QED
    BY <1>2, <2>1, <2>2
<1> QED
  BY <1>3, <1>4, <1>5

(* The score of a false predicate is below 1.0. *)
LEMMA PartialType ==
  ASSUME NEW w \in 1..MaxWidth, NEW d \in 0..w
  PROVE  Partial(d, w) \in 0..Unit /\ Partial(d, w) # Unit
<1>0. w \in Nat \ {0} /\ Unit \in Nat \ {0} /\ w - d \in 0..w
  BY PowerAssumption, LocalSearchAssumption
<1>1. Unit * (w - d) \in Nat /\ 2 * w \in Nat \ {0}
  BY <1>0
<1>2. Unit * (w - d) < Unit * (2 * w)
  <2>1. \A x, y \in Nat : x <= y => Unit * x <= Unit * y
    BY <1>0
  <2>2. Unit * (w - d) <= Unit * w /\ Unit * w >= Unit /\ Unit * w \in Nat
    BY <1>0, <2>1
  <2>3. Unit * (2 * w) = Unit * w + Unit * w
    BY <1>0
  <2>4. Unit * w > 0
    BY <1>0, <2>2
  <2> QED
    BY <1>1, <2>2, <2>3, <2>4
<1>3. Partial(d, w) \in Nat /\ Partial(d, w) < Unit
  BY <1>0, <1>1, <1>2, Division, DivisionBound DEF Partial
<1> QED
  BY <1>0, <1>3

(* The average counts as 1.0 only if both scores are. *)
LEMMA AndScoreFacts ==
  ASSUME NEW s \in 0..Unit, NEW t \in 0..Unit
  PROVE  /\ AndScore(s, t) \in 0..Unit /\ (AndScore(s, t) = Unit <=> s = Unit /\ t = Unit)
         /\ Max({s, t}) \in 0..Unit /\ (Max({s, t}) = Unit <=> s = Unit \/ t = Unit)
<1> DEFINE avg == (s + t + 1) \div 2
<1>0. Unit \in Nat \ {0}
  BY LocalSearchAssumption
<1>1. avg \in 0..Unit /\ (s = Unit /\ t = Unit => avg = Unit)
  BY <1>0
<1>2. AndScore(s, t) = IF avg = Unit THEN Min({s, t}) ELSE avg
  BY DEF AndScore
<1> HIDE DEF avg
<1> QED
  BY <1>0, <1>1, <1>2, PairFacts

(* The scored nodes are Boolean, and the operands of a scored conjunction   *)
(* are scored in both phases.                                               *)
LEMMA ScoredFacts ==
  ASSUME f \in Programs
  PROVE  /\ Scored \subseteq Ids /\ Pointers(Scored) \subseteq Ptrs
         /\ \A p \in Pointers(Scored) :
              /\ Idx(p) \in Scored /\ N(Idx(p)).w = 1
              /\ N(Idx(p)).k = "and" => \A j \in {1, 2} :
                   LET q == N(Idx(p)).e[j]
                   IN /\ q \in Pointers(Scored) /\ -q \in Pointers(Scored)
                      /\ Idx(q) < Idx(p) /\ Idx(-q) < Idx(p) /\ Idx(q) \in Kids(Idx(p))
                      /\ Idx(-q) = Idx(q)
         /\ \A r \in Roots : r \in Pointers(Scored)
<1> DEFINE kids == [i \in Ids |-> Kids(i)]
<1>1. kids \in [Ids -> SUBSET Ids] /\ \A i \in Ids : \A j \in kids[i] : j < i
  BY KidsFacts
<1>2. ASSUME NEW r \in Roots
      PROVE  /\ Below(r) \subseteq Ids /\ Idx(r) \in Below(r)
             /\ \A i \in Below(r) : Kids(i) \subseteq Below(r)
  <2>1. Idx(r) \in Ids
    BY RootFacts, PtrFacts
  <2>2. Below(r) = Down(kids, Idx(r))
    BY DEF Below
  <2>3. \A i \in Ids : kids[i] = Kids(i)
    OBVIOUS
  <2> HIDE DEF kids
  <2>4. /\ Down(kids, Idx(r)) \subseteq Ids /\ Idx(r) \in Down(kids, Idx(r))
        /\ \A i \in Down(kids, Idx(r)) : kids[i] \subseteq Down(kids, Idx(r))
    BY <1>1, <2>1, DownFacts
  <2> QED
    BY <2>2, <2>3, <2>4
<1>3. Scored \subseteq Ids /\ \A i \in Scored : N(i).w = 1
  BY <1>2 DEF Scored
<1>4. \A i \in Ids : i \in Nat \ {0}
  BY NodeFacts
<1>5. ASSUME NEW p \in Pointers(Scored)
      PROVE  p \in Ptrs /\ Idx(p) \in Scored
  <2>1. PICK i \in Scored : p = i \/ p = -i
    BY DEF Pointers
  <2>2. i \in Nat \ {0}
    BY <1>3, <1>4
  <2>3. p \in Int /\ Idx(p) = i
    BY <2>1, <2>2 DEF Idx
  <2> QED
    BY <1>3, <2>3 DEF Ptrs
<1>6. ASSUME NEW q \in Ptrs, Idx(q) \in Scored
      PROVE  q \in Pointers(Scored) /\ -q \in Pointers(Scored)
  <2>1. q \in Int /\ Idx(q) = (IF q < 0 THEN -q ELSE q)
    BY PtrFacts
  <2>2. (q = Idx(q) /\ -q = -Idx(q)) \/ (q = -Idx(q) /\ -q = Idx(q))
    BY <2>1
  <2> QED
    BY <1>6, <2>2 DEF Pointers
<1>7. ASSUME NEW p \in Pointers(Scored), N(Idx(p)).k = "and", NEW j \in {1, 2}
      PROVE  LET q == N(Idx(p)).e[j]
             IN /\ q \in Pointers(Scored) /\ -q \in Pointers(Scored)
                /\ Idx(q) < Idx(p) /\ Idx(-q) < Idx(p) /\ Idx(q) \in Kids(Idx(p))
                /\ Idx(-q) = Idx(q)
  <2> DEFINE i == Idx(p)
             q == N(i).e[j]
  <2>1. i \in Scored /\ i \in Ids /\ N(i).w = 1
    BY <1>3, <1>5
  <2>2. DOMAIN N(i).e = {1, 2} /\ N(Idx(q)).w = 1
    BY <1>7, <2>1, WidthFacts DEF WordKinds
  <2>3. q \in Ptrs /\ Idx(q) \in Kids(i) /\ Idx(q) < i
    BY <2>1, <2>2, NodeFacts, KidsFacts
  <2>4. PICK r \in Roots : i \in Below(r)
    BY <2>1 DEF Scored
  <2>5. Idx(q) \in Below(r)
    BY <1>2, <2>3, <2>4
  <2>6. Idx(q) \in Scored
    BY <2>2, <2>5 DEF Scored
  <2>7. Idx(-q) = Idx(q)
    BY <2>3, PtrFacts
  <2> QED
    BY <1>6, <2>3, <2>6, <2>7
<1>8. \A r \in Roots : r \in Pointers(Scored)
  <2> SUFFICES ASSUME NEW r \in Roots PROVE r \in Pointers(Scored)
    OBVIOUS
  <2>1. r \in Ptrs /\ N(Idx(r)).w = 1
    BY RootFacts
  <2>2. Idx(r) \in Scored
    BY <1>2, <2>1 DEF Scored
  <2> QED
    BY <1>6, <2>1, <2>2
<1> QED
  BY <1>3, <1>5, <1>7, <1>8


(* A score reads the node's own value and, of its children, the values and  *)
(* the scores.                                                              *)
LEMMA ScoreNodeSame ==
  ASSUME f \in Programs, NEW p \in Pointers(Scored), NEW m1, NEW m2, NEW s1, NEW s2,
         m1[Idx(p)] = m2[Idx(p)],
         \A j \in Kids(Idx(p)) : m1[j] = m2[j],
         \A q \in Pointers(Scored) : Idx(q) \in Kids(Idx(p)) => s1[q] = s2[q]
  PROVE  ScoreNode(p, m1, s1) = ScoreNode(p, m2, s2)
<1> DEFINE i == Idx(p)
           n == N(i)
<1>1. i \in Ids /\ p \in Ptrs
  BY ScoredFacts, PtrFacts
<1>2. ASSUME NEW q \in Ptrs, m1[Idx(q)] = m2[Idx(q)] PROVE ValueIn(m1, q) = ValueIn(m2, q)
  BY <1>2, PtrFacts DEF ValueIn
<1>3. \A j \in DOMAIN n.e : ValueIn(m1, n.e[j]) = ValueIn(m2, n.e[j])
  BY <1>1, <1>2, NodeFacts, KidsFacts
<1>4. CASE n.k = "and"
  <2>1. \A j \in {1, 2} : s1[n.e[j]] = s2[n.e[j]] /\ s1[-n.e[j]] = s2[-n.e[j]]
    BY <1>4, ScoredFacts
  <2> QED
    BY <1>4, <2>1 DEF ScoreNode
<1>5. CASE n.k \in {"eq", "ult"}
  <2>1. ValueIn(m1, n.e[1]) = ValueIn(m2, n.e[1]) /\ ValueIn(m1, n.e[2]) = ValueIn(m2, n.e[2])
    BY <1>1, <1>3, <1>5, WidthFacts
  <2> QED
    BY <1>5, <2>1 DEF ScoreNode
<1>6. CASE n.k \notin {"and", "eq", "ult"}
  <2>1. ValueIn(m1, p) = ValueIn(m2, p)
    BY <1>1, <1>2
  <2> QED
    BY <1>6, <2>1 DEF ScoreNode
<1> QED
  BY <1>4, <1>5, <1>6

(* A score lies between 0 and 1.0 if the scores of the children do. *)
LEMMA ScoreNodeType ==
  ASSUME f \in Programs, NEW p \in Pointers(Scored), NEW m \in Models, NEW s,
         \A q \in Pointers(Scored) : Idx(q) \in Kids(Idx(p)) => s[q] \in 0..Unit
  PROVE  ScoreNode(p, m, s) \in 0..Unit
<1> DEFINE i == Idx(p)
           n == N(i)
<1>1. i \in Ids /\ p \in Ptrs /\ n.w = 1
  BY ScoredFacts, PtrFacts
<1>2. Unit \in Nat /\ 0 \in 0..Unit /\ Unit \in 0..Unit
  BY LocalSearchAssumption
<1>3. CASE n.k = "and"
  <2>1. \A j \in {1, 2} : s[n.e[j]] \in 0..Unit /\ s[-n.e[j]] \in 0..Unit
    BY <1>3, ScoredFacts
  <2>2. AndScore(s[n.e[1]], s[n.e[2]]) \in 0..Unit /\ Max({s[-n.e[1]], s[-n.e[2]]}) \in 0..Unit
    BY <2>1, AndScoreFacts
  <2> QED
    BY <1>3, <2>2 DEF ScoreNode
<1>4. CASE n.k \in {"eq", "ult"}
  <2> DEFINE w == N(Idx(n.e[1])).w
             a == ValueIn(m, n.e[1])
             b == ValueIn(m, n.e[2])
  <2>1. w \in 1..MaxWidth
    <3>1. 1 \in DOMAIN n.e
      BY <1>1, <1>4, WidthFacts
    <3>2. Idx(n.e[1]) \in Ids
      BY <1>1, <3>1, NodeFacts
    <3> QED
      BY <3>2, NodeFacts
  <2>2. /\ Partial(HammingDistance(a, b, w), w) \in 0..Unit
        /\ Partial(MinFlip(a, b, w), w) \in 0..Unit /\ Partial(MinFlipInv(a, b, w), w) \in 0..Unit
    BY <2>1, DistanceType, PartialType
  <2> QED
    BY <1>2, <1>4, <2>2 DEF ScoreNode
<1>5. CASE n.k \notin {"and", "eq", "ult"}
  <2>1. ValueIn(m, p) \in {0, 1}
    BY <1>1, ModelFacts
  <2>2. ValueIn(m, p) * Unit \in 0..Unit
    BY <1>2, <2>1
  <2> QED
    BY <1>5, <2>2 DEF ScoreNode
<1> QED
  BY <1>3, <1>4, <1>5

(* A score is 1.0 exactly for a true node, if that holds of the children. *)
LEMMA ScoreNodeTrue ==
  ASSUME f \in Programs, NEW p \in Pointers(Scored), NEW m, ExactModel(m), NEW s,
         \A q \in Pointers(Scored) : Idx(q) \in Kids(Idx(p)) =>
           s[q] \in 0..Unit /\ (s[q] = Unit <=> ValueIn(m, q) = 1)
  PROVE  ScoreNode(p, m, s) = Unit <=> ValueIn(m, p) = 1
<1> DEFINE i == Idx(p)
           n == N(i)
<1>1. i \in Ids /\ p \in Ptrs /\ n.w = 1 /\ m \in Models /\ p \in Int /\ p # 0
  BY ScoredFacts, PtrFacts DEF ExactModel
<1>2. Unit \in Nat \ {0}
  BY LocalSearchAssumption
<1>3. m[i] \in {0, 1} /\ ValueIn(m, p) \in {0, 1} /\ ValueIn(m, p) = (IF p < 0 THEN 1 - m[i] ELSE m[i])
  BY <1>1, ModelFacts
<1>4. CASE n.k = "and"
  <2> DEFINE v(j) == ValueIn(m, n.e[j])
  <2>1. DOMAIN n.e = {1, 2} /\ N(Idx(n.e[1])).w = 1 /\ N(Idx(n.e[2])).w = 1
    BY <1>1, <1>4, WidthFacts DEF WordKinds
  <2>2. n.e[1] \in Ptrs /\ n.e[2] \in Ptrs
    BY <1>1, <2>1, NodeFacts
  <2>3. v(1) \in {0, 1} /\ v(2) \in {0, 1} /\ ValueIn(m, -n.e[1]) = 1 - v(1) /\ ValueIn(m, -n.e[2]) = 1 - v(2)
    BY <1>1, <2>1, <2>2, ModelFacts
  <2>4. m[i] = IF v(1) = 1 /\ v(2) = 1 THEN 1 ELSE 0
    <3>1. m[i] = NodeValue(n, m)
      BY <1>1, <1>4 DEF ExactModel, Inputs
    <3>2. NodeValue(n, m) = Meaning("and", 1, v(1), v(2))
      BY <1>4, <2>1 DEF NodeValue
    <3> QED
      BY <2>3, <3>1, <3>2, AndOneBit
  <2>5. \A j \in {1, 2} : /\ s[n.e[j]] \in 0..Unit /\ s[-n.e[j]] \in 0..Unit
                          /\ (s[n.e[j]] = Unit <=> v(j) = 1)
                          /\ (s[-n.e[j]] = Unit <=> ValueIn(m, -n.e[j]) = 1)
    BY <1>4, ScoredFacts
  <2> HIDE DEF v
  <2>6. /\ AndScore(s[n.e[1]], s[n.e[2]]) = Unit <=> v(1) = 1 /\ v(2) = 1
        /\ Max({s[-n.e[1]], s[-n.e[2]]}) = Unit <=> v(1) = 0 \/ v(2) = 0
    <3> DEFINE s1 == s[n.e[1]]
               s2 == s[n.e[2]]
               t1 == s[-n.e[1]]
               t2 == s[-n.e[2]]
    <3>1. {s1, s2, t1, t2} \subseteq 0..Unit
      BY <2>5
    <3>2. (s1 = Unit <=> v(1) = 1) /\ (s2 = Unit <=> v(2) = 1)
      BY <2>5
    <3>3. (t1 = Unit <=> v(1) = 0) /\ (t2 = Unit <=> v(2) = 0)
      BY <2>3, <2>5
    <3> HIDE DEF s1, s2, t1, t2
    <3>4. /\ AndScore(s1, s2) = Unit <=> s1 = Unit /\ s2 = Unit
          /\ Max({t1, t2}) = Unit <=> t1 = Unit \/ t2 = Unit
      BY <3>1, AndScoreFacts
    <3>5. /\ AndScore(s1, s2) = Unit <=> v(1) = 1 /\ v(2) = 1
          /\ Max({t1, t2}) = Unit <=> v(1) = 0 \/ v(2) = 0
      BY <3>2, <3>3, <3>4
    <3> QED
      BY <3>5 DEF s1, s2, t1, t2
  <2>7. ScoreNode(p, m, s) = IF p < 0 THEN Max({s[-n.e[1]], s[-n.e[2]]}) ELSE AndScore(s[n.e[1]], s[n.e[2]])
    BY <1>4 DEF ScoreNode
  <2> HIDE DEF n, i
  <2> QED
    BY <1>3, <2>3, <2>4, <2>6, <2>7
<1>5. CASE n.k \in {"eq", "ult"}
  <2> DEFINE w == N(Idx(n.e[1])).w
             a == ValueIn(m, n.e[1])
             b == ValueIn(m, n.e[2])
  <2>1. w \in 1..MaxWidth
    <3>1. 1 \in DOMAIN n.e
      BY <1>1, <1>5, WidthFacts
    <3>2. Idx(n.e[1]) \in Ids
      BY <1>1, <3>1, NodeFacts
    <3> QED
      BY <3>2, NodeFacts
  <2>2. /\ Partial(HammingDistance(a, b, w), w) # Unit
        /\ Partial(MinFlip(a, b, w), w) # Unit /\ Partial(MinFlipInv(a, b, w), w) # Unit
    BY <2>1, DistanceType, PartialType
  <2>3. m[i] = NodeValue(n, m)
    BY <1>1, <1>5 DEF ExactModel, Inputs
  <2>4. CASE n.k = "eq"
    <3>1. m[i] = IF a = b THEN 1 ELSE 0
      BY <2>3, <2>4, MeaningCases DEF NodeValue
    <3>2. ScoreNode(p, m, s) = IF (a = b) = (p > 0) THEN Unit
                               ELSE IF p < 0 THEN 0 ELSE Partial(HammingDistance(a, b, w), w)
      BY <2>4 DEF ScoreNode
    <3> HIDE DEF a, b, n, i
    <3> QED
      BY <1>1, <1>2, <1>3, <2>2, <3>1, <3>2
  <2>5. CASE n.k = "ult"
    <3>1. m[i] = IF a < b THEN 1 ELSE 0
      BY <2>3, <2>5, MeaningCases DEF NodeValue
    <3>2. ScoreNode(p, m, s) = IF (a < b) = (p > 0) THEN Unit
                               ELSE Partial(IF p < 0 THEN MinFlipInv(a, b, w) ELSE MinFlip(a, b, w), w)
      BY <2>5 DEF ScoreNode
    <3> HIDE DEF a, b, n, i
    <3> QED
      BY <1>1, <1>2, <1>3, <2>2, <3>1, <3>2
  <2> QED
    BY <1>5, <2>4, <2>5
<1>6. CASE n.k \notin {"and", "eq", "ult"}
  <2>1. ScoreNode(p, m, s) = ValueIn(m, p) * Unit
    BY <1>6 DEF ScoreNode
  <2> QED
    BY <1>2, <1>3, <2>1
<1> QED
  BY <1>4, <1>5, <1>6


(* The scores of a model, stated without recursion. *)
ScoreExact(s, m) ==
  /\ s = [p \in Pointers(Scored) |-> s[p]]
  /\ \A p \in Pointers(Scored) : s[p] = ScoreNode(p, m, s)

ScoreBody(old, m, changed, p, s) == IF Idx(p) \in changed THEN ScoreNode(p, m, s) ELSE old[p]

SolvesScore(old, m, changed, s) ==
  \A p \in Pointers(Scored) : s[p] = ScoreBody(old, m, changed, p, s)

(* One score at a time: the scores that a definition fixes are unique. *)
LEMMA ScoreUnique ==
  ASSUME f \in Programs, NEW m, NEW old, NEW changed, NEW s1, NEW s2,
         SolvesScore(old, m, changed, s1), SolvesScore(old, m, changed, s2)
  PROVE  \A p \in Pointers(Scored) : s1[p] = s2[p]
<1> USE DEF SolvesScore
<1> DEFINE D == Pointers(Scored)
           Bad == {p \in D : s1[p] # s2[p]}
           rank == [p \in D |-> Idx(p)]
<1> SUFFICES ASSUME Bad # {} PROVE FALSE
  OBVIOUS
<1>1. \A p \in D : Idx(p) \in Nat /\ Idx(p) \in Ids
  BY ScoredFacts, PtrFacts
<1>2. rank \in [D -> Nat]
  BY <1>1
<1>3. Bad \in SUBSET D
  OBVIOUS
<1>4. PICK p \in Bad : \A q \in Bad : rank[p] <= rank[q]
  <2> HIDE DEF Bad, rank, D
  <2> QED
    BY <1>2, <1>3, LeastRank
<1>5. \A q \in D : Idx(q) \in Kids(Idx(p)) => s1[q] = s2[q]
  <2>1. \A q \in D : Idx(q) \in Kids(Idx(p)) => Idx(q) < Idx(p)
    BY <1>1, KidsFacts
  <2> QED
    BY <1>1, <1>4, <2>1
<1>6. ScoreNode(p, m, s1) = ScoreNode(p, m, s2)
  BY <1>5, ScoreNodeSame
<1> QED
  BY <1>4, <1>6 DEF ScoreBody

(* The scores computed by btor_slsutils_compute_sls_scores or for a cone. *)
LEMMA RescoreFacts ==
  ASSUME f \in Programs, NEW m \in Models, NEW old, NEW changed,
         \A p \in Pointers(Scored) : Idx(p) \notin changed => old[p] \in 0..Unit
  PROVE  LET R == Rescore(old, m, changed)
         IN /\ R = [p \in Pointers(Scored) |-> R[p]]
            /\ \A p \in Pointers(Scored) :
                 R[p] \in 0..Unit /\ R[p] = ScoreBody(old, m, changed, p, R)
<1> DEFINE D == Pointers(Scored)
           Body(p, s) == ScoreBody(old, m, changed, p, s)
           step == [x \in D \X [D -> Nat] |-> IF Body(x[1], x[2]) \in Nat THEN Body(x[1], x[2]) ELSE 0]
           rank == [p \in D |-> Idx(p)]
           s == CHOOSE s : s = [p \in D |-> Body(p, s)]
<1>0. \A p \in D : Idx(p) \in Nat /\ Idx(p) \in Ids
  BY ScoredFacts, PtrFacts
<1>1. \A p, q \in D : Idx(q) \in Kids(Idx(p)) => Idx(q) < Idx(p)
  BY <1>0, KidsFacts
<1>2. Unit \in Nat
  BY LocalSearchAssumption
<1>3. ASSUME NEW F, NEW p \in D, \A q \in D : Idx(q) < Idx(p) => F[q] \in 0..Unit
      PROVE  Body(p, F) \in 0..Unit
  <2>1. \A q \in D : Idx(q) \in Kids(Idx(p)) => F[q] \in 0..Unit
    BY <1>1, <1>3
  <2>2. ScoreNode(p, m, F) \in 0..Unit
    BY <2>1, ScoreNodeType
  <2> QED
    BY <2>2 DEF ScoreBody
<1>4. ASSUME NEW p \in D, NEW F, NEW G, \A q \in D : Idx(q) < Idx(p) => F[q] = G[q]
      PROVE  Body(p, F) = Body(p, G)
  <2>1. \A q \in D : Idx(q) \in Kids(Idx(p)) => F[q] = G[q]
    BY <1>1, <1>4
  <2>2. ScoreNode(p, m, F) = ScoreNode(p, m, G)
    BY <2>1, ScoreNodeSame
  <2> QED
    BY <2>2 DEF ScoreBody
<1>5. rank \in [D -> Nat] /\ \A p \in D : rank[p] = Idx(p)
  BY <1>0
<1> HIDE DEF Body, rank, D
<1>6. ASSUME NEW F, \A p \in D : Body(p, F) \in Nat => F[p] = Body(p, F)
      PROVE  \A p \in D : F[p] \in 0..Unit /\ F[p] = Body(p, F)
  <2>1. \A p \in D : Body(p, F) \in 0..Unit => F[p] = Body(p, F) /\ F[p] \in 0..Unit
    BY <1>2, <1>6
  <2> DEFINE Bad == {p \in D : Body(p, F) \notin 0..Unit}
  <2> SUFFICES ASSUME Bad # {} PROVE FALSE
    BY <2>1
  <2>2. PICK p \in Bad : \A q \in Bad : rank[p] <= rank[q]
    <3>1. Bad \in SUBSET D
      OBVIOUS
    <3> HIDE DEF Bad
    <3> QED
      BY <1>5, <3>1, LeastRank
  <2>3. \A q \in D : Idx(q) < Idx(p) => F[q] \in 0..Unit
    BY <1>0, <1>5, <2>1, <2>2
  <2> QED
    BY <1>3, <2>2, <2>3
<1>7. \A p \in D, F \in [D -> Nat] : step[<<p, F>>] = IF Body(p, F) \in Nat THEN Body(p, F) ELSE 0
  OBVIOUS
<1>8. step \in [D \X [D -> Nat] -> Nat]
  OBVIOUS
<1> HIDE DEF step
<1>9. Solvable(D, Nat, step)
  <2>1. \A p \in D : \A F, G \in [D -> Nat] :
          (\A q \in D : rank[q] < rank[p] => F[q] = G[q]) => step[<<p, F>>] = step[<<p, G>>]
    BY <1>4, <1>5, <1>7
  <2> QED
    BY <1>5, <1>8, <2>1, RankedRecursion
<1>10. PICK F \in [D -> Nat] : \A p \in D : F[p] = step[<<p, F>>]
  BY <1>9 DEF Solvable
<1>11. \A p \in D : F[p] = Body(p, F)
  BY <1>6, <1>7, <1>10
<1>12. F = [p \in D |-> Body(p, F)]
  <2>1. F = [p \in D |-> F[p]]
    OBVIOUS
  <2> QED
    BY <1>11, <2>1
<1>13. s = [p \in D |-> Body(p, s)]
  BY <1>12
<1> HIDE DEF s
<1>14. \A p \in D : s[p] = Body(p, s)
  BY <1>13
<1>15. \A p \in D : s[p] \in 0..Unit
  BY <1>6, <1>14
<1>16. s = [p \in D |-> s[p]]
  BY <1>13
<1>17. Rescore(old, m, changed) = [p \in D |-> s[p]]
  BY DEF Rescore, ScoreBody, Body, s, D
<1>18. Rescore(old, m, changed) = s
  BY <1>16, <1>17
<1> QED
  BY <1>14, <1>15, <1>16, <1>18 DEF Body, D


(* Exact scores are between 0 and 1.0, and 1.0 exactly for what is true. *)
LEMMA ScoresRight ==
  ASSUME f \in Programs, NEW m, ExactModel(m), NEW s, ScoreExact(s, m)
  PROVE  \A p \in Pointers(Scored) : s[p] \in 0..Unit /\ (s[p] = Unit <=> ValueIn(m, p) = 1)
<1> DEFINE D == Pointers(Scored)
           Good(p) == s[p] \in 0..Unit /\ (s[p] = Unit <=> ValueIn(m, p) = 1)
           Bad == {p \in D : ~Good(p)}
           rank == [p \in D |-> Idx(p)]
<1>1. \A p \in D : Idx(p) \in Nat /\ Idx(p) \in Ids
  BY ScoredFacts, PtrFacts
<1>2. \A p, q \in D : Idx(q) \in Kids(Idx(p)) => Idx(q) < Idx(p)
  BY <1>1, KidsFacts
<1>3. ASSUME NEW p \in D, \A q \in D : Idx(q) < Idx(p) => Good(q) PROVE Good(p)
  <2>1. \A q \in D : Idx(q) \in Kids(Idx(p)) => Good(q)
    BY <1>2, <1>3
  <2>2. m \in Models
    BY DEF ExactModel
  <2>3. ScoreNode(p, m, s) \in 0..Unit
    BY <2>1, <2>2, ScoreNodeType
  <2>4. ScoreNode(p, m, s) = Unit <=> ValueIn(m, p) = 1
    BY <2>1, ScoreNodeTrue
  <2> QED
    BY <2>3, <2>4 DEF ScoreExact
<1> HIDE DEF Good
<1> SUFFICES ASSUME Bad # {} PROVE FALSE
  BY DEF Good
<1>4. rank \in [D -> Nat] /\ \A p \in D : rank[p] = Idx(p)
  BY <1>1
<1>5. PICK p \in Bad : \A q \in Bad : rank[p] <= rank[q]
  <2>1. Bad \in SUBSET D
    OBVIOUS
  <2> HIDE DEF Bad, rank, D
  <2> QED
    BY <1>4, <2>1, LeastRank
<1>6. \A q \in D : Idx(q) < Idx(p) => Good(q)
  BY <1>1, <1>4, <1>5
<1> QED
  BY <1>3, <1>5, <1>6

(* Computing all scores gives the exact ones, and there are no others. *)
LEMMA ComputeExact ==
  ASSUME f \in Programs, NEW m \in Models
  PROVE  /\ ScoreExact(ComputeScores(m), m)
         /\ \A s : ScoreExact(s, m) => s = ComputeScores(m)
<1> DEFINE R == Rescore(Empty, m, Ids)
<1>1. \A p \in Pointers(Scored) : Idx(p) \in Ids
  BY ScoredFacts, PtrFacts
<1>2. /\ R = [p \in Pointers(Scored) |-> R[p]]
      /\ \A p \in Pointers(Scored) : R[p] = ScoreBody(Empty, m, Ids, p, R)
  BY <1>1, RescoreFacts
<1> HIDE DEF R
<1>3. ScoreExact(R, m)
  BY <1>1, <1>2 DEF ScoreExact, ScoreBody
<1>4. ASSUME NEW s, ScoreExact(s, m) PROVE s = R
  <2>1. /\ s = [p \in Pointers(Scored) |-> s[p]]
        /\ \A p \in Pointers(Scored) : s[p] = ScoreBody(Empty, m, Ids, p, s)
    BY <1>1, <1>4 DEF ScoreExact, ScoreBody
  <2>2. \A p \in Pointers(Scored) : s[p] = R[p]
    <3>1. SolvesScore(Empty, m, Ids, s) /\ SolvesScore(Empty, m, Ids, R)
      BY <1>2, <2>1 DEF SolvesScore
    <3> QED
      BY <3>1, ScoreUnique
  <2> QED
    BY <1>2, <2>1, <2>2
<1> QED
  BY <1>3, <1>4 DEF ComputeScores, R

(* Scores computed anew above the changed inputs and kept elsewhere are     *)
(* exact for the new model.                                                 *)
LEMMA ChangedScores ==
  ASSUME f \in Programs, NEW m0, ExactModel(m0), NEW m, NEW S,
         \A i \in Ids \ Above(S) : m[i] = m0[i],
         NEW s0, ScoreExact(s0, m0), NEW s, s = [p \in Pointers(Scored) |-> s[p]],
         \A p \in Pointers(Scored) : s[p] = ScoreBody(s0, m, Above(S), p, s)
  PROVE  ScoreExact(s, m)
<1> SUFFICES ASSUME NEW p \in Pointers(Scored) PROVE s[p] = ScoreNode(p, m, s)
  BY DEF ScoreExact
<1>1. CASE Idx(p) \in Above(S)
  BY <1>1 DEF ScoreBody
<1>2. CASE Idx(p) \notin Above(S)
  <2>1. Idx(p) \in Ids
    BY ScoredFacts, PtrFacts
  <2>2. \A j \in Kids(Idx(p)) : j \in Ids \ Above(S)
    BY <1>2, <2>1, AboveFacts, KidsFacts
  <2>3. \A q \in Pointers(Scored) : Idx(q) \in Kids(Idx(p)) => s[q] = s0[q]
    BY <2>2 DEF ScoreBody
  <2>4. ScoreNode(p, m, s) = ScoreNode(p, m0, s0)
    BY <1>2, <2>1, <2>2, <2>3, ScoreNodeSame
  <2>5. s[p] = s0[p] /\ s0[p] = ScoreNode(p, m0, s0)
    BY <1>2 DEF ScoreBody, ScoreExact
  <2> QED
    BY <2>4, <2>5
<1> QED
  BY <1>1, <1>2

(* btor_lsutils_update_cone keeps the scores exact. *)
LEMMA RescoreExact ==
  ASSUME f \in Programs, NEW m0, ExactModel(m0), NEW m \in Models, NEW S,
         \A i \in Ids \ Above(S) : m[i] = m0[i],
         NEW s0, ScoreExact(s0, m0)
  PROVE  /\ ScoreExact(Rescore(s0, m, Above(S)), m)
         /\ Rescore(s0, m, Above(S)) = [p \in Pointers(Scored) |-> Rescore(s0, m, Above(S))[p]]
         /\ \A p \in Pointers(Scored) : Rescore(s0, m, Above(S))[p]
              = ScoreBody(s0, m, Above(S), p, Rescore(s0, m, Above(S)))
<1> DEFINE R == Rescore(s0, m, Above(S))
<1>1. \A p \in Pointers(Scored) : s0[p] \in 0..Unit
  BY ScoresRight
<1>2. /\ R = [p \in Pointers(Scored) |-> R[p]]
      /\ \A p \in Pointers(Scored) : R[p] = ScoreBody(s0, m, Above(S), p, R)
  BY <1>1, RescoreFacts
<1> HIDE DEF R
<1>3. ScoreExact(R, m)
  BY <1>2, ChangedScores
<1> QED
  BY <1>2, <1>3 DEF R

(* The scores of the AIG engine are the same. *)
LEMMA AigScoreSame ==
  ASSUME f \in Programs, OverAigs, NEW p \in Pointers(Scored), NEW m, NEW s
  PROVE  AigScore(p, m, s) = ScoreNode(p, m, s)
<1>1. N(Idx(p)).k \in {"var", "const", "and"}
  BY ScoredFacts, RootFacts, PtrFacts
<1>2. CASE N(Idx(p)).k = "and"
  BY <1>2 DEF AigScore, ScoreNode, AndScore
<1>3. CASE N(Idx(p)).k \in {"var", "const"}
  BY <1>3 DEF AigScore, ScoreNode
<1> QED
  BY <1>1, <1>2, <1>3

(* compute_scores of the AIG engine. *)
LEMMA AigScoresExact ==
  ASSUME f \in Programs, OverAigs, NEW m \in Models
  PROVE  ScoreExact(AigScores(m), m)
<1> DEFINE D == Pointers(Scored)
           R == ComputeScores(m)
           s == CHOOSE s : s = [p \in D |-> AigScore(p, m, s)]
<1>1. R = [p \in D |-> R[p]] /\ \A p \in D : R[p] = AigScore(p, m, R)
  BY ComputeExact, AigScoreSame DEF ScoreExact
<1> HIDE DEF R
<1>2. R = [p \in D |-> AigScore(p, m, R)]
  BY <1>1
<1>3. s = [p \in D |-> AigScore(p, m, s)]
  BY <1>2
<1>4. AigScores(m) = [p \in D |-> s[p]]
  BY DEF AigScores
<1> HIDE DEF s
<1>5. s = [p \in D |-> s[p]] /\ \A p \in D : s[p] = AigScore(p, m, s)
  <2>1. \A p \in D : s[p] = AigScore(p, m, s)
    BY <1>3
  <2> QED
    BY <1>3, <2>1
<1>6. ScoreExact(s, m)
  BY <1>5, AigScoreSame DEF ScoreExact
<1> QED
  BY <1>4, <1>5, <1>6

\* The scores that update_cone of the AIG engine computes.
AigRescored(old, m, changed) ==
  CHOOSE s : s = [p \in DOMAIN old |-> IF Idx(p) \in changed THEN AigScore(p, m, s) ELSE old[p]]

(* update_cone of the AIG engine keeps the scores exact. *)
LEMMA AigRescoreExact ==
  ASSUME f \in Programs, OverAigs, NEW m0, ExactModel(m0), NEW m \in Models, NEW S,
         \A i \in Ids \ Above(S) : m[i] = m0[i],
         NEW s0, ScoreExact(s0, m0)
  PROVE  LET s == AigRescored(s0, m, Above(S))
         IN s = [p \in DOMAIN s0 |-> s[p]] /\ ScoreExact(s, m)
<1> DEFINE D == DOMAIN s0
           Body(p, s) == IF Idx(p) \in Above(S) THEN AigScore(p, m, s) ELSE s0[p]
           R == Rescore(s0, m, Above(S))
           s == CHOOSE s : s = [p \in D |-> Body(p, s)]
<1>1. D = Pointers(Scored)
  <2>1. s0 = [p \in Pointers(Scored) |-> s0[p]]
    BY DEF ScoreExact
  <2> QED
    BY <2>1
<1>2. /\ R = [p \in Pointers(Scored) |-> R[p]]
      /\ \A p \in Pointers(Scored) : R[p] = ScoreBody(s0, m, Above(S), p, R)
  BY RescoreExact
<1> HIDE DEF D
<1>3. ASSUME NEW p \in D, NEW F PROVE Body(p, F) = ScoreBody(s0, m, Above(S), p, F)
  BY <1>1, AigScoreSame DEF ScoreBody
<1> HIDE DEF R, Body
<1>4. R = [p \in D |-> Body(p, R)]
  BY <1>1, <1>2, <1>3
<1>5. s = [p \in D |-> Body(p, s)]
  BY <1>4
<1> HIDE DEF s
<1>6. \A p \in D : s[p] = Body(p, s)
  BY <1>5
<1>7. s = [p \in D |-> s[p]]
  BY <1>5, <1>6
<1>8. \A p \in D : s[p] = ScoreBody(s0, m, Above(S), p, s)
  BY <1>3, <1>6
<1>9. ScoreExact(s, m)
  BY <1>1, <1>7, <1>8, ChangedScores
<1> QED
  BY <1>7, <1>9 DEF s, Body, D, AigRescored

-----------------------------------------------------------------------------
(* The models of the AIG engine *)

AigAnd(j, m) == IF \A l \in {1, 2} : ValueIn(m, N(j).e[l]) = 1 THEN 1 ELSE 0

(* The value of an and node of an AIG. *)
LEMMA AigAndValue ==
  ASSUME f \in Programs, OverAigs, NEW m \in Models, NEW j \in Ids, N(j).k = "and"
  PROVE  NodeValue(N(j), m) = AigAnd(j, m)
<1>1. DOMAIN N(j).e = {1, 2}
  BY WidthFacts DEF WordKinds
<1>2. \A l \in {1, 2} : N(j).e[l] \in Ptrs /\ N(Idx(N(j).e[l])).w = 1
  BY <1>1, NodeFacts, RootFacts
<1>3. \A l \in {1, 2} : ValueIn(m, N(j).e[l]) \in {0, 1}
  BY <1>2, ModelFacts
<1>4. NodeValue(N(j), m) = Meaning("and", 1, ValueIn(m, N(j).e[1]), ValueIn(m, N(j).e[2]))
  BY <1>2 DEF NodeValue
<1> QED
  BY <1>3, <1>4, AndOneBit DEF AigAnd

(* Any assignment of bits is a model of an AIG's nodes. *)
LEMMA AigModels ==
  ASSUME f \in Programs, OverAigs, NEW m, m = [i \in Ids |-> m[i]], \A i \in Ids : m[i] \in {0, 1}
  PROVE  m \in Models
  BY RootFacts, OneBit DEF Models

(* btor_aigprop_generate_model gives every node its value. *)
LEMMA AigModelExact ==
  ASSUME f \in Programs, OverAigs
  PROVE  ExactModel(AigModel)
<1> DEFINE Body(i, m) == IF N(i).k = "and" THEN AigAnd(i, m) ELSE IF N(i).k = "const" THEN N(i).x ELSE 0
           m == CHOOSE m : m = [i \in Ids |-> Body(i, m)]
           Z == ZeroModel
<1>1. \A i \in Ids : N(i).k \in {"var", "const", "and"} /\ N(i).w = 1
  BY RootFacts
<1>2. \A i \in Ids : \A F : Body(i, F) \in {0, 1}
  BY <1>1, WidthFacts, OneBit DEF AigAnd
<1>3. ASSUME NEW F \in Models, NEW i \in Ids \ Inputs PROVE NodeValue(N(i), F) = Body(i, F)
  <2>1. CASE N(i).k = "and"
    BY <2>1, AigAndValue
  <2>2. CASE N(i).k = "const"
    BY <2>2 DEF NodeValue
  <2> QED
    BY <1>1, <2>1, <2>2 DEF Inputs
<1>4. \A i \in Inputs : \A F : i \in Ids /\ Body(i, F) = 0
  BY DEF Inputs
<1>5. ExactModel(Z) /\ \A i \in Inputs : Z[i] = 0
  BY ZeroExact
<1> HIDE DEF Body, Z
<1>6. \A i \in Ids : Z[i] = Body(i, Z)
  BY <1>3, <1>4, <1>5 DEF ExactModel
<1>7. Z = [i \in Ids |-> Z[i]]
  BY <1>5 DEF ExactModel, Models
<1>8. Z = [i \in Ids |-> Body(i, Z)]
  BY <1>6, <1>7
<1>9. m = [i \in Ids |-> Body(i, m)]
  BY <1>8
<1>10. AigModel = [i \in Ids |-> m[i]]
  BY DEF AigModel, AigAnd, Body
<1> HIDE DEF m
<1>11. \A i \in Ids : m[i] = Body(i, m)
  BY <1>9
<1>12. m = [i \in Ids |-> m[i]]
  BY <1>9, <1>11
<1>13. m \in Models
  BY <1>2, <1>11, <1>12, AigModels
<1>14. ExactModel(m)
  BY <1>3, <1>11, <1>13 DEF ExactModel
<1> QED
  BY <1>10, <1>12, <1>14

\* The model that update_cone of the AIG engine computes when input i becomes v.
AigMoved(old, i, v) ==
  CHOOSE m : m = [j \in Ids |->
    IF j = i THEN v ELSE IF j \notin Above({i}) THEN old[j]
    ELSE IF \A l \in {1, 2} : ValueIn(m, N(j).e[l]) = 1 THEN 1 ELSE 0]

(* update_cone of the AIG engine gives every node above the input its value. *)
LEMMA AigMoveExact ==
  ASSUME f \in Programs, OverAigs, NEW m0, ExactModel(m0), NEW i \in Inputs, NEW v, v \in Values(N(i).w)
  PROVE  LET m == AigMoved(m0, i, v)
         IN /\ m = [j \in Ids |-> m[j]] /\ ExactModel(m)
            /\ \A j \in Ids \ Above({i}) : m[j] = m0[j]
<1> DEFINE S == {i}
           A == Above(S)
           Body(j, m) == IF j = i THEN v ELSE IF j \notin A THEN m0[j] ELSE AigAnd(j, m)
           m == CHOOSE m : m = [j \in Ids |-> Body(j, m)]
           c == [j \in S |-> v]
           W == Assign(m0, c, Cone(S))
<1>1. \A j \in Ids : N(j).k \in {"var", "const", "and"} /\ N(j).w = 1
  BY RootFacts
<1>2. i \in Ids /\ S \subseteq Inputs /\ i \in A /\ A \subseteq Ids /\ v \in {0, 1}
  BY <1>1, AboveFacts, OneBit DEF Inputs
<1>3. m0 \in Models /\ \A j \in Ids : m0[j] \in {0, 1}
  BY <1>1, OneBit DEF ExactModel, Models
<1>4. ASSUME NEW F, NEW j \in Ids PROVE Body(j, F) \in {0, 1}
  BY <1>2, <1>3 DEF AigAnd
<1>5. \A j \in A \ S : N(j).k = "and"
  <2>1. \A j \in A \ S : Kids(j) # {}
    BY <1>2, AboveFacts
  <2> QED
    BY <1>1, <1>2, <2>1, KidsFacts
<1>6. ASSUME NEW F \in Models, NEW j \in A \ S PROVE NodeValue(N(j), F) = Body(j, F)
  <2>1. NodeValue(N(j), F) = AigAnd(j, F)
    BY <1>2, <1>5, AigAndValue
  <2> QED
    BY <2>1
<1>7. TypedMove(c) /\ DOMAIN c = S /\ c[i] = v
  BY <1>2 DEF TypedMove
<1> HIDE DEF c
<1>8. /\ ExactModel(W) /\ W[i] = v
      /\ \A j \in Ids \ A : W[j] = m0[j]
  <2>1. DOMAIN c = S
    BY <1>7
  <2>2. LET mm == Assign(m0, c, Cone(DOMAIN c))
         IN /\ ExactModel(mm)
            /\ \A j \in Ids \ (DOMAIN c \cup Cone(DOMAIN c)) : mm[j] = m0[j]
            /\ DOMAIN c \cup Cone(DOMAIN c) = Above(DOMAIN c)
            /\ \A j \in DOMAIN c : mm[j] = c[j]
    BY <1>7, MoveExact
  <2> QED
    BY <1>7, <2>1, <2>2
<1> HIDE DEF W
<1>9. \A j \in Ids : W[j] = Body(j, W)
  <2> SUFFICES ASSUME NEW j \in Ids PROVE W[j] = Body(j, W)
    OBVIOUS
  <2>1. CASE j = i
    BY <1>8, <2>1
  <2>2. CASE j \notin A
    BY <1>2, <1>8, <2>2
  <2>3. CASE j \in A \ S
    <3>1. j \in Ids \ Inputs /\ W \in Models
      BY <1>5, <1>8, <2>3 DEF Inputs, ExactModel
    <3>2. W[j] = NodeValue(N(j), W)
      BY <1>8, <3>1 DEF ExactModel
    <3> QED
      BY <1>6, <2>3, <3>1, <3>2
  <2> QED
    BY <2>1, <2>2, <2>3
<1>10. W = [j \in Ids |-> W[j]]
  BY <1>8 DEF ExactModel, Models
<1> HIDE DEF Body
<1>11. W = [j \in Ids |-> Body(j, W)]
  BY <1>9, <1>10
<1>12. m = [j \in Ids |-> Body(j, m)]
  BY <1>11
<1> HIDE DEF m
<1>13. \A j \in Ids : m[j] = Body(j, m)
  BY <1>12
<1>14. m = [j \in Ids |-> m[j]]
  BY <1>12, <1>13
<1>15. m \in Models
  BY <1>4, <1>13, <1>14, AigModels
<1>16. \A j \in Ids \ A : m[j] = m0[j]
  BY <1>2, <1>13 DEF Body
<1>17. \A j \in A \ S : m[j] = NodeValue(N(j), m)
  BY <1>2, <1>6, <1>13, <1>15
<1>18. ExactModel(m)
  BY <1>2, <1>15, <1>16, <1>17, UpdateExact
<1> QED
  BY <1>14, <1>16, <1>18 DEF m, Body, AigAnd, AigMoved

-----------------------------------------------------------------------------
(* Formulas without a model *)

Impossible == \A m : ExactModel(m) => \E p \in Roots : ValueIn(m, p) # 1

(* Then the enumeration of the inputs' values finds none either. *)
LEMMA NoSolutions ==
  ASSUME f \in Programs, Impossible
  PROVE  Solutions = {}
<1> DEFINE cone == Ids \ Inputs
           P == Product(Inputs, LAMBDA i : Values(N(i).w))
<1>1. ASSUME NEW c \in P PROVE ExactModel(Assign(Empty, c, cone))
  <2> DEFINE m == Assign(Empty, c, cone)
  <2>1. DOMAIN c = Inputs /\ \A i \in Inputs : c[i] \in Values(N(i).w)
    BY DEF Product
  <2>2. \A i \in Ids : /\ i \in DOMAIN c => c[i] \in Values(N(i).w)
                       /\ i \notin DOMAIN c /\ i \in cone => N(i).k # "var"
                       /\ i \notin DOMAIN c /\ i \notin cone => Empty[i] \in Values(N(i).w)
    BY <2>1 DEF Inputs
  <2> HIDE DEF cone
  <2>3. m \in Models /\ \A i \in Ids : m[i] = AssignBody(Empty, c, cone, i, m)
    BY <2>2, AssignFacts
  <2> HIDE DEF m
  <2>4. \A i \in Ids \ Inputs : m[i] = NodeValue(N(i), m)
    BY <2>1, <2>3 DEF AssignBody, cone
  <2> QED
    BY <2>3, <2>4 DEF ExactModel, m
<1> SUFFICES ASSUME NEW m \in Solutions PROVE FALSE
  OBVIOUS
<1>2. m \in {Assign(Empty, c, cone) : c \in P} /\ \A p \in Roots : ValueIn(m, p) = 1
  BY DEF Solutions
<1> HIDE DEF P
<1>3. PICK c \in P : m = Assign(Empty, c, cone)
  BY <1>2
<1> QED
  BY <1>1, <1>2, <1>3 DEF Impossible

(* A root and its negation, or a root that is constantly false. *)
LEMMA RootsImpossible ==
  ASSUME f \in Programs
  PROVE  /\ ~NoOpposites => Impossible
         /\ \A m : ExactModel(m) /\ (\E p \in BadRoots(m) : ConstPtr(p)) => Impossible
<1>1. ASSUME ~NoOpposites PROVE Impossible
  <2>1. PICK p \in Roots : -p \in Roots
    BY <1>1 DEF NoOpposites
  <2>2. \A m \in Models : ValueIn(m, p) # 1 \/ ValueIn(m, -p) # 1
    BY RootValues
  <2> QED
    BY <2>1, <2>2 DEF Impossible, ExactModel
<1>2. ASSUME NEW m, ExactModel(m), NEW p \in BadRoots(m), ConstPtr(p) PROVE Impossible
  <2>1. p \in Roots /\ ValueIn(m, p) = 0 /\ p \in Ptrs
    BY RootFacts DEF BadRoots
  <2>2. \A m1 : ExactModel(m1) => ValueIn(m1, p) = ValueIn(m, p)
    BY <1>2, <2>1, ConstExact
  <2> QED
    BY <2>1, <2>2 DEF Impossible
<1> QED
  BY <1>1, <1>2

(* No input is found below a violated root, whichever false operand of a    *)
(* conjunction is followed: then the root is false in every model.          *)
LEMMA NoCandidates ==
  ASSUME f \in Programs, ExactModel(model), NEW root \in BadRoots(model), NEW ch \in Justifications,
         Candidates(root, ch) = {}
  PROVE  Impossible
<1> DEFINE kids == [i \in Ids |-> IF JustAnd(i) THEN {Idx(N(i).e[ch[i]])} ELSE Kids(i)]
           D == Visited(root, ch)
<1>1. root \in Roots /\ root \in Ptrs /\ ValueIn(model, root) = 0 /\ Idx(root) \in Ids
  BY RootFacts, PtrFacts DEF BadRoots
<1>2. ASSUME NEW i \in Ids, JustAnd(i)
      PROVE  /\ DOMAIN N(i).e = {1, 2} /\ ch[i] \in {1, 2} /\ ValueIn(model, N(i).e[ch[i]]) = 0
             /\ N(i).e[ch[i]] \in Ptrs /\ Idx(N(i).e[ch[i]]) \in Kids(i) /\ N(Idx(N(i).e[ch[i]])).w = 1
  <2>1. DOMAIN N(i).e = {1, 2} /\ \A l \in {1, 2} : N(Idx(N(i).e[l])).w = 1
    BY <1>2, WidthFacts DEF JustAnd, WordKinds
  <2>2. ch[i] \in {1, 2} /\ ValueIn(model, N(i).e[ch[i]]) = 0
    BY <1>2 DEF Justifications
  <2> QED
    BY <2>1, <2>2, NodeFacts, KidsFacts
<1>3. kids \in [Ids -> SUBSET Ids] /\ \A i \in Ids : kids[i] \subseteq Kids(i)
  BY <1>2, KidsFacts
<1>4. \A i \in Ids : \A j \in kids[i] : j < i
  BY <1>3, KidsFacts
<1>5. \A i \in Ids : kids[i] = IF JustAnd(i) THEN {Idx(N(i).e[ch[i]])} ELSE Kids(i)
  OBVIOUS
<1>6. D = Down(kids, Idx(root))
  BY DEF Visited
<1> HIDE DEF kids
<1>7. D \subseteq Ids /\ Idx(root) \in D /\ \A i \in D : kids[i] \subseteq D
  BY <1>1, <1>3, <1>4, <1>6, DownFacts
<1>8. D \cap Inputs = {}
  BY DEF Candidates
<1> HIDE DEF D
<1>9. ASSUME NEW m, ExactModel(m) PROVE ValueIn(m, root) = 0
  <2> DEFINE Bad == {i \in D : m[i] # model[i]}
  <2>1. ASSUME NEW i \in D, \A j \in kids[i] : m[j] = model[j] PROVE m[i] = model[i]
    <3>1. i \in Ids \ Inputs /\ N(i).k # "var"
      BY <1>7, <1>8 DEF Inputs
    <3>2. m[i] = NodeValue(N(i), m) /\ model[i] = NodeValue(N(i), model)
      BY <1>9, <3>1 DEF ExactModel
    <3>3. CASE JustAnd(i)
      <4> DEFINE q == N(i).e[ch[i]]
      <4>1. m[Idx(q)] = model[Idx(q)]
        BY <1>5, <2>1, <3>1, <3>3
      <4>2. ValueIn(m, q) = 0 /\ q \in Ptrs /\ ch[i] \in {1, 2}
        BY <1>2, <3>1, <3>3, <4>1, PtrFacts DEF ValueIn
      <4>3. \A l \in {1, 2} : ValueIn(m, N(i).e[l]) \in {0, 1}
        <5>1. DOMAIN N(i).e = {1, 2} /\ \A l \in {1, 2} : N(Idx(N(i).e[l])).w = 1
          BY <3>1, <3>3, WidthFacts DEF JustAnd, WordKinds
        <5>2. \A l \in {1, 2} : N(i).e[l] \in Ptrs
          BY <3>1, <5>1, NodeFacts
        <5> QED
          BY <1>9, <5>1, <5>2, ModelFacts DEF ExactModel
      <4>4. NodeValue(N(i), m) = Meaning("and", 1, ValueIn(m, N(i).e[1]), ValueIn(m, N(i).e[2]))
        BY <3>1, <3>3, WidthFacts DEF NodeValue, JustAnd, WordKinds
      <4>5. NodeValue(N(i), m) = 0
        BY <4>2, <4>3, <4>4, AndOneBit
      <4> QED
        BY <3>2, <3>3, <4>5 DEF JustAnd
    <3>4. CASE ~JustAnd(i)
      <4>1. \A j \in DOMAIN N(i).e : m[Idx(N(i).e[j])] = model[Idx(N(i).e[j])]
        BY <1>5, <2>1, <3>1, <3>4, KidsFacts
      <4>2. NodeValue(N(i), m) = NodeValue(N(i), model)
        BY <3>1, <4>1, NodeValueSame
      <4> QED
        BY <3>2, <4>2
    <3> QED
      BY <3>3, <3>4
  <2>2. Bad = {}
    <3> SUFFICES ASSUME Bad # {} PROVE FALSE
      OBVIOUS
    <3>1. PICK i \in Bad : \A j \in Bad : i <= j
      <4>1. Bad \subseteq Nat
        BY <1>7, NodeFacts
      <4> QED
        BY <4>1, LeastNumber
    <3>2. \A j \in kids[i] : j \in D /\ j \notin Bad
      <4>1. \A j \in kids[i] : j \in D /\ j < i /\ j \in Nat /\ i \in Nat
        BY <1>4, <1>7, NodeFacts
      <4> QED
        BY <3>1, <4>1
    <3> QED
      BY <2>1, <3>2
  <2>3. m[Idx(root)] = model[Idx(root)]
    BY <1>7, <2>2
  <2> QED
    BY <1>1, <2>3, PtrFacts DEF ValueIn
<1> QED
  BY <1>1, <1>9 DEF Impossible

-----------------------------------------------------------------------------
(* Neighbours *)

(* Flipping a range of bits stays within the width. *)
LEMMA FlipRangeType ==
  ASSUME NEW w \in 1..MaxWidth, NEW a \in Values(w), NEW up \in 0..w - 1, NEW lo \in 0..w - 1
  PROVE  FlipRange(a, up, lo) \in Values(w)
<1> DEFINE D == lo..up + 1
           V == Values(w)
           Body(j, F) == IF j = lo THEN a ELSE Flip(F[j - 1], j - 1)
           step == [x \in D \X [D -> V] |-> Body(x[1], x[2])]
           rank == [j \in D |-> j]
           g == CHOOSE g : g = [j \in D |-> Body(j, g)]
<1>0. w \in Nat /\ lo \in Nat /\ up \in Nat
      /\ \A j \in D : j \in Nat /\ (j # lo => j - 1 \in D /\ j - 1 \in 0..w - 1)
  BY PowerAssumption
<1>1. CASE up < lo
  BY <1>1 DEF FlipRange
<1>2. CASE ~(up < lo)
  <2>1. ASSUME NEW F, NEW j \in D, j # lo => F[j - 1] \in V PROVE Body(j, F) \in V
    BY <1>0, <2>1, FlipType
  <2>2. \A j \in D : \A F \in [D -> V] : step[<<j, F>>] = Body(j, F)
    OBVIOUS
  <2>3. step \in [D \X [D -> V] -> V]
    <3>1. \A j \in D : \A F \in [D -> V] : Body(j, F) \in V
      BY <1>0, <2>1
    <3> HIDE DEF Body, V
    <3> QED
      BY <3>1
  <2>4. rank \in [D -> Nat]
    BY <1>0
  <2>5. ASSUME NEW j \in D, NEW F \in [D -> V], NEW G \in [D -> V],
               \A l \in D : rank[l] < rank[j] => F[l] = G[l]
        PROVE  step[<<j, F>>] = step[<<j, G>>]
    <3>1. j # lo => F[j - 1] = G[j - 1]
      BY <1>0, <2>5
    <3> QED
      BY <2>2, <3>1
  <2> HIDE DEF step, rank, V
  <2>6. Solvable(D, V, step)
    <3> HIDE DEF D
    <3> QED
      BY <2>3, <2>4, <2>5, RankedRecursion DEF V
  <2>7. PICK F \in [D -> V] : \A j \in D : F[j] = Body(j, F)
    BY <2>2, <2>6 DEF Solvable
  <2>8. F = [j \in D |-> Body(j, F)]
    <3>1. F = [j \in D |-> F[j]]
      OBVIOUS
    <3> HIDE DEF Body, D
    <3> QED
      BY <2>7, <3>1
  <2>9. g = [j \in D |-> Body(j, g)]
    BY <2>8
  <2>10. FlipRange(a, up, lo) = g[up + 1]
    BY <1>2 DEF FlipRange
  <2> HIDE DEF g
  <2>11. \A j \in D : g[j] = Body(j, g)
    <3> HIDE DEF Body, D
    <3> QED
      BY <2>9
  <2>12. \A j \in D : g[j] \in V
    <3> DEFINE Bad == {j \in D : g[j] \notin V}
    <3> SUFFICES ASSUME Bad # {} PROVE FALSE
      OBVIOUS
    <3>1. PICK j \in Bad : \A l \in Bad : j <= l
      <4>1. Bad \subseteq Nat
        BY <1>0
      <4> QED
        BY <4>1, LeastNumber
    <3>2. j # lo => g[j - 1] \in V
      BY <1>0, <3>1
    <3> QED
      BY <2>1, <2>11, <3>2
  <2>13. up + 1 \in D
    BY <1>0, <1>2
  <2> QED
    BY <2>10, <2>12, <2>13 DEF V
<1> QED
  BY <1>1, <1>2

(* Incrementing, decrementing and complementing wrap around. *)
LEMMA StepType ==
  ASSUME NEW w \in 1..MaxWidth, NEW a \in Values(w)
  PROVE  (a + 1) % 2^w \in Values(w) /\ (a - 1) % 2^w \in Values(w) /\ Ones(w) - a \in Values(w)
<1>1. w \in 0..MaxWidth + 1
  BY PowerAssumption
<1>2. 2^w \in Nat \ {0} /\ a \in Nat /\ Ones(w) - a \in Values(w)
  BY <1>1, ValuesType
<1>3. \A x \in Int, d \in Nat \ {0} : x % d \in Nat /\ x % d < d
  OBVIOUS
<1>4. \A x \in Int : x % 2^w \in Nat /\ x % 2^w < 2^w
  BY <1>2, <1>3
<1>5. a + 1 \in Int /\ a - 1 \in Int
  BY <1>2
<1> DEFINE x == (a + 1) % 2^w
           y == (a - 1) % 2^w
<1>6. x \in Nat /\ x < 2^w /\ y \in Nat /\ y < 2^w
  BY <1>4, <1>5
<1> HIDE DEF x, y
<1>7. x \in Values(w) /\ y \in Values(w)
  BY <1>1, <1>6, ValuesType
<1> QED
  BY <1>2, <1>7 DEF x, y

(* A neighbour that a random walk chooses fits the width. *)
LEMMA RandomNeighboursType ==
  ASSUME NEW w \in 1..MaxWidth, NEW a \in Values(w)
  PROVE  RandomNeighbours(a, w) \subseteq Values(w)
<1>1. w \in Nat \ {0}
  BY PowerAssumption
<1>2. \A j \in 0..w - 1 : Flip(a, j) \in Values(w)
  BY FlipType
<1>3. \A up \in 0..w - 1, lo \in 0..w - 1 : FlipRange(a, up, lo) \in Values(w)
  BY FlipRangeType
<1>4. Min({1, w - 1})..w - 1 \subseteq 0..w - 1
  BY <1>1, PairFacts
<1> DEFINE F == {Flip(a, j) : j \in 0..w - 1}
           S == {(a + 1) % 2^w, (a - 1) % 2^w, Ones(w) - a}
           G == {FlipRange(a, up, 0) : up \in Min({1, w - 1})..w - 1}
           P == {s \in (0..w - 1) \X (0..w - 1) : s[1] < s[2] \/ (s[1] = s[2] /\ s[1] = w - 1)}
           H == {FlipRange(a, s[2], s[1]) : s \in P}
<1>5. F \subseteq Values(w) /\ S \subseteq Values(w)
  BY <1>2, StepType
<1>6. G \subseteq Values(w)
  BY <1>1, <1>3, <1>4
<1>7. H \subseteq Values(w)
  <2>1. \A s \in P : s[1] \in 0..w - 1 /\ s[2] \in 0..w - 1
    OBVIOUS
  <2> HIDE DEF P
  <2> QED
    BY <1>3, <2>1
<1>8. RandomNeighbours(a, w) = F \cup S \cup (IF f.o.range THEN G ELSE {}) \cup (IF f.o.segment THEN H ELSE {})
  BY DEF RandomNeighbours
<1> HIDE DEF F, S, G, H
<1> QED
  BY <1>5, <1>6, <1>7, <1>8

Position(at) ==
  /\ DOMAIN at = {"k", "seg", "up", "ends"}
  /\ at.k \in Nat \ {0} /\ at.seg \in Nat \ {0} /\ at.up \in Nat

(* The kinds of moves. *)
LEMMA KindFacts ==
  /\ Len(Kinds) = 6 /\ DOMAIN Kinds = 1..6
  /\ \A k \in 1..6 : Kinds[k] \in {"flip", "inc", "dec", "not", "range", "segment"}
  BY DEF Kinds

(* A neighbour in the order of select_move fits the width. *)
LEMMA NeighboursType ==
  ASSUME NEW w \in 1..MaxWidth, NEW a \in Values(w), NEW at, Position(at), at.k <= Len(Kinds)
  PROVE  Neighbours(at, a, w) \subseteq Values(w)
<1> DEFINE up == Min({at.up, w - 1})
           lo == (at.up - at.seg + 1) % UintValues
           clo == IF lo >= w - 1 THEN Max({0, w - at.seg}) ELSE lo
           k == Kinds[at.k]
<1>0. w \in Nat \ {0} /\ at.up \in Nat /\ at.seg \in Nat \ {0} /\ at.k \in Nat \ {0} /\ UintValues \in Nat \ {0}
  BY PowerAssumption, LocalSearchAssumption DEF Position
<1>1. up \in 0..w - 1
  BY <1>0, PairFacts
<1>2. lo \in Nat
  <2>1. \A x \in Int, d \in Nat \ {0} : x % d \in Nat
    OBVIOUS
  <2>2. at.up - at.seg + 1 \in Int
    BY <1>0
  <2> QED
    BY <1>0, <2>1, <2>2
<1>3. clo \in 0..w - 1
  <2>1. Max({0, w - at.seg}) = IF 0 >= w - at.seg THEN 0 ELSE w - at.seg
    <3> DEFINE d == w - at.seg
    <3>1. d \in Int /\ 0 \in Int
      BY <1>0
    <3> HIDE DEF d
    <3>2. Max({0, d}) = IF 0 >= d THEN 0 ELSE d
      BY <3>1, PairFacts
    <3> QED
      BY <3>2 DEF d
  <2> HIDE DEF lo
  <2> QED
    BY <1>0, <1>2, <2>1
<1>4. at.up % w \in 0..w - 1
  <2>1. at.up % w \in Nat /\ at.up % w < w
    BY <1>0, Division
  <2> QED
    BY <1>0, <2>1
<1>5. k \in {"flip", "inc", "dec", "not", "range", "segment"}
  <2>1. at.k \in 1..6
    BY <1>0, KindFacts
  <2> QED
    BY <2>1, KindFacts
<1>6. /\ k = "flip" => Neighbours(at, a, w) = {Flip(a, at.up % w)}
      /\ k = "inc" => Neighbours(at, a, w) = {(a + 1) % 2^w}
      /\ k = "dec" => Neighbours(at, a, w) = {(a - 1) % 2^w}
      /\ k = "not" => Neighbours(at, a, w) = {Ones(w) - a}
      /\ k = "range" => Neighbours(at, a, w) = {FlipRange(a, up, 0), FlipRange(a, w - 1, w - 1 - up)}
      /\ k = "segment" => Neighbours(at, a, w) = {FlipRange(a, up, clo), FlipRange(a, w - 1 - clo, w - 1 - up)}
  BY DEF Neighbours
<1> HIDE DEF up, clo, k
<1>7. Flip(a, at.up % w) \in Values(w)
  BY <1>4, FlipType
<1>8. /\ FlipRange(a, up, 0) \in Values(w) /\ FlipRange(a, w - 1, w - 1 - up) \in Values(w)
      /\ FlipRange(a, up, clo) \in Values(w) /\ FlipRange(a, w - 1 - clo, w - 1 - up) \in Values(w)
  <2>1. 0 \in 0..w - 1 /\ w - 1 \in 0..w - 1 /\ w - 1 - up \in 0..w - 1 /\ w - 1 - clo \in 0..w - 1
    BY <1>0, <1>1, <1>3
  <2> QED
    BY <1>1, <1>3, <2>1, FlipRangeType
<1> QED
  BY <1>5, <1>6, <1>7, <1>8, StepType

(* Every way on leads to a position. *)
LEMMA PositionFacts ==
  /\ Position(First(1))
  /\ \A k \in Nat \ {0} : Position(NextKind(k))
  /\ \A at : Position(at) => \A ends, n : Position(NextPosition(at, ends, n))
<1>0. UintValues \in Nat \ {0} /\ Len(Kinds) = 6
  BY LocalSearchAssumption, KindFacts
<1>1. ASSUME NEW k \in Nat \ {0} PROVE Position(First(k))
  <2>1. First(k).k = k /\ First(k).seg = 2 /\ First(k).up \in {0, 1}
        /\ DOMAIN First(k) = {"k", "seg", "up", "ends"}
    BY DEF First
  <2> QED
    BY <2>1 DEF Position
<1>2. ASSUME NEW k \in Nat \ {0} PROVE Position(NextKind(k))
  <2> DEFINE S == {l \in k + 1..Len(Kinds) : Enabled(Kinds[l])} \cup {Len(Kinds) + 1}
  <2>1. S \subseteq Nat \ {0} /\ S # {}
    BY <1>0
  <2>2. NextKind(k) = First(Min(S))
    BY DEF NextKind
  <2> HIDE DEF S
  <2>3. Min(S) \in S
    <3>1. \E x \in S : \A y \in S : x <= y
      <4>1. S \subseteq Nat
        BY <2>1
      <4> QED
        BY <2>1, <4>1, LeastNumber
    <3> QED
      BY <3>1 DEF Min
  <2>4. Min(S) \in Nat \ {0}
    BY <2>1, <2>3
  <2> QED
    BY <1>1, <2>2, <2>4
<1>3. ASSUME NEW at, Position(at), NEW ends, NEW n PROVE Position(NextPosition(at, ends, n))
  <2>1. /\ DOMAIN at = {"k", "seg", "up", "ends"}
        /\ at.k \in Nat \ {0} /\ at.seg \in Nat \ {0} /\ at.up \in Nat
    BY <1>3 DEF Position
  <2>2. (2 * at.up + 1) % UintValues \in Nat /\ (at.up + at.seg) % UintValues \in Nat /\ at.up + 1 \in Nat
        /\ 2 * at.seg \in Nat \ {0} /\ 2 * at.seg - 1 \in Nat
    <3>1. 2 * at.up + 1 \in Nat /\ at.up + at.seg \in Nat
      BY <2>1
    <3>2. (2 * at.up + 1) % UintValues \in Nat /\ (at.up + at.seg) % UintValues \in Nat
      BY <1>0, <3>1, Division
    <3> QED
      BY <2>1, <3>2
  <2>3. ASSUME NEW u \in Nat, NEW x PROVE Position([at EXCEPT !.up = u, !.ends = x])
    <3> DEFINE b == [at EXCEPT !.up = u, !.ends = x]
    <3>1. DOMAIN b = {"k", "seg", "up", "ends"} /\ b.k = at.k /\ b.seg = at.seg /\ b.up = u
      BY <2>1
    <3> HIDE DEF b
    <3> QED
      BY <2>1, <3>1 DEF Position, b
  <2>4. ASSUME NEW u \in Nat, NEW s \in Nat \ {0} PROVE Position([at EXCEPT !.seg = s, !.up = u, !.ends = 0])
    <3> DEFINE b == [at EXCEPT !.seg = s, !.up = u, !.ends = 0]
    <3>1. DOMAIN b = {"k", "seg", "up", "ends"} /\ b.k = at.k /\ b.seg = s /\ b.up = u
      BY <2>1
    <3> HIDE DEF b
    <3> QED
      BY <2>1, <3>1 DEF Position, b
  <2>5. \/ NextPosition(at, ends, n) = [at EXCEPT !.up = (2 * @ + 1) % UintValues, !.ends = ends]
        \/ NextPosition(at, ends, n) = [at EXCEPT !.up = (@ + at.seg) % UintValues, !.ends = ends]
        \/ NextPosition(at, ends, n) = [at EXCEPT !.up = @ + 1, !.ends = ends]
        \/ NextPosition(at, ends, n) = [at EXCEPT !.seg = 2 * @, !.up = 2 * at.seg - 1, !.ends = 0]
        \/ NextPosition(at, ends, n) = NextKind(at.k)
    BY DEF NextPosition
  <2>6. CASE NextPosition(at, ends, n) = [at EXCEPT !.up = (2 * @ + 1) % UintValues, !.ends = ends]
    BY <2>2, <2>3, <2>6
  <2>7. CASE NextPosition(at, ends, n) = [at EXCEPT !.up = (@ + at.seg) % UintValues, !.ends = ends]
    BY <2>2, <2>3, <2>7
  <2>8. CASE NextPosition(at, ends, n) = [at EXCEPT !.up = @ + 1, !.ends = ends]
    BY <2>2, <2>3, <2>8
  <2>9. CASE NextPosition(at, ends, n) = [at EXCEPT !.seg = 2 * @, !.up = 2 * at.seg - 1, !.ends = 0]
    BY <2>2, <2>4, <2>9
  <2>10. CASE NextPosition(at, ends, n) = NextKind(at.k)
    BY <1>2, <2>1, <2>10
  <2> QED
    BY <2>5, <2>6, <2>7, <2>8, <2>9, <2>10
<1> QED
  BY <1>1, <1>2, <1>3

-----------------------------------------------------------------------------
(* The values that a propagation passes down *)

(* A bounded set of numbers has a greatest element. *)
LEMMA GreatestNumber ==
  ASSUME NEW n \in Nat, NEW S, S \subseteq 0..n, S # {}
  PROVE  Max(S) \in S
<1> DEFINE T == {n - x : x \in S}
<1>1. T \subseteq Nat /\ T # {}
  <2>1. \A x \in S : n - x \in Nat
    OBVIOUS
  <2>2. PICK x : x \in S
    OBVIOUS
  <2>3. n - x \in T
    BY <2>2
  <2> QED
    BY <2>1, <2>3
<1>2. PICK y \in T : \A z \in T : y <= z
  <2> HIDE DEF T
  <2> QED
    BY <1>1, LeastNumber
<1>3. PICK x \in S : y = n - x
  OBVIOUS
<1>4. \A z \in S : x >= z
  <2> SUFFICES ASSUME NEW z \in S PROVE x >= z
    OBVIOUS
  <2>1. n - z \in T
    OBVIOUS
  <2>2. n - x <= n - z
    BY <1>2, <1>3, <2>1
  <2>3. x \in Nat /\ z \in Nat
    OBVIOUS
  <2> QED
    BY <2>2, <2>3
<1> QED
  BY <1>4 DEF Max

(* Counting the zeros at either end of a word. *)
LEMMA ZerosType ==
  ASSUME NEW w \in 1..MaxWidth, NEW a \in Values(w)
  PROVE  /\ TrailingZeros(a, w) \in 0..w /\ LeadingZeros(a, w) \in 0..w
         /\ TrailingZeros(0, w) = w /\ LeadingZeros(0, w) = w
<1>0. w \in Nat \ {0} /\ MaxWidth \in Nat
  BY PowerAssumption
<1>1. TrailingZeros(a, w) \in 0..w
  <2> DEFINE S == {w} \cup {j \in 0..w - 1 : BitOf(a, j) = 1}
  <2>1. S \subseteq 0..w /\ S \subseteq Nat /\ S # {}
    BY <1>0
  <2> HIDE DEF S
  <2>2. \E x \in S : \A y \in S : x <= y
    BY <2>1, LeastNumber
  <2>3. Min(S) \in S
    BY <2>2 DEF Min
  <2> QED
    BY <2>1, <2>3 DEF TrailingZeros, S
<1>2. LeadingZeros(a, w) \in 0..w
  <2> DEFINE S == {0} \cup {j + 1 : j \in {l \in 0..w - 1 : BitOf(a, l) = 1}}
  <2>1. S \subseteq 0..w /\ S # {}
    BY <1>0
  <2>2. LeadingZeros(a, w) = w - Max(S)
    BY DEF LeadingZeros
  <2> HIDE DEF S
  <2>3. Max(S) \in 0..w
    BY <1>0, <2>1, GreatestNumber
  <2> QED
    BY <1>0, <2>2, <2>3
<1>3. \A j \in 0..w - 1 : BitOf(0, j) = 0
  <2> SUFFICES ASSUME NEW j \in 0..w - 1 PROVE BitOf(0, j) = 0
    OBVIOUS
  <2>1. j \in 0..MaxWidth + 1
    BY <1>0
  <2>2. 2^j \in Nat \ {0}
    BY <2>1, PowerType
  <2>3. \A d \in Nat \ {0} : 0 \div d = 0
    OBVIOUS
  <2>4. 0 \div 2^j = 0 /\ 0 % 2 = 0
    BY <2>2, <2>3
  <2> QED
    BY <2>4 DEF BitOf
<1>4. TrailingZeros(0, w) = w
  <2>1. {w} \cup {j \in 0..w - 1 : BitOf(0, j) = 1} = {w}
    BY <1>3
  <2>2. Min({w}) = w
    BY <1>0 DEF Min
  <2> QED
    BY <2>1, <2>2 DEF TrailingZeros
<1>5. LeadingZeros(0, w) = w
  <2>1. {0} \cup {j + 1 : j \in {l \in 0..w - 1 : BitOf(0, l) = 1}} = {0}
    BY <1>3
  <2>2. Max({0}) = 0
    BY DEF Max
  <2> QED
    BY <1>0, <2>1, <2>2 DEF LeadingZeros
<1> QED
  BY <1>1, <1>2, <1>4, <1>5

(* A node whose operands have its width, its target and its operands. *)
WordStep(p) ==
  /\ p.w \in 1..MaxWidth /\ p.t \in Values(p.w)
  /\ \A i \in {0, 1} : Operand(p, i) \in Values(p.w) /\ OtherValue(p, i) \in Values(p.w)

(* The numbers that a step over words is about. *)
LEMMA WordFacts ==
  ASSUME NEW p, WordStep(p)
  PROVE  /\ p.w \in Nat \ {0} /\ Ones(p.w) \in Nat /\ p.w <= Ones(p.w) /\ 2^p.w \in Nat \ {0}
         /\ Values(p.w) = 0..Ones(p.w) /\ p.t \in 0..Ones(p.w)
         /\ \A i \in {0, 1} : Operand(p, i) \in 0..Ones(p.w) /\ OtherValue(p, i) \in 0..Ones(p.w)
         /\ p.v[1] \in 0..Ones(p.w) /\ p.v[2] \in 0..Ones(p.w)
         /\ \A x \in Nat : x < 2^p.w => x \in Values(p.w)
<1>1. p.w \in Nat \ {0} /\ p.w \in 0..MaxWidth + 1
  BY PowerAssumption DEF WordStep
<1>2. Ones(p.w) \in Nat /\ p.w <= Ones(p.w) /\ Values(p.w) = 0..Ones(p.w) /\ 2^p.w \in Nat \ {0}
      /\ \A x \in Nat : x < 2^p.w => x \in Values(p.w)
  BY <1>1, ValuesType
<1>3. Operand(p, 0) = p.v[1] /\ Operand(p, 1) = p.v[2]
  BY DEF Operand
<1> QED
  BY <1>1, <1>2, <1>3 DEF WordStep

(* The consistent values for the operators on words. *)
LEMMA ConsWords ==
  ASSUME NEW p, WordStep(p), NEW i \in {0, 1}, NEW o
  PROVE  /\ ConsAnd(p, i, o) \subseteq Values(p.w)
         /\ ConsSll(p, i) \subseteq Values(p.w) /\ ConsSrl(p, i) \subseteq Values(p.w)
         /\ ConsMul(p) \subseteq Values(p.w)
         /\ ConsUdiv(p, i) \subseteq Values(p.w) /\ ConsUrem(p, i) \subseteq Values(p.w)
<1> DEFINE w == p.w
           t == p.t
           max == Ones(p.w)
<1>1. /\ w \in Nat \ {0} /\ max \in Nat /\ w <= max /\ Values(w) = 0..max /\ t \in 0..max
      /\ w \in 1..MaxWidth /\ t \in Values(w) /\ Operand(p, i) \in Values(w)
  BY WordFacts DEF WordStep
<1>2. ConsAnd(p, i, o) \subseteq Values(w)
  <2> DEFINE base == Operand(p, i) + t - And(w, Operand(p, i), t)
             set == {r \in Values(w) : And(w, r, t) = t}
             free == {j \in 0..w - 1 : BitOf(t, j) = 0}
             fl == {Flip(base, j) : j \in free}
  <2>1. base \in Values(w)
    BY <1>1, AndType
  <2>2. fl \subseteq Values(w)
    <3> HIDE DEF base, w
    <3> QED
      BY <1>1, <2>1, FlipType
  <2>3. set \subseteq Values(w)
    OBVIOUS
  <2>4. ConsAnd(p, i, o) = set \cup (IF o.flips THEN fl ELSE {})
    BY DEF ConsAnd
  <2> HIDE DEF fl, set
  <2> QED
    BY <2>2, <2>3, <2>4
<1>3. ASSUME NEW zeros \in 0..w PROVE 0..(IF zeros = w THEN zeros - 1 ELSE zeros) \subseteq Values(w)
  <2> HIDE DEF w, max
  <2> QED
    BY <1>1
<1>4. ConsSll(p, i) \subseteq Values(w)
  <2> DEFINE zeros == TrailingZeros(t, w)
             shifts == 0..(IF zeros = w THEN zeros - 1 ELSE zeros)
  <2>1. shifts \subseteq Values(w)
    BY <1>1, <1>3, ZerosType
  <2>2. UNION {SameLow(w, t \div 2^s, w - s) : s \in shifts} \subseteq Values(w)
    BY DEF SameLow
  <2>3. ConsSll(p, i) = IF i = 1 THEN shifts ELSE UNION {SameLow(w, t \div 2^s, w - s) : s \in shifts}
    BY DEF ConsSll
  <2> HIDE DEF shifts
  <2> QED
    BY <2>1, <2>2, <2>3
<1>5. ConsSrl(p, i) \subseteq Values(w)
  <2> DEFINE zeros == LeadingZeros(t, w)
             shifts == 0..(IF zeros = w THEN zeros - 1 ELSE zeros)
             high == UNION {SameHigh(w, (t * 2^s) % 2^w, w - s) : s \in shifts}
  <2>1. shifts \subseteq Values(w)
    BY <1>1, <1>3, ZerosType
  <2>2. high \subseteq Values(w)
    BY DEF SameHigh
  <2>3. ConsSrl(p, i) = IF i = 1 THEN shifts ELSE high
    BY DEF ConsSrl
  <2> HIDE DEF shifts, high
  <2> QED
    BY <2>1, <2>2, <2>3
<1>6. ConsMul(p) \subseteq Values(w)
  <2>1. 1..Ones(p.w) \subseteq Values(p.w)
    BY <1>1
  <2> QED
    BY <2>1 DEF ConsMul
<1>7. ConsUdiv(p, i) \subseteq Values(w)
  <2> DEFINE factors == {r \in 1..max : ~Overflows(w, r, t)}
             mults == {r * t : r \in factors}
  <2>1. factors \subseteq Values(w) /\ {0, 1} \subseteq Values(w) /\ 0..max - 1 \subseteq Values(w)
    <3> HIDE DEF w, max
    <3> QED
      BY <1>1
  <2>2. mults \subseteq Values(w)
    <3> SUFFICES ASSUME NEW r \in factors PROVE r * t \in Values(w)
      OBVIOUS
    <3>1. r \in Nat /\ t \in Nat /\ ~(r * t > max)
      BY <1>1 DEF Overflows
    <3>2. r * t \in Nat
      BY <3>1
    <3> QED
      BY <1>1, <3>1, <3>2
  <2>3. ConsUdiv(p, i) = CASE i = 1 /\ t = max -> {0, 1}
                           [] i = 1 /\ t # max -> factors
                           [] i = 0 /\ t = 0 -> 0..max - 1
                           [] i = 0 /\ t = max -> Values(w)
                           [] OTHER -> mults
    BY DEF ConsUdiv
  <2> HIDE DEF factors, mults, w, max, t
  <2> QED
    BY <2>1, <2>2, <2>3
<1>8. ConsUrem(p, i) \subseteq Values(w)
  <2>1. {0} \subseteq Values(w) /\ t + 1..max \subseteq Values(w) /\ t..max \subseteq Values(w)
    <3> HIDE DEF w, max, t
    <3> QED
      BY <1>1
  <2>2. ConsUrem(p, i) = CASE i = 1 /\ t = max -> {0}
                           [] i = 1 /\ t # max -> t + 1..max
                           [] OTHER -> t..max
    BY DEF ConsUrem
  <2> HIDE DEF w, max, t
  <2> QED
    BY <2>1, <2>2
<1> QED
  BY <1>2, <1>4, <1>5, <1>6, <1>7, <1>8


(* The inverse values for the operators on words. *)
LEMMA InvWords ==
  ASSUME NEW p, WordStep(p), NEW i \in {0, 1}
  PROVE  /\ InvAdd(p, i) \subseteq Values(p.w) /\ InvAnd(p, i) \subseteq Values(p.w)
         /\ InvSll(p, i) \subseteq Values(p.w) /\ InvSrl(p, i) \subseteq Values(p.w)
         /\ InvMul(p, i) \subseteq Values(p.w)
<1> DEFINE w == p.w
           t == p.t
           s == OtherValue(p, i)
           max == Ones(p.w)
<1>1. /\ w \in Nat \ {0} /\ max \in Nat /\ w <= max /\ Values(w) = 0..max /\ t \in 0..max /\ s \in 0..max
      /\ w \in 1..MaxWidth /\ t \in Values(w) /\ s \in Values(w) /\ 2^w \in Nat \ {0}
      /\ \A x \in Nat : x < 2^w => x \in Values(w)
  BY WordFacts DEF WordStep
<1>2. InvAdd(p, i) \subseteq Values(w)
  <2>1. \A x \in Int, d \in Nat \ {0} : x % d \in Nat /\ x % d < d
    OBVIOUS
  <2>2. t - s \in Int
    BY <1>1
  <2> DEFINE r == (t - s) % 2^w
  <2>3. r \in Nat /\ r < 2^w
    BY <1>1, <2>1, <2>2
  <2> HIDE DEF r
  <2>4. r \in Values(w)
    BY <1>1, <2>3
  <2> QED
    BY <2>4 DEF r, InvAdd
<1>3. InvAnd(p, i) \subseteq Values(w)
  BY DEF InvAnd
<1>4. ASSUME NEW x \in 0..w, NEW y \in 0..w
      PROVE  /\ x - y \in Int
             /\ x - y >= 0 => {x - y} \subseteq Values(w)
             /\ x = w => x - y..max \subseteq Values(w)
  <2> HIDE DEF w, max
  <2> QED
    BY <1>1
<1>5. InvSll(p, i) \subseteq Values(w)
  <2> DEFINE zeros == TrailingZeros(t, w)
             tz == TrailingZeros(s, w)
             diff == zeros - tz
             shift == CutShift(w, s)
             out == Min({shift, w})
             low == SameLow(w, Meaning("srl", w, t, s), w - out)
             A == IF diff >= 0 /\ s % 2^(w - diff) = t \div 2^diff THEN {diff} ELSE {}
             B == IF (shift < w /\ zeros < shift) \/ (shift >= w /\ t # 0) THEN {} ELSE low
  <2>1. zeros \in 0..w /\ tz \in 0..w /\ (t = 0 => zeros = w)
    BY <1>1, ZerosType
  <2>2. low \subseteq Values(w)
    BY DEF SameLow
  <2>3. InvSll(p, i) = CASE i = 1 /\ s = 0 /\ t = 0 -> Values(w)
                         [] i = 1 /\ s # 0 /\ t = 0 -> diff..max
                         [] i = 1 /\ t # 0 -> A
                         [] i = 0 -> B
    BY DEF InvSll
  <2>4. A \subseteq Values(w) /\ (t = 0 => diff..max \subseteq Values(w))
    <3> HIDE DEF zeros, tz, w, t, s, max
    <3> QED
      BY <1>4, <2>1
  <2>5. B \subseteq Values(w)
    <3> HIDE DEF low
    <3> QED
      BY <2>2
  <2> HIDE DEF A, B, diff, w, t, s, max
  <2> QED
    BY <2>3, <2>4, <2>5
<1>6. InvSrl(p, i) \subseteq Values(w)
  <2> DEFINE zeros == LeadingZeros(t, w)
             tz == LeadingZeros(s, w)
             diff == zeros - tz
             shift == CutShift(w, s)
             out == Min({shift, w})
             high == SameHigh(w, Meaning("sll", w, t, s), w - out)
             A == IF diff >= 0 /\ s \div 2^diff = t % 2^(w - diff) THEN {diff} ELSE {}
             B == IF (shift < w /\ zeros < shift) \/ (shift >= w /\ t # 0) THEN {} ELSE high
  <2>1. zeros \in 0..w /\ tz \in 0..w /\ (t = 0 => zeros = w)
    BY <1>1, ZerosType
  <2>2. high \subseteq Values(w)
    BY DEF SameHigh
  <2>3. InvSrl(p, i) = CASE i = 1 /\ s = 0 /\ t = 0 -> Values(w)
                         [] i = 1 /\ s # 0 /\ t = 0 -> diff..max
                         [] i = 1 /\ t # 0 -> A
                         [] i = 0 -> B
    BY DEF InvSrl
  <2>4. A \subseteq Values(w) /\ (t = 0 => diff..max \subseteq Values(w))
    <3> HIDE DEF zeros, tz, w, t, s, max
    <3> QED
      BY <1>4, <2>1
  <2>5. B \subseteq Values(w)
    <3> HIDE DEF high
    <3> QED
      BY <2>2
  <2> HIDE DEF A, B, diff, w, t, s, max
  <2> QED
    BY <2>3, <2>4, <2>5
<1>7. InvMul(p, i) \subseteq Values(w)
  BY DEF InvMul, SameLow
<1> QED
  BY <1>2, <1>3, <1>5, <1>6, <1>7

(* The inverse values for division and remainder. *)
LEMMA InvDivision ==
  ASSUME NEW p, WordStep(p), NEW i \in {0, 1}
  PROVE  InvUdiv(p, i) \subseteq Values(p.w) /\ InvUrem(p, i) \subseteq Values(p.w)
<1> DEFINE w == p.w
           t == p.t
           max == Ones(p.w)
<1>1. /\ w \in Nat \ {0} /\ max \in Nat /\ w <= max /\ Values(w) = 0..max /\ t \in 0..max
      /\ p.v[1] \in 0..max /\ p.v[2] \in 0..max
  BY WordFacts
<1>2. {0, 1} \subseteq Values(w) /\ {0} \subseteq Values(w) /\ {max} \subseteq Values(w) /\ {t} \subseteq Values(w)
  <2> HIDE DEF w, t, max
  <2> QED
    BY <1>1
<1>3. InvDivisor(p) \subseteq Values(w)
  <2> DEFINE s == p.v[1]
             A == IF s = max THEN {0, 1} ELSE {0}
             B == s + 1..max
             C == IF s < t THEN {}
                  ELSE (IF s % t = 0 THEN {s \div t} ELSE {}) \cup s \div (t + 1) + 1..s \div t
  <2>1. InvDivisor(p) = CASE t = max -> A [] t = 0 /\ t # max -> B [] t # 0 /\ t # max -> C
    BY DEF InvDivisor
  <2>2. A \subseteq Values(w) /\ B \subseteq Values(w)
    <3> HIDE DEF w, t, max
    <3> QED
      BY <1>1, <1>2
  <2>3. t # 0 => C \subseteq Values(w)
    <3> SUFFICES ASSUME t # 0 PROVE C \subseteq Values(w)
      OBVIOUS
    <3>1. t \in Nat \ {0} /\ s \in Nat /\ t + 1 \in Nat \ {0} /\ s <= max
      BY <1>1
    <3> DEFINE q == s \div t
               r == s \div (t + 1)
    <3>2. q \in Nat /\ q <= s /\ r \in Nat
      BY <3>1, Division
    <3> HIDE DEF q, r
    <3>3. {q} \subseteq Values(w) /\ r + 1..q \subseteq Values(w)
      <4> HIDE DEF w, t, max, s
      <4> QED
        BY <1>1, <3>1, <3>2
    <3> QED
      BY <3>3 DEF q, r
  <2> HIDE DEF A, B, C, w, t, max
  <2> QED
    BY <2>1, <2>2, <2>3
<1>4. InvDividend(p) \subseteq Values(w)
  <2> DEFINE s == p.v[2]
             last == LastDividend(w, s, t)
             A == IF s = 1 THEN {max} ELSE IF s = 0 THEN Values(w) ELSE {}
             B == IF s = 0 \/ Overflows(w, s, t) THEN {} ELSE s * t..last
  <2>1. InvDividend(p) = CASE t = max -> A [] OTHER -> B
    BY DEF InvDividend
  <2>2. A \subseteq Values(w)
    <3> HIDE DEF w, max
    <3> QED
      BY <1>2
  <2>3. s \in Nat /\ t \in Nat /\ s * t \in Nat /\ s * (t + 1) \in Nat
    BY <1>1
  <2>4. last \in Int /\ last <= max
    <3>1. CASE s * (t + 1) > max
      BY <1>1, <3>1 DEF LastDividend, Overflows
    <3>2. CASE ~(s * (t + 1) > max)
      <4>1. last = s * (t + 1) - 1
        BY <3>2 DEF LastDividend, Overflows
      <4> QED
        BY <1>1, <2>3, <3>2, <4>1
    <3> QED
      BY <3>1, <3>2
  <2>5. B \subseteq Values(w)
    <3>1. s * t..last \subseteq Values(w)
      <4> DEFINE l == s * t
      <4>1. l \in Nat
        BY <2>3
      <4> HIDE DEF l, last, w, max
      <4>2. l..last \subseteq Values(w)
        BY <1>1, <2>4, <4>1
      <4> QED
        BY <4>2 DEF l
    <3> QED
      BY <3>1
  <2> HIDE DEF A, B, w, t, max
  <2> QED
    BY <2>1, <2>2, <2>5
<1>5. InvModulus(p) \subseteq Values(w)
  <2> DEFINE s == p.v[1]
             sub == s - t
             up == IF t = 0 THEN s ELSE IF sub % t = 0 THEN sub \div t - 1 ELSE sub \div t
             M == {sub \div n : n \in {n \in 1..up : sub % n = 0}}
             A == IF s = max THEN {0} ELSE {}
             B == {0} \cup t + 1..max
             C == IF NoDivisor(s, t) THEN {} ELSE {sub} \cup M
  <2>1. InvModulus(p) = CASE t = max -> A [] t # max /\ s = t -> B [] OTHER -> C
    BY DEF InvModulus
  <2>2. A \subseteq Values(w) /\ B \subseteq Values(w)
    <3> HIDE DEF w, t, max
    <3> QED
      BY <1>1, <1>2
  <2>3. C \subseteq Values(w)
    <3>1. CASE NoDivisor(s, t)
      BY <3>1
    <3>2. CASE ~NoDivisor(s, t)
      <4>1. s \in Nat /\ t \in Nat /\ s >= t /\ s <= max
        BY <1>1, <3>2 DEF NoDivisor
      <4>2. sub \in Nat /\ sub <= max
        BY <1>1, <4>1
      <4> HIDE DEF sub, up
      <4>3. ASSUME NEW n \in 1..up PROVE sub \div n \in Values(w)
        <5>1. n \in Nat \ {0}
          OBVIOUS
        <5>2. sub \div n \in Nat /\ sub \div n <= sub
          BY <4>2, <5>1, Division
        <5> QED
          BY <1>1, <4>2, <5>2
      <4>4. M \subseteq Values(w)
        BY <4>3
      <4>5. sub \in Values(w)
        BY <1>1, <4>2
      <4> HIDE DEF M
      <4> QED
        BY <3>2, <4>4, <4>5
    <3> QED
      BY <3>1, <3>2
  <2> HIDE DEF A, B, C, w, t, max
  <2> QED
    BY <2>1, <2>2, <2>3
<1>6. InvRemDividend(p) \subseteq Values(w)
  <2> DEFINE s == p.v[2]
             M == {s * n + t : n \in {n \in 0..max : s * n + t <= max}}
  <2>1. InvRemDividend(p) = CASE s = 0 -> {t} [] OTHER -> IF s <= t THEN {} ELSE M
    BY DEF InvRemDividend
  <2>2. M \subseteq Values(w)
    <3> SUFFICES ASSUME NEW n \in 0..max, s * n + t <= max PROVE s * n + t \in Values(w)
      OBVIOUS
    <3>1. s \in Nat /\ n \in Nat /\ t \in Nat
      BY <1>1
    <3>2. s * n \in Nat
      BY <3>1
    <3>3. s * n + t \in Nat
      BY <3>1, <3>2
    <3> QED
      BY <1>1, <3>3
  <2> HIDE DEF M, w, t
  <2> QED
    BY <1>2, <2>1, <2>2
<1> QED
  BY <1>3, <1>4, <1>5, <1>6 DEF InvUdiv, InvUrem


(* A step of the propagation: a node with operands, its target and its      *)
(* operands' values.                                                        *)
TypedStep(p) ==
  /\ p.k \in NodeKinds \ {"var", "const"} /\ p.w \in 1..MaxWidth /\ p.t \in Values(p.w)
  /\ \A j \in 1..Arity(p.k) : p.ow[j] \in 1..MaxWidth /\ p.v[j] \in Values(p.ow[j])
  /\ p.k = "cond" => p.ow[1] = 1 /\ p.ow[2] = p.w /\ p.ow[3] = p.w
  /\ p.k \in {"eq", "ult"} => p.w = 1 /\ p.ow[1] = p.ow[2]
  /\ p.k = "concat" => p.w = p.ow[1] + p.ow[2]
  /\ p.k \in WordKinds => p.ow[1] = p.w /\ p.ow[2] = p.w

(* What compute_value hands down fits the operand, or is a conflict. *)
LEMMA ComputeValueType ==
  ASSUME NEW p, TypedStep(p), NEW i, i + 1 \in 1..Arity(p.k), i \in 0..2, NEW o, NEW inverse
  PROVE  ComputeValue(p, i, o, inverse) \subseteq Values(p.ow[i + 1]) \cup {Null}
<1> DEFINE w == p.ow[i + 1]
           Cons == ConsistentValues(p, i, o)
           Inv == InverseValues(p, i)
<1>1. CASE p.k \in WordKinds
  <2>1. Arity(p.k) = 2
    BY <1>1 DEF Arity, WordKinds
  <2>2. i \in {0, 1} /\ w = p.w
    BY <1>1, <2>1 DEF TypedStep
  <2>3. p.v[1] \in Values(p.w) /\ p.v[2] \in Values(p.w)
    <3>1. 1 \in 1..Arity(p.k) /\ 2 \in 1..Arity(p.k)
      BY <2>1
    <3> QED
      BY <1>1, <3>1 DEF TypedStep
  <2>4. WordStep(p)
    <3>1. 0 + 1 = 1 /\ 1 + 1 = 2
      OBVIOUS
    <3>2. /\ Operand(p, 0) = p.v[1] /\ Operand(p, 1) = p.v[2]
          /\ OtherValue(p, 0) = p.v[2] /\ OtherValue(p, 1) = p.v[1]
      BY <3>1 DEF Operand, OtherValue, Other
    <3> QED
      BY <2>3, <3>2 DEF WordStep, TypedStep
  <2>5. /\ ConsAnd(p, i, o) \subseteq Values(p.w)
        /\ ConsSll(p, i) \subseteq Values(p.w) /\ ConsSrl(p, i) \subseteq Values(p.w)
        /\ ConsMul(p) \subseteq Values(p.w)
        /\ ConsUdiv(p, i) \subseteq Values(p.w) /\ ConsUrem(p, i) \subseteq Values(p.w)
    BY <2>2, <2>4, ConsWords
  <2>6. /\ InvAdd(p, i) \subseteq Values(p.w) /\ InvAnd(p, i) \subseteq Values(p.w)
        /\ InvSll(p, i) \subseteq Values(p.w) /\ InvSrl(p, i) \subseteq Values(p.w)
        /\ InvMul(p, i) \subseteq Values(p.w)
        /\ InvUdiv(p, i) \subseteq Values(p.w) /\ InvUrem(p, i) \subseteq Values(p.w)
    BY <2>2, <2>4, InvWords, InvDivision
  <2>7. Cons \subseteq Values(p.w)
    BY <1>1, <2>5 DEF ConsistentValues, WordKinds
  <2>8. Inv \subseteq Values(p.w)
    BY <1>1, <2>6 DEF InverseValues, WordKinds
  <2> QED
    BY <2>2, <2>7, <2>8 DEF ComputeValue, Recover
<1>2. CASE p.k \in {"eq", "ult"}
  <2>1. Arity(p.k) = 2
    BY <1>2 DEF Arity
  <2>2. i \in {0, 1} /\ p.ow[1] = p.ow[2] /\ w = p.ow[1] /\ p.ow[1] \in 1..MaxWidth
        /\ p.v[1] \in Values(w) /\ p.v[2] \in Values(w)
    <3>1. 1 \in 1..Arity(p.k) /\ 2 \in 1..Arity(p.k)
      BY <2>1
    <3>2. i \in {0, 1} /\ p.ow[1] = p.ow[2] /\ w = p.ow[1]
      BY <1>2, <2>1 DEF TypedStep
    <3> QED
      BY <3>1, <3>2 DEF TypedStep
  <2>3. p.t \in {0, 1}
    BY <1>2, OneBit DEF TypedStep
  <2> DEFINE s == OtherValue(p, i)
             max == Ones(p.ow[1])
  <2>4. max \in Nat /\ Values(p.ow[1]) = 0..max
    <3>1. p.ow[1] \in 0..MaxWidth + 1
      BY <2>2, PowerAssumption
    <3> QED
      BY <3>1, ValuesType
  <2>5. s \in 0..max
    BY <2>2, <2>4 DEF OtherValue, Other
  <2>6. 1..max \subseteq 0..max /\ 0..max - 1 \subseteq 0..max /\ 0..s \subseteq 0..max /\ s + 1..max \subseteq 0..max
        /\ s..max \subseteq 0..max /\ 0..s - 1 \subseteq 0..max
    <3> HIDE DEF s, max
    <3> QED
      BY <2>4, <2>5
  <2>7. ConsEq(p, i, o) \subseteq Values(w) /\ ConsUlt(p, i) \subseteq Values(w)
    BY <2>2, <2>4, <2>6 DEF ConsEq, ConsUlt
  <2>8. InvEq(p, i) \subseteq Values(w)
    BY <2>2, <2>4, <2>5 DEF InvEq
  <2>9. InvUlt(p, i) \subseteq Values(w)
    <3>1. InvUlt(p, i) = CASE i = 1 /\ p.t = 0 -> 0..s
                           [] i = 1 /\ p.t = 1 -> s + 1..max
                           [] i = 0 /\ p.t = 0 -> s..max
                           [] i = 0 /\ p.t = 1 -> 0..s - 1
      BY DEF InvUlt
    <3> HIDE DEF s, max
    <3> QED
      BY <2>2, <2>3, <2>4, <2>6, <3>1
  <2>10. Cons \subseteq Values(w) /\ Inv \subseteq Values(w)
    BY <1>2, <2>7, <2>8, <2>9 DEF ConsistentValues, InverseValues
    <2> QED
    BY <2>10 DEF ComputeValue, Recover
<1>3. CASE p.k = "concat"
  <2>1. Arity(p.k) = 2
    BY <1>3 DEF Arity
  <2>2. /\ i \in {0, 1} /\ p.w = p.ow[1] + p.ow[2] /\ p.ow[1] \in 1..MaxWidth /\ p.ow[2] \in 1..MaxWidth
        /\ p.v[1] \in Values(p.ow[1]) /\ p.v[2] \in Values(p.ow[2]) /\ p.t \in Values(p.w) /\ p.w \in 1..MaxWidth
    <3>1. 1 \in 1..Arity(p.k) /\ 2 \in 1..Arity(p.k)
      BY <2>1
    <3> QED
      BY <1>3, <2>1, <3>1 DEF TypedStep
  <2> DEFINE low == p.t % 2^p.ow[2]
             high == p.t \div 2^p.ow[2]
             cur == Operand(p, i)
             fl == {Flip(cur, j) : j \in 0..w - 1}
             part == IF i = 1 THEN low ELSE high
  <2>3. low \in Values(p.ow[2]) /\ high \in Values(p.ow[1])
    BY <2>2, ConcatType
  <2>4. (i = 1 => w = p.ow[2]) /\ (i = 0 => w = p.ow[1]) /\ w \in 1..MaxWidth
    BY <2>2
  <2>5. cur \in Values(w)
    BY <2>2, <2>4 DEF Operand
  <2>6. part \in Values(w)
    BY <2>2, <2>3, <2>4
  <2>7. fl \subseteq Values(w)
    <3> HIDE DEF cur, w
    <3> QED
      BY <2>4, <2>5, FlipType
  <2>8. Cons = {part} \cup (IF o.flips /\ p.c[Other(i) + 1] THEN {cur} \cup fl ELSE {})
    BY <1>3 DEF ConsistentValues, ConsConcat
  <2>9. Inv \subseteq {part}
    BY <1>3, <2>2 DEF InverseValues, InvConcat
  <2> HIDE DEF part, cur, fl
  <2>10. Cons \subseteq Values(w) /\ Inv \subseteq Values(w)
    BY <2>5, <2>6, <2>7, <2>8, <2>9
  <2> QED
    BY <2>10 DEF ComputeValue, Recover
<1>4. CASE p.k = "slice"
  <2>1. i = 0
    BY <1>4 DEF Arity
  <2>2. Cons \subseteq Values(w) /\ Inv \subseteq Values(w)
    BY <1>4, <2>1 DEF ConsistentValues, InverseValues, InvSlice
    <2> QED
    BY <2>2 DEF ComputeValue, Recover
<1>5. CASE p.k = "cond"
  <2>1. Arity(p.k) = 3
    BY <1>5 DEF Arity
  <2>2. /\ p.v[1] \in {0, 1} /\ p.ow[1] = 1 /\ (i # 0 => w = p.w) /\ (i = 0 => w = 1) /\ p.t \in Values(p.w)
    <3>1. 1 \in 1..Arity(p.k)
      BY <2>1
    <3>2. p.v[1] \in Values(p.ow[1]) /\ p.ow[1] = 1 /\ p.ow[2] = p.w /\ p.ow[3] = p.w /\ p.t \in Values(p.w)
      BY <1>5, <3>1 DEF TypedStep
    <3>3. i = 0 \/ i = 1 \/ i = 2
      OBVIOUS
    <3> QED
      BY <3>2, <3>3, OneBit
  <2>3. InvCond(p, i) \subseteq Values(w)
    BY <2>2, OneBit DEF InvCond
  <2>4. Cons \subseteq Values(w) /\ Inv \subseteq Values(w)
    BY <1>5, <2>3 DEF ConsistentValues, InverseValues
    <2> QED
    BY <2>4 DEF ComputeValue, Recover
<1> QED
  BY <1>1, <1>2, <1>3, <1>4, <1>5 DEF TypedStep, NodeKinds



-----------------------------------------------------------------------------
(* The inductive invariant, part by part, each a predicate on the variables *)
(* it is about.                                                             *)

NegExact(m, n) == DOMAIN n \subseteq Ids /\ \A i \in DOMAIN n : n[i] = Ones(N(i).w) - m[i]
SearchPlaces ==
  {"loop", "walk", "cands", "randomWalk", "walkMove", "group", "try", "pick", "apply", "moved"}
AigPlaces == {"start", "collect", "loop", "walk", "apply", "moved", "done"}

(* The model is exact from the start on, and so is the cache of inverted    *)
(* nodes, which AIGPROP does not use.                                       *)
ModelOK(at, m, n) ==
  /\ m = Empty \/ ExactModel(m)
  /\ at \notin {"start", "done"} => ExactModel(m)
  /\ NegExact(m, n)
  /\ OverAigs => DOMAIN n = {} /\ at \in AigPlaces

(* No two roots contradict each other once the search began, no violated    *)
(* root is a constant, and the table of violated roots is exact.            *)
RootsOK(at, m, r) ==
  /\ at \in SearchPlaces \/ (at = "collect" /\ ~OverAigs) => NoOpposites
  /\ at \in SearchPlaces => r = BadRoots(m) /\ \A p \in r : ~ConstPtr(p)

\* The scores are those of the model.
ScoreOK(at, m, s) == at \in SearchPlaces /\ UsesScore => ScoreExact(s, m)

(* A walk starts at a violated root, its target fits the node it is at, and *)
(* over AIGs the node has the opposite value.                               *)
WalkOK(at, m, r, wk) ==
  /\ DOMAIN wk = {"root", "cur", "t"}
  /\ at \in {"walk", "cands", "randomWalk"} => wk.root \in r
  /\ at = "walk" => /\ wk.cur \in Ptrs /\ wk.t \in Values(N(Idx(wk.cur)).w)
                    /\ OverAigs => ~ConstPtr(wk.cur) /\ ValueIn(m, wk.cur) # wk.t

\* Moves give inputs values that fit, and are built from inputs.
MoveOK(at, sl, b) ==
  /\ TypedMove(b.cans)
  /\ at = "apply" /\ OverAigs => DOMAIN b.cans # {}
  /\ DOMAIN sl = {"cands", "left", "group", "at", "tried"}
  /\ sl.cands \subseteq Inputs /\ sl.left \subseteq Inputs /\ sl.group \subseteq Inputs
  /\ \A c \in sl.tried : TypedMove(c)
  /\ at = "try" => Position(sl.at)

\* The answer is right.
AnswerOK(at, m, r) ==
  /\ at # "done" => r = "none"
  /\ r = "sat" => \A p \in Roots : ValueIn(m, p) = 1
  /\ r = "unsat" => Impossible

Inv ==
  /\ f \in Programs
  /\ ModelOK(pc, model, neg) /\ RootsOK(pc, model, roots) /\ ScoreOK(pc, model, score)
  /\ WalkOK(pc, model, roots, walk) /\ MoveOK(pc, sel, best) /\ AnswerOK(pc, model, result)

(* The program does not change: the invariant holds after a step if its     *)
(* parts hold of the new values, under the old program.                     *)
LEMMA Primed ==
  ASSUME f' = f, f \in Programs,
         ModelOK(pc', model', neg'), RootsOK(pc', model', roots'), ScoreOK(pc', model', score'),
         WalkOK(pc', model', roots', walk'), MoveOK(pc', sel', best'), AnswerOK(pc', model', result')
  PROVE  Inv'
<1>1. Scored' = Scored
  BY DEF Scored, Below, Down, Ids, N, Roots, Kids
<1>2. ExactModel(model)' <=> ExactModel(model')
  BY DEF ExactModel, Models, Ids, N, Inputs, NodeValue, ValueIn
<1>3. ModelOK(pc, model, neg)'
  BY <1>2 DEF ModelOK, NegExact, OverAigs, Ids, N
<1>4. RootsOK(pc, model, roots)'
  BY DEF RootsOK, NoOpposites, BadRoots, ConstPtr, OverAigs, N, ValueIn, Roots
<1>5. ScoreExact(score, model)' <=> ScoreExact(score', model')
  BY <1>1 DEF ScoreExact, Pointers, ScoreNode, N, ValueIn
<1>6. ScoreOK(pc, model, score)'
  BY <1>5 DEF ScoreOK, UsesScore, OverAigs
<1>7. WalkOK(pc, model, roots, walk)'
  BY DEF WalkOK, Ptrs, Ids, N, OverAigs, ConstPtr, ValueIn
<1>8. MoveOK(pc, sel, best)'
  BY DEF MoveOK, TypedMove, Inputs, Ids, N, OverAigs
<1>9. Impossible' <=> Impossible
  BY DEF Impossible, ExactModel, Models, Ids, N, Inputs, NodeValue, ValueIn, Roots
<1>10. AnswerOK(pc, model, result)'
  BY <1>9 DEF AnswerOK, Roots, ValueIn, N
<1> QED
  BY <1>3, <1>4, <1>6, <1>7, <1>8, <1>10 DEF Inv



(* Asking for the values of inverted nodes keeps their cache exact. *)
LEMMA CachedExact ==
  ASSUME f \in Programs, NEW m, NEW n, NegExact(m, n), NEW ps, ps \subseteq Ptrs
  PROVE  NegExact(m, Cached(n, m, ps))
<1> DEFINE new == {-p : p \in {q \in ps : q < 0}}
           c == Cached(n, m, ps)
<1>1. c = [i \in DOMAIN n \cup new |-> IF i \in DOMAIN n THEN n[i] ELSE ValueIn(m, -i)]
  BY DEF Cached
<1>2. new \subseteq Ids
  BY PtrFacts DEF Ptrs, Idx
<1>3. ASSUME NEW i \in new PROVE ValueIn(m, -i) = Ones(N(i).w) - m[i]
  <2>1. i \in Nat \ {0}
    BY <1>2, NodeFacts
  <2>2. -i < 0 /\ -(-i) = i
    BY <2>1
  <2> QED
    BY <2>2 DEF ValueIn
<1> HIDE DEF c, new
<1>4. DOMAIN c = DOMAIN n \cup new
  BY <1>1
<1>5. \A i \in DOMAIN c : c[i] = Ones(N(i).w) - m[i]
  BY <1>1, <1>3, <1>4 DEF NegExact
<1> QED
  BY <1>2, <1>4, <1>5 DEF NegExact, c

(* A move refreshes the cached values of the inverted nodes it changes. *)
LEMMA RefreshedExact ==
  ASSUME f \in Programs, NEW m0, NEW m, NEW n, NegExact(m0, n), NEW changed,
         \A i \in Ids \ changed : m[i] = m0[i]
  PROVE  NegExact(m, Refreshed(n, m, changed))
<1>1. ASSUME NEW i \in DOMAIN n PROVE ValueIn(m, -i) = Ones(N(i).w) - m[i]
  <2>1. i \in Nat \ {0}
    BY NodeFacts DEF NegExact
  <2>2. -i < 0 /\ -(-i) = i
    BY <2>1
  <2> QED
    BY <2>2 DEF ValueIn
<1> QED
  BY <1>1 DEF NegExact, Refreshed

(* What is asked for while scores are computed, and below a node. *)
LEMMA AskedPointers ==
  ASSUME f \in Programs
  PROVE  /\ ScoreReads \subseteq Ptrs
         /\ \A i \in Ids : Children(i) \subseteq Ptrs
<1>1. \A i \in Ids : Children(i) \subseteq Ptrs
  BY NodeFacts DEF Children
<1>2. ASSUME NEW i \in Scored
      PROVE (IF N(i).k \in {"eq", "ult"} THEN {N(i).e[1], N(i).e[2]}
             ELSE IF N(i).k = "and" THEN {} ELSE {-i}) \subseteq Ptrs
  <2>1. i \in Ids
    BY ScoredFacts
  <2>2. N(i).k \in {"eq", "ult"} => N(i).e[1] \in Ptrs /\ N(i).e[2] \in Ptrs
    BY <2>1, NodeFacts, WidthFacts
  <2>3. i \in Ptrs /\ -i \in Ptrs
    BY <2>1, NodeFacts DEF Ptrs, Idx
  <2> QED
    BY <2>2, <2>3
<1> QED
  BY <1>1, <1>2 DEF ScoreReads

(* The operand of an inverted node is read from the cache: it is exact. *)
LEMMA GetBvExact ==
  ASSUME f \in Programs, ExactModel(model), NegExact(model, neg), NEW p \in Ptrs
  PROVE  GetBv(p) = ValueIn(model, p)
  BY DEF GetBv, NegExact, ValueIn

(* The engine's view of the node a walk is at fits the node. *)
LEMMA CurrentTyped ==
  ASSUME f \in Programs, ExactModel(model), NegExact(model, neg),
         walk.cur \in Ptrs, walk.t \in Values(N(Idx(walk.cur)).w), ~AtInput, ~ConstPtr(walk.cur)
  PROVE  /\ TypedStep(Current)
         /\ Current.k = N(Idx(walk.cur)).k
         /\ \A j \in 1..Arity(Current.k) :
              /\ N(Idx(walk.cur)).e[j] \in Ptrs
              /\ Current.ow[j] = N(Idx(N(Idx(walk.cur)).e[j])).w
<1> DEFINE i == Idx(walk.cur)
           t == IF walk.cur < 0 THEN Ones(N(-walk.cur).w) - walk.t ELSE walk.t
           e == N(i).e
           p == Step(i, t)
<1>1. Current = p
  BY DEF Current
<1>2. i \in Ids /\ walk.cur \in Int /\ i = (IF walk.cur < 0 THEN -walk.cur ELSE walk.cur)
  BY PtrFacts
<1>3. /\ N(i).k \in NodeKinds \ {"var", "const"} /\ N(i).w \in 1..MaxWidth
      /\ DOMAIN e = 1..Arity(N(i).k) /\ \A j \in DOMAIN e : e[j] \in Ptrs /\ Idx(e[j]) \in Ids
  BY <1>2, NodeFacts DEF AtInput, ConstPtr
<1>4. t \in Values(N(i).w)
  <2>1. N(i).w \in 0..MaxWidth + 1
    BY <1>3, PowerAssumption
  <2>2. \A v \in Values(N(i).w) : Ones(N(i).w) - v \in Values(N(i).w)
    BY <2>1, ValuesType
  <2> QED
    BY <1>2, <2>2
<1>5. /\ p.k = N(i).k /\ p.w = N(i).w /\ p.t = t
      /\ \A j \in DOMAIN e : p.ow[j] = N(Idx(e[j])).w /\ p.v[j] = GetBv(e[j])
  <2> HIDE DEF t, i
  <2> QED
    BY DEF Step
<1>6. \A j \in DOMAIN e : p.ow[j] \in 1..MaxWidth /\ p.v[j] \in Values(p.ow[j])
  <2> SUFFICES ASSUME NEW j \in DOMAIN e PROVE p.ow[j] \in 1..MaxWidth /\ p.v[j] \in Values(p.ow[j])
    OBVIOUS
  <2>1. e[j] \in Ptrs /\ Idx(e[j]) \in Ids
    BY <1>3
  <2>2. p.v[j] = ValueIn(model, e[j])
    BY <1>5, <2>1, GetBvExact
  <2>3. model \in Models
    BY DEF ExactModel
  <2>4. ValueIn(model, e[j]) \in Values(N(Idx(e[j])).w)
    BY <2>1, <2>3, ModelFacts
  <2>5. N(Idx(e[j])).w \in 1..MaxWidth
    BY <2>1, NodeFacts
  <2> HIDE DEF p, e
  <2> QED
    BY <1>5, <2>2, <2>4, <2>5
<1>7. /\ N(i).k = "cond" => DOMAIN e = {1, 2, 3} /\ p.ow[1] = 1 /\ p.ow[2] = N(i).w /\ p.ow[3] = N(i).w
      /\ N(i).k \in {"eq", "ult"} => DOMAIN e = {1, 2} /\ N(i).w = 1 /\ p.ow[1] = p.ow[2]
      /\ N(i).k = "concat" => DOMAIN e = {1, 2} /\ N(i).w = p.ow[1] + p.ow[2]
      /\ N(i).k \in WordKinds => DOMAIN e = {1, 2} /\ p.ow[1] = N(i).w /\ p.ow[2] = N(i).w
  <2> HIDE DEF p
  <2> QED
    BY <1>2, <1>5, WidthFacts
<1> HIDE DEF p, t
<1>8. TypedStep(p)
  <2> HIDE DEF e
  <2> QED
    BY <1>3, <1>4, <1>5, <1>6, <1>7 DEF TypedStep
<1> QED
  BY <1>1, <1>3, <1>5, <1>8

(* A path goes to an operand the node has. *)
LEMMA PathOperands ==
  ASSUME NEW p, TypedStep(p), NEW path \in Paths(p)
  PROVE  path[1] \in 0..2 /\ path[1] + 1 \in 1..Arity(p.k)
<1>1. CASE p.k = "cond"
  <2>1. Arity(p.k) = 3
    BY <1>1 DEF Arity
  <2>2. path[1] \in {0, 1, 2}
    BY <1>1 DEF Paths, PathsCond, SelectPathCond, EnabledBranch
  <2> QED
    BY <2>1, <2>2
<1>2. CASE p.k = "slice"
  <2>1. Arity(p.k) = 1
    BY <1>2 DEF Arity
  <2>2. path[1] = 0
    BY <1>2 DEF Paths, SelectPath
  <2> QED
    BY <2>1, <2>2
<1>3. CASE p.k \notin {"cond", "slice"}
  <2>1. Arity(p.k) = 2
    BY <1>3 DEF Arity, TypedStep, NodeKinds
  <2>2. Essential(p, f.o) \subseteq {0, 1}
    BY DEF Essential, EssentialUlt, EssentialSll, EssentialSrl, EssentialMul, EssentialUdiv,
           EssentialUrem, EssentialConcat, EssentialAnd
  <2>3. SelectPath(p, f.o) \subseteq {0, 1}
    BY <2>2, <1>3 DEF SelectPath, NonConst
  <2>4. path[1] \in {0, 1}
    BY <1>3, <2>3 DEF Paths
  <2> QED
    BY <2>1, <2>4
<1> QED
  BY <1>1, <1>2, <1>3



(* A random move gives every input it changes a value that fits. *)
LEMMA RandomTyped ==
  ASSUME f \in Programs, ExactModel(model), NEW S, S \subseteq Inputs
  PROVE  /\ \A c \in Product(S, LAMBDA i : RandomNeighbours(model[i], N(i).w)) : TypedMove(c)
         /\ \A c \in Product(S, RandomValues) : TypedMove(c)
<1>1. \A i \in Inputs : i \in Ids /\ N(i).w \in 1..MaxWidth /\ model[i] \in Values(N(i).w)
  BY NodeFacts, ModelFacts DEF ExactModel, Inputs
<1>2. \A c \in Product(S, LAMBDA i : RandomNeighbours(model[i], N(i).w)) : TypedMove(c)
  <2>1. \A i \in S : RandomNeighbours(model[i], N(i).w) \subseteq Values(N(i).w)
    BY <1>1, RandomNeighboursType
  <2> QED
    BY <2>1 DEF Product, TypedMove
<1>3. \A c \in Product(S, RandomValues) : TypedMove(c)
  <2>1. \A i \in S : RandomValues(i) \subseteq Values(N(i).w)
    BY <1>1, OneBit DEF RandomValues
  <2> QED
    BY <2>1 DEF Product, TypedMove
<1> QED
  BY <1>2, <1>3

(* So does a move to a neighbour. *)
LEMMA NeighbourTyped ==
  ASSUME f \in Programs, ExactModel(model), sel.group \subseteq Inputs,
         TypedMove(best.cans), Position(sel.at), sel.at.k <= Len(Kinds)
  PROVE  \A c \in Product(sel.group, LAMBDA i : Neighbours(sel.at, Base(i), N(i).w)) : TypedMove(c)
<1>1. \A i \in Inputs : i \in Ids /\ N(i).w \in 1..MaxWidth /\ model[i] \in Values(N(i).w)
  BY NodeFacts, ModelFacts DEF ExactModel, Inputs
<1>2. \A i \in sel.group : Base(i) \in Values(N(i).w)
  BY <1>1 DEF Base, TypedMove
<1>3. \A i \in sel.group : Neighbours(sel.at, Base(i), N(i).w) \subseteq Values(N(i).w)
  BY <1>1, <1>2, NeighboursType
<1> QED
  BY <1>3 DEF Product, TypedMove

(* When no root is violated, all are satisfied. *)
LEMMA NoBadRoots ==
  ASSUME f \in Programs, NEW m \in Models, BadRoots(m) = {}
  PROVE  \A p \in Roots : ValueIn(m, p) = 1
  BY RootValues DEF BadRoots

(* Init. *)
LEMMA InitInv == Init => Inv
<1> SUFFICES ASSUME Init PROVE Inv
  OBVIOUS
<1>1. f \in Programs /\ pc = "start" /\ model = Empty /\ neg = Empty /\ result = "none"
      /\ walk = NoWalk /\ sel = NoSel /\ best = NoBest
  BY DEF Init
<1>2. DOMAIN Empty = {}
  BY DEF Empty
<1>3. ModelOK(pc, model, neg)
  BY <1>1, <1>2 DEF ModelOK, NegExact, AigPlaces
<1>4. RootsOK(pc, model, roots) /\ ScoreOK(pc, model, score)
  BY <1>1 DEF RootsOK, ScoreOK, SearchPlaces
<1>5. WalkOK(pc, model, roots, walk)
  BY <1>1 DEF WalkOK, NoWalk
<1>6. MoveOK(pc, sel, best)
  BY <1>1, <1>2 DEF MoveOK, NoSel, NoBest, TypedMove
<1>7. AnswerOK(pc, model, result)
  BY <1>1 DEF AnswerOK
<1> QED
  BY <1>1, <1>3, <1>4, <1>5, <1>6, <1>7 DEF Inv

(* Start *)
LEMMA StartInv == Inv /\ Start => Inv'
<1> SUFFICES ASSUME Inv, Start PROVE Inv'
  OBVIOUS
<1>1. /\ f' = f /\ f \in Programs /\ pc = "start" /\ ~OverAigs /\ model' = ZeroModel /\ neg' = Empty
      /\ walk' = walk /\ sel' = sel /\ best' = best
      /\ result = "none" /\ \/ pc' = "done" /\ result' = "unsat" /\ \E p \in f.asms : -p \in Roots
                            \/ pc' = "collect" /\ result' = result /\ ~\E p \in f.asms : -p \in Roots
  BY DEF Start, Answer, Inv, AnswerOK
<1>2. ExactModel(ZeroModel)
  BY <1>1, ZeroExact
<1>3. DOMAIN Empty = {}
  BY DEF Empty
<1>4. ModelOK(pc', model', neg')
  BY <1>1, <1>2, <1>3 DEF ModelOK, NegExact
<1>5. pc' = "collect" => NoOpposites
  <2>1. \A p \in Roots : p \in Int
    BY <1>1, RootFacts DEF Ptrs
  <2>2. \A p \in f.cons : -p \notin f.cons
    BY <1>1, RootFacts
  <2> QED
    BY <1>1, <2>1, <2>2 DEF NoOpposites, Roots
<1>6. RootsOK(pc', model', roots') /\ ScoreOK(pc', model', score')
  BY <1>1, <1>5 DEF RootsOK, ScoreOK, SearchPlaces
<1>7. WalkOK(pc', model', roots', walk') /\ MoveOK(pc', sel', best')
  BY <1>1 DEF Inv, WalkOK, MoveOK
<1>8. pc' = "done" => Impossible
  <2>1. pc' = "done" => ~NoOpposites
    BY <1>1 DEF NoOpposites, Roots
  <2> QED
    BY <1>1, <2>1, RootsImpossible
<1>9. AnswerOK(pc', model', result')
  BY <1>1, <1>8 DEF AnswerOK
<1> QED
  BY <1>1, <1>4, <1>6, <1>7, <1>9, Primed

(* Interrupt, Limit *)
LEMMA StopInv == Inv /\ (Interrupt \/ Limit) => Inv'
<1> SUFFICES ASSUME Inv, Interrupt \/ Limit PROVE Inv'
  OBVIOUS
<1>1. /\ f' = f /\ f \in Programs /\ pc' = "done" /\ model' = model /\ neg' = neg
      /\ walk' = walk /\ sel' = sel /\ best' = best /\ result' = "unknown"
  BY DEF Interrupt, Limit, Answer, Inv
<1>2. ModelOK(pc', model', neg')
  BY <1>1 DEF Inv, ModelOK, AigPlaces
<1>3. RootsOK(pc', model', roots') /\ ScoreOK(pc', model', score')
  BY <1>1 DEF RootsOK, ScoreOK, SearchPlaces
<1>4. WalkOK(pc', model', roots', walk') /\ MoveOK(pc', sel', best')
  BY <1>1 DEF Inv, WalkOK, MoveOK
<1>5. AnswerOK(pc', model', result')
  BY <1>1 DEF AnswerOK
<1> QED
  BY <1>1, <1>2, <1>3, <1>4, <1>5, Primed

(* Collect: the table of violated roots and the scores are computed.        *)
LEMMA CollectInv == Inv /\ Collect => Inv'
<1> SUFFICES ASSUME Inv, Collect PROVE Inv'
  OBVIOUS
<1> DEFINE bad == BadRoots(model)
           read == Cached(neg, model, Roots)
<1>1. /\ f' = f /\ f \in Programs /\ pc = "collect" /\ ~OverAigs /\ model' = model /\ roots' = bad
      /\ walk' = walk /\ sel' = sel /\ best' = best /\ result = "none"
      /\ neg' = read \/ neg' = Cached(read, model, ScoreReads)
  BY DEF Collect, Inv, AnswerOK, BadRoots
<1>2. \/ pc' = "done" /\ result' = "unsat" /\ \E p \in bad : ConstPtr(p)
      \/ pc' = "done" /\ result' = "sat" /\ bad = {}
      \/ /\ pc' = "loop" /\ result' = result /\ ~\E p \in bad : ConstPtr(p)
         /\ UsesScore => score' = ComputeScores(model)
  BY DEF Collect, Answer, BadRoots
<1>3. ExactModel(model) /\ model \in Models /\ NegExact(model, neg) /\ NoOpposites
  BY <1>1 DEF Inv, ModelOK, ExactModel, RootsOK
<1>4. NegExact(model, neg')
  <2>1. Roots \subseteq Ptrs /\ ScoreReads \subseteq Ptrs
    BY <1>1, RootFacts, AskedPointers
  <2>2. NegExact(model, read)
    BY <1>1, <1>3, <2>1, CachedExact
  <2>3. NegExact(model, Cached(read, model, ScoreReads))
    <3> HIDE DEF read
    <3> QED
      BY <1>1, <2>1, <2>2, CachedExact
  <2> QED
    BY <1>1, <2>2, <2>3
<1>5. ModelOK(pc', model', neg')
  BY <1>1, <1>3, <1>4 DEF ModelOK
<1>6. RootsOK(pc', model', roots')
  BY <1>1, <1>2, <1>3 DEF RootsOK, SearchPlaces
<1>7. ScoreOK(pc', model', score')
  <2>1. ScoreExact(ComputeScores(model), model)
    BY <1>1, <1>3, ComputeExact
  <2> QED
    BY <1>1, <1>2, <2>1 DEF ScoreOK, SearchPlaces
<1>8. WalkOK(pc', model', roots', walk') /\ MoveOK(pc', sel', best')
  BY <1>1, <1>2 DEF Inv, WalkOK, MoveOK
<1>9. AnswerOK(pc', model', result')
  <2>1. (\E p \in bad : ConstPtr(p)) => Impossible
    BY <1>1, <1>3, RootsImpossible
  <2>2. bad = {} => \A p \in Roots : ValueIn(model, p) = 1
    BY <1>1, <1>3, NoBadRoots
  <2> QED
    BY <1>1, <1>2, <2>1, <2>2 DEF AnswerOK
<1> QED
  BY <1>1, <1>5, <1>6, <1>7, <1>8, <1>9, Primed



(* Restart: the model is the initial one again. *)
LEMMA RestartInv == Inv /\ Restart => Inv'
<1> SUFFICES ASSUME Inv, Restart PROVE Inv'
  OBVIOUS
<1>1. /\ f' = f /\ f \in Programs /\ pc = "loop" /\ ~OverAigs /\ model' = ZeroModel /\ neg' = Empty
      /\ pc' = "collect" /\ walk' = walk /\ sel' = sel /\ best' = best /\ result' = result
  BY DEF Restart, Inv
<1>2. ExactModel(ZeroModel) /\ DOMAIN Empty = {}
  BY <1>1, ZeroExact DEF Empty
<1>3. ModelOK(pc', model', neg')
  BY <1>1, <1>2 DEF ModelOK, NegExact
<1>4. NoOpposites
  BY <1>1 DEF Inv, RootsOK, SearchPlaces
<1>5. RootsOK(pc', model', roots') /\ ScoreOK(pc', model', score')
  BY <1>1, <1>4 DEF RootsOK, ScoreOK, SearchPlaces
<1>6. WalkOK(pc', model', roots', walk') /\ MoveOK(pc', sel', best')
  BY <1>1 DEF Inv, WalkOK, MoveOK
<1>7. AnswerOK(pc', model', result')
  BY <1>1 DEF Inv, AnswerOK
<1> QED
  BY <1>1, <1>3, <1>5, <1>6, <1>7, Primed

(* A step of the search that leaves the model, the tables and the answer    *)
(* alone has only to keep what holds of the walk and of the moves.          *)
LEMMA SearchStep ==
  ASSUME Inv, f' = f, pc \in SearchPlaces, pc' \in SearchPlaces, OverAigs => pc' \in AigPlaces,
         model' = model, roots' = roots, score' = score, result' = result, NegExact(model, neg'),
         OverAigs => neg' = neg,
         WalkOK(pc', model', roots', walk'), MoveOK(pc', sel', best')
  PROVE  Inv'
<1>1. f \in Programs /\ pc \notin {"start", "done"} /\ pc' # "done"
  BY DEF Inv, SearchPlaces
<1>2. ModelOK(pc', model', neg')
  BY <1>1 DEF Inv, ModelOK
<1>3. RootsOK(pc', model', roots') /\ ScoreOK(pc', model', score')
  BY DEF Inv, RootsOK, ScoreOK
<1>4. AnswerOK(pc', model', result')
  BY <1>1 DEF Inv, AnswerOK
<1> QED
  BY <1>1, <1>2, <1>3, <1>4, Primed

(* What holds in the search. *)
LEMMA SearchFacts ==
  ASSUME Inv, pc \in SearchPlaces
  PROVE  /\ f \in Programs /\ ExactModel(model) /\ model \in Models /\ NegExact(model, neg)
         /\ NoOpposites /\ roots = BadRoots(model) /\ roots \subseteq Roots
         /\ \A p \in roots : ~ConstPtr(p) /\ p \in Ptrs /\ N(Idx(p)).w = 1 /\ ValueIn(model, p) = 0
         /\ OverAigs => DOMAIN neg = {} /\ pc \in AigPlaces
         /\ UsesScore => ScoreExact(score, model)
         /\ result = "none" /\ TypedMove(best.cans) /\ DOMAIN sel = {"cands", "left", "group", "at", "tried"}
         /\ sel.cands \subseteq Inputs /\ sel.left \subseteq Inputs /\ sel.group \subseteq Inputs
         /\ \A c \in sel.tried : TypedMove(c)
         /\ DOMAIN walk = {"root", "cur", "t"}
<1>1. f \in Programs /\ pc \notin {"start", "done"}
  BY DEF Inv, SearchPlaces
<1>2. ExactModel(model) /\ model \in Models /\ NegExact(model, neg) /\ (OverAigs => DOMAIN neg = {} /\ pc \in AigPlaces)
  BY <1>1 DEF Inv, ModelOK, ExactModel
<1>3. NoOpposites /\ roots = BadRoots(model) /\ \A p \in roots : ~ConstPtr(p)
  BY DEF Inv, RootsOK
<1>4. roots \subseteq Roots /\ \A p \in roots : p \in Ptrs /\ N(Idx(p)).w = 1 /\ ValueIn(model, p) = 0
  BY <1>1, <1>3, RootFacts DEF BadRoots
<1>5. result = "none"
  BY <1>1 DEF Inv, AnswerOK
<1>6. UsesScore => ScoreExact(score, model)
  BY DEF Inv, ScoreOK
<1> QED
  BY <1>1, <1>2, <1>3, <1>4, <1>5, <1>6 DEF Inv, MoveOK, WalkOK

(* SelectConstraint and select_root of AIGPROP: the walk starts at a root   *)
(* that is violated, with the opposite of its value as target.              *)
LEMMA SelectInv == Inv /\ (SelectConstraint \/ AigSelectRoot) => Inv'
<1> SUFFICES ASSUME Inv, SelectConstraint \/ AigSelectRoot PROVE Inv'
  OBVIOUS
<1>1. /\ f' = f /\ pc = "loop" /\ pc' \in {"walk", "cands"} /\ (OverAigs => pc' = "walk")
      /\ model' = model /\ roots' = roots /\ score' = score /\ result' = result /\ neg' = neg /\ sel' = sel
      /\ best' = best \/ best' = NoBest
  BY DEF SelectConstraint, AigSelectRoot
<1>2. PICK r \in roots : walk' = [root |-> r, cur |-> r, t |-> 1]
  BY DEF SelectConstraint, AigSelectRoot
<1>3. pc \in SearchPlaces /\ pc' \in SearchPlaces /\ (OverAigs => pc' \in AigPlaces)
  BY <1>1 DEF SearchPlaces, AigPlaces
<1>4. DOMAIN walk' = {"root", "cur", "t"} /\ walk'.root = r /\ walk'.cur = r /\ walk'.t = 1
  BY <1>2
<1>5. r \in Ptrs /\ N(Idx(r)).w = 1 /\ ~ConstPtr(r) /\ ValueIn(model, r) = 0
  BY <1>3, SearchFacts
<1>6. WalkOK(pc', model', roots', walk')
  BY <1>1, <1>4, <1>5, OneBit DEF WalkOK
<1>7. TypedMove(NoBest.cans)
  BY DEF NoBest, Empty, TypedMove
<1>8. MoveOK(pc', sel', best')
  BY <1>1, <1>3, <1>7, SearchFacts DEF MoveOK
<1> QED
  BY <1>1, <1>3, <1>6, <1>8, SearchStep, SearchFacts

(* FoundInput: the target of the input is the move. *)
LEMMA FoundInv == Inv /\ FoundInput => Inv'
<1> SUFFICES ASSUME Inv, FoundInput PROVE Inv'
  OBVIOUS
<1> DEFINE i == Idx(walk.cur)
           c == [j \in {i} |-> IF walk.cur < 0 THEN Ones(N(j).w) - walk.t ELSE walk.t]
<1>1. /\ f' = f /\ pc = "walk" /\ N(i).k = "var" /\ pc' = "apply" /\ walk' = walk
      /\ model' = model /\ roots' = roots /\ score' = score /\ result' = result /\ neg' = neg /\ sel' = sel
      /\ best' = [cans |-> c, sc |-> -1, move |-> "prop"]
  BY DEF FoundInput, Walking, AtInput
<1>2. pc \in SearchPlaces /\ pc' \in SearchPlaces /\ pc' \in AigPlaces
  BY <1>1 DEF SearchPlaces, AigPlaces
<1>3. f \in Programs /\ walk.cur \in Ptrs /\ walk.t \in Values(N(i).w)
  BY <1>1 DEF Inv, WalkOK
<1>4. i \in Ids /\ N(i).w \in 0..MaxWidth + 1
  BY <1>3, PtrFacts, PowerAssumption
<1>5. i \in Inputs
  BY <1>1, <1>4 DEF Inputs
<1>6. c[i] \in Values(N(i).w)
  BY <1>3, <1>4, ValuesType
<1>7. best'.cans = c
  <2> HIDE DEF c
  <2> QED
    BY <1>1
<1>8. TypedMove(best'.cans) /\ DOMAIN best'.cans # {}
  BY <1>5, <1>6, <1>7 DEF TypedMove
<1>9. MoveOK(pc', sel', best')
  <2> HIDE DEF c
  <2> QED
    BY <1>1, <1>2, <1>8, SearchFacts DEF MoveOK
<1>10. WalkOK(pc', model', roots', walk')
  <2> HIDE DEF c
  <2> QED
    BY <1>1, <1>2, SearchFacts DEF WalkOK
<1> HIDE DEF c
<1> QED
  BY <1>1, <1>2, <1>9, <1>10, SearchStep, SearchFacts

(* NoInput: the walk starts again, or the engine makes another move. *)
LEMMA NoInputInv ==
  ASSUME Inv, ~OverAigs, pc = "walk", NoInput, roots' = roots, model' = model, sel' = sel, best' = best
  PROVE  /\ pc' \in {"walk", "cands", "randomWalk"}
         /\ WalkOK(pc', model', roots', walk') /\ MoveOK(pc', sel', best')
<1>1. pc' \in {"walk", "cands", "randomWalk"}
  BY DEF NoInput
<1>2. pc \in SearchPlaces
  BY DEF SearchPlaces
<1>3. DOMAIN walk = {"root", "cur", "t"} /\ walk.root \in roots
  BY DEF Inv, WalkOK
<1>4. walk.root \in Ptrs /\ N(Idx(walk.root)).w = 1
  BY <1>2, <1>3, SearchFacts
<1>5. ASSUME walk' = walk, pc' # "walk" PROVE WalkOK(pc', model', roots', walk')
  BY <1>1, <1>3, <1>5 DEF WalkOK
<1>6. ASSUME walk' = [walk EXCEPT !.cur = walk.root, !.t = 1] PROVE WalkOK(pc', model', roots', walk')
  <2>1. DOMAIN walk' = DOMAIN walk
    BY <1>6
  <2>2. walk'.root = walk.root /\ walk'.cur = walk.root /\ walk'.t = 1
    BY <1>3, <1>6
  <2> QED
    BY <1>3, <1>4, <2>1, <2>2, OneBit DEF WalkOK
<1>7. WalkOK(pc', model', roots', walk')
  BY <1>5, <1>6 DEF NoInput
<1>8. MoveOK(pc', sel', best')
  BY <1>1, <1>2, SearchFacts DEF MoveOK
<1> QED
  BY <1>1, <1>7, <1>8

(* DeadEnd *)
LEMMA DeadEndInv == Inv /\ DeadEnd => Inv'
<1> SUFFICES ASSUME Inv, DeadEnd PROVE Inv'
  OBVIOUS
<1>1. /\ f' = f /\ pc = "walk" /\ ~OverAigs /\ NoInput
      /\ neg' = Cached(neg, model, Children(Idx(walk.cur)))
      /\ model' = model /\ roots' = roots /\ score' = score /\ result' = result /\ sel' = sel /\ best' = best
  BY DEF DeadEnd, Walking
<1>2. pc \in SearchPlaces
  BY <1>1 DEF SearchPlaces
<1>3. f \in Programs /\ walk.cur \in Ptrs
  BY <1>1 DEF Inv, WalkOK
<1>4. Children(Idx(walk.cur)) \subseteq Ptrs
  BY <1>3, PtrFacts, AskedPointers
<1>5. NegExact(model, neg')
  BY <1>1, <1>2, <1>4, SearchFacts, CachedExact
<1>6. /\ pc' \in {"walk", "cands", "randomWalk"}
      /\ WalkOK(pc', model', roots', walk') /\ MoveOK(pc', sel', best')
  BY <1>1, NoInputInv
<1>7. pc' \in SearchPlaces
  BY <1>6 DEF SearchPlaces
<1> QED
  BY <1>1, <1>2, <1>5, <1>6, <1>7, SearchStep

(* Propagate: the value handed down fits the operand the path goes to. *)
LEMMA PropagateInv == Inv /\ Propagate => Inv'
<1> SUFFICES ASSUME Inv, Propagate PROVE Inv'
  OBVIOUS
<1>1. /\ f' = f /\ pc = "walk" /\ ~OverAigs /\ ~AtInput /\ ~AtDeadEnd
      /\ neg' = Cached(neg, model, Children(Idx(walk.cur)))
      /\ model' = model /\ roots' = roots /\ score' = score /\ result' = result /\ sel' = sel /\ best' = best
  BY DEF Propagate, Walking
<1>2. pc \in SearchPlaces
  BY <1>1 DEF SearchPlaces
<1>3. /\ f \in Programs /\ walk.cur \in Ptrs /\ walk.t \in Values(N(Idx(walk.cur)).w)
      /\ DOMAIN walk = {"root", "cur", "t"} /\ walk.root \in roots /\ ~ConstPtr(walk.cur)
  BY <1>1 DEF Inv, WalkOK, AtDeadEnd
<1>4. Children(Idx(walk.cur)) \subseteq Ptrs
  BY <1>3, PtrFacts, AskedPointers
<1>5. NegExact(model, neg')
  BY <1>1, <1>2, <1>4, SearchFacts, CachedExact
<1>6. PICK path \in Paths(Current), useInverse \in f.o.inverse :
        \E v \in ComputeValue(Current, path[1], f.o, useInverse) :
          IF v = Null THEN NoInput
          ELSE /\ walk' = [walk EXCEPT !.cur = N(Idx(walk.cur)).e[path[1] + 1], !.t = v]
               /\ UNCHANGED pc
  BY DEF Propagate
<1>7. PICK v \in ComputeValue(Current, path[1], f.o, useInverse) :
          IF v = Null THEN NoInput
          ELSE /\ walk' = [walk EXCEPT !.cur = N(Idx(walk.cur)).e[path[1] + 1], !.t = v]
               /\ UNCHANGED pc
  BY <1>6
<1>8. CASE v = Null
  <2>1. /\ pc' \in {"walk", "cands", "randomWalk"}
        /\ WalkOK(pc', model', roots', walk') /\ MoveOK(pc', sel', best')
    BY <1>1, <1>7, <1>8, NoInputInv
  <2>2. pc' \in SearchPlaces
    BY <2>1 DEF SearchPlaces
  <2> QED
    BY <1>1, <1>2, <1>5, <2>1, <2>2, SearchStep
<1>9. CASE v # Null
  <2> DEFINE j == path[1] + 1
             e == N(Idx(walk.cur)).e[j]
  <2>1. walk' = [walk EXCEPT !.cur = e, !.t = v] /\ pc' = pc
    BY <1>7, <1>9
  <2>2. /\ TypedStep(Current)
        /\ \A l \in 1..Arity(Current.k) :
             /\ N(Idx(walk.cur)).e[l] \in Ptrs
             /\ Current.ow[l] = N(Idx(N(Idx(walk.cur)).e[l])).w
    BY <1>1, <1>2, <1>3, SearchFacts, CurrentTyped
  <2>3. path[1] \in 0..2 /\ j \in 1..Arity(Current.k)
    BY <2>2, PathOperands
  <2>4. v \in Values(Current.ow[j])
    BY <1>9, <2>2, <2>3, ComputeValueType
  <2>5. e \in Ptrs /\ v \in Values(N(Idx(e)).w)
    BY <2>2, <2>3, <2>4
  <2> HIDE DEF e, j
  <2>6. DOMAIN walk' = DOMAIN walk
    BY <2>1
  <2>7. walk'.root = walk.root /\ walk'.cur = e /\ walk'.t = v
    BY <1>3, <2>1
  <2>8. WalkOK(pc', model', roots', walk')
    BY <1>1, <1>3, <2>1, <2>5, <2>6, <2>7 DEF WalkOK
  <2>9. MoveOK(pc', sel', best')
    BY <1>1, <1>2, <2>1, SearchFacts DEF MoveOK
  <2> QED
    BY <1>1, <1>2, <1>5, <2>1, <2>8, <2>9, SearchStep
<1> QED
  BY <1>8, <1>9



(* SelectCandidates: a root without an input below it cannot be satisfied. *)
LEMMA CandidatesInv == Inv /\ SelectCandidates => Inv'
<1> SUFFICES ASSUME Inv, SelectCandidates PROVE Inv'
  OBVIOUS
<1>1. /\ f' = f /\ pc \in {"cands", "randomWalk"} /\ model' = model /\ roots' = roots /\ score' = score
      /\ walk' = walk
  BY DEF SelectCandidates
<1>2. pc \in SearchPlaces /\ pc \notin AigPlaces
  BY <1>1 DEF SearchPlaces, AigPlaces
<1>3. f \in Programs /\ ~OverAigs /\ walk.root \in BadRoots(model) /\ walk.root \in Ptrs
  BY <1>1, <1>2, SearchFacts DEF Inv, WalkOK
<1>4. PICK ch \in Justifications :
        LET cands == Candidates(walk.root, ch)
            asked == UNION {Children(i) : i \in {j \in Visited(walk.root, ch) : JustAnd(j)}}
        IN /\ sel' = [NoSel EXCEPT !.cands = cands, !.left = cands]
           /\ neg' = Cached(neg, model, asked)
           /\ CASE cands = {} -> Answer("unsat") /\ UNCHANGED best
                [] cands # {} /\ pc = "randomWalk" ->
                     pc' = "walkMove" /\ UNCHANGED <<best, result>>
                [] cands # {} /\ pc = "cands" ->
                     /\ best' = [NoBest EXCEPT !.sc = FormulaScore(score)]
                     /\ pc' \in {"group"} \cup (IF f.o.randWalk THEN {"walkMove"} ELSE {})
                     /\ UNCHANGED result
  BY DEF SelectCandidates
<1> DEFINE cands == Candidates(walk.root, ch)
           asked == UNION {Children(i) : i \in {j \in Visited(walk.root, ch) : JustAnd(j)}}
<1>5. /\ sel' = [NoSel EXCEPT !.cands = cands, !.left = cands]
      /\ neg' = Cached(neg, model, asked)
      /\ \/ cands = {} /\ pc' = "done" /\ result' = "unsat" /\ best' = best
         \/ cands # {} /\ pc' \in {"walkMove", "group"} /\ result' = result
            /\ (best' = best \/ best' = [NoBest EXCEPT !.sc = FormulaScore(score)])
  BY <1>1, <1>4 DEF Answer
<1>6. TypedMove(best'.cans)
  <2>1. [NoBest EXCEPT !.sc = FormulaScore(score)].cans = Empty
    BY DEF NoBest
  <2>2. TypedMove(Empty)
    BY DEF Empty, TypedMove
  <2>3. TypedMove(best.cans)
    BY <1>2, SearchFacts
  <2> HIDE DEF cands
  <2> QED
    BY <1>5, <2>1, <2>2, <2>3
<1>7. cands \subseteq Inputs
  BY DEF Candidates
<1>8. MoveOK(pc', sel', best')
  <2> HIDE DEF cands
  <2>1. DOMAIN sel' = DOMAIN NoSel
    BY <1>5
  <2>2. DOMAIN NoSel = {"cands", "left", "group", "at", "tried"} /\ NoSel.group = {} /\ NoSel.tried = {}
    BY DEF NoSel
  <2>3. sel'.cands = cands /\ sel'.left = cands /\ sel'.group = {} /\ sel'.tried = {}
    BY <1>5, <2>2
  <2> QED
    BY <1>3, <1>5, <1>6, <1>7, <2>1, <2>2, <2>3 DEF MoveOK
<1>9. WalkOK(pc', model', roots', walk')
  <2> HIDE DEF cands
  <2> QED
    BY <1>1, <1>2, <1>5, SearchFacts DEF WalkOK
<1>10. NegExact(model, neg')
  <2>1. asked \subseteq Ptrs
    <3> SUFFICES ASSUME NEW i \in Visited(walk.root, ch), JustAnd(i) PROVE Children(i) \subseteq Ptrs
      OBVIOUS
    <3>1. CASE i \in Ids
      BY <1>3, <3>1, AskedPointers
    <3>2. CASE i \notin Ids
      <4> DEFINE kids == [j \in Ids |-> IF JustAnd(j) THEN {Idx(N(j).e[ch[j]])} ELSE Kids(j)]
      <4>1. \A j \in Ids : kids[j] \subseteq Kids(j)
        <5> SUFFICES ASSUME NEW j \in Ids, JustAnd(j) PROVE Idx(N(j).e[ch[j]]) \in Kids(j)
          OBVIOUS
        <5>1. N(j).k \in WordKinds /\ ch[j] \in {1, 2}
          BY DEF JustAnd, WordKinds, Justifications
        <5>2. DOMAIN N(j).e = {1, 2}
          BY <1>3, <5>1, WidthFacts
        <5> QED
          BY <1>3, <5>1, <5>2, KidsFacts
      <4>2. \A j \in Ids : Kids(j) \subseteq Ids /\ \A l \in Kids(j) : l < j
        BY <1>3, KidsFacts
      <4>3. kids \in [Ids -> SUBSET Ids] /\ \A j \in Ids : \A l \in kids[j] : l < j
        <5>1. kids = [j \in Ids |-> kids[j]]
          OBVIOUS
        <5> HIDE DEF kids
        <5> QED
          BY <4>1, <4>2, <5>1
      <4>4. Visited(walk.root, ch) = Down(kids, Idx(walk.root))
        BY DEF Visited
      <4>5. Idx(walk.root) \in Ids
        BY <1>3, PtrFacts
      <4>6. Down(kids, Idx(walk.root)) \subseteq Ids
        <5> HIDE DEF kids
        <5> QED
          BY <1>3, <4>3, <4>5, DownFacts
      <4> QED
        BY <3>2, <4>4, <4>6
    <3> QED
      BY <3>1, <3>2
  <2> HIDE DEF cands, asked
  <2> QED
    BY <1>2, <1>3, <1>5, <2>1, SearchFacts, CachedExact
<1>11. CASE cands = {}
  <2>1. Impossible
    BY <1>2, <1>3, <1>11, SearchFacts, NoCandidates
  <2>2. pc' = "done" /\ result' = "unsat"
    <3> HIDE DEF cands, asked
    <3> QED
      BY <1>5, <1>11
  <2>3. ModelOK(pc', model', neg')
    BY <1>1, <1>2, <1>3, <1>10, <2>2, SearchFacts DEF ModelOK
  <2>4. RootsOK(pc', model', roots') /\ ScoreOK(pc', model', score')
    BY <2>2 DEF RootsOK, ScoreOK, SearchPlaces
  <2>5. AnswerOK(pc', model', result')
    BY <2>1, <2>2 DEF AnswerOK
  <2> QED
    BY <1>1, <1>3, <1>8, <1>9, <2>3, <2>4, <2>5, Primed
<1>12. CASE cands # {}
  <2>1. pc' \in SearchPlaces /\ result' = result
    <3> HIDE DEF cands, asked
    <3> QED
      BY <1>5, <1>12 DEF SearchPlaces
  <2> QED
    BY <1>1, <1>2, <1>3, <1>8, <1>9, <1>10, <2>1, SearchStep
<1> QED
  BY <1>11, <1>12

(* SelectRandomMove, Pick, Randomize and RandomizeRange: the move chosen is *)
(* a typed one.                                                             *)
LEMMA ChooseInv == Inv /\ (SelectRandomMove \/ Pick \/ Randomize \/ RandomizeRange) => Inv'
<1> SUFFICES ASSUME Inv, SelectRandomMove \/ Pick \/ Randomize \/ RandomizeRange PROVE Inv'
  OBVIOUS
<1>1. /\ f' = f /\ pc \in {"walkMove", "pick"} /\ pc' \in {"apply", "moved"} /\ model' = model /\ roots' = roots
      /\ score' = score /\ result' = result /\ neg' = neg /\ walk' = walk /\ sel' = sel
  BY DEF SelectRandomMove, Pick, Randomize, RandomizeRange, NoneBetter
<1>2. pc \in SearchPlaces /\ pc' \in SearchPlaces /\ pc' \in AigPlaces /\ pc \notin AigPlaces
  BY <1>1 DEF SearchPlaces, AigPlaces
<1>3. /\ f \in Programs /\ ExactModel(model) /\ sel.cands \subseteq Inputs /\ TypedMove(best.cans)
      /\ \A c \in sel.tried : TypedMove(c)
  BY <1>2, SearchFacts
<1>4. CASE SelectRandomMove
  <2>1. PICK S \in {{i} : i \in sel.cands} \cup (IF f.o.gw THEN {sel.cands} ELSE {}) :
          \E c \in Product(S, LAMBDA i : RandomNeighbours(model[i], N(i).w)) :
            best' = [cans |-> c, sc |-> best.sc, move |-> "walk"]
    BY <1>4 DEF SelectRandomMove
  <2>2. PICK c \in Product(S, LAMBDA i : RandomNeighbours(model[i], N(i).w)) :
          best' = [cans |-> c, sc |-> best.sc, move |-> "walk"]
    BY <2>1
  <2>3. S \subseteq Inputs
    BY <1>3
  <2>4. TypedMove(c)
    BY <1>3, <2>3, RandomTyped
  <2>5. best'.cans = c
    BY <2>2
  <2>6. TypedMove(best'.cans)
    BY <2>4, <2>5
  <2> QED
    BY <2>6, <1>1, <1>2, SearchFacts, SearchStep DEF MoveOK, WalkOK
<1>5. CASE Pick
  <2>1. best' = best \/ \E c \in sel.tried : best' = [cans |-> c, sc |-> best.sc, move |-> "walk"]
    BY <1>5 DEF Pick
  <2>2. TypedMove(best'.cans)
    BY <1>3, <2>1
  <2> QED
    BY <2>2, <1>1, <1>2, SearchFacts, SearchStep DEF MoveOK, WalkOK
<1>6. CASE Randomize
  <2> DEFINE ones == {{i} : i \in {j \in sel.cands : f.o.randRange => N(j).w = 1}}
  <2>1. PICK S \in ones \cup (IF f.o.randAll THEN {sel.cands} ELSE {}) :
          \E c \in Product(S, RandomValues) : best' = [cans |-> c, sc |-> best.sc, move |-> "rand"]
    BY <1>6 DEF Randomize
  <2>2. PICK c \in Product(S, RandomValues) : best' = [cans |-> c, sc |-> best.sc, move |-> "rand"]
    BY <2>1
  <2>3. S \subseteq Inputs
    BY <1>3
  <2>4. TypedMove(c)
    BY <1>3, <2>3, RandomTyped
  <2>5. TypedMove(best'.cans)
    BY <2>2, <2>4
  <2> QED
    BY <2>5, <1>1, <1>2, SearchFacts, SearchStep DEF MoveOK, WalkOK
<1>7. CASE RandomizeRange
  <2>1. PICK i \in {j \in sel.cands : N(j).w > 1} : \E v \in Values(N(i).w) :
          best' = best \/ best' = [cans |-> [j \in {i} |-> v], sc |-> best.sc, move |-> "rand"]
    BY <1>7 DEF RandomizeRange
  <2>2. PICK v \in Values(N(i).w) :
          best' = best \/ best' = [cans |-> [j \in {i} |-> v], sc |-> best.sc, move |-> "rand"]
    BY <2>1
  <2>3. TypedMove([j \in {i} |-> v])
    BY <1>3 DEF TypedMove
  <2>4. TypedMove(best'.cans)
    BY <1>3, <2>2, <2>3
  <2> QED
    BY <2>4, <1>1, <1>2, SearchFacts, SearchStep DEF MoveOK, WalkOK
<1> QED
  BY <1>4, <1>5, <1>6, <1>7

(* NextGroup, OutOfFlips, TryMove and KindsTried: the search for the best   *)
(* neighbour.                                                               *)
LEMMA TryInv == Inv /\ (NextGroup \/ OutOfFlips \/ TryMove \/ KindsTried) => Inv'
<1> SUFFICES ASSUME Inv, NextGroup \/ OutOfFlips \/ TryMove \/ KindsTried PROVE Inv'
  OBVIOUS
<1>1. /\ f' = f /\ pc \in {"group", "try"} /\ pc' \in {"try", "moved", "apply", "group", "pick"}
      /\ model' = model /\ roots' = roots /\ score' = score /\ result' = result /\ neg' = neg /\ walk' = walk
  BY DEF NextGroup, OutOfFlips, TryMove, KindsTried
<1>2. pc \in SearchPlaces /\ pc' \in SearchPlaces /\ pc \notin AigPlaces
  BY <1>1 DEF SearchPlaces, AigPlaces
<1>3. /\ f \in Programs /\ ExactModel(model) /\ TypedMove(best.cans) /\ ~OverAigs
      /\ sel.cands \subseteq Inputs /\ sel.left \subseteq Inputs /\ sel.group \subseteq Inputs
      /\ DOMAIN sel = {"cands", "left", "group", "at", "tried"} /\ \A c \in sel.tried : TypedMove(c)
  BY <1>2, SearchFacts
<1>4. WalkOK(pc', model', roots', walk') /\ NegExact(model, neg')
  BY <1>1, <1>2, SearchFacts DEF WalkOK
<1> SUFFICES MoveOK(pc', sel', best')
  BY <1>1, <1>2, <1>3, <1>4, SearchStep
<1>5. CASE NextGroup
  <2>1. PICK S \in Groups : sel' = [sel EXCEPT !.group = S, !.left = @ \ S, !.at = First(1)]
    BY <1>5 DEF NextGroup
  <2>2. S \subseteq Inputs
    BY <1>3 DEF Groups
  <2>3. DOMAIN sel' = DOMAIN sel
    BY <2>1
  <2>4. /\ sel'.cands = sel.cands /\ sel'.left \subseteq sel.left /\ sel'.group = S /\ sel'.at = First(1)
        /\ sel'.tried = sel.tried
    BY <1>3, <2>1
  <2>5. best' = best
    BY <1>5 DEF NextGroup
  <2> QED
    BY <1>3, <2>2, <2>3, <2>4, <2>5, PositionFacts DEF MoveOK
<1>6. CASE OutOfFlips \/ KindsTried
  <2>1. sel' = sel /\ best' = best /\ pc' # "try"
    BY <1>6 DEF OutOfFlips, KindsTried
  <2> QED
    BY <1>3, <2>1 DEF MoveOK
<1>7. CASE TryMove
  <2> DEFINE S == sel.group
             at == sel.at
             next == NextPosition(at, at.ends + Cardinality({i \in S : IsLast(at, N(i).w)}), Cardinality(S))
  <2>1. at.k <= Len(Kinds) /\ pc = "try"
    BY <1>7 DEF TryMove
  <2>2. Position(at)
    BY <2>1 DEF Inv, MoveOK
  <2>3. PICK c \in Product(S, LAMBDA i : Neighbours(at, Base(i), N(i).w)) :
          LET m == Assign(model, c, Cone(S))
              s == Rescore(score, m, S \cup Cone(S))
              sc == FormulaScore(s)
              done == AllSatisfied(s)
              better == /\ f.o.strategy # "randWalk"
                        /\ sc > best.sc \/ (f.o.strategy = "bestSame" /\ sc = best.sc)
          IN /\ best' = IF done \/ better THEN [cans |-> c, sc |-> sc, move |-> Kinds[at.k]] ELSE best
             /\ sel' = [sel EXCEPT
                  !.at = IF better /\ f.o.strategy = "first" THEN NextKind(at.k) ELSE next,
                  !.tried = IF f.o.strategy = "randWalk" /\ ~done THEN @ \cup {c} ELSE @]
    BY <1>7 DEF TryMove
  <2>4. TypedMove(c)
    BY <1>3, <2>1, <2>2, NeighbourTyped
  <2> DEFINE m == Assign(model, c, Cone(S))
             s == Rescore(score, m, S \cup Cone(S))
             sc == FormulaScore(s)
             done == AllSatisfied(s)
             better == /\ f.o.strategy # "randWalk"
                       /\ sc > best.sc \/ (f.o.strategy = "bestSame" /\ sc = best.sc)
             to == IF better /\ f.o.strategy = "first" THEN NextKind(at.k) ELSE next
             more == IF f.o.strategy = "randWalk" /\ ~done THEN sel.tried \cup {c} ELSE sel.tried
  <2>5. TypedMove(best'.cans)
    <3>1. best' = IF done \/ better THEN [cans |-> c, sc |-> sc, move |-> Kinds[at.k]] ELSE best
      BY <2>3
    <3> HIDE DEF done, better, sc
    <3> QED
      BY <1>3, <2>4, <3>1
  <2>6. sel' = [sel EXCEPT !.at = to, !.tried = more]
    BY <1>3, <2>3
  <2>7. Position(to)
    <3>1. at.k \in Nat \ {0}
      BY <2>2 DEF Position
    <3>2. Position(next) /\ Position(NextKind(at.k))
      BY <2>2, <3>1, PositionFacts
    <3> HIDE DEF better, next
    <3> QED
      BY <3>2
  <2>8. \A b \in more : TypedMove(b)
    <3> HIDE DEF done
    <3> QED
      BY <1>3, <2>4
  <2> HIDE DEF to, more
  <2>9. DOMAIN sel' = DOMAIN sel
    BY <2>6
  <2>10. /\ sel'.cands = sel.cands /\ sel'.left = sel.left /\ sel'.group = sel.group /\ sel'.at = to
        /\ sel'.tried = more
    BY <1>3, <2>6
  <2> QED
    BY <1>3, <2>5, <2>7, <2>8, <2>9, <2>10 DEF MoveOK
<1> QED
  BY <1>5, <1>6, <1>7



(* A root that is a constant keeps its value, so no move violates it. *)
LEMMA NoConstRoots ==
  ASSUME f \in Programs, NEW m0, ExactModel(m0), NEW m, ExactModel(m), \A p \in BadRoots(m0) : ~ConstPtr(p)
  PROVE  \A p \in BadRoots(m) : ~ConstPtr(p)
<1> SUFFICES ASSUME NEW p \in BadRoots(m), ConstPtr(p) PROVE FALSE
  OBVIOUS
<1>1. p \in Roots /\ ValueIn(m, p) = 0
  BY DEF BadRoots
<1>2. p \in Ptrs
  BY <1>1, RootFacts
<1>3. ValueIn(m0, p) = 0
  BY <1>1, <1>2, ConstExact
<1> QED
  BY <1>1, <1>3 DEF BadRoots

(* ApplyMove: what is updated along the cone is exact again. *)
LEMMA ApplyInv == Inv /\ ApplyMove => Inv'
<1> SUFFICES ASSUME Inv, ApplyMove PROVE Inv'
  OBVIOUS
<1> DEFINE c == best.cans
           S == DOMAIN c
           touched == S \cup Cone(S)
           m == Assign(model, c, Cone(S))
<1>1. /\ f' = f /\ pc = "apply" /\ pc' = "moved" /\ ~OverAigs /\ model' = m
      /\ neg' = Refreshed(neg, m, touched) /\ roots' = UpdatedRoots(m, touched)
      /\ score' = IF UsesScore THEN Rescore(score, m, touched) ELSE score
      /\ result' = result /\ walk' = walk /\ sel' = sel /\ best' = best
  BY DEF ApplyMove
<1>2. pc \in SearchPlaces /\ pc' \in SearchPlaces
  BY <1>1 DEF SearchPlaces
<1>3. /\ f \in Programs /\ ExactModel(model) /\ model \in Models /\ NegExact(model, neg) /\ NoOpposites
      /\ roots = BadRoots(model) /\ TypedMove(c) /\ result = "none" /\ \A p \in BadRoots(model) : ~ConstPtr(p)
      /\ UsesScore => ScoreExact(score, model)
  BY <1>2, SearchFacts
<1>4. ExactModel(m) /\ touched = Above(S) /\ \A i \in Ids \ touched : m[i] = model[i]
  BY <1>3, MoveExact
<1>5. m \in Models /\ touched \subseteq Ids
  BY <1>3, <1>4, AboveFacts DEF ExactModel
<1> HIDE DEF m, touched
<1>6. NegExact(m, neg')
  BY <1>1, <1>3, <1>4, RefreshedExact
<1>7. ModelOK(pc', model', neg')
  BY <1>1, <1>4, <1>6 DEF ModelOK
<1>8. RootsOK(pc', model', roots')
  <2>1. roots' = BadRoots(m)
    BY <1>1, <1>3, <1>4, <1>5, RootsExact
  <2>2. \A p \in BadRoots(m) : ~ConstPtr(p)
    BY <1>3, <1>4, NoConstRoots
  <2> QED
    BY <1>1, <1>3, <2>1, <2>2 DEF RootsOK
<1>9. ScoreOK(pc', model', score')
  <2>1. UsesScore => ScoreExact(Rescore(score, m, Above(S)), m)
    BY <1>3, <1>4, <1>5, RescoreExact
  <2> QED
    BY <1>1, <1>4, <2>1 DEF ScoreOK
<1>10. WalkOK(pc', model', roots', walk') /\ MoveOK(pc', sel', best')
  BY <1>1, <1>2, SearchFacts DEF WalkOK, MoveOK
<1>11. AnswerOK(pc', model', result')
  BY <1>1, <1>3 DEF AnswerOK
<1> QED
  BY <1>1, <1>3, <1>7, <1>8, <1>9, <1>10, <1>11, Primed

(* Moved: without a violated root the search is over. *)
LEMMA MovedInv == Inv /\ Moved => Inv'
<1> SUFFICES ASSUME Inv, Moved PROVE Inv'
  OBVIOUS
<1>1. /\ f' = f /\ pc = "moved" /\ model' = model /\ neg' = neg /\ roots' = roots /\ score' = score
      /\ walk' = NoWalk /\ sel' = NoSel /\ best' = NoBest
      /\ \/ roots = {} /\ pc' = "done" /\ result' = "sat"
         \/ pc' = "loop" /\ result' = result
  BY DEF Moved, Answer
<1>2. pc \in SearchPlaces
  BY <1>1 DEF SearchPlaces
<1>3. /\ DOMAIN NoSel = {"cands", "left", "group", "at", "tried"} /\ NoSel.cands = {} /\ NoSel.left = {}
      /\ NoSel.group = {} /\ NoSel.tried = {}
  BY DEF NoSel
<1>4. TypedMove(NoBest.cans)
  BY DEF NoBest, Empty, TypedMove
<1>5. MoveOK(pc', sel', best')
  BY <1>1, <1>3, <1>4 DEF MoveOK
<1>6. WalkOK(pc', model', roots', walk')
  BY <1>1 DEF WalkOK, NoWalk
<1>7. CASE pc' = "loop"
  <2>1. pc' \in SearchPlaces /\ pc' \in AigPlaces /\ NegExact(model, neg') /\ result' = result
    BY <1>1, <1>2, <1>7, SearchFacts DEF SearchPlaces, AigPlaces
  <2> QED
    BY <1>1, <1>2, <1>5, <1>6, <2>1, SearchStep
<1>8. CASE pc' = "done"
  <2>1. f \in Programs /\ model \in Models /\ BadRoots(model) = {}
    BY <1>1, <1>2, <1>8, SearchFacts
  <2>2. AnswerOK(pc', model', result')
    BY <1>1, <1>8, <2>1, NoBadRoots DEF AnswerOK
  <2>3. ModelOK(pc', model', neg')
    BY <1>1, <1>2, <1>8, SearchFacts DEF ModelOK, AigPlaces
  <2>4. RootsOK(pc', model', roots') /\ ScoreOK(pc', model', score')
    BY <1>8 DEF RootsOK, ScoreOK, SearchPlaces
  <2> QED
    BY <1>1, <1>5, <1>6, <2>1, <2>2, <2>3, <2>4, Primed
<1> QED
  BY <1>1, <1>7, <1>8

(* AigStart and AigRestart: the initial model. *)
LEMMA AigStartInv == Inv /\ (AigStart \/ AigRestart) => Inv'
<1> SUFFICES ASSUME Inv, AigStart \/ AigRestart PROVE Inv'
  OBVIOUS
<1>1. /\ f' = f /\ pc \in {"start", "loop"} /\ OverAigs /\ model' = AigModel /\ neg' = neg /\ pc' = "collect"
      /\ walk' = walk /\ sel' = sel /\ best' = best /\ result' = result
  BY DEF AigStart, AigRestart
<1>2. f \in Programs /\ DOMAIN neg = {} /\ result = "none"
  BY <1>1 DEF Inv, ModelOK, AnswerOK
<1>3. ExactModel(AigModel)
  BY <1>1, <1>2, AigModelExact
<1>4. ModelOK(pc', model', neg')
  BY <1>1, <1>2, <1>3 DEF ModelOK, NegExact, AigPlaces
<1>5. RootsOK(pc', model', roots') /\ ScoreOK(pc', model', score')
  BY <1>1 DEF RootsOK, ScoreOK, SearchPlaces
<1>6. WalkOK(pc', model', roots', walk') /\ MoveOK(pc', sel', best')
  BY <1>1 DEF Inv, WalkOK, MoveOK
<1>7. AnswerOK(pc', model', result')
  BY <1>1, <1>2 DEF AnswerOK
<1> QED
  BY <1>1, <1>2, <1>4, <1>5, <1>6, <1>7, Primed

(* AigCollect: a contradiction among the roots, or the tables. *)
LEMMA AigCollectInv == Inv /\ AigCollect => Inv'
<1> SUFFICES ASSUME Inv, AigCollect PROVE Inv'
  OBVIOUS
<1> DEFINE bad == BadRoots(model)
<1>1. /\ f' = f /\ pc = "collect" /\ OverAigs /\ model' = model /\ neg' = neg
      /\ walk' = walk /\ sel' = sel /\ best' = best
      /\ \/ /\ pc' = "done" /\ result' = "unsat" /\ \E p \in Roots : -p \in Roots \/ (p \in bad /\ ConstPtr(p))
         \/ /\ ~\E p \in Roots : -p \in Roots \/ (p \in bad /\ ConstPtr(p))
            /\ roots' = bad /\ score' = AigScores(model)
            /\ \/ bad = {} /\ pc' = "done" /\ result' = "sat"
               \/ pc' = "loop" /\ result' = result
  BY DEF AigCollect, Answer, BadRoots
<1>2. /\ f \in Programs /\ DOMAIN neg = {} /\ result = "none" /\ ExactModel(model) /\ model \in Models
      /\ NegExact(model, neg)
  BY <1>1 DEF Inv, ModelOK, AnswerOK, ExactModel
<1>3. ModelOK(pc', model', neg')
  BY <1>1, <1>2 DEF ModelOK, AigPlaces
<1>4. RootsOK(pc', model', roots')
  <2>1. bad \subseteq Roots
    BY DEF BadRoots
  <2> HIDE DEF bad
  <2>2. pc' # "done" => NoOpposites /\ roots' = bad /\ \A p \in bad : ~ConstPtr(p)
    BY <1>1, <2>1 DEF NoOpposites
  <2> QED
    BY <1>1, <2>2 DEF RootsOK, SearchPlaces, bad
<1>5. ScoreOK(pc', model', score')
  BY <1>1, <1>2, AigScoresExact DEF ScoreOK, SearchPlaces
<1>6. WalkOK(pc', model', roots', walk') /\ MoveOK(pc', sel', best')
  <2> HIDE DEF bad
  <2> QED
    BY <1>1 DEF Inv, WalkOK, MoveOK
<1>7. AnswerOK(pc', model', result')
  <2>1. ASSUME \E p \in Roots : -p \in Roots \/ (p \in bad /\ ConstPtr(p)) PROVE Impossible
    BY <1>2, <2>1, RootsImpossible DEF NoOpposites
  <2>2. bad = {} => \A p \in Roots : ValueIn(model, p) = 1
    BY <1>2, NoBadRoots
  <2> HIDE DEF bad
  <2> QED
    BY <1>1, <1>2, <2>1, <2>2 DEF AnswerOK
<1> QED
  BY <1>1, <1>2, <1>3, <1>4, <1>5, <1>6, <1>7, Primed

(* AigPropagate: the operand a path goes to is asked for the opposite of    *)
(* its value.                                                               *)
LEMMA AigPropagateInv == Inv /\ AigPropagate => Inv'
<1> SUFFICES ASSUME Inv, AigPropagate PROVE Inv'
  OBVIOUS
<1> DEFINE i == Idx(walk.cur)
           e == N(i).e
           t == IF walk.cur < 0 THEN 1 - walk.t ELSE walk.t
           v == [j \in {1, 2} |-> ValueIn(model, e[j])]
<1>1. /\ f' = f /\ pc = "walk" /\ pc' = pc /\ OverAigs /\ ~AtInput /\ model' = model /\ neg' = neg /\ roots' = roots
      /\ score' = score /\ sel' = sel /\ best' = best /\ result' = result
      /\ \E j \in AigPath(v) : \E a \in AigValues(t, v[3 - j]) : walk' = [walk EXCEPT !.cur = e[j], !.t = a]
  BY DEF AigPropagate, Walking
<1>2. PICK j \in AigPath(v) : \E a \in AigValues(t, v[3 - j]) : walk' = [walk EXCEPT !.cur = e[j], !.t = a]
  BY <1>1
<1>3. PICK a \in AigValues(t, v[3 - j]) : walk' = [walk EXCEPT !.cur = e[j], !.t = a]
  BY <1>2
<1>4. pc \in SearchPlaces /\ pc \in AigPlaces
  BY <1>1 DEF SearchPlaces, AigPlaces
<1>5. /\ f \in Programs /\ ExactModel(model) /\ model \in Models /\ NegExact(model, neg)
      /\ DOMAIN walk = {"root", "cur", "t"} /\ walk.root \in roots /\ walk.cur \in Ptrs
      /\ ~ConstPtr(walk.cur) /\ walk.t \in Values(N(i).w) /\ ValueIn(model, walk.cur) # walk.t
  BY <1>1, <1>4, SearchFacts DEF Inv, WalkOK
<1>6. i \in Ids /\ N(i).w = 1 /\ N(i).k = "and"
  BY <1>1, <1>5, PtrFacts, RootFacts DEF AtInput, ConstPtr
<1>7. DOMAIN e = {1, 2} /\ \A l \in {1, 2} : e[l] \in Ptrs /\ ~ConstPtr(e[l]) /\ N(Idx(e[l])).w = 1
  <2>1. N(i).k \in WordKinds
    BY <1>6 DEF WordKinds
  <2>2. DOMAIN e = {1, 2}
    BY <1>5, <1>6, <2>1, WidthFacts
  <2> QED
    BY <1>1, <1>5, <1>6, <2>2, NodeFacts, RootFacts
<1>8. v[1] \in {0, 1} /\ v[2] \in {0, 1} /\ v[1] = ValueIn(model, e[1]) /\ v[2] = ValueIn(model, e[2])
  BY <1>5, <1>7, ModelFacts
<1>9. model[i] \in {0, 1} /\ walk.t \in {0, 1} /\ ValueIn(model, walk.cur) = IF walk.cur < 0 THEN 1 - model[i] ELSE model[i]
  BY <1>5, <1>6, ModelFacts, OneBit
<1>10. t \in {0, 1} /\ t # model[i]
  BY <1>5, <1>9
<1>11. model[i] = IF v[1] = 1 /\ v[2] = 1 THEN 1 ELSE 0
  <2>1. model[i] = NodeValue(N(i), model)
    BY <1>5, <1>6 DEF ExactModel, Inputs
  <2>2. NodeValue(N(i), model) = AigAnd(i, model)
    BY <1>1, <1>5, <1>6, AigAndValue
  <2> QED
    BY <1>8, <2>1, <2>2 DEF AigAnd
<1> HIDE DEF v, t
<1>12. j \in {1, 2} /\ a \in {0, 1} /\ v[j] # a
  <2>1. j \in {1, 2}
    BY DEF AigPath
  <2>2. t = 1 => a = 1 /\ v[j] = 0
    BY <1>8, <1>10, <1>11, <2>1 DEF AigPath, AigValues
  <2>3. t = 0 => v[j] = 1 /\ v[3 - j] = 1
    BY <1>8, <1>10, <1>11, <2>1
  <2>4. t = 0 => a = 0
    BY <2>3 DEF AigValues
  <2> QED
    BY <1>10, <2>1, <2>2, <2>3, <2>4
<1>13. ValueIn(model, e[j]) # a /\ e[j] \in Ptrs /\ ~ConstPtr(e[j]) /\ a \in Values(N(Idx(e[j])).w)
  BY <1>7, <1>8, <1>12, OneBit
<1> HIDE DEF e
<1>14. DOMAIN walk' = DOMAIN walk
  BY <1>3
<1>15. walk'.root = walk.root /\ walk'.cur = e[j] /\ walk'.t = a
  BY <1>3, <1>5
<1>16. WalkOK(pc', model', roots', walk')
  BY <1>1, <1>5, <1>13, <1>14, <1>15 DEF WalkOK
<1>17. MoveOK(pc', sel', best')
  BY <1>1 DEF Inv, MoveOK
<1> QED
  BY <1>1, <1>4, <1>5, <1>16, <1>17, SearchStep

(* AigUpdateCone: as ApplyMove, for the one input of the move. *)
LEMMA AigUpdateInv == Inv /\ AigUpdateCone => Inv'
<1> SUFFICES ASSUME Inv, AigUpdateCone PROVE Inv'
  OBVIOUS
<1> DEFINE i == CHOOSE j \in DOMAIN best.cans : TRUE
           x == best.cans[i]
           m == AigMoved(model, i, x)
           s == AigRescored(score, m, Above({i}))
<1>1. /\ f' = f /\ pc = "apply" /\ pc' = "moved" /\ OverAigs /\ model' = [j \in Ids |-> m[j]]
      /\ roots' = AigUnsatRoots(m, Above({i})) /\ score' = [p \in DOMAIN score |-> s[p]]
      /\ neg' = neg /\ walk' = walk /\ sel' = sel /\ best' = best /\ result' = result
  BY DEF AigUpdateCone, AigCone, AigMoved, AigRescored
<1>2. pc \in SearchPlaces /\ pc' \in SearchPlaces /\ pc' \in AigPlaces
  BY <1>1 DEF SearchPlaces, AigPlaces
<1>3. /\ f \in Programs /\ ExactModel(model) /\ model \in Models /\ DOMAIN neg = {} /\ NoOpposites
      /\ roots = BadRoots(model) /\ TypedMove(best.cans) /\ result = "none"
      /\ \A p \in BadRoots(model) : ~ConstPtr(p)
  BY <1>1, <1>2, SearchFacts
<1>4. ScoreExact(score, model)
  BY <1>1, <1>2, SearchFacts DEF UsesScore
<1>5. i \in DOMAIN best.cans
  BY <1>1 DEF Inv, MoveOK
<1>6. i \in Inputs /\ x \in Values(N(i).w)
  BY <1>3, <1>5 DEF TypedMove
<1> HIDE DEF i, x
<1>7. /\ m = [j \in Ids |-> m[j]] /\ ExactModel(m)
      /\ \A j \in Ids \ Above({i}) : m[j] = model[j]
  BY <1>1, <1>3, <1>6, AigMoveExact
<1> HIDE DEF m
<1>8. m \in Models /\ Above({i}) \subseteq Ids
  BY <1>3, <1>7, AboveFacts DEF ExactModel
<1>9. s = [p \in DOMAIN score |-> s[p]] /\ ScoreExact(s, m)
  BY <1>1, <1>3, <1>4, <1>7, <1>8, AigRescoreExact
<1> HIDE DEF s
<1>10. model' = m
  BY <1>1, <1>7
<1>11. ModelOK(pc', model', neg')
  BY <1>1, <1>2, <1>3, <1>7, <1>10 DEF ModelOK, NegExact
<1>12. RootsOK(pc', model', roots')
  <2>1. roots' = BadRoots(m)
    BY <1>1, <1>3, <1>7, <1>8, RootsExact
  <2>2. \A p \in BadRoots(m) : ~ConstPtr(p)
    BY <1>3, <1>7, NoConstRoots
  <2> QED
    BY <1>3, <1>10, <2>1, <2>2 DEF RootsOK
<1>13. ScoreOK(pc', model', score')
  BY <1>1, <1>9, <1>10 DEF ScoreOK
<1>14. WalkOK(pc', model', roots', walk') /\ MoveOK(pc', sel', best')
  BY <1>1, <1>2, SearchFacts DEF WalkOK, MoveOK
<1>15. AnswerOK(pc', model', result')
  BY <1>1, <1>3 DEF AnswerOK
<1> QED
  BY <1>1, <1>3, <1>11, <1>12, <1>13, <1>14, <1>15, Primed



-----------------------------------------------------------------------------
(* The theorems *)

(* Every step of every engine keeps the invariant. *)
LEMMA NextInv == Inv /\ [Next]_vars => Inv'
<1> SUFFICES ASSUME Inv, [Next]_vars PROVE Inv'
  OBVIOUS
<1>1. CASE UNCHANGED vars
  <2>1. /\ f' = f /\ pc' = pc /\ model' = model /\ neg' = neg /\ roots' = roots /\ score' = score
        /\ walk' = walk /\ sel' = sel /\ best' = best /\ result' = result
    BY <1>1 DEF vars
  <2> QED
    BY <2>1, Primed DEF Inv
<1>2. CASE Next
  <2>1. CASE Start \/ Interrupt \/ Limit \/ Collect \/ Restart
    BY <2>1, StartInv, StopInv, CollectInv, RestartInv
  <2>2. CASE SelectConstraint \/ AigSelectRoot \/ FoundInput \/ DeadEnd \/ Propagate
    BY <2>2, SelectInv, FoundInv, DeadEndInv, PropagateInv
  <2>3. CASE SelectCandidates \/ SelectRandomMove \/ Pick \/ Randomize \/ RandomizeRange
    BY <2>3, CandidatesInv, ChooseInv
  <2>4. CASE NextGroup \/ OutOfFlips \/ TryMove \/ KindsTried
    BY <2>4, TryInv
  <2>5. CASE ApplyMove \/ Moved
    BY <2>5, ApplyInv, MovedInv
  <2>6. CASE AigStart \/ AigRestart \/ AigCollect \/ AigPropagate \/ AigUpdateCone
    BY <2>6, AigStartInv, AigCollectInv, AigPropagateInv, AigUpdateInv
  <2> QED
    BY <1>2, <2>1, <2>2, <2>3, <2>4, <2>5, <2>6 DEF Next
<1> QED
  BY <1>1, <1>2

(* The invariant holds in every state of a search. *)
THEOREM SearchInvariant == Spec => []Inv
<1>1. Init => Inv
  BY InitInv
<1>2. Inv /\ [Next]_vars => Inv'
  BY NextInv
<1> QED
  BY <1>1, <1>2, PTL DEF Spec

(* The invariant says that what the engines keep up to date is exact. *)
LEMMA InvExact == Inv => ConeExact
<1> SUFFICES ASSUME Inv PROVE ConeExact
  OBVIOUS
<1>1. f \in Programs
  BY DEF Inv
<1>2. InSearch <=> pc \in SearchPlaces
  BY DEF InSearch, SearchPlaces
<1>3. model # Empty => /\ \A i \in Ids \ Inputs : model[i] = NodeValue(N(i), model)
                       /\ \A i \in DOMAIN neg : neg[i] = Ones(N(i).w) - model[i]
  BY DEF Inv, ModelOK, ExactModel, NegExact
<1>4. InSearch => roots = {p \in Roots : ValueIn(model, p) = 0}
  BY <1>2 DEF Inv, RootsOK, BadRoots
<1>5. ASSUME InSearch, UsesScore
      PROVE  /\ score = ComputeScores(model)
             /\ \A p \in DOMAIN score : (score[p] = Unit) <=> (ValueIn(model, p) = 1)
  <2>1. ExactModel(model) /\ model \in Models /\ ScoreExact(score, model)
    BY <1>2, <1>5, SearchFacts
  <2>2. score = ComputeScores(model)
    BY <1>1, <2>1, ComputeExact
  <2>3. DOMAIN score = Pointers(Scored)
    BY <2>1 DEF ScoreExact
  <2> QED
    BY <1>1, <2>1, <2>2, <2>3, ScoresRight
<1> QED
  BY <1>3, <1>4, <1>5 DEF ConeExact

(* What a move updates along the cone of the changed inputs is what one     *)
(* would compute from scratch: the values of nodes and of cached inverted   *)
(* nodes, the table of violated roots, and the scores, which are 1.0 only   *)
(* for what is true (btor_lsutils_update_cone, update_cone of aigprop.c).   *)
THEOREM ConeIsExact == Spec => []ConeExact
<1>1. Spec => []Inv
  BY SearchInvariant
<1>2. Inv => ConeExact
  BY InvExact
<1> QED
  BY <1>1, <1>2, PTL

(* A walk of AIGPROP asks each node for the opposite of its value, down to  *)
(* the input that the move flips (select_move of aigprop.c).                *)
THEOREM WalkFlips == Spec => []AigMoveFlips
<1>1. Spec => []Inv
  BY SearchInvariant
<1>2. Inv => AigMoveFlips
  BY DEF Inv, WalkOK, AigMoveFlips, Walking
<1> QED
  BY <1>1, <1>2, PTL

(* A sat answer comes with a model of all roots, and an unsat answer only   *)
(* if no assignment of the inputs satisfies them (sat_prop_solver,          *)
(* sat_sls_solver, sat_aigprop_solver).                                     *)
THEOREM AnswersAreSound == Spec => []AnswersSound
<1>1. Spec => []Inv
  BY SearchInvariant
<1>2. Inv => AnswersSound
  BY NoSolutions DEF Inv, AnswerOK, AnswersSound
<1> QED
  BY <1>1, <1>2, PTL
=============================================================================
