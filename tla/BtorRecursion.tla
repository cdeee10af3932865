--------------------------- MODULE BtorRecursion ---------------------------
(***************************************************************************)
(* Functions that are defined by recursion over a graph: the premisses on  *)
(* the way of an apply, the value of a node, the cone above a node.  Such  *)
(* a definition has a solution if every non-empty set of arguments has one *)
(* that the definition reduces to arguments outside the set.               *)
(***************************************************************************)
EXTENDS Integers, WellFoundedInduction, TLAPS

WellFounded(D, dep) ==
  /\ dep \in [D -> SUBSET D]
  /\ \A S \in SUBSET D : S # {} => \E x \in S : dep[x] \cap S = {}

Recursion(D, V, dep, step) ==
  /\ step \in [D \X [D -> V] -> V]
  /\ \A x \in D : \A F, G \in [D -> V] :
       (\A y \in dep[x] : F[y] = G[y]) => step[<<x, F>>] = step[<<x, G>>]

Solvable(D, V, step) == \E F \in [D -> V] : \A x \in D : F[x] = step[<<x, F>>]

(* A recursive definition over a well-founded relation has a solution. *)
LEMMA RecursiveFunction ==
  ASSUME NEW D, NEW V, V # {},
         NEW dep, WellFounded(D, dep),
         NEW step, Recursion(D, V, dep, step)
  PROVE  Solvable(D, V, step)
<1> USE DEF WellFounded, Recursion, Solvable
<1> DEFINE Good(C, F) == /\ \A x \in C : dep[x] \subseteq C
                         /\ \A x \in C : F[x] = step[<<x, F>>]
           U == {y \in D : \E C \in SUBSET D, F \in [D -> V] : Good(C, F) /\ y \in C}
           At(y, v) == \E C \in SUBSET D, F \in [D -> V] : Good(C, F) /\ y \in C /\ F[y] = v
           W == [y \in D |-> IF y \in U THEN CHOOSE v \in V : At(y, v) ELSE CHOOSE v \in V : TRUE]
<1>0. ASSUME NEW x \in D, NEW F \in [D -> V], NEW G \in [D -> V],
             \A y \in dep[x] : F[y] = G[y]
      PROVE  step[<<x, F>>] = step[<<x, G>>]
  BY <1>0
<1>1. ASSUME NEW C1 \in SUBSET D, NEW C2 \in SUBSET D,
             NEW F1 \in [D -> V], NEW F2 \in [D -> V], Good(C1, F1), Good(C2, F2)
      PROVE  \A x \in C1 \cap C2 : F1[x] = F2[x]
  <2> DEFINE S == {x \in C1 \cap C2 : F1[x] # F2[x]}
  <2>1. SUFFICES ASSUME S # {} PROVE FALSE
    OBVIOUS
  <2>2. S \in SUBSET D
    OBVIOUS
  <2>3. PICK x \in S : dep[x] \cap S = {}
    BY <2>1, <2>2
  <2>4. x \in D /\ x \in C1 \cap C2 /\ F1[x] # F2[x]
    BY <2>3
  <2>5. \A y \in dep[x] : y \in C1 \cap C2 /\ y \notin S
    BY <1>1, <2>3, <2>4
  <2>6. \A y \in dep[x] : F1[y] = F2[y]
    BY <2>5
  <2>7. step[<<x, F1>>] = step[<<x, F2>>]
    <3> HIDE DEF Recursion, WellFounded
    <3> QED
      BY <1>0, <2>4, <2>6
  <2> QED
    BY <1>1, <2>4, <2>7
<1>2. \A y \in D : y \in U => \E v \in V : At(y, v)
  OBVIOUS
<1>3. W \in [D -> V]
  BY <1>2
<1>4. ASSUME NEW C \in SUBSET D, NEW F \in [D -> V], Good(C, F), NEW y \in C
      PROVE  W[y] = F[y]
  <2>1. y \in U /\ y \in D
    BY <1>4
  <2>2. At(y, W[y])
    <3>1. \E v \in V : At(y, v)
      BY <1>2, <2>1
    <3>2. W[y] = CHOOSE v \in V : At(y, v)
      BY <2>1
    <3> HIDE DEF At, W
    <3> QED
      BY <3>1, <3>2
  <2>3. PICK C2 \in SUBSET D, F2 \in [D -> V] : Good(C2, F2) /\ y \in C2 /\ F2[y] = W[y]
    BY <2>2
  <2> HIDE DEF Good, W
  <2> QED
    BY <1>1, <1>4, <2>3
<1>5. Good(U, W)
  <2> SUFFICES ASSUME NEW x \in U PROVE dep[x] \subseteq U /\ W[x] = step[<<x, W>>]
    OBVIOUS
  <2>1. PICK C \in SUBSET D, F \in [D -> V] : Good(C, F) /\ x \in C
    OBVIOUS
  <2>2. x \in D /\ dep[x] \subseteq C /\ F[x] = step[<<x, F>>]
    BY <2>1
  <2>3. dep[x] \subseteq U
    <3> HIDE DEF Good
    <3>1. \A y \in C : y \in D /\ y \in U
      BY <2>1
    <3> HIDE DEF U
    <3> QED
      BY <2>2, <3>1
  <2>4. \A y \in C : W[y] = F[y]
    <3> HIDE DEF Good, W
    <3> QED
      BY <1>4, <2>1
  <2> HIDE DEF W, U
  <2>5. step[<<x, W>>] = step[<<x, F>>]
    <3>1. \A y \in dep[x] : W[y] = F[y]
      BY <2>2, <2>4
    <3>2. W \in [D -> V]
      BY <1>3
    <3>3. x \in D
      BY <2>2
    <3> QED
      BY <1>0, <3>1, <3>2, <3>3
  <2> QED
    BY <2>1, <2>2, <2>3, <2>4, <2>5
<1>6. U = D
  <2> SUFFICES ASSUME U # D PROVE FALSE
    OBVIOUS
  <2>1. D \ U \in SUBSET D /\ D \ U # {}
    OBVIOUS
  <2>2. PICK x \in D \ U : dep[x] \cap (D \ U) = {}
    BY <2>1
  <2> DEFINE C == U \cup {x}
             F == [W EXCEPT ![x] = step[<<x, W>>]]
  <2>3. x \in D /\ x \notin U /\ dep[x] \subseteq U
    BY <2>2
  <2> HIDE DEF W
  <2>4. step[<<x, W>>] \in V
    BY <1>3, <2>3
  <2>5. F \in [D -> V] /\ F[x] = step[<<x, W>>] /\ \A y \in U : F[y] = W[y]
    <3> DEFINE s == step[<<x, W>>]
    <3> HIDE DEF s, Recursion, WellFounded
    <3>1. F = [W EXCEPT ![x] = s] /\ s \in V
      BY <2>4 DEF s
    <3>2. U \subseteq D
      OBVIOUS
    <3> HIDE DEF F, U
    <3>3. F \in [D -> V] /\ F[x] = s /\ \A y \in U : F[y] = W[y]
      BY <1>3, <2>3, <3>1, <3>2
    <3> QED
      BY <3>3 DEF s
  <2>6. C \in SUBSET D /\ x \in C
    BY <2>3
  <2>7. \A y \in C : dep[y] \subseteq U
    BY <1>5, <2>3
  <2> HIDE DEF F, U
  <2>8. ASSUME NEW y \in C PROVE F[y] = step[<<y, F>>]
    <3> HIDE DEF C
    <3>1. y \in D /\ \A z \in dep[y] : F[z] = W[z]
      BY <2>5, <2>6, <2>7
    <3>2. step[<<y, F>>] = step[<<y, W>>]
      <4>1. W \in [D -> V]
        BY <1>3
      <4>2. F \in [D -> V]
        BY <2>5
      <4>3. y \in D
        BY <3>1
      <4>4. \A z \in dep[y] : F[z] = W[z]
        BY <3>1
      <4> QED
        BY <1>0, <4>1, <4>2, <4>3, <4>4
    <3>3. CASE y \in U
      <4>1. W[y] = step[<<y, W>>] /\ F[y] = W[y]
        BY <1>5, <2>5, <3>3, Zenon
      <4> QED
        BY <3>2, <4>1
    <3>4. CASE y = x
      BY <2>5, <3>2, <3>4
    <3> QED
      BY <3>3, <3>4 DEF C
  <2>9. Good(C, F)
    BY <2>7, <2>8
  <2> QED
    BY <2>3, <2>5, <2>6, <2>9 DEF U
<1> HIDE DEF W, U
<1> QED
  BY <1>3, <1>5, <1>6

(* A set of numbers that is not empty has a least element. *)
LEMMA LeastNumber ==
  ASSUME NEW T, T \subseteq Nat, T # {}
  PROVE  \E n \in T : \A j \in T : n <= j
<1> DEFINE Less == OpToRel(<, Nat)
<1>1. PICK n \in T : \A j \in T : ~ (<<j, n>> \in Less)
  BY NatLessThanWellFounded, WFMin
<1>2. \A j, l \in Nat : j < l => <<j, l>> \in Less
  BY Zenon DEF OpToRel
<1> HIDE DEF Less
<1>3. ASSUME NEW j \in T PROVE n <= j
  <2>1. j \in Nat /\ n \in Nat
    OBVIOUS
  <2>2. ~ (j < n)
    BY <1>1, <1>2, <2>1, Zenon
  <2> QED
    BY <2>1, <2>2
<1> QED
  BY <1>3

(* So has a set of things that have ranks. *)
LEMMA LeastRank ==
  ASSUME NEW D, NEW rank \in [D -> Nat], NEW S \in SUBSET D, S # {}
  PROVE  \E x \in S : \A y \in S : rank[x] <= rank[y]
<1> DEFINE T == {rank[x] : x \in S}
<1>1. T \subseteq Nat /\ T # {}
  OBVIOUS
<1>2. PICK n \in T : \A j \in T : n <= j
  BY <1>1, LeastNumber
<1>3. PICK x \in S : rank[x] = n
  OBVIOUS
<1> QED
  BY <1>2, <1>3

(* A definition that uses what has a smaller rank has a solution. *)
LEMMA RankedRecursion ==
  ASSUME NEW D, NEW rank \in [D -> Nat], NEW V, V # {},
         NEW step \in [D \X [D -> V] -> V],
         \A x \in D : \A F, G \in [D -> V] :
           (\A y \in D : rank[y] < rank[x] => F[y] = G[y]) => step[<<x, F>>] = step[<<x, G>>]
  PROVE  Solvable(D, V, step)
<1> DEFINE dep == [x \in D |-> {y \in D : rank[y] < rank[x]}]
<1>1. ASSUME NEW S \in SUBSET D, S # {} PROVE \E x \in S : dep[x] \cap S = {}
  <2>1. PICK x \in S : \A y \in S : rank[x] <= rank[y]
    BY <1>1, LeastRank
  <2>2. \A y \in S : rank[x] \in Nat /\ rank[y] \in Nat /\ ~ (rank[y] < rank[x])
    BY <2>1
  <2> QED
    BY <2>2
<1>2. WellFounded(D, dep)
  BY <1>1 DEF WellFounded
<1>3. Recursion(D, V, dep, step)
  <2>1. \A x \in D : dep[x] = {y \in D : rank[y] < rank[x]}
    OBVIOUS
  <2> HIDE DEF dep
  <2>2. ASSUME NEW x \in D, NEW F \in [D -> V], NEW G \in [D -> V],
               \A y \in dep[x] : F[y] = G[y]
        PROVE  step[<<x, F>>] = step[<<x, G>>]
    <3>1. \A y \in D : rank[y] < rank[x] => F[y] = G[y]
      BY <2>1, <2>2
    <3> QED
      BY <3>1
  <2> QED
    BY <2>2 DEF Recursion
<1> QED
  BY <1>2, <1>3, RecursiveFunction
=============================================================================
