------------------------------ MODULE BtorApi -------------------------------
(***************************************************************************)
(* The API functions that build bit-vector terms (boolector.c).  Each      *)
(* checks its arguments and aborts the program on the first one that it    *)
(* does not take, else it builds an expression and hands it out.           *)
(*                                                                         *)
(* A user's program is a number of calls that build terms, and a last call *)
(* on what was built, whose result is compared with what boolector.h says  *)
(* of the function.                                                        *)
(***************************************************************************)
EXTENDS BtorExp

CONSTANTS
  Programs,      \* what a program may use, see below
  Values,        \* the values of the variables: a set of functions
  MaxWidth       \* UINT32_MAX, the largest bit-width

(* A program has an option rewrite-level, the terms it starts with, the     *)
(* functions it calls, and how many operands it builds before its last      *)
(* call; bound stands for BTOR_REC_RW_BOUND.                                *)
ASSUME ApiAssumption ==
  /\ \A p \in Programs : p.level \in 0..3 /\ p.operands \in 0..2 /\ p.bound \in Nat
  /\ MaxWidth \in Nat \ {0}

VARIABLES
  program,       \* a member of Programs
  built,         \* the terms built so far
  last,          \* the last call: function, arguments and result
  aborted        \* BTOR_ABORT stopped the program

vars == <<program, built, last, aborted>>

NoCall == [f |-> "none", args |-> <<>>, res |-> None]

\* The option set of the instance; the other rewriting options have their defaults.
Options == Context(program.level, program.bound)

(* A handle of another sort: an uninterpreted function. *)
Uf == Node("uf", 0, <<>>, 0, 0)

-----------------------------------------------------------------------------
(* What the functions abort on (BTOR_ABORT_...).                            *)

IsBv(t) == t # None /\ t.w > 0             \* ARG_NULL, IS_NOT_BV

UnaryAccepted(t) == IsBv(t)
BinaryAccepted(a, b) == IsBv(a) /\ IsBv(b) /\ a.w = b.w
BooleanAccepted(a, b) == IsBv(a) /\ IsBv(b) /\ a.w = 1 /\ b.w = 1
ConcatAccepted(a, b) == IsBv(a) /\ IsBv(b) /\ a.w <= MaxWidth - b.w
SliceAccepted(t, u, l) == IsBv(t) /\ u >= l /\ u < t.w
CondAccepted(t, a, b) == IsBv(t) /\ t.w = 1 /\ a # None /\ b # None /\ a.w = b.w

\* A shift amount may have as many bits as it takes to count the bits of a.
ShiftAccepted(a, b) ==
  IsBv(a) /\ IsBv(b) /\ (a.w = b.w \/ 2^b.w = a.w)
ShiftAmount(c, a, b) == ExpUext(c, b, a.w - b.w)

ExtAccepted(t, n) == IsBv(t) /\ n <= MaxWidth - t.w
RepeatAccepted(t, n) == IsBv(t) /\ MaxWidth \div n >= t.w
IndexedAccepted(f, t, n) ==
  CASE f \in {"uext", "sext"} -> ExtAccepted(t, n)
    [] f = "repeat" -> RepeatAccepted(t, n)
    [] OTHER -> IsBv(t)

-----------------------------------------------------------------------------
(* Constants of a sort, and tests for them.                                 *)

ConstFunctions == {"zero", "ones", "one", "min_signed", "max_signed", "unsigned_int", "int"}

ConstExp(f, w, n) ==
  CASE f = "zero" -> ZeroExp(w)
    [] f = "ones" -> OnesExp(w)
    [] f = "one" -> OneExp(w)
    [] f = "min_signed" -> MinSignedExp(w)
    [] f = "max_signed" -> MaxSignedExp(w)
    [] f = "unsigned_int" -> UnsignedExp(w, n)
    [] f = "int" -> IntExp(w, n)

IsConstOnes(t) == IsConst(t) /\ ConstVal(t) = Ones(t.w)
IsConstMinSigned(t) == IsConst(t) /\ ConstVal(t) = 2^(t.w - 1)
IsConstMaxSigned(t) == IsConst(t) /\ ConstVal(t) = 2^(t.w - 1) - 1

TestFunctions == {"is_zero", "is_one", "is_ones", "is_min_signed", "is_max_signed"}

\* The tests return a Boolean of C: a constant of one bit here.
TestExp(f, t) ==
  IF CASE f = "is_zero" -> IsConstZero(t)
       [] f = "is_one" -> IsConstOne(t)
       [] f = "is_ones" -> IsConstOnes(t)
       [] f = "is_min_signed" -> IsConstMinSigned(t)
       [] f = "is_max_signed" -> IsConstMaxSigned(t)
  THEN True ELSE False

-----------------------------------------------------------------------------
(* The program.                                                             *)

Init ==
  /\ program \in Programs
  /\ built = {}
  /\ last = NoCall
  /\ aborted = FALSE

\* What a function that has accepted its arguments returns.
ResultOf(c, f, args) ==
  CASE f \in ShiftFunctions -> Build(c, f, <<args[1], ShiftAmount(c, args[1], args[2])>>)
    [] f \in ConstFunctions -> ConstExp(f, args[1], args[2])
    [] f \in TestFunctions -> TestExp(f, args[1])
    [] f = "linear" -> LinearTerm(c, args[1], 100)
    [] OTHER -> Build(c, f, args)

Running == ~aborted /\ last = NoCall

(* Terms that a call may take.  Operands are nodes built from the inputs;   *)
(* the last call takes all that was built, and a wrong handle only if       *)
(* nothing was.                                                             *)
Arguments ==
  built \cup program.inputs \cup (IF program.operands = 0 THEN {None, Uf} ELSE {})
IsOperand(f, terms) ==
  f \in NodeFunctions /\ terms \subseteq program.inputs /\ Cardinality(built) < program.operands
Takes(f, terms) == f \in program.functions /\ (built \subseteq terms \/ IsOperand(f, terms))

Call(f, args, accepted) ==
  /\ IF accepted THEN last' = [f |-> f, args |-> args, res |-> None] /\ UNCHANGED aborted
     ELSE aborted' = TRUE /\ UNCHANGED last
  /\ UNCHANGED <<program, built>>

CallUnary ==
  /\ Running
  /\ \E f \in UnaryFunctions, t \in Arguments :
       Takes(f, {t}) /\ Call(f, <<t>>, UnaryAccepted(t))

CallBinary ==
  /\ Running
  /\ \E f \in BinaryFunctions, a \in Arguments, b \in Arguments :
       Takes(f, {a, b}) /\ Call(f, <<a, b>>, BinaryAccepted(a, b))

CallShift ==
  /\ Running
  /\ \E f \in ShiftFunctions, a \in Arguments, b \in Arguments :
       Takes(f, {a, b}) /\ Call(f, <<a, b>>, ShiftAccepted(a, b))

CallBoolean ==
  /\ Running
  /\ \E f \in BooleanFunctions, a \in Arguments, b \in Arguments :
       Takes(f, {a, b}) /\ Call(f, <<a, b>>, BooleanAccepted(a, b))

CallConcat ==
  /\ Running
  /\ \E a \in Arguments, b \in Arguments :
       Takes("concat", {a, b}) /\ Call("concat", <<a, b>>, ConcatAccepted(a, b))

\* Conditionals of functions are left out.
CallCond ==
  /\ Running
  /\ \E t \in Arguments, a \in Arguments \ {Uf}, b \in Arguments :
       Takes("cond", {t, a, b}) /\ Call("cond", <<t, a, b>>, CondAccepted(t, a, b))

CallSlice ==
  /\ Running
  /\ \E t \in Arguments : \E u \in 0..t.w, l \in 0..t.w :
       Takes("slice", {t}) /\ Call("slice", <<t, u, l>>, SliceAccepted(t, u, l))

CallIndexed ==
  /\ Running
  /\ \E f \in IndexedFunctions, t \in Arguments, n \in 1..4 :
       Takes(f, {t}) /\ Call(f, <<t, n>>, IndexedAccepted(f, t, n))

CallConst ==
  /\ Running
  /\ \E f \in ConstFunctions, w \in 1..3, n \in -4..8 :
       Takes(f, {}) /\ (f = "int" \/ n >= 0) /\ Call(f, <<w, n>>, TRUE)

CallTest ==
  /\ Running
  /\ \E f \in TestFunctions, t \in Arguments :
       Takes(f, {t}) /\ Call(f, <<t>>, UnaryAccepted(t))

\* btor_rewrite_linear_term, which the solving of equations calls
CallLinear ==
  /\ Running /\ program.level > 2
  /\ \E t \in Arguments \ {None, Uf} : Takes("linear", {t}) /\ Call("linear", <<t>>, TRUE)

\* The body of the function.
Return ==
  /\ last # NoCall /\ last.res = None
  /\ last' = [last EXCEPT !.res = ResultOf(Options, last.f, last.args)]
  /\ UNCHANGED <<program, built, aborted>>

\* The terms among the arguments of a call.
TermArguments(call) ==
  LET n == CASE call.f = "cond" -> 3
             [] call.f \in {"slice"} \cup UnaryFunctions \cup IndexedFunctions -> 1
             [] OTHER -> 2
  IN {call.args[i] : i \in 1..n}

\* The program goes on with the result as an operand.
Keep ==
  /\ last.res # None /\ IsOperand(last.f, TermArguments(last))
  /\ built' = built \cup {last.res}
  /\ last' = NoCall
  /\ UNCHANGED <<program, aborted>>

Next ==
  \/ CallUnary \/ CallBinary \/ CallShift \/ CallBoolean \/ CallConcat
  \/ CallCond \/ CallSlice \/ CallIndexed \/ CallConst \/ CallTest \/ CallLinear
  \/ Return \/ Keep

Spec == Init /\ [][Next]_vars

-----------------------------------------------------------------------------
(* What boolector.h and SMT-LIB say of the functions.                       *)

Signed(w, v) == IF v >= 2^(w - 1) THEN v - 2^w ELSE v
Truth(p) == IF p THEN 1 ELSE 0
Bits(w, v) == [i \in 0..w - 1 |-> (v \div 2^i) % 2]
AbsVal(n) == IF n < 0 THEN -n ELSE n
Trunc(n, m) == IF (n < 0) = (m < 0) THEN AbsVal(n) \div AbsVal(m) ELSE -(AbsVal(n) \div AbsVal(m))
InRange(w, n) == n >= -(2^(w - 1)) /\ n < 2^(w - 1)

Conj(w, v, u) == Meaning("and", w, v, u)
Rotated(w, v, n) == ((v * 2^(n % w)) % 2^w) + (v \div 2^(w - (n % w)))     \* to the left

UnaryDoc(f, w, v) ==
  CASE f = "not" -> Ones(w) - v
    [] f = "neg" -> (-v) % 2^w
    [] f = "redor" -> Truth(v # 0)
    [] f = "redand" -> Truth(v = Ones(w))
    [] f = "redxor" -> Cardinality({i \in 0..w - 1 : Bits(w, v)[i] = 1}) % 2
    [] f = "inc" -> (v + 1) % 2^w
    [] f = "dec" -> (v - 1) % 2^w
    [] f = "copy" -> v

BinaryDoc(f, w, v, u) ==
  LET s == Signed(w, v)
      t == Signed(w, u)
  IN CASE f \in CoreFunctions -> Meaning(f, w, v, u)
       [] f = "xor" -> v + u - 2 * Conj(w, v, u)
       [] f = "xnor" -> Ones(w) - (v + u - 2 * Conj(w, v, u))
       [] f = "nand" -> Ones(w) - Conj(w, v, u)
       [] f = "or" -> v + u - Conj(w, v, u)
       [] f = "nor" -> Ones(w) - (v + u - Conj(w, v, u))
       [] f = "ne" -> Truth(v # u)
       [] f = "slt" -> Truth(s < t)
       [] f = "slte" -> Truth(s <= t)
       [] f = "sgt" -> Truth(s > t)
       [] f = "sgte" -> Truth(s >= t)
       [] f = "ulte" -> Truth(v <= u)
       [] f = "ugt" -> Truth(v > u)
       [] f = "ugte" -> Truth(v >= u)
       [] f = "sub" -> (v - u) % 2^w
       [] f = "sdiv" -> IF u = 0 THEN (IF s < 0 THEN 1 ELSE Ones(w)) ELSE Trunc(s, t) % 2^w
       [] f = "srem" -> IF u = 0 THEN v ELSE (s - t * Trunc(s, t)) % 2^w
       [] f = "smod" -> IF u = 0 THEN v
                        ELSE LET r == AbsVal(s) % AbsVal(t)
                                 m == (IF s < 0 THEN -r ELSE r)
                             IN (IF r = 0 \/ (s < 0) = (t < 0) THEN m ELSE m + t) % 2^w
       [] f = "uaddo" -> Truth(v + u > Ones(w))
       [] f = "saddo" -> Truth(~InRange(w, s + t))
       [] f = "usubo" -> Truth(v < u)
       [] f = "ssubo" -> Truth(~InRange(w, s - t))
       [] f = "umulo" -> Truth(v * u > Ones(w))
       [] f = "smulo" -> Truth(~InRange(w, s * t))
       [] f = "sdivo" -> Truth(u # 0 /\ ~InRange(w, Trunc(s, t)))
       [] f = "sll" -> Meaning("sll", w, v, u)
       [] f = "srl" -> Meaning("srl", w, v, u)
       [] f = "sra" -> (s \div 2^(IF u > w THEN w ELSE u)) % 2^w
       [] f = "rol" -> Rotated(w, v, u)
       [] f = "ror" -> Rotated(w, v, w - (u % w))
       [] f = "implies" -> Truth(v <= u)
       [] f = "iff" -> Truth(v = u)

IndexedDoc(f, w, v, n) ==
  CASE f = "uext" -> v
    [] f = "sext" -> Signed(w, v) % 2^(w + n)
    [] f = "repeat" -> LET rep[i \in 1..n] == IF i = 1 THEN v ELSE rep[i - 1] * 2^w + v IN rep[n]
    [] f = "roli" -> Rotated(w, v, n)
    [] f = "rori" -> Rotated(w, v, w - (n % w))

ConstDoc(f, w, n) ==
  CASE f = "zero" -> 0
    [] f = "one" -> 1
    [] f = "ones" -> Ones(w)
    [] f = "min_signed" -> 2^(w - 1)
    [] f = "max_signed" -> 2^(w - 1) - 1
    [] f \in {"unsigned_int", "int"} -> n % 2^w

\* The constant a test asks for.
TestedValue(f, w) ==
  ConstDoc(CASE f = "is_zero" -> "zero" [] f = "is_one" -> "one" [] f = "is_ones" -> "ones"
             [] f = "is_min_signed" -> "min_signed" [] f = "is_max_signed" -> "max_signed", w, 0)

RECURSIVE Eval(_, _)

\* The value of t when variable x has the value env[x].
Eval(t, env) ==
  LET v(i) == Eval(t.e[i], env)
      n == CASE t.k = "var" -> env[t.x]
             [] t.k = "const" -> t.x
             [] t.k = "slice" -> (v(1) \div 2^t.y) % 2^(t.x - t.y + 1)
             [] t.k = "cond" -> IF v(1) = 1 THEN v(2) ELSE v(3)
             [] OTHER -> Meaning(t.k, t.e[2].w, v(1), v(2))
  IN IF t.inv THEN Ones(t.w) - n ELSE n

\* The value of the last call's result, from the values of its arguments.
Documented(f, args, env) ==
  LET v(i) == Eval(args[i], env)
      w == args[1].w
  IN CASE f \in UnaryFunctions -> UnaryDoc(f, w, v(1))
       [] f \in BinaryFunctions \cup ShiftFunctions \cup BooleanFunctions ->
            BinaryDoc(f, w, v(1), v(2))
       [] f = "concat" -> Meaning("concat", args[2].w, v(1), v(2))
       [] f = "cond" -> IF v(1) = 1 THEN v(2) ELSE v(3)
       [] f = "slice" -> (v(1) \div 2^args[3]) % 2^(args[2] - args[3] + 1)
       [] f \in IndexedFunctions -> IndexedDoc(f, w, v(1), args[2])
       [] f \in ConstFunctions -> ConstDoc(f, args[1], args[2])
       [] f \in TestFunctions -> Truth(IsConst(args[1]) /\ v(1) = TestedValue(f, w))

DocumentedWidth(f, args) ==
  CASE f \in {"redor", "redxor", "redand", "eq", "ult", "ne", "implies", "iff"}
         \cup CompareFunctions \cup OverflowFunctions \cup TestFunctions -> 1
    [] f \in ConstFunctions -> args[1]
    [] f = "concat" -> args[1].w + args[2].w
    [] f = "cond" -> args[2].w
    [] f = "slice" -> args[2] - args[3] + 1
    [] f \in {"uext", "sext"} -> args[1].w + args[2]
    [] f = "repeat" -> args[1].w * args[2]
    [] OTHER -> args[1].w

\* The sorts of a node's children fit its kind (btor_dbg_precond_..._exp).
RECURSIVE WellFormed(_)
WellFormed(t) ==
  LET e(i) == t.e[i].w
  IN /\ t.w > 0
     /\ \A i \in DOMAIN t.e : WellFormed(t.e[i])
     /\ CASE t.k = "var" -> TRUE
          [] t.k = "const" -> t.x % 2 = 0 /\ t.x < 2^t.w
          [] t.k = "slice" -> t.y <= t.x /\ t.x < e(1) /\ t.w = t.x - t.y + 1
          [] t.k = "cond" -> e(1) = 1 /\ e(2) = t.w /\ e(3) = t.w
          [] t.k \in {"eq", "ult"} -> t.w = 1 /\ e(1) = e(2)
          [] t.k = "concat" -> t.w = e(1) + e(2)
          [] OTHER -> e(1) = t.w /\ e(2) = t.w

-----------------------------------------------------------------------------
(* Properties.                                                              *)

BuiltTerm == last.res # None /\ last.f # "linear"

(* Whatever rules the rewriter applies at whatever level, the term a        *)
(* function of the API returns has, for all values of the variables, the    *)
(* value and the bit-width that boolector.h documents for it, and no node   *)
(* in it breaks a precondition of the node layer.                           *)
MeaningKept ==
  BuiltTerm =>
    /\ WellFormed(last.res) /\ last.res.w = DocumentedWidth(last.f, last.args)
    /\ \A env \in Values : Eval(last.res, env) = Documented(last.f, last.args, env)

(* A term that is split for solving an equation is the odd factor times the *)
(* variable plus the rest, so the equation has the solution that is         *)
(* substituted.                                                             *)
LinearTermExact ==
  last.f = "linear" /\ last.res # None /\ last.res.ok =>
    LET t == last.args[1]
        r == last.res
    IN /\ r.lhs.k = "var" /\ r.factor % 2 = 1
       /\ \A env \in Values :
            Eval(t, env) = (r.factor * Eval(r.lhs, env) + Eval(r.rhs, env)) % 2^t.w
=============================================================================
