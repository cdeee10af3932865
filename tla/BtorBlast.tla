------------------------------ MODULE BtorBlast -----------------------------
(***************************************************************************)
(* Bit blasting: expressions become vectors of and-inverter graphs         *)
(* (btor_synthesize_exp), vectors become clauses, constraints and          *)
(* assumptions become literals of the SAT solver (btorcore.c).             *)
(*                                                                         *)
(* Expressions are numbered, children first; a pointer is a number,        *)
(* negative when inverted.  An expression is k, its width w, its children  *)
(* e, and x, y: the bits of a constant, the bounds of a slice.             *)
(***************************************************************************)
EXTENDS BtorAigVec

CONSTANT Programs

T == INSTANCE BtorTerms

VARIABLES
  prog,       \* the expressions to start with, what may be done to them, the options
  exps,       \* the expressions
  live,       \* those that have not been deleted
  av,         \* the vectors of the synthesized ones
  m,          \* the AIG manager and, in it, the SAT manager
  cons,       \* the synthesized constraints
  asm,        \* the literals of the current assumptions
  falsified   \* found_constraint_false

vars == <<prog, exps, live, av, m, cons, asm, falsified>>

Empty == [i \in {} |-> 0]
Idx(p) == IF p < 0 THEN -p ELSE p

Init ==
  /\ prog \in Programs
  /\ exps = prog.exps
  /\ live = DOMAIN prog.exps
  /\ av = Empty
  /\ m = NewManager(prog.o)
  /\ cons = {} /\ asm = Empty /\ falsified = FALSE

-----------------------------------------------------------------------------
(* btor_synthesize_exp.                                                     *)

Circuit(c, n, a) ==
  CASE n.k = "const" -> VecConst(c, n.w, n.x)
    [] n.k = "var" -> VecVar(c, n.w)
    [] n.k = "slice" -> VecSlice(c, a[1], n.x, n.y)
    [] n.k = "and" -> VecAnd(c, a[1], a[2])
    [] n.k = "eq" -> VecEq(c, a[1], a[2])
    [] n.k = "add" -> VecAdd(c, a[1], a[2])
    [] n.k = "mul" -> VecMul(c, a[1], a[2])
    [] n.k = "ult" -> VecUlt(c, a[1], a[2])
    [] n.k \in {"sll", "srl"} -> VecShift(c, a[1], a[2], n.k = "sll")
    [] n.k = "udiv" -> VecUdiv(c, a[1], a[2])
    [] n.k = "urem" -> VecUrem(c, a[1], a[2])
    [] n.k = "concat" -> VecConcat(c, a[1], a[2])
    [] n.k = "cond" -> VecCond(c, a[1], a[2], a[3])

(* The vectors of the children are inverted in place for the call, or       *)
(* copied if two children are the same node.  The numbers of the operands'  *)
(* bits follow that of the constant.                                        *)
SameMemory(e) == \E i, j \in DOMAIN e : i # j /\ Idx(e[i]) = Idx(e[j])
OperandVec(vecs, p) == IF p < 0 THEN Inverted(vecs[-p]) ELSE vecs[p]
Numbered(vs, first) ==
  [j \in DOMAIN vs |->
     LET before == first + Len(FlattenSeq(SubSeq(vs, 1, j - 1))) IN [b \in DOMAIN vs[j] |-> before + b]]

Placed(r, p) == [m |-> p.m, v |-> [i \in DOMAIN r.v |-> Value(p.regs, r.v[i])]]
Performed(s, regs, r, copies) ==
  Placed(r, Perform([m |-> s.m, regs |-> regs], ReleaseVec(r.m, copies).calls))
Copied(start, n, a) == IF SameMemory(n.e) THEN VecCopy(start, a) ELSE [m |-> start, v |-> <<>>]
SynthesizeNode(s, n, a) ==
  LET regs == <<AigTrue>> \o FlattenSeq(a)
      copies == Copied([n |-> Len(regs), calls |-> <<>>], n, [i \in 1..Len(regs) - 1 |-> i + 1])
      first == IF SameMemory(n.e) THEN Len(regs) ELSE 1
  IN Performed(s, regs, Circuit(copies.m, n, Numbered(a, first)), copies.v)

\* The operands of an addition or a multiplication are sorted.
Operands(s, n) ==
  LET a == [j \in DOMAIN n.e |-> OperandVec(s.av, n.e[j])]
  IN IF n.k \in {"add", "mul"} THEN Ordered(s.m, a[1], a[2]) ELSE a
Synthesized(s, n, i, r) ==
  [m |-> IF n.k = "const" THEN r.m ELSE VecToSat(r.m, r.v), av |-> s.av @@ (i :> r.v)]
SynthesizeChildrenFirst(s, n, i) == Synthesized(s, n, i, SynthesizeNode(s, n, Operands(s, n)))

RECURSIVE SynthesizeExp(_, _, _)
SynthesizeExp(s, terms, i) ==
  IF i \in DOMAIN s.av THEN s
  ELSE SynthesizeChildrenFirst(
         FoldLeft(LAMBDA acc, p : SynthesizeExp(acc, terms, Idx(p)), s, terms[i].e), terms[i], i)

\* exp_to_aig
ExpToAig(s, p) ==
  LET a == Copy(s.m, OperandVec(s.av, p)[1]) IN [m |-> a.m, p |-> a.p]

\* What the SAT solver knows may differ from call to call.
Knowing == {[m EXCEPT !.know = know] : know \in (IF prog.o.know THEN BOOLEAN ELSE {FALSE})}
Forget(k) == [k EXCEPT !.know = FALSE]

-----------------------------------------------------------------------------
\* configure_sat_mgr, btor_sat_init
InitSat ==
  /\ ~m.init /\ prog.o.sat
  /\ m' = SatInit(m)
  /\ UNCHANGED <<prog, exps, live, av, cons, asm, falsified>>

(* The manager and the vectors once expression i of terms is synthesized.   *)
WithVector(terms, i) == {SynthesizeExp([m |-> k, av |-> av], terms, i) : k \in Knowing}

\* btor_exp_to_aigvec and the other callers that only want the vector
Synthesize(i) ==
  /\ i \in live \ DOMAIN av
  /\ \E s \in WithVector(exps, i) : m' = Forget(s.m) /\ av' = s.av
  /\ UNCHANGED <<prog, exps, live, cons, asm, falsified>>

\* A new expression over one-bit ones, synthesized at once
Create(n) ==
  /\ Len(exps) < prog.max
  /\ exps' = Append(exps, n)
  /\ live' = live \cup {Len(exps) + 1}
  /\ \E s \in WithVector(exps', Len(exps) + 1) : m' = Forget(s.m) /\ av' = s.av
  /\ UNCHANGED <<prog, cons, asm, falsified>>

Pointers == live \cup {-i : i \in live}
NewNodes ==
  {[k |-> k, w |-> 1, e |-> <<p, q>>, x |-> 0, y |-> 0] :
     k \in prog.kinds \ {"cond"}, p \in Pointers, q \in Pointers}
    \cup {[k |-> "cond", w |-> 1, e |-> <<p, q, r>>, x |-> 0, y |-> 0] :
            p \in (IF "cond" \in prog.kinds THEN Pointers ELSE {}), q \in Pointers, r \in Pointers}

\* btor_process_unsynthesized_constraints
Constrain(p) ==
  /\ m.init /\ ~falsified
  /\ p \in prog.roots \ cons /\ Idx(p) \in live
  /\ \E s \in WithVector(exps, Idx(p)) :
       LET a == ExpToAig(s, p)
       IN /\ m' = Forget(IF a.p = AigFalse THEN a.m ELSE Release(AddToplevel(a.m, a.p), a.p))
          /\ av' = s.av
          /\ falsified' = (a.p = AigFalse)
  /\ cons' = cons \cup {p}
  /\ UNCHANGED <<prog, exps, live, asm>>

\* exp_to_cnf_lit
Literal(k, p) ==
  LET i == Real(p)
      val == SatFixed(k, k.nodes[i].cnf)
      lit == IF val # 0 THEN val ELSE k.nodes[i].cnf
  IN [m |-> Release(k, i), lit |-> IF p < 0 THEN -lit ELSE lit]
CnfLiteral(a) ==
  IF IsConst(a.p) THEN [m |-> a.m, lit |-> IF a.p = AigFalse THEN -1 ELSE 1]
  ELSE Literal(IF a.m.nodes[Real(a.p)].cnf = 0 THEN Tseitin(a.m, Real(a.p)) ELSE a.m, a.p)

Assume(p) ==
  /\ m.init /\ ~falsified
  /\ p \in prog.roots \ DOMAIN asm /\ Idx(p) \in live
  /\ Cardinality(DOMAIN asm) < prog.asms
  /\ \E s \in WithVector(exps, Idx(p)) : \E c \in {CnfLiteral(ExpToAig(s, p))} :
       m' = Forget(c.m) /\ av' = s.av /\ asm' = asm @@ (p :> c.lit)
  /\ UNCHANGED <<prog, exps, live, cons, falsified>>

\* A call of the SAT solver consumes the assumptions.
CheckSat ==
  /\ m.init /\ asm # Empty
  /\ asm' = Empty
  /\ UNCHANGED <<prog, exps, live, av, m, cons, falsified>>

\* The deletion of an expression that nothing refers to releases its vector.
Delete(i) ==
  /\ i \in live /\ prog.o.deletes /\ exps[i].k # "var"
  /\ \A j \in live : \A p \in Range(exps[j].e) : Idx(p) # i
  /\ {i, -i} \cap (cons \cup DOMAIN asm) = {}
  /\ live' = live \ {i}
  /\ m' = IF i \in DOMAIN av THEN ReleaseAll(m, av[i]) ELSE m
  /\ av' = [j \in DOMAIN av \ {i} |-> av[j]]
  /\ UNCHANGED <<prog, exps, cons, asm, falsified>>

Next ==
  \/ InitSat \/ CheckSat
  \/ \E i \in live : Synthesize(i) \/ Delete(i)
  \/ \E n \in NewNodes : Create(n)
  \/ \E p \in prog.roots : Constrain(p) \/ Assume(p)

Spec == Init /\ [][Next]_vars

-----------------------------------------------------------------------------
(* What the vectors and the clauses should mean.                            *)

Inputs == {i \in DOMAIN exps : exps[i].k = "var"}
Envs ==
  {env \in [Inputs -> UNION {0..2^exps[i].w - 1 : i \in Inputs}] :
     \A i \in Inputs : env[i] < 2^exps[i].w}

\* The values of all expressions.
Values(env) ==
  LET ones(i) == 2^exps[i].w - 1
      val[i \in DOMAIN exps] ==
        LET n == exps[i]
            v(j) == IF n.e[j] < 0 THEN ones(-n.e[j]) - val[-n.e[j]] ELSE val[n.e[j]]
        IN CASE n.k = "var" -> env[i]
             [] n.k = "const" -> n.x
             [] n.k = "slice" -> (v(1) \div 2^n.y) % 2^(n.x - n.y + 1)
             [] n.k = "cond" -> IF v(1) = 1 THEN v(2) ELSE v(3)
             [] OTHER -> T!Meaning(n.k, exps[Idx(n.e[2])].w, v(1), v(2))
  IN [i \in DOMAIN exps |-> val[i]]

IsTrue(vals, p) == vals[Idx(p)] = (IF p > 0 THEN 1 ELSE 0)
Satisfies(env, ps) == LET vals == Values(env) IN \A p \in ps : IsTrue(vals, p)

\* The variables of the graph that are true, and all nodes that are.
InputBits(env) ==
  UNION {{av[i][j] : j \in {l \in 1..exps[i].w : (env[i] \div 2^(exps[i].w - l)) % 2 = 1}} :
           i \in Inputs \cap DOMAIN av}
TrueNodes(bits) ==
  LET t[i \in DOMAIN m.nodes] ==
        LET n == m.nodes[i]
            on(p) == IF p < 0 THEN ~t[-p] ELSE t[p]
        IN IF n.l = 0 THEN i \in bits ELSE on(n.l) /\ on(n.r)
  IN {i \in DOMAIN m.nodes : t[i]} \cup {1}
VecValue(v, true) ==
  LET w == Len(v)
      sum[j \in 0..w] ==
        IF j = 0 THEN 0
        ELSE 2 * sum[j - 1] + (IF (Real(v[j]) \in true) = (v[j] > 0) THEN 1 ELSE 0)
  IN sum[w]

\* The inputs as they are read back from a model of the SAT solver.
ReadBack(a) ==
  [i \in Inputs |->
     IF i \notin DOMAIN av THEN 0
     ELSE LET w == exps[i].w
              sum[j \in 0..w] ==
                IF j = 0 THEN 0 ELSE 2 * sum[j - 1] + (IF Assignment(m, av[i][j], a) THEN 1 ELSE 0)
          IN sum[w]]

-----------------------------------------------------------------------------
(* Properties.                                                              *)

(* The counter of a node is the number of its parents and of the vectors of *)
(* expressions that hold it: no operation loses a reference or leaks one,   *)
(* and nothing is freed that is still in use (btor_aig_release).            *)
RefsExact ==
  LET held == UNION {{<<i, j>> : j \in DOMAIN av[i]} : i \in DOMAIN av}
  IN /\ \A i \in DOMAIN m.nodes :
          m.nodes[i].refs =
            Cardinality({h \in held : Real(av[h[1]][h[2]]) = i})
              + Cardinality({j \in DOMAIN m.nodes : Real(m.nodes[j].l) = i})
              + Cardinality({j \in DOMAIN m.nodes : Real(m.nodes[j].r) = i})
     /\ \A h \in held : LET p == av[h[1]][h[2]] IN IsConst(p) \/ Real(p) \in DOMAIN m.nodes
     /\ \A i \in DOMAIN m.nodes :
          m.nodes[i].l # 0 => {Real(p) : p \in Kids(m, i)} \subseteq DOMAIN m.nodes

(* Two live nodes never have the same children, in either order when they   *)
(* are sorted, and no node has a constant or twice the same child; a CNF id *)
(* belongs to one node (the unique table, cnfid2aig).                       *)
HashConsed ==
  \A i, j \in {l \in DOMAIN m.nodes : m.nodes[l].l # 0} :
    /\ ~IsConst(Left(m, i)) /\ ~IsConst(Right(m, i)) /\ Real(Left(m, i)) # Real(Right(m, i))
    /\ i # j => IF m.sort THEN Kids(m, i) # Kids(m, j)
                ELSE <<Left(m, i), Right(m, i)>> # <<Left(m, j), Right(m, j)>>
    /\ i # j /\ m.nodes[i].cnf # 0 => m.nodes[i].cnf # m.nodes[j].cnf
    /\ m.nodes[i].cnf # 0 => m.aigOf[m.nodes[i].cnf] = i

(* The graph of AIGs is exact and minimal at any time, however many         *)
(* intermediate nodes the circuits create and release by hand.              *)
AigsExact == RefsExact /\ HashConsed

(* Every vector has the value of its expression under every assignment that *)
(* the constraints admit: the circuits, the two-level rules and what is     *)
(* taken from the SAT solver keep the meaning (btor_synthesize_exp).        *)
VectorsExact ==
  \A env \in Envs :
    LET vals == Values(env)
        true == TrueNodes(InputBits(env))
    IN (\A p \in cons : IsTrue(vals, p)) =>
         \A i \in DOMAIN av : VecValue(av[i], true) = vals[i]

(* In every model of the clauses each encoded node has the value that the   *)
(* variables give it, also after its id was given up and it was encoded     *)
(* again (btor_aig_to_sat_tseitin).                                         *)
EncodingExact ==
  \A a \in m.models :
    LET true == TrueNodes({i \in DOMAIN m.nodes : m.nodes[i].l = 0 /\ Assignment(m, i, a)})
    IN \A i \in DOMAIN m.nodes : m.nodes[i].cnf # 0 => ((m.nodes[i].cnf \in a) <=> (i \in true))

(* A model of the SAT solver under the assumptions reads back as inputs     *)
(* that satisfy all constraints and assumptions, and if it has none there   *)
(* are no such inputs (exp_to_cnf_lit, btor_aig_get_assignment); and every  *)
(* encoded node has its value in it, which the next check builds on.        *)
AnswersExact ==
  /\ EncodingExact
  /\ m.init =>
       LET asserted == cons \cup DOMAIN asm
           found == {a \in m.models : \A p \in DOMAIN asm : Holds(asm[p], a)}
       IN IF falsified \/ found = {} THEN \A env \in Envs : ~Satisfies(env, asserted)
          ELSE \A a \in found : Satisfies(ReadBack(a), asserted)
=============================================================================
