------------------------------- MODULE BtorAig ------------------------------
(***************************************************************************)
(* And-inverter graphs and their clauses (btoraig.c), over the SAT manager *)
(* (btorsat.c).  A manager m is a record:                                  *)
(*   nodes   the live nodes, from id to children, reference counter and    *)
(*           CNF id (0 if not encoded); a variable has no children         *)
(*   next    the next id (COUNT_STACK (id2aig)); ids are never used again  *)
(*   sort    BTOR_OPT_SORT_AIG; sortVec: BTOR_OPT_SORT_AIGVEC              *)
(*   init    whether the SAT solver is initialized; restore: have_restore  *)
(*   know    whether it reports the literals it knows (see SatFixed)       *)
(*   vars    the number of CNF ids handed out                              *)
(*   aigOf   cnfid2aig, 0 where no node is known                           *)
(*   models  the SAT solver: the assignments, as sets of true CNF ids,     *)
(*           that satisfy all its clauses                                  *)
(* A pointer is an id, negative when inverted; 1 is BTOR_AIG_TRUE.  An     *)
(* operation returns the manager and the pointer it yields, whose          *)
(* reference the caller owns.                                              *)
(***************************************************************************)
EXTENDS Integers, Sequences, FiniteSets, SequencesExt

CONSTANT
  FindLimit  \* BTOR_FIND_AND_AIG_CONTRADICTION_LIMIT

ASSUME FindLimitAssumption == FindLimit \in Nat

AigTrue == 1
AigFalse == -1

Real(p) == IF p < 0 THEN -p ELSE p
IsConst(p) == Real(p) = 1
IsAnd(m, p) == ~IsConst(p) /\ m.nodes[Real(p)].l # 0
Left(m, p) == m.nodes[Real(p)].l
Right(m, p) == m.nodes[Real(p)].r
Kids(m, p) == {Left(m, p), Right(m, p)}
Conjunction(m, p) == p > 0 /\ IsAnd(m, p)
Clause(m, p) == p < 0 /\ IsAnd(m, p)

\* btor_aig_mgr_new
NewManager(o) ==
  [nodes |-> [i \in {} |-> 0], next |-> 2, sort |-> o.sort, sortVec |-> o.sort, init |-> FALSE, restore |-> o.restore,
   know |-> FALSE, vars |-> 0, aigOf |-> <<>>, models |-> {{}}]

-----------------------------------------------------------------------------
(* The SAT manager.                                                         *)

Holds(lit, a) == IF lit > 0 THEN lit \in a ELSE -lit \notin a

\* btor_sat_add, a whole clause
SatAdd(m, clause) == [m EXCEPT !.models = {a \in @ : \E lit \in clause : Holds(lit, a)}]

\* btor_sat_mgr_next_cnf_id: a variable without clauses
NextCnfId(m) ==
  [m EXCEPT !.vars = @ + 1, !.aigOf = Append(@, 0),
            !.models = @ \cup {a \cup {m.vars + 1} : a \in @}]

\* btor_sat_init: the first id is the literal that is true
SatInit(m) == SatAdd(NextCnfId([m EXCEPT !.init = TRUE]), {1})

(* What a SAT solver may know: a literal that all models agree on, and the  *)
(* first literal that is equivalent in all models.                          *)
SatFixed(m, lit) ==
  IF ~m.know THEN 0
  ELSE IF \A a \in m.models : Holds(lit, a) THEN 1
  ELSE IF \A a \in m.models : ~Holds(lit, a) THEN -1 ELSE 0

SatRepr(m, lit) ==
  LET same(v) == \A a \in m.models : Holds(lit, a) <=> Holds(v, a)
      known == {v \in 1..Real(lit) : same(v) \/ same(-v)}
      first == CHOOSE v \in known : \A u \in known : v <= u
  IN IF ~m.know THEN lit ELSE IF same(first) THEN first ELSE -first

-----------------------------------------------------------------------------
(* References.                                                              *)

Inc(m, p) == IF IsConst(p) THEN m ELSE [m EXCEPT !.nodes[Real(p)].refs = @ + 1]

\* btor_aig_copy, btor_aig_not
Copy(m, p) == [m |-> Inc(m, p), p |-> p]
Not(m, p) == [m |-> Inc(m, p), p |-> -p]

\* release_cnf_id_aig_mgr
ReleaseCnfId(m, i) ==
  IF m.restore THEN m
  ELSE [m EXCEPT !.aigOf[m.nodes[i].cnf] = 0, !.nodes[i].cnf = 0]

\* delete_aig_node
DeleteNode(m, i) ==
  LET n == IF m.nodes[i].cnf # 0 THEN ReleaseCnfId(m, i) ELSE m
  IN [n EXCEPT !.nodes = [j \in DOMAIN n.nodes \ {i} |-> n.nodes[j]]]

\* btor_aig_release, for a stack of pointers
RECURSIVE ReleaseAll(_, _)
ReleaseAll(m, stack) ==
  IF stack = <<>> THEN m
  ELSE LET p == Head(stack)
           i == Real(p)
       IN IF IsConst(p) THEN ReleaseAll(m, Tail(stack))
          ELSE IF m.nodes[i].refs > 1
          THEN ReleaseAll([m EXCEPT !.nodes[i].refs = @ - 1], Tail(stack))
          ELSE ReleaseAll(DeleteNode(m, i),
                          (IF IsAnd(m, p) THEN <<Left(m, p), Right(m, p)>> ELSE <<>>) \o Tail(stack))
Release(m, p) == ReleaseAll(m, <<p>>)

\* setup_aig_and_add_to_id_table
NewNode(m, l, r) ==
  [m |-> [m EXCEPT !.nodes = @ @@ (m.next :> [l |-> l, r |-> r, refs |-> 1, cnf |-> 0]),
                   !.next = @ + 1],
   p |-> m.next]

\* btor_aig_var
Var(m) == NewNode(m, 0, 0)

-----------------------------------------------------------------------------
(* Conjunctions (btor_aig_and).                                             *)

\* simp_aig_by_sat; a node that is no longer known is not used
SimpBySat(m, p) ==
  IF IsConst(p) \/ m.nodes[Real(p)].cnf = 0 THEN p
  ELSE LET lit == IF p < 0 THEN -m.nodes[-p].cnf ELSE m.nodes[p].cnf
           val == SatFixed(m, lit)
           repr == SatRepr(m, lit)
           i == m.aigOf[Real(repr)]
       IN IF val # 0 THEN val
          ELSE IF i \notin DOMAIN m.nodes THEN p
          ELSE IF repr < 0 THEN -i ELSE i

\* find_and_contradiction_aig: whether a conjunct is the opposite of a or b
RECURSIVE FindContradiction(_, _, _, _, _)
FindContradiction(m, p, a, b, calls) ==
  IF calls >= FindLimit \/ ~Conjunction(m, p) THEN [found |-> FALSE, calls |-> calls]
  ELSE IF {-a, -b} \cap Kids(m, p) # {} THEN [found |-> TRUE, calls |-> calls]
  ELSE LET one == FindContradiction(m, Left(m, p), a, b, calls + 1)
       IN IF one.found THEN one ELSE FindContradiction(m, Right(m, p), a, b, one.calls)

Opposite(m, l, r) == \E k \in Kids(m, l) : -k \in Kids(m, r)

\* Both rules of contradiction
Contradicts(m, l, r) ==
  \/ l = -r
  \/ Conjunction(m, l) /\ -r \in Kids(m, l)
  \/ Conjunction(m, r) /\ -l \in Kids(m, r)
  \/ Conjunction(m, l) /\ Conjunction(m, r) /\ Opposite(m, l, r)

\* Both rules of subsumption: l follows from r
Subsumes(m, l, r) ==
  \/ Clause(m, l) /\ -r \in Kids(m, l)
  \/ Clause(m, l) /\ Conjunction(m, r) /\ Opposite(m, l, r)

\* The rule of resolution: l and r are clauses with one variable in common
Resolves(m, l, r) ==
  /\ Clause(m, l) /\ Clause(m, r)
  /\ \/ Left(m, l) = Left(m, r) /\ Right(m, l) = -Right(m, r)
     \/ Left(m, l) = Right(m, r) /\ Right(m, l) = -Left(m, r)
ResolvesRight(m, l, r) ==
  /\ Clause(m, l) /\ Clause(m, r)
  /\ \/ Right(m, r) = Right(m, l) /\ Left(m, r) = -Left(m, l)
     \/ Right(m, r) = Left(m, l) /\ Left(m, r) = -Right(m, l)

\* Seeded fault: the child that is implied is the one that stays.
WithoutSameChild(m, c, given, first) ==
  IF Clause(m, c) /\ Right(m, c) \in given THEN -Right(m, c) ELSE c

(* The rules of substitution: what is left of clause c where the pointers   *)
(* in given are true.  first: the child that is looked at first.            *)
Without(m, c, given, first) ==
  LET k == IF first = "right" THEN <<Right(m, c), Left(m, c)>> ELSE <<Left(m, c), Right(m, c)>>
  IN IF ~Clause(m, c) THEN c
     ELSE IF k[1] \in given THEN -k[2]
     ELSE IF k[2] \in given THEN -k[1] ELSE c

\* find_and_aig, find_and_aig_node: 0 if there is none
Find(m, l, r) ==
  LET swap == m.sort /\ Real(r) < Real(l)
      a == IF swap THEN r ELSE l
      b == IF swap THEN l ELSE r
      same == {i \in DOMAIN m.nodes : m.nodes[i].l = a /\ m.nodes[i].r = b}
  IN IF same = {} THEN 0 ELSE CHOOSE i \in same : TRUE

\* The node of the same exclusive or built the other way, 0 if there is none
FindXor(m, l, r) ==
  IF ~(/\ Clause(m, l) /\ Clause(m, r)
       /\ Left(m, l) = -Left(m, r) /\ Right(m, l) = -Right(m, r)) THEN 0
  ELSE LET a == Find(m, Left(m, l), -Right(m, l))
           b == Find(m, -Left(m, l), Right(m, l))
       IN IF a = 0 \/ b = 0 THEN 0 ELSE Find(m, -a, -b)

\* A look-up in the unique table, a new node if there is none
Unique(m, l, r) ==
  LET i == Find(m, l, r)
      swap == m.sort /\ Real(r) < Real(l)
      new == NewNode(m, IF swap THEN r ELSE l, IF swap THEN l ELSE r)
  IN IF i # 0 THEN Copy(m, i) ELSE [m |-> Inc(Inc(new.m, l), r), p |-> new.p]

RECURSIVE TwoLevel(_, _, _)
TwoLevel(m, l, r) ==
  LET both == Conjunction(m, l) /\ Conjunction(m, r)
      la == Without(m, l, {r}, "right")
      ra == Without(m, r, {l}, "left")
      ls == IF Conjunction(m, r) THEN Without(m, l, Kids(m, r), "right") ELSE l
      rs == IF Conjunction(m, l) THEN Without(m, r, Kids(m, l), "left") ELSE r
      find == FindContradiction(m, l, l, r, 0)
      xor == FindXor(m, l, r)
  IN IF AigFalse \in {l, r} THEN [m |-> m, p |-> AigFalse]
     ELSE IF l = AigTrue THEN Copy(m, r)
     ELSE IF r = AigTrue \/ l = r THEN Copy(m, l)
     ELSE IF Contradicts(m, l, r) THEN [m |-> m, p |-> AigFalse]
     ELSE IF Subsumes(m, l, r) THEN Copy(m, r)
     ELSE IF Subsumes(m, r, l) THEN Copy(m, l)
     ELSE IF Resolves(m, l, r) THEN Copy(m, -Left(m, l))
     ELSE IF ResolvesRight(m, l, r) THEN Copy(m, -Right(m, r))
     ELSE IF Conjunction(m, l) /\ r \in Kids(m, l) THEN Copy(m, l)
     ELSE IF Conjunction(m, r) /\ l \in Kids(m, r) THEN Copy(m, r)
     ELSE IF both /\ Left(m, r) \in Kids(m, l) THEN TwoLevel(m, l, Right(m, r))
     ELSE IF both /\ Right(m, r) \in Kids(m, l) THEN TwoLevel(m, l, Left(m, r))
     ELSE IF la # l THEN TwoLevel(m, la, r)
     ELSE IF ra # r THEN TwoLevel(m, l, ra)
     ELSE IF ls # l THEN TwoLevel(m, ls, r)
     ELSE IF rs # r THEN TwoLevel(m, l, rs)
     ELSE IF find.found \/ FindContradiction(m, r, l, r, find.calls).found
     THEN [m |-> m, p |-> AigFalse]
     ELSE IF xor # 0 THEN [m |-> Inc(m, xor), p |-> -xor]
     ELSE Unique(m, l, r)

And(m, l, r) ==
  IF m.init THEN TwoLevel(m, SimpBySat(m, l), SimpBySat(m, r)) ELSE TwoLevel(m, l, r)

-----------------------------------------------------------------------------
(* Encoding (btor_aig_to_sat_tseitin).                                      *)

CnfLit(m, p) ==
  IF IsConst(p) THEN p ELSE IF p < 0 THEN -m.nodes[-p].cnf ELSE m.nodes[p].cnf

\* Both children are inverted and belong to the node alone.
OwnClauses(m, i) ==
  \A k \in Kids(m, i) : Clause(m, k) /\ m.nodes[Real(k)].refs = 1

\* is_xor_aig: the two leaves, or none
XorLeaves(m, i) ==
  LET l == Left(m, i)
      r == Right(m, i)
  IN IF OwnClauses(m, i) /\ Left(m, l) = -Left(m, r) /\ Right(m, l) = -Right(m, r)
     THEN <<Right(m, r), Left(m, l)>> ELSE <<>>

\* Seeded fault: the condition of the wrong sign.
IteLeavesSwapped(m, i) ==
  LET l == Left(m, i)
      r == Right(m, i)
  IN IF OwnClauses(m, i) /\ -Right(m, l) = Left(m, r)
     THEN <<-Right(m, r), -Left(m, l), Left(m, r)>> ELSE <<>>

\* is_ite_aig: else, then and condition, or none
IteLeaves(m, i) ==
  LET l == Left(m, i)
      r == Right(m, i)
  IN IF ~OwnClauses(m, i) THEN <<>>
     ELSE IF -Right(m, l) = Left(m, r) THEN <<-Left(m, l), -Right(m, r), Left(m, r)>>
     ELSE IF -Left(m, l) = Left(m, r) THEN <<-Right(m, l), -Right(m, r), Left(m, r)>>
     ELSE IF -Right(m, l) = Right(m, r) THEN <<-Left(m, l), -Left(m, r), Right(m, r)>>
     ELSE IF -Left(m, l) = Right(m, r) THEN <<-Right(m, l), -Left(m, r), Right(m, r)>>
     ELSE <<>>

\* What a node is encoded as, and its leaves
Gate(xor, ite, and) ==
  IF xor # <<>> THEN [kind |-> "xor", leaves |-> xor]
  ELSE IF ite # <<>> THEN [kind |-> "ite", leaves |-> ite] ELSE [kind |-> "and", leaves |-> and]
GateOf(m, i) == Gate(XorLeaves(m, i), IteLeaves(m, i), <<Left(m, i), Right(m, i)>>)

\* set_next_id_aig_mgr
SetNextId(m, i) ==
  LET n == NextCnfId(m) IN [n EXCEPT !.nodes[i].cnf = n.vars, !.aigOf[n.vars] = i]

\* The clauses that define literal x by those of its leaves
Clauses(kind, x, v) ==
  CASE kind = "xor" ->
         <<{-x, v[1], -v[2]}, {-x, -v[1], v[2]}, {x, -v[1], -v[2]}, {x, v[1], v[2]}>>
    [] kind = "ite" ->
         <<{-x, -v[3], v[2]}, {-x, v[3], v[1]}, {x, -v[3], -v[2]}, {x, v[3], -v[1]}>>
    [] kind = "and" -> <<{x, -v[1], -v[2]}, {-x, v[1]}, {-x, v[2]}>>
Define(m, g) ==
  FoldLeft(SatAdd, m, Clauses(g.kind, m.vars, [j \in DOMAIN g.leaves |-> CnfLit(m, g.leaves[j])]))

(* The traversal.  mark 1: visited, 2: defined; local counts the visits of  *)
(* a node in this traversal.                                                *)
RECURSIVE Traverse(_)
Traverse(s) ==
  IF s.stack = <<>> THEN s
  ELSE LET i == Real(Head(s.stack))
           rest == Tail(s.stack)
           mark == IF i \in DOMAIN s.mark THEN s.mark[i] ELSE 0
       IN IF mark = 2 THEN Traverse([s EXCEPT !.stack = rest, !.local[i] = @ + 1])
          ELSE IF s.m.nodes[i].cnf # 0 THEN Traverse([s EXCEPT !.stack = rest])
          ELSE IF ~IsAnd(s.m, i) THEN Traverse([s EXCEPT !.stack = rest, !.m = SetNextId(s.m, i)])
          ELSE IF mark = 0
          THEN Traverse([s EXCEPT !.stack = Reverse(GateOf(s.m, i).leaves) \o s.stack,
                                  !.mark = @ @@ (i :> 1), !.local = @ @@ (i :> 1)])
          ELSE Traverse([s EXCEPT !.stack = rest, !.mark[i] = 2, !.m = Define(SetNextId(s.m, i), GateOf(s.m, i))])

\* Only this traversal reached the node: nobody else can refer to its CNF id.
OnlyLocal(m, i, local) == m.nodes[i].refs <= local

GiveUp(s, i) ==
  FoldLeft(ReleaseCnfId, s.m,
           SetToSeq({j \in DOMAIN s.mark \ {i} : OnlyLocal(s.m, j, s.local[j])}))
Tseitin(m, p) ==
  IF IsConst(p) THEN m
  ELSE GiveUp(Traverse([m |-> m, stack |-> <<Real(p)>>, mark |-> [j \in {} |-> 0],
                        local |-> [j \in {} |-> 0]]), Real(p))

\* btor_aig_to_sat
ToSat(m, p) == IF m.init THEN Tseitin(m, p) ELSE m

\* btor_aig_add_toplevel_to_sat
AddUnit(m, p) == SatAdd(m, {CnfLit(m, p)})
AddToplevel(m, p) ==
  IF ~m.init \/ p = AigTrue THEN m
  ELSE IF p = AigFalse THEN SatAdd(m, {})
  ELSE AddUnit(ToSat(m, p), p)

\* btor_aig_get_assignment in the model a: false if not encoded
Assignment(m, p, a) ==
  IF IsConst(p) THEN p = AigTrue
  ELSE (m.nodes[Real(p)].cnf \in a) = (p > 0)
=============================================================================
