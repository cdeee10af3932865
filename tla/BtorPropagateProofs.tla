------------------------ MODULE BtorPropagateProofs ------------------------
(***************************************************************************)
(* Every lemma that the consistency check of the function solver adds is   *)
(* true of all functions and makes progress: a proof that LemmasSound is   *)
(* an invariant of BtorPropagate, for every graph and every value set.     *)
(***************************************************************************)
EXTENDS BtorPropagate, BtorRecursion, FiniteSetTheorems, TLAPS

-----------------------------------------------------------------------------
(* The graph *)

LEMMA GraphTypes ==
  ASSUME g \in Graphs
  PROVE  /\ FunOf \in [App -> Fun] /\ ArgOf \in [App -> Term]
         /\ \A f \in Fun :
              /\ Kind[f] \in {"uf", "cond", "update", "lambda"}
              /\ Kind[f] = "cond" => CondOf[f] \in Term /\ Then[f] \in Fun /\ Else[f] \in Fun
              /\ Kind[f] \in {"update", "lambda"} =>
                   Idx[f] \in Term /\ Elem[f] \in Term /\ Base[f] \in Fun
         /\ \A q \in Feq : g.feq[q].l \in Fun /\ g.feq[q].r \in Fun
         /\ App \subseteq Term /\ Feq \subseteq Term /\ Var \subseteq Term
         /\ NULL \notin Fun /\ NULL \notin App
         /\ g.root \subseteq App /\ IsFiniteSet(App)
<1>1. Typed(g) /\ Apart(g) /\ IsFiniteSet(Nodes(g))
  BY GraphAssumption
<1>2. App \subseteq Nodes(g)
  BY DEF App, Nodes, Terms
<1>3. IsFiniteSet(App)
  BY <1>1, <1>2, FS_Subset
<1>4. /\ FunOf \in [App -> Fun] /\ ArgOf \in [App -> Term]
      /\ \A q \in Feq : g.feq[q].l \in Fun /\ g.feq[q].r \in Fun
      /\ g.root \subseteq App
  BY <1>1 DEF Typed, FunOf, ArgOf, App, Fun, Feq, Term, Terms
<1>5. \A f \in Fun :
        /\ Kind[f] \in {"uf", "cond", "update", "lambda"}
        /\ Kind[f] = "cond" => CondOf[f] \in Term /\ Then[f] \in Fun /\ Else[f] \in Fun
        /\ Kind[f] \in {"update", "lambda"} =>
             Idx[f] \in Term /\ Elem[f] \in Term /\ Base[f] \in Fun
  BY <1>1 DEF Typed, Fun, Kind, CondOf, Then, Else, Idx, Elem, Base, Term
<1>6. App \subseteq Term /\ Feq \subseteq Term /\ Var \subseteq Term
  BY DEF App, Feq, Var, Term, Terms
<1>7. NULL \notin Fun /\ NULL \notin App
  BY <1>1 DEF Apart, Nodes, Terms, Fun, App
<1> QED
  BY <1>3, <1>4, <1>5, <1>6, <1>7

(* Below a function: the functions among its children. *)
Below == [f \in Fun |-> Children(g, f) \cap Fun]

LEMMA BelowFounded ==
  ASSUME g \in Graphs
  PROVE  /\ WellFounded(Fun, Below)
         /\ \A f \in Fun : Below[f] \subseteq Fun
         /\ \A S \in SUBSET Fun : S # {} => \E f \in S : Below[f] \cap S = {}
<1>1. Founded(g)
  BY GraphAssumption
<1>2. Below \in [Fun -> SUBSET Fun]
  BY DEF Below
<1>3. ASSUME NEW S \in SUBSET Fun, S # {}
      PROVE  \E f \in S : Below[f] \cap S = {}
  <2>1. S \in SUBSET Nodes(g)
    BY DEF Fun, Nodes
  <2>2. PICK n \in S : Children(g, n) \cap S = {}
    BY <1>1, <1>3, <2>1 DEF Founded
  <2> QED
    BY <2>2 DEF Below
<1> QED
  BY <1>2, <1>3 DEF WellFounded

(* What goes down from a function goes to one below it. *)
LEMMA ChildrenOfFun ==
  ASSUME g \in Graphs, NEW f \in Fun
  PROVE  /\ Kind[f] = "cond" => Then[f] \in Below[f] /\ Else[f] \in Below[f]
         /\ Kind[f] \in {"update", "lambda"} => Base[f] \in Below[f]
<1>1. f \notin DOMAIN g.funOf /\ f \notin DOMAIN g.feq /\ f \in DOMAIN g.kind
  BY GraphAssumption DEF Apart, Terms, Fun
<1>2. CASE Kind[f] = "cond"
  <2>1. Children(g, f) = {g.condOf[f], g.then[f], g.else[f]}
    BY <1>1, <1>2 DEF Children, Kind
  <2> QED
    BY <1>2, <2>1, GraphTypes DEF Below, Then, Else
<1>3. CASE Kind[f] \in {"update", "lambda"}
  <2>1. Children(g, f) = {g.base[f], g.idx[f], g.elem[f]}
    BY <1>1, <1>3 DEF Children, Kind
  <2> QED
    BY <1>3, <2>1, GraphTypes DEF Below, Base
<1> QED
  BY <1>2, <1>3

LEMMA DownBelow ==
  ASSUME g \in Graphs, NEW a \in App, NEW f \in Fun
  PROVE  Down(a, f) = NULL \/ (Down(a, f) \in Below[f] /\ Down(a, f) \in Fun)
<1>1. Kind[f] \in {"uf", "cond", "update", "lambda"} /\ Below[f] \subseteq Fun
  BY GraphTypes, BelowFounded
<1>2. CASE Kind[f] = "uf"
  BY <1>2 DEF Down
<1>3. CASE Kind[f] = "cond"
  BY <1>1, <1>3, ChildrenOfFun DEF Down
<1>4. CASE Kind[f] = "update"
  BY <1>1, <1>4, ChildrenOfFun DEF Down
<1>5. CASE Kind[f] = "lambda"
  BY <1>1, <1>5, ChildrenOfFun DEF Down
<1> QED
  BY <1>1, <1>2, <1>3, <1>4, <1>5


-----------------------------------------------------------------------------
(* The premisses of a lemma *)

Literal == {"eq", "neq", "true", "false"} \X Term \X Term

\* The function that collect_premisses computes with, at every function.
PremOf(a, f) ==
  CHOOSE prem : prem = [h \in Fun |->
    IF h = f \/ Down(a, h) = NULL THEN {} ELSE {Premise(a, h)} \cup prem[Down(a, h)]]

(* The condition under which an apply leaves a function holds of the        *)
(* candidate.                                                               *)
LEMMA PremiseHolds ==
  ASSUME g \in Graphs, NEW a \in App, NEW h \in Fun, Down(a, h) # NULL
  PROVE  Premise(a, h) \in Literal /\ LiteralHolds(Premise(a, h), val)
<1>1. Kind[h] \in {"uf", "cond", "update", "lambda"} /\ ArgOf[a] \in Term
  BY GraphTypes
<1>2. Kind[h] # "uf"
  BY DEF Down
<1>3. CASE Kind[h] = "cond"
  <2>1. CondOf[h] \in Term
    BY <1>3, GraphTypes
  <2>2. Premise(a, h) = <<IF val[CondOf[h]] = 1 THEN "true" ELSE "false",
                          CondOf[h], CondOf[h]>>
    BY <1>3 DEF Premise
  <2>3. CASE val[CondOf[h]] = 1
    BY <2>1, <2>2, <2>3 DEF Literal, LiteralHolds
  <2>4. CASE val[CondOf[h]] # 1
    BY <2>1, <2>2, <2>4 DEF Literal, LiteralHolds
  <2> QED
    BY <2>3, <2>4
<1>4. CASE Kind[h] = "update"
  <2>1. Idx[h] \in Term /\ Premise(a, h) = <<"neq", ArgOf[a], Idx[h]>>
    BY <1>4, GraphTypes DEF Premise
  <2>2. val[ArgOf[a]] # val[Idx[h]]
    BY <1>4 DEF Down, SameArgs
  <2> QED
    BY <1>1, <2>1, <2>2 DEF Literal, LiteralHolds
<1>5. CASE Kind[h] = "lambda"
  <2>1. Idx[h] \in Term /\ Premise(a, h) = <<"eq", ArgOf[a], Idx[h]>>
    BY <1>5, GraphTypes DEF Premise
  <2>2. val[ArgOf[a]] = val[Idx[h]]
    BY <1>5 DEF Down, SameArgs
  <2> QED
    BY <1>1, <2>1, <2>2 DEF Literal, LiteralHolds
<1> QED
  BY <1>1, <1>2, <1>3, <1>4, <1>5

LEMMA PremOfFacts ==
  ASSUME g \in Graphs, NEW a \in App, NEW f \in Fun
  PROVE  /\ CollectPremisses(a, f) = PremOf(a, f)[FunOf[a]]
         /\ \A h \in Fun : h # f /\ Down(a, h) # NULL =>
              PremOf(a, f)[h] = {Premise(a, h)} \cup PremOf(a, f)[Down(a, h)]
         /\ \A h \in Fun : \A p \in PremOf(a, f)[h] : LiteralHolds(p, val)
<1> DEFINE V == {S \in SUBSET Literal : \A p \in S : LiteralHolds(p, val)}
           Body(h, F) == IF h = f \/ Down(a, h) = NULL THEN {}
                         ELSE {Premise(a, h)} \cup F[Down(a, h)]
           step == [x \in Fun \X [Fun -> V] |-> Body(x[1], x[2])]
<1>1. {} \in V
  OBVIOUS
<1>2. ASSUME NEW h \in Fun, NEW F, \A y \in Below[h] : F[y] \in V
      PROVE  Body(h, F) \in V
  <2>1. CASE h = f \/ Down(a, h) = NULL
    BY <1>1, <2>1
  <2>2. CASE ~(h = f \/ Down(a, h) = NULL)
    <3>1. Premise(a, h) \in Literal /\ LiteralHolds(Premise(a, h), val)
      BY <2>2, PremiseHolds
    <3>2. F[Down(a, h)] \in V
      BY <1>2, <2>2, DownBelow
    <3>3. {Premise(a, h)} \cup F[Down(a, h)] \in V
      BY <3>1, <3>2
    <3> HIDE DEF V
    <3> QED
      BY <2>2, <3>3
  <2> QED
    BY <2>1, <2>2
<1> HIDE DEF V
<1>3. step \in [Fun \X [Fun -> V] -> V]
  <2>1. ASSUME NEW h \in Fun, NEW F \in [Fun -> V] PROVE Body(h, F) \in V
    <3>1. \A y \in Below[h] : F[y] \in V
      BY BelowFounded
    <3> HIDE DEF Body
    <3> QED
      BY <1>2, <3>1
  <2> HIDE DEF Body
  <2> QED
    BY <2>1
<1>4. \A h \in Fun : \A F, G \in [Fun -> V] :
        (\A y \in Below[h] : F[y] = G[y]) => step[<<h, F>>] = step[<<h, G>>]
  <2> SUFFICES ASSUME NEW h \in Fun, NEW F \in [Fun -> V], NEW G \in [Fun -> V],
                      \A y \in Below[h] : F[y] = G[y]
               PROVE  step[<<h, F>>] = step[<<h, G>>]
    OBVIOUS
  <2>1. step[<<h, F>>] = Body(h, F) /\ step[<<h, G>>] = Body(h, G)
    <3> HIDE DEF Body
    <3> QED
      OBVIOUS
  <2>2. Body(h, F) = Body(h, G)
    BY DownBelow
  <2> QED
    BY <2>1, <2>2
<1> HIDE DEF step
<1>5. Solvable(Fun, V, step)
  <2>1. V # {} /\ Recursion(Fun, V, Below, step)
    BY <1>1, <1>3, <1>4 DEF Recursion
  <2> QED
    BY <2>1, BelowFounded, RecursiveFunction
<1>6. PICK F \in [Fun -> V] : \A h \in Fun : F[h] = Body(h, F)
  <2> HIDE DEF Body
  <2> QED
    BY <1>5 DEF step, Solvable
<1>7. F = [h \in Fun |-> Body(h, F)]
  <2>1. F = [h \in Fun |-> F[h]]
    OBVIOUS
  <2> HIDE DEF Body
  <2> QED
    BY <1>6, <2>1
<1>8. PremOf(a, f) = [h \in Fun |-> Body(h, PremOf(a, f))]
  BY <1>7 DEF PremOf
<1>9. \A h \in Fun : PremOf(a, f)[h] = Body(h, PremOf(a, f))
  <2> HIDE DEF Body
  <2> QED
    BY <1>8
<1>10. \A h \in Fun : PremOf(a, f)[h] \in V
  <2> DEFINE S == {h \in Fun : PremOf(a, f)[h] \notin V}
  <2> SUFFICES ASSUME S # {} PROVE FALSE
    OBVIOUS
  <2>1. PICK h \in S : Below[h] \cap S = {}
    BY BelowFounded
  <2>2. \A y \in Below[h] : PremOf(a, f)[y] \in V
    BY <2>1, BelowFounded
  <2> HIDE DEF Body
  <2> QED
    BY <1>2, <1>9, <2>1, <2>2
<1>11. CollectPremisses(a, f) = PremOf(a, f)[FunOf[a]]
  BY DEF CollectPremisses, PremOf
<1> QED
  BY <1>9, <1>10, <1>11 DEF V


-----------------------------------------------------------------------------
(* The tables of generate_table *)

ArgTerm == {ArgOf[a] : a \in App} \cup {Idx[u] : u \in {d \in Fun : Kind[d] = "update"}}

\* An entry is filed under the value of its arguments.
IsTable(t) ==
  \A v \in DOMAIN t : /\ t[v].args \in ArgTerm /\ t[v].value \in Term
                      /\ val[t[v].args] = v

Tables == {t \in UNION {[S -> [args : Term, value : Term]] : S \in SUBSET Val} : IsTable(t)}

\* What rho says of the functions: each entry is for the arguments it is filed under.
Filed ==
  /\ rho \in [Fun -> [Val -> App \cup {NULL}]]
  /\ \A f \in Fun, v \in Val : rho[f][v] # NULL => val[ArgOf[rho[f][v]]] = v

LEMMA OverTable ==
  ASSUME NEW s \in Tables, NEW t \in Tables
  PROVE  Over(s, t) \in Tables
<1>1. PICK S \in SUBSET Val : s \in [S -> [args : Term, value : Term]]
  BY DEF Tables
<1>2. PICK T \in SUBSET Val : t \in [T -> [args : Term, value : Term]]
  BY DEF Tables
<1>3. Over(s, t) \in [S \cup T -> [args : Term, value : Term]]
  BY <1>1, <1>2 DEF Over
<1>4. \A v \in S \cup T : Over(s, t)[v] = IF v \in S THEN s[v] ELSE t[v]
  BY <1>1, <1>2 DEF Over
<1>5. IsTable(s) /\ IsTable(t)
  BY DEF Tables
<1>6. DOMAIN s = S /\ DOMAIN t = T /\ DOMAIN Over(s, t) = S \cup T
  BY <1>1, <1>2, <1>3
<1>7. IsTable(Over(s, t))
  BY <1>4, <1>5, <1>6 DEF IsTable
<1>8. S \cup T \in SUBSET Val
  OBVIOUS
<1> QED
  BY <1>3, <1>7, <1>8 DEF Tables

LEMMA EntriesTable ==
  ASSUME g \in Graphs, Filed, NEW f \in Fun
  PROVE  /\ Entries(f) \in Tables /\ DOMAIN Entries(f) = {v \in Val : rho[f][v] # NULL}
         /\ \A v \in Val : rho[f][v] # NULL =>
              v \in DOMAIN Entries(f) /\ Entries(f)[v].value = rho[f][v]
<1> DEFINE S == {u \in Val : rho[f][u] # NULL}
<1>1. \A v \in S : /\ rho[f][v] \in App /\ rho[f][v] \in Term
                   /\ ArgOf[rho[f][v]] \in Term /\ ArgOf[rho[f][v]] \in ArgTerm
                   /\ val[ArgOf[rho[f][v]]] = v
  BY GraphTypes DEF Filed, ArgTerm
<1>2. Entries(f) = [v \in S |-> [args |-> ArgOf[rho[f][v]], value |-> rho[f][v]]]
  BY DEF Entries
<1>3. Entries(f) \in [S -> [args : Term, value : Term]]
  BY <1>1, <1>2
<1>4. IsTable(Entries(f))
  BY <1>1, <1>2 DEF IsTable
<1> QED
  BY <1>2, <1>3, <1>4 DEF Tables

LEMMA WrittenTable ==
  ASSUME g \in Graphs, val \in [Term -> Val], NEW f \in Fun, Kind[f] = "update"
  PROVE  /\ Written(f) \in Tables
         /\ DOMAIN Written(f) = {val[Idx[f]]}
         /\ Written(f)[val[Idx[f]]].value = Elem[f]
<1>1. Idx[f] \in Term /\ Elem[f] \in Term /\ Idx[f] \in ArgTerm
  BY GraphTypes DEF ArgTerm
<1>2. {val[Idx[f]]} \in SUBSET Val
  BY <1>1
<1>3. Written(f) \in [{val[Idx[f]]} -> [args : Term, value : Term]]
  BY <1>1 DEF Written
<1>4. IsTable(Written(f))
  BY <1>1 DEF IsTable, Written
<1> QED
  BY <1>2, <1>3, <1>4 DEF Tables, Written

(* What a function itself knows comes from rho, except that an update is    *)
(* its element at its index.                                                *)
LEMMA KnownTable ==
  ASSUME g \in Graphs, val \in [Term -> Val], Filed, NEW f \in Fun
  PROVE  /\ Known(f) \in Tables
         /\ Kind[f] = "update" => /\ val[Idx[f]] \in DOMAIN Known(f)
                                  /\ Known(f)[val[Idx[f]]].value = Elem[f]
         /\ \A v \in Val : rho[f][v] # NULL /\ (Kind[f] = "update" => v # val[Idx[f]]) =>
              v \in DOMAIN Known(f) /\ Known(f)[v].value = rho[f][v]
         /\ \A v \in DOMAIN Known(f) :
              (Kind[f] = "update" /\ v = val[Idx[f]]) \/ rho[f][v] # NULL
<1>1. CASE Kind[f] # "update"
  <2>1. Known(f) = Entries(f)
    BY <1>1 DEF Known
  <2> QED
    BY <1>1, <2>1, EntriesTable
<1>2. CASE Kind[f] = "update"
  <2>1. Known(f) = Over(Written(f), Entries(f))
    BY <1>2 DEF Known
  <2>2. /\ Written(f) \in Tables /\ DOMAIN Written(f) = {val[Idx[f]]}
        /\ Written(f)[val[Idx[f]]].value = Elem[f]
    BY <1>2, WrittenTable
  <2>3. Known(f) \in Tables
    <3>1. Entries(f) \in Tables
      BY EntriesTable
    <3> QED
      BY <2>1, <2>2, <3>1, OverTable
  <2>4. /\ val[Idx[f]] \in DOMAIN Known(f)
        /\ Known(f)[val[Idx[f]]].value = Elem[f]
    BY <2>1, <2>2 DEF Over
  <2>5. /\ DOMAIN Known(f) = DOMAIN Written(f) \cup DOMAIN Entries(f)
        /\ \A v \in DOMAIN Entries(f) \ DOMAIN Written(f) : Known(f)[v] = Entries(f)[v]
    BY <2>1 DEF Over
  <2>6. /\ DOMAIN Entries(f) = {v \in Val : rho[f][v] # NULL}
        /\ \A v \in Val : rho[f][v] # NULL => Entries(f)[v].value = rho[f][v]
    BY EntriesTable
  <2>7. \A v \in Val : rho[f][v] # NULL /\ v # val[Idx[f]] =>
          v \in DOMAIN Known(f) /\ Known(f)[v].value = rho[f][v]
    BY <2>2, <2>5, <2>6
  <2>8. \A v \in DOMAIN Known(f) : v = val[Idx[f]] \/ rho[f][v] # NULL
    BY <2>2, <2>5, <2>6
  <2> QED
    BY <1>2, <2>3, <2>4, <2>7, <2>8
<1> QED
  BY <1>1, <1>2

LEMMA VisitBelow ==
  ASSUME g \in Graphs, NEW f \in Fun, Kind[f] # "uf"
  PROVE  Visit(f) \in Below[f]
BY GraphTypes, ChildrenOfFun DEF Visit

\* The function that generate_table computes with, at every function.
TableOf ==
  CHOOSE table : table = [h \in Fun |->
    IF Kind[h] = "uf" THEN Known(h) ELSE Over(Known(h), table[Visit(h)])]

LEMMA TableFacts ==
  ASSUME g \in Graphs, val \in [Term -> Val], Filed, NEW f \in Fun
  PROVE  /\ GenerateTable(f) \in Tables
         /\ GenerateTable(f) = IF Kind[f] = "uf" THEN Known(f)
                               ELSE Over(Known(f), GenerateTable(Visit(f)))
         /\ \A v \in DOMAIN Known(f) : /\ v \in DOMAIN GenerateTable(f)
                                       /\ GenerateTable(f)[v] = Known(f)[v]
<1> DEFINE Body(h, F) == IF Kind[h] = "uf" THEN Known(h) ELSE Over(Known(h), F[Visit(h)])
           step == [x \in Fun \X [Fun -> Tables] |-> Body(x[1], x[2])]
<1>1. ASSUME NEW h \in Fun, NEW F, \A y \in Below[h] : F[y] \in Tables
      PROVE  Body(h, F) \in Tables
  <2>1. CASE Kind[h] = "uf"
    BY <2>1, KnownTable
  <2>2. CASE Kind[h] # "uf"
    <3>1. F[Visit(h)] \in Tables
      BY <1>1, <2>2, VisitBelow
    <3> QED
      BY <2>2, <3>1, KnownTable, OverTable
  <2> QED
    BY <2>1, <2>2
<1>2. step \in [Fun \X [Fun -> Tables] -> Tables]
  <2>1. ASSUME NEW h \in Fun, NEW F \in [Fun -> Tables] PROVE Body(h, F) \in Tables
    <3>1. \A y \in Below[h] : F[y] \in Tables
      BY BelowFounded
    <3> HIDE DEF Body
    <3> QED
      BY <1>1, <3>1
  <2> HIDE DEF Body
  <2> QED
    BY <2>1
<1>3. \A h \in Fun : \A F, G \in [Fun -> Tables] :
        (\A y \in Below[h] : F[y] = G[y]) => step[<<h, F>>] = step[<<h, G>>]
  <2> SUFFICES ASSUME NEW h \in Fun, NEW F \in [Fun -> Tables], NEW G \in [Fun -> Tables],
                      \A y \in Below[h] : F[y] = G[y]
               PROVE  step[<<h, F>>] = step[<<h, G>>]
    OBVIOUS
  <2>1. step[<<h, F>>] = Body(h, F) /\ step[<<h, G>>] = Body(h, G)
    <3> HIDE DEF Body
    <3> QED
      OBVIOUS
  <2>2. Body(h, F) = Body(h, G)
    BY VisitBelow
  <2> QED
    BY <2>1, <2>2
<1> HIDE DEF step
<1>4. Solvable(Fun, Tables, step)
  <2>1. Tables # {} /\ Recursion(Fun, Tables, Below, step)
    BY <1>2, <1>3, KnownTable DEF Recursion
  <2> QED
    BY <2>1, BelowFounded, RecursiveFunction
<1>5. PICK F \in [Fun -> Tables] : \A h \in Fun : F[h] = Body(h, F)
  <2> HIDE DEF Body
  <2> QED
    BY <1>4 DEF step, Solvable
<1>6. F = [h \in Fun |-> Body(h, F)]
  <2>1. F = [h \in Fun |-> F[h]]
    OBVIOUS
  <2> HIDE DEF Body
  <2> QED
    BY <1>5, <2>1
<1>7. TableOf = [h \in Fun |-> Body(h, TableOf)]
  BY <1>6 DEF TableOf
<1>8. \A h \in Fun : TableOf[h] = Body(h, TableOf)
  <2> HIDE DEF Body
  <2> QED
    BY <1>7
<1>9. \A h \in Fun : TableOf[h] \in Tables
  <2> DEFINE S == {h \in Fun : TableOf[h] \notin Tables}
  <2> SUFFICES ASSUME S # {} PROVE FALSE
    OBVIOUS
  <2>1. PICK h \in S : Below[h] \cap S = {}
    BY BelowFounded
  <2>2. \A y \in Below[h] : TableOf[y] \in Tables
    BY <2>1, BelowFounded
  <2> HIDE DEF Body
  <2> QED
    BY <1>1, <1>8, <2>1, <2>2
<1>10. \A h : GenerateTable(h) = TableOf[h]
  BY DEF GenerateTable, TableOf
<1>11. GenerateTable(f) = IF Kind[f] = "uf" THEN Known(f)
                          ELSE Over(Known(f), GenerateTable(Visit(f)))
  BY <1>8, <1>10
<1> HIDE DEF Body
<1>12. \A v \in DOMAIN Known(f) : /\ v \in DOMAIN GenerateTable(f)
                                  /\ GenerateTable(f)[v] = Known(f)[v]
  <2>1. GenerateTable(f) = Known(f) \/ \E t : GenerateTable(f) = Over(Known(f), t)
    BY <1>11
  <2> QED
    BY <2>1 DEF Over
<1> QED
  BY <1>9, <1>10, <1>11, <1>12

-----------------------------------------------------------------------------
(* What the functions mean *)

\* The points whose values the value at a point is made of.
Near(h) == [p \in Points(h) |-> {q \in Points(h) : q[1] \in Children(h, p[1])}]

LEMMA NearFounded ==
  ASSUME NEW h \in Graphs
  PROVE  WellFounded(Points(h), Near(h))
<1>1. Near(h) \in [Points(h) -> SUBSET Points(h)]
  BY DEF Near
<1>2. ASSUME NEW S \in SUBSET Points(h), S # {}
      PROVE  \E p \in S : Near(h)[p] \cap S = {}
  <2> DEFINE N == {p[1] : p \in S}
  <2>1. N \in SUBSET Nodes(h) /\ N # {}
    BY <1>2 DEF Points, Nodes
  <2>2. PICK n \in N : Children(h, n) \cap N = {}
    BY <2>1, GraphAssumption DEF Founded
  <2>3. PICK p \in S : p[1] = n
    BY <2>2
  <2>4. Near(h)[p] = {q \in Points(h) : q[1] \in Children(h, n)}
    BY <2>3 DEF Near
  <2> QED
    BY <2>2, <2>4
<1> QED
  BY <1>1, <1>2 DEF WellFounded

LEMMA PointKinds ==
  ASSUME NEW h \in Graphs, NEW p \in Points(h)
  PROVE  \/ p[1] \in h.var
         \/ /\ p[1] \in DOMAIN h.funOf /\ p[1] \notin h.var
            /\ <<h.argOf[p[1]], NULL>> \in Near(h)[p]
            /\ \A v \in Val : <<h.funOf[p[1]], v>> \in Near(h)[p]
         \/ /\ p[1] \in DOMAIN h.feq /\ p[1] \notin h.var \cup DOMAIN h.funOf
            /\ \A v \in Val : <<h.feq[p[1]].l, v>> \in Near(h)[p]
                              /\ <<h.feq[p[1]].r, v>> \in Near(h)[p]
         \/ /\ p[1] \in DOMAIN h.kind /\ p[1] \notin h.var \cup DOMAIN h.funOf \cup DOMAIN h.feq
            /\ p[2] \in Val
            /\ \/ h.kind[p[1]] = "uf"
               \/ /\ h.kind[p[1]] = "cond"
                  /\ <<h.condOf[p[1]], NULL>> \in Near(h)[p]
                  /\ <<h.then[p[1]], p[2]>> \in Near(h)[p]
                  /\ <<h.else[p[1]], p[2]>> \in Near(h)[p]
               \/ /\ h.kind[p[1]] \in {"update", "lambda"}
                  /\ <<h.idx[p[1]], NULL>> \in Near(h)[p]
                  /\ <<h.elem[p[1]], NULL>> \in Near(h)[p]
                  /\ <<h.base[p[1]], p[2]>> \in Near(h)[p]
<1>1. Typed(h) /\ Apart(h)
  BY GraphAssumption
<1>2. Near(h)[p] = {q \in Points(h) : q[1] \in Children(h, p[1])}
  BY DEF Near
<1>3. p[1] \in h.var \cup DOMAIN h.funOf \cup DOMAIN h.feq \cup DOMAIN h.kind
  BY DEF Points, Terms
<1>4. CASE p[1] \in DOMAIN h.funOf
  <2>1. Children(h, p[1]) = {h.funOf[p[1]], h.argOf[p[1]]}
    BY <1>4 DEF Children
  <2>2. <<h.argOf[p[1]], NULL>> \in Points(h)
        /\ \A v \in Val : <<h.funOf[p[1]], v>> \in Points(h)
    BY <1>1, <1>4 DEF Typed, Points, Terms
  <2> QED
    BY <1>1, <1>2, <1>4, <2>1, <2>2 DEF Apart
<1>5. CASE p[1] \in DOMAIN h.feq
  <2>1. Children(h, p[1]) = {h.feq[p[1]].l, h.feq[p[1]].r}
    BY <1>1, <1>5 DEF Children, Apart
  <2>2. \A v \in Val : <<h.feq[p[1]].l, v>> \in Points(h) /\ <<h.feq[p[1]].r, v>> \in Points(h)
    BY <1>1, <1>5 DEF Typed, Points
  <2> QED
    BY <1>1, <1>2, <1>5, <2>1, <2>2 DEF Apart
<1>6. CASE p[1] \in DOMAIN h.kind
  <2>1. p[1] \notin h.var \cup DOMAIN h.funOf \cup DOMAIN h.feq
    BY <1>1, <1>6 DEF Apart, Terms
  <2>2. p[2] \in Val
    BY <2>1 DEF Points, Terms
  <2>3. h.kind[p[1]] \in {"uf", "cond", "update", "lambda"}
    BY <1>1, <1>6 DEF Typed
  <2>4. CASE h.kind[p[1]] = "uf"
    BY <1>6, <2>1, <2>2, <2>4
  <2>5. CASE h.kind[p[1]] = "cond"
    <3>1. Children(h, p[1]) = {h.condOf[p[1]], h.then[p[1]], h.else[p[1]]}
      BY <1>6, <2>1, <2>5 DEF Children
    <3>2. h.condOf[p[1]] \in Terms(h) /\ h.then[p[1]] \in DOMAIN h.kind
          /\ h.else[p[1]] \in DOMAIN h.kind
      BY <1>1, <1>6, <2>5 DEF Typed
    <3>3. <<h.condOf[p[1]], NULL>> \in Points(h) /\ <<h.then[p[1]], p[2]>> \in Points(h)
          /\ <<h.else[p[1]], p[2]>> \in Points(h)
      BY <2>2, <3>2 DEF Points
    <3> QED
      BY <1>2, <1>6, <2>1, <2>2, <2>5, <3>1, <3>3
  <2>6. CASE h.kind[p[1]] \in {"update", "lambda"}
    <3>1. Children(h, p[1]) = {h.base[p[1]], h.idx[p[1]], h.elem[p[1]]}
      BY <1>6, <2>1, <2>6 DEF Children
    <3>2. h.idx[p[1]] \in Terms(h) /\ h.elem[p[1]] \in Terms(h)
          /\ h.base[p[1]] \in DOMAIN h.kind
      BY <1>1, <1>6, <2>6 DEF Typed
    <3>3. <<h.idx[p[1]], NULL>> \in Points(h) /\ <<h.elem[p[1]], NULL>> \in Points(h)
          /\ <<h.base[p[1]], p[2]>> \in Points(h)
      BY <2>2, <3>2 DEF Points
    <3> QED
      BY <1>2, <1>6, <2>1, <2>2, <2>6, <3>1, <3>3
  <2> QED
    BY <2>3, <2>4, <2>5, <2>6
<1> QED
  BY <1>3, <1>4, <1>5, <1>6


(* The value at a point is a value, and made of the values near it. *)
LEMMA ValueAtLocal ==
  ASSUME NEW h \in Graphs, NEW uf \in UfOf(h), NEW x \in [h.var -> Val],
         NEW p \in Points(h), NEW F, NEW G,
         \A q \in Near(h)[p] : F[q] \in Val,
         \A q \in Near(h)[p] : F[q] = G[q]
  PROVE  /\ ValueAt(h, uf, x, F, p[1], p[2]) \in Val
         /\ ValueAt(h, uf, x, F, p[1], p[2]) = ValueAt(h, uf, x, G, p[1], p[2])
<1> DEFINE n == p[1]
           v == p[2]
<1>1. 0 \in Val /\ 1 \in Val
  BY ValueAssumption
<1>0. /\ n \in h.var => n \notin DOMAIN h.funOf \cup DOMAIN h.feq \cup DOMAIN h.kind
      /\ n \in DOMAIN h.funOf => n \notin DOMAIN h.feq \cup DOMAIN h.kind
      /\ n \in DOMAIN h.feq => n \notin DOMAIN h.kind
  BY GraphAssumption DEF Apart, Terms
<1>2. CASE n \in h.var
  <2>1. \A E : ValueAt(h, uf, x, E, n, v) = x[n]
    BY <1>0, <1>2 DEF ValueAt
  <2> QED
    BY <1>2, <2>1
<1>3. CASE /\ n \in DOMAIN h.funOf /\ n \notin h.var
           /\ <<h.argOf[n], NULL>> \in Near(h)[p]
           /\ \A u \in Val : <<h.funOf[n], u>> \in Near(h)[p]
  <2>1. \A E : ValueAt(h, uf, x, E, n, v) = E[<<h.funOf[n], E[<<h.argOf[n], NULL>>]>>]
    BY <1>0, <1>3 DEF ValueAt
  <2> HIDE DEF n, v
  <2> QED
    BY <1>3, <2>1 DEF n, v
<1>4. CASE /\ n \in DOMAIN h.feq /\ n \notin h.var \cup DOMAIN h.funOf
           /\ \A u \in Val : <<h.feq[n].l, u>> \in Near(h)[p] /\ <<h.feq[n].r, u>> \in Near(h)[p]
  <2>1. \A E : ValueAt(h, uf, x, E, n, v) =
                 IF \A u \in Val : E[<<h.feq[n].l, u>>] = E[<<h.feq[n].r, u>>] THEN 1 ELSE 0
    BY <1>0, <1>4 DEF ValueAt
  <2> QED
    BY <1>1, <1>4, <2>1
<1>5. CASE /\ n \in DOMAIN h.kind /\ n \notin h.var \cup DOMAIN h.funOf \cup DOMAIN h.feq
           /\ v \in Val
  <2>1. \A E : ValueAt(h, uf, x, E, n, v) = FunctionValue(h, uf, E, n, v)
    BY <1>5 DEF ValueAt
  <2>2. CASE h.kind[n] = "uf"
    <3>1. \A E : FunctionValue(h, uf, E, n, v) = uf[n][v]
      BY <2>2 DEF FunctionValue
    <3>2. uf[n][v] \in Val
      BY <1>5, <2>2 DEF UfOf
    <3> QED
      BY <2>1, <3>1, <3>2
  <2>3. CASE /\ h.kind[n] = "cond"
             /\ <<h.condOf[n], NULL>> \in Near(h)[p]
             /\ <<h.then[n], v>> \in Near(h)[p] /\ <<h.else[n], v>> \in Near(h)[p]
    <3>1. \A E : FunctionValue(h, uf, E, n, v) =
                   IF E[<<h.condOf[n], NULL>>] = 1 THEN E[<<h.then[n], v>>] ELSE E[<<h.else[n], v>>]
      BY <2>3 DEF FunctionValue
    <3> QED
      BY <2>1, <2>3, <3>1
  <2>4. CASE /\ h.kind[n] \in {"update", "lambda"}
             /\ <<h.idx[n], NULL>> \in Near(h)[p] /\ <<h.elem[n], NULL>> \in Near(h)[p]
             /\ <<h.base[n], v>> \in Near(h)[p]
    <3>1. CASE h.kind[n] = "update"
      <4>1. \A E : FunctionValue(h, uf, E, n, v) =
                     IF v = E[<<h.idx[n], NULL>>] THEN E[<<h.elem[n], NULL>>]
                     ELSE E[<<h.base[n], v>>]
        BY <3>1 DEF FunctionValue
      <4> QED
        BY <2>1, <2>4, <4>1
    <3>2. CASE h.kind[n] = "lambda"
      <4>1. \A E : FunctionValue(h, uf, E, n, v) =
                     IF v = E[<<h.idx[n], NULL>>] THEN E[<<h.base[n], v>>]
                     ELSE E[<<h.elem[n], NULL>>]
        BY <3>2 DEF FunctionValue
      <4> QED
        BY <2>1, <2>4, <4>1
    <3> QED
      BY <2>4, <3>1, <3>2
  <2> QED
    BY <1>5, <2>2, <2>3, <2>4, PointKinds
<1> QED
  BY <1>2, <1>3, <1>4, <1>5, PointKinds

\* The values at the points under an interpretation.
EvOf(h, uf, x) ==
  CHOOSE ev : ev = [p \in Points(h) |-> ValueAt(h, uf, x, ev, p[1], p[2])]

LEMMA EvFacts ==
  ASSUME NEW h \in Graphs, NEW uf \in UfOf(h), NEW x \in [h.var -> Val]
  PROVE  /\ Evaluation(h, uf, x) = [t \in Terms(h) |-> EvOf(h, uf, x)[<<t, NULL>>]]
         /\ \A p \in Points(h) :
              /\ EvOf(h, uf, x)[p] \in Val
              /\ EvOf(h, uf, x)[p] = ValueAt(h, uf, x, EvOf(h, uf, x), p[1], p[2])
<1> DEFINE D == Points(h)
           Body(p, F) == ValueAt(h, uf, x, F, p[1], p[2])
           step == [y \in D \X [D -> Val] |-> Body(y[1], y[2])]
<1>1. ASSUME NEW p \in D PROVE Near(h)[p] \subseteq D
  BY DEF Near
<1>2. step \in [D \X [D -> Val] -> Val]
  <2>1. ASSUME NEW p \in D, NEW F \in [D -> Val] PROVE Body(p, F) \in Val
    BY <1>1, ValueAtLocal
  <2> HIDE DEF Body, D
  <2> QED
    BY <2>1
<1>3. \A p \in D : \A F, G \in [D -> Val] :
        (\A y \in Near(h)[p] : F[y] = G[y]) => step[<<p, F>>] = step[<<p, G>>]
  <2> SUFFICES ASSUME NEW p \in D, NEW F \in [D -> Val], NEW G \in [D -> Val],
                      \A y \in Near(h)[p] : F[y] = G[y]
               PROVE  step[<<p, F>>] = step[<<p, G>>]
    OBVIOUS
  <2>1. step[<<p, F>>] = Body(p, F) /\ step[<<p, G>>] = Body(p, G)
    <3> HIDE DEF Body, D
    <3> QED
      OBVIOUS
  <2>2. Body(p, F) = Body(p, G)
    BY <1>1, ValueAtLocal
  <2> QED
    BY <2>1, <2>2
<1> HIDE DEF step
<1>4. Solvable(D, Val, step)
  <2>1. Val # {} /\ Recursion(D, Val, Near(h), step)
    BY <1>2, <1>3, ValueAssumption DEF Recursion
  <2>2. WellFounded(D, Near(h))
    BY NearFounded
  <2> HIDE DEF D
  <2> QED
    BY <2>1, <2>2, RecursiveFunction
<1>5. PICK F \in [D -> Val] : \A p \in D : F[p] = Body(p, F)
  <2> HIDE DEF Body, D
  <2> QED
    BY <1>4 DEF step, Solvable
<1>6. F = [p \in D |-> Body(p, F)]
  <2>1. F = [p \in D |-> F[p]]
    OBVIOUS
  <2> HIDE DEF Body, D
  <2> QED
    BY <1>5, <2>1
<1> DEFINE ev == EvOf(h, uf, x)
<1>7. ev = [p \in D |-> Body(p, ev)]
  BY <1>6 DEF EvOf
<1>8. \A p \in D : ev[p] = Body(p, ev)
  <2> HIDE DEF Body, ev, D
  <2> QED
    BY <1>7
<1>9. \A p \in D : ev[p] \in Val
  <2> DEFINE S == {p \in D : ev[p] \notin Val}
  <2> SUFFICES ASSUME S # {} PROVE FALSE
    OBVIOUS
  <2> HIDE DEF ev
  <2>1. PICK p \in S : Near(h)[p] \cap S = {}
    BY NearFounded DEF WellFounded
  <2>2. \A y \in Near(h)[p] : ev[y] \in Val
    BY <1>1, <2>1
  <2>3. Body(p, ev) \in Val
    BY <2>2, ValueAtLocal
  <2> QED
    BY <1>8, <2>1, <2>3
<1>10. Evaluation(h, uf, x) = [t \in Terms(h) |-> ev[<<t, NULL>>]]
  BY DEF Evaluation, EvOf
<1> HIDE DEF ev
<1> QED
  BY <1>8, <1>9, <1>10 DEF ev


(* What the graph says of function f at argument value v. *)
MeaningAt(uf, e, ev, f, v) ==
  /\ Kind[f] = "uf" => ev[<<f, v>>] = uf[f][v]
  /\ Kind[f] = "cond" =>
       ev[<<f, v>>] = IF e[CondOf[f]] = 1 THEN ev[<<Then[f], v>>] ELSE ev[<<Else[f], v>>]
  /\ Kind[f] = "update" =>
       ev[<<f, v>>] = IF v = e[Idx[f]] THEN e[Elem[f]] ELSE ev[<<Base[f], v>>]
  /\ Kind[f] = "lambda" =>
       ev[<<f, v>>] = IF v = e[Idx[f]] THEN ev[<<Base[f], v>>] ELSE e[Elem[f]]

(* e gives the terms, and ev the functions at each argument value, what the *)
(* graph says of them under uf and x.                                       *)
Meaning(uf, x, e, ev) ==
  /\ e \in [Term -> Val]
  /\ \A t \in Var : e[t] = x[t]
  /\ \A a \in App : e[a] = ev[<<FunOf[a], e[ArgOf[a]]>>]
  /\ \A q \in Feq : e[q] = IF \A u \in Val : ev[<<g.feq[q].l, u>>] = ev[<<g.feq[q].r, u>>]
                           THEN 1 ELSE 0
  /\ \A f \in Fun, v \in Val : MeaningAt(uf, e, ev, f, v)

LEMMA EvaluationMeaning ==
  ASSUME g \in Graphs, NEW uf \in UfOf(g), NEW x \in [Var -> Val]
  PROVE  Meaning(uf, x, Evaluation(g, uf, x), EvOf(g, uf, x))
<1> DEFINE e == Evaluation(g, uf, x)
           ev == EvOf(g, uf, x)
<1>1. x \in [g.var -> Val]
  BY DEF Var
<1>2. /\ e = [t \in Term |-> ev[<<t, NULL>>]]
      /\ \A p \in Points(g) : ev[p] \in Val /\ ev[p] = ValueAt(g, uf, x, ev, p[1], p[2])
  BY <1>1, EvFacts DEF Term
<1> HIDE DEF e, ev
<1>3. \A t \in Term : <<t, NULL>> \in Points(g) /\ e[t] = ev[<<t, NULL>>]
  BY <1>2 DEF Points, Term
<1>4. \A f \in Fun, v \in Val : <<f, v>> \in Points(g)
  BY DEF Points, Fun
<1>5. e \in [Term -> Val]
  BY <1>2, <1>3
<1>6. \A t \in Term : e[t] = ValueAt(g, uf, x, ev, t, NULL)
  BY <1>2, <1>3
<1>7. \A f \in Fun, v \in Val : ev[<<f, v>>] = ValueAt(g, uf, x, ev, f, v)
  BY <1>2, <1>4
<1>8. Apart(g)
  BY GraphAssumption
<1>9. ASSUME NEW t \in Var PROVE e[t] = x[t]
  <2>1. t \in g.var /\ t \notin DOMAIN g.funOf /\ t \notin DOMAIN g.feq /\ t \notin DOMAIN g.kind
    BY <1>8 DEF Apart, Terms, Var
  <2>2. ValueAt(g, uf, x, ev, t, NULL) = x[t]
    BY <2>1 DEF ValueAt
  <2> QED
    BY <1>6, <2>2, GraphTypes
<1>10. ASSUME NEW a \in App PROVE e[a] = ev[<<FunOf[a], e[ArgOf[a]]>>]
  <2>1. a \notin g.var /\ a \in DOMAIN g.funOf /\ a \notin DOMAIN g.feq /\ a \notin DOMAIN g.kind
    BY <1>8 DEF Apart, Terms, App
  <2>2. ValueAt(g, uf, x, ev, a, NULL) = ev[<<g.funOf[a], ev[<<g.argOf[a], NULL>>]>>]
    BY <2>1 DEF ValueAt
  <2>3. a \in Term /\ ArgOf[a] \in Term
    BY GraphTypes
  <2> QED
    BY <1>3, <1>6, <2>2, <2>3 DEF FunOf, ArgOf
<1>11. ASSUME NEW q \in Feq
       PROVE  e[q] = IF \A u \in Val : ev[<<g.feq[q].l, u>>] = ev[<<g.feq[q].r, u>>]
                     THEN 1 ELSE 0
  <2>1. q \notin g.var /\ q \notin DOMAIN g.funOf /\ q \in DOMAIN g.feq /\ q \notin DOMAIN g.kind
    BY <1>8 DEF Apart, Terms, Feq
  <2>2. ValueAt(g, uf, x, ev, q, NULL) =
          IF \A u \in Val : ev[<<g.feq[q].l, u>>] = ev[<<g.feq[q].r, u>>] THEN 1 ELSE 0
    BY <2>1 DEF ValueAt
  <2> QED
    BY <1>6, <2>2, GraphTypes
<1>12. ASSUME NEW f \in Fun, NEW v \in Val PROVE MeaningAt(uf, e, ev, f, v)
  <2>1. f \notin g.var /\ f \notin DOMAIN g.funOf /\ f \notin DOMAIN g.feq /\ f \in DOMAIN g.kind
    BY <1>8 DEF Apart, Terms, Fun
  <2>2. ValueAt(g, uf, x, ev, f, v) = FunctionValue(g, uf, ev, f, v)
    BY <2>1 DEF ValueAt
  <2>3. ev[<<f, v>>] = FunctionValue(g, uf, ev, f, v)
    BY <1>7, <2>2
  <2>4. CASE Kind[f] = "uf"
    BY <2>3, <2>4 DEF FunctionValue, Kind, MeaningAt
  <2>5. CASE Kind[f] = "cond"
    <3>1. FunctionValue(g, uf, ev, f, v) =
            ev[<<IF ev[<<g.condOf[f], NULL>>] = 1 THEN g.then[f] ELSE g.else[f], v>>]
      BY <2>5 DEF FunctionValue, Kind
    <3>2. e[CondOf[f]] = ev[<<g.condOf[f], NULL>>]
      BY <1>3, <2>5, GraphTypes DEF CondOf
    <3> QED
      BY <2>3, <2>5, <3>1, <3>2 DEF Then, Else, MeaningAt
  <2>6. CASE Kind[f] \in {"update", "lambda"}
    <3>1. e[Idx[f]] = ev[<<g.idx[f], NULL>>] /\ e[Elem[f]] = ev[<<g.elem[f], NULL>>]
      BY <1>3, <2>6, GraphTypes DEF Idx, Elem
    <3>2. CASE Kind[f] = "update"
      <4>1. FunctionValue(g, uf, ev, f, v) =
              IF v = ev[<<g.idx[f], NULL>>] THEN ev[<<g.elem[f], NULL>>] ELSE ev[<<g.base[f], v>>]
        BY <3>2 DEF FunctionValue, Kind
      <4> QED
        BY <2>3, <3>1, <3>2, <4>1 DEF Base, MeaningAt
    <3>3. CASE Kind[f] = "lambda"
      <4>1. FunctionValue(g, uf, ev, f, v) =
              IF v = ev[<<g.idx[f], NULL>>] THEN ev[<<g.base[f], v>>] ELSE ev[<<g.elem[f], NULL>>]
        BY <3>3 DEF FunctionValue, Kind
      <4> QED
        BY <2>3, <3>1, <3>3, <4>1 DEF Base, MeaningAt
    <3> QED
      BY <2>6, <3>2, <3>3
  <2> QED
    BY <2>4, <2>5, <2>6, GraphTypes
<1> QED
  BY <1>5, <1>9, <1>10, <1>11, <1>12 DEF Meaning, e, ev

(* Every member of Evaluations comes from functions. *)
LEMMA EvaluationsMeaning ==
  ASSUME g \in Graphs, NEW e \in Evaluations
  PROVE  \E uf, x, ev : Meaning(uf, x, e, ev)
<1>1. EvaluationsOf[g] = {Evaluation(g, i[1], i[2]) : i \in UfOf(g) \X [g.var -> Val]}
  BY DEF EvaluationsOf
<1>2. PICK uf \in UfOf(g), x \in [Var -> Val] : e = Evaluation(g, uf, x)
  <2>1. PICK i \in UfOf(g) \X [g.var -> Val] : e = Evaluation(g, i[1], i[2])
    BY <1>1 DEF Evaluations
  <2> QED
    BY <2>1 DEF Var
<1>3. Meaning(uf, x, Evaluation(g, uf, x), EvOf(g, uf, x))
  BY EvaluationMeaning
<1>4. Meaning(uf, x, e, EvOf(g, uf, x))
  BY <1>2, <1>3
<1> QED
  BY <1>4


-----------------------------------------------------------------------------
(* The way of an apply *)

\* From h, apply a comes to f.
Way(a, h, f) ==
  \A S \in SUBSET Fun :
    (h \in S /\ \A y \in S : Down(a, y) # NULL => Down(a, y) \in S) => f \in S

LEMMA WayOn ==
  ASSUME NEW a, NEW h, NEW f \in Fun, Way(a, h, f), Down(a, f) # NULL
  PROVE  Way(a, h, Down(a, f))
BY DEF Way

LEMMA WayHere ==
  ASSUME NEW a, NEW h
  PROVE  Way(a, h, h)
BY DEF Way

LEMMA WayStep ==
  ASSUME g \in Graphs, NEW a \in App, NEW h \in Fun, NEW f \in Fun, Way(a, h, f), h # f
  PROVE  Down(a, h) # NULL /\ Way(a, Down(a, h), f)
<1>1. Down(a, h) # NULL
  <2> SUFFICES ASSUME Down(a, h) = NULL PROVE FALSE
    OBVIOUS
  <2>1. {h} \in SUBSET Fun /\ h \in {h} /\ \A y \in {h} : Down(a, y) # NULL => Down(a, y) \in {h}
    OBVIOUS
  <2>2. f \in {h}
    BY <2>1 DEF Way
  <2> QED
    BY <2>2
<1>2. ASSUME NEW S \in SUBSET Fun, Down(a, h) \in S,
             \A y \in S : Down(a, y) # NULL => Down(a, y) \in S
      PROVE  f \in S
  <2> DEFINE T == S \cup {h}
  <2>1. T \in SUBSET Fun /\ h \in T /\ \A y \in T : Down(a, y) # NULL => Down(a, y) \in T
    BY <1>2
  <2> HIDE DEF T
  <2>2. f \in T
    BY <2>1 DEF Way
  <2> QED
    BY <2>2 DEF T
<1> QED
  BY <1>1, <1>2 DEF Way

LEMMA FunctionMeaning ==
  ASSUME NEW uf, NEW x, NEW e, NEW ev, Meaning(uf, x, e, ev), NEW f \in Fun, NEW v \in Val
  PROVE  MeaningAt(uf, e, ev, f, v)
BY Zenon DEF Meaning

(* Where the premise holds the function below gives the same value. *)
LEMMA StepSound ==
  ASSUME g \in Graphs, NEW a \in App, NEW h \in Fun, Down(a, h) # NULL,
         NEW uf, NEW x, NEW e, NEW ev, Meaning(uf, x, e, ev),
         LiteralHolds(Premise(a, h), e)
  PROVE  ev[<<h, e[ArgOf[a]]>>] = ev[<<Down(a, h), e[ArgOf[a]]>>]
<1> DEFINE v == e[ArgOf[a]]
<1>1. v \in Val /\ Kind[h] \in {"uf", "cond", "update", "lambda"}
  BY GraphTypes DEF Meaning
<1>2. Kind[h] # "uf"
  BY DEF Down
<1>3. CASE Kind[h] = "cond"
  <2>1. Premise(a, h) = <<IF val[CondOf[h]] = 1 THEN "true" ELSE "false", CondOf[h], CondOf[h]>>
    BY <1>3 DEF Premise
  <2>2. ev[<<h, v>>] = IF e[CondOf[h]] = 1 THEN ev[<<Then[h], v>>] ELSE ev[<<Else[h], v>>]
    <3>1. MeaningAt(uf, e, ev, h, v)
      BY <1>1, FunctionMeaning
    <3> HIDE DEF v
    <3> QED
      BY <1>3, <3>1 DEF MeaningAt
  <2>3. CASE val[CondOf[h]] = 1
    <3>1. e[CondOf[h]] = 1
      BY <2>1, <2>3 DEF LiteralHolds
    <3> QED
      BY <1>3, <2>2, <2>3, <3>1 DEF Down
  <2>4. CASE val[CondOf[h]] # 1
    <3>1. e[CondOf[h]] # 1
      BY <2>1, <2>4 DEF LiteralHolds
    <3> QED
      BY <1>3, <2>2, <2>4, <3>1 DEF Down
  <2> QED
    BY <2>3, <2>4
<1>4. CASE Kind[h] = "update"
  <2>1. Premise(a, h) = <<"neq", ArgOf[a], Idx[h]>> /\ Down(a, h) = Base[h]
    <3>1. Premise(a, h) = <<"neq", ArgOf[a], Idx[h]>>
      BY <1>4 DEF Premise
    <3>2. Down(a, h) = IF SameArgs(a, h) THEN NULL ELSE Base[h]
      BY <1>4 DEF Down
    <3> QED
      BY <3>1, <3>2
  <2>2. v # e[Idx[h]]
    BY <2>1 DEF LiteralHolds
  <2>3. ev[<<h, v>>] = IF v = e[Idx[h]] THEN e[Elem[h]] ELSE ev[<<Base[h], v>>]
    <3>1. MeaningAt(uf, e, ev, h, v)
      BY <1>1, FunctionMeaning
    <3> HIDE DEF v
    <3> QED
      BY <1>4, <3>1 DEF MeaningAt
  <2> QED
    BY <2>1, <2>2, <2>3
<1>5. CASE Kind[h] = "lambda"
  <2>1. Premise(a, h) = <<"eq", ArgOf[a], Idx[h]>> /\ Down(a, h) = Base[h]
    <3>1. Premise(a, h) = <<"eq", ArgOf[a], Idx[h]>>
      BY <1>5 DEF Premise
    <3>2. Down(a, h) = IF SameArgs(a, h) THEN Base[h] ELSE NULL
      BY <1>5 DEF Down
    <3> QED
      BY <3>1, <3>2
  <2>2. v = e[Idx[h]]
    BY <2>1 DEF LiteralHolds
  <2>3. ev[<<h, v>>] = IF v = e[Idx[h]] THEN ev[<<Base[h], v>>] ELSE e[Elem[h]]
    <3>1. MeaningAt(uf, e, ev, h, v)
      BY <1>1, FunctionMeaning
    <3> HIDE DEF v
    <3> QED
      BY <1>5, <3>1 DEF MeaningAt
  <2> QED
    BY <2>1, <2>2, <2>3
<1> QED
  BY <1>1, <1>2, <1>3, <1>4, <1>5

(* Where all the premisses collected on the way to f hold, the apply is the *)
(* value of f at its argument.                                              *)
LEMMA PathSound ==
  ASSUME g \in Graphs, NEW a \in App, NEW f \in Fun, Way(a, FunOf[a], f),
         NEW uf, NEW x, NEW e, NEW ev, Meaning(uf, x, e, ev),
         \A p \in CollectPremisses(a, f) : LiteralHolds(p, e)
  PROVE  e[a] = ev[<<f, e[ArgOf[a]]>>]
<1> DEFINE v == e[ArgOf[a]]
           Sound(h) == (Way(a, h, f) /\ \A p \in PremOf(a, f)[h] : LiteralHolds(p, e))
                         => ev[<<h, v>>] = ev[<<f, v>>]
           S == {h \in Fun : ~Sound(h)}
<1>1. S = {}
  <2> SUFFICES ASSUME S # {} PROVE FALSE
    OBVIOUS
  <2>1. PICK h \in S : Below[h] \cap S = {}
    BY BelowFounded
  <2>2. /\ h \in Fun /\ Way(a, h, f) /\ h # f
        /\ \A p \in PremOf(a, f)[h] : LiteralHolds(p, e)
        /\ ev[<<h, v>>] # ev[<<f, v>>]
    BY <2>1
  <2>3. Down(a, h) # NULL /\ Way(a, Down(a, h), f)
    BY <2>2, WayStep
  <2>4. Down(a, h) \in Below[h] /\ Down(a, h) \in Fun
    BY <2>2, <2>3, DownBelow
  <2>5. PremOf(a, f)[h] = {Premise(a, h)} \cup PremOf(a, f)[Down(a, h)]
    BY <2>2, <2>3, PremOfFacts
  <2>6. Sound(Down(a, h))
    BY <2>1, <2>4
  <2>7. ev[<<Down(a, h), v>>] = ev[<<f, v>>]
    BY <2>2, <2>3, <2>5, <2>6
  <2>8. ev[<<h, v>>] = ev[<<Down(a, h), v>>]
    BY <2>2, <2>3, <2>5, StepSound
  <2> QED
    BY <2>2, <2>7, <2>8
<1>2. FunOf[a] \in Fun /\ CollectPremisses(a, f) = PremOf(a, f)[FunOf[a]]
  BY GraphTypes, PremOfFacts
<1>3. Sound(FunOf[a])
  BY <1>1, <1>2
<1>4. ev[<<FunOf[a], v>>] = ev[<<f, v>>]
  BY <1>2, <1>3
<1> QED
  BY <1>4 DEF Meaning


-----------------------------------------------------------------------------
(* The lemmas *)

\* A lemma that is true of all functions.
Valid(l) == \A e \in Evaluations : LemmaHolds(l, e)

(* Two applies that come to the same function with the same argument        *)
(* values, and have different values.                                       *)
LEMMA Congruence ==
  ASSUME g \in Graphs, NEW f \in Fun, NEW a \in App, NEW b \in App,
         Way(a, FunOf[a], f), Way(b, FunOf[b], f),
         val[ArgOf[a]] = val[ArgOf[b]], val[a] # val[b]
  PROVE  Valid(CongruenceLemma(f, a, b)) /\ ~LemmaHolds(CongruenceLemma(f, a, b), val)
<1> DEFINE l == CongruenceLemma(f, a, b)
<1>1. /\ l.prem = CollectPremisses(a, f) \cup CollectPremisses(b, f)
                    \cup {<<"eq", ArgOf[a], ArgOf[b]>>}
      /\ l.con = <<"eq", a, b>>
  BY DEF CongruenceLemma
<1>2. \A e : LiteralHolds(l.con, e) <=> e[a] = e[b]
  BY <1>1 DEF LiteralHolds
<1>3. \A e : LiteralHolds(<<"eq", ArgOf[a], ArgOf[b]>>, e) <=> e[ArgOf[a]] = e[ArgOf[b]]
  BY DEF LiteralHolds
<1> HIDE DEF l
<1>4. ASSUME NEW e \in Evaluations, \A p \in l.prem : LiteralHolds(p, e)
      PROVE  LiteralHolds(l.con, e)
  <2>1. PICK uf, x, ev : Meaning(uf, x, e, ev)
    BY EvaluationsMeaning
  <2>2. e[ArgOf[a]] = e[ArgOf[b]]
    BY <1>1, <1>3, <1>4
  <2>3. e[a] = ev[<<f, e[ArgOf[a]]>>]
    BY <1>1, <1>4, <2>1, PathSound
  <2>4. e[b] = ev[<<f, e[ArgOf[b]]>>]
    BY <1>1, <1>4, <2>1, PathSound
  <2> QED
    BY <1>2, <2>2, <2>3, <2>4
<1>5. \A p \in l.prem : LiteralHolds(p, val)
  <2>1. \A p \in CollectPremisses(a, f) : LiteralHolds(p, val)
    BY GraphTypes, PremOfFacts
  <2>2. \A p \in CollectPremisses(b, f) : LiteralHolds(p, val)
    BY GraphTypes, PremOfFacts
  <2> QED
    BY <1>1, <1>3, <2>1, <2>2
<1>6. ~LiteralHolds(l.con, val)
  BY <1>2
<1> QED
  BY <1>4, <1>5, <1>6 DEF l, Valid, LemmaHolds

(* An apply that stops at an update or a lambda, and has not the value      *)
(* there.                                                                   *)
LEMMA ReadValue ==
  ASSUME g \in Graphs, NEW f \in Fun, NEW a \in App, Way(a, FunOf[a], f),
         Kind[f] \in {"update", "lambda"}, Down(a, f) = NULL, val[a] # val[Elem[f]]
  PROVE  Valid(ValueLemma(f, a)) /\ ~LemmaHolds(ValueLemma(f, a), val)
<1> DEFINE l == ValueLemma(f, a)
           lit == <<IF Kind[f] = "update" THEN "eq" ELSE "neq", ArgOf[a], Idx[f]>>
<1>1. l.prem = CollectPremisses(a, f) \cup {lit} /\ l.con = <<"eq", a, Elem[f]>>
  BY DEF ValueLemma
<1>2. \A e : LiteralHolds(l.con, e) <=> e[a] = e[Elem[f]]
  BY <1>1 DEF LiteralHolds
<1>3. \A e : LiteralHolds(lit, e) <=>
               IF Kind[f] = "update" THEN e[ArgOf[a]] = e[Idx[f]] ELSE e[ArgOf[a]] # e[Idx[f]]
  <2>1. CASE Kind[f] = "update"
    BY <2>1 DEF LiteralHolds
  <2>2. CASE Kind[f] = "lambda"
    BY <2>2 DEF LiteralHolds
  <2> QED
    BY <2>1, <2>2
<1>4. LiteralHolds(lit, val)
  <2>1. Base[f] # NULL
    BY GraphTypes
  <2>2. CASE Kind[f] = "update"
    BY <1>3, <2>1, <2>2 DEF Down, SameArgs
  <2>3. CASE Kind[f] = "lambda"
    BY <1>3, <2>1, <2>3 DEF Down, SameArgs
  <2> QED
    BY <2>2, <2>3
<1> HIDE DEF l, lit
<1>5. ASSUME NEW e \in Evaluations, \A p \in l.prem : LiteralHolds(p, e)
      PROVE  LiteralHolds(l.con, e)
  <2>1. PICK uf, x, ev : Meaning(uf, x, e, ev)
    BY EvaluationsMeaning
  <2>2. e[a] = ev[<<f, e[ArgOf[a]]>>]
    BY <1>1, <1>5, <2>1, PathSound
  <2>3. e[ArgOf[a]] \in Val
    BY <2>1, GraphTypes DEF Meaning
  <2>4. LiteralHolds(lit, e)
    BY <1>1, <1>5
  <2> DEFINE v == e[ArgOf[a]]
  <2>8. MeaningAt(uf, e, ev, f, v)
    BY <2>1, <2>3, FunctionMeaning
  <2>5. CASE Kind[f] = "update"
    <3>1. ev[<<f, e[ArgOf[a]]>>] = IF e[ArgOf[a]] = e[Idx[f]] THEN e[Elem[f]]
                                   ELSE ev[<<Base[f], e[ArgOf[a]]>>]
      BY <2>5, <2>8 DEF MeaningAt
    <3> QED
      BY <1>2, <1>3, <2>2, <2>4, <2>5, <3>1
  <2>6. CASE Kind[f] = "lambda"
    <3>1. ev[<<f, e[ArgOf[a]]>>] = IF e[ArgOf[a]] = e[Idx[f]]
                                   THEN ev[<<Base[f], e[ArgOf[a]]>>] ELSE e[Elem[f]]
      BY <2>6, <2>8 DEF MeaningAt
    <3> QED
      BY <1>2, <1>3, <2>2, <2>4, <2>6, <3>1
  <2> QED
    BY <2>5, <2>6
<1>6. \A p \in l.prem : LiteralHolds(p, val)
  <2>1. \A p \in CollectPremisses(a, f) : LiteralHolds(p, val)
    BY GraphTypes, PremOfFacts
  <2> QED
    BY <1>1, <1>4, <2>1
<1>7. ~LiteralHolds(l.con, val)
  BY <1>2
<1> QED
  BY <1>5, <1>6, <1>7 DEF l, Valid, LemmaHolds

(* The sides of an equality can be applied to all arguments in tables. *)
LEMMA Applied ==
  ASSUME g \in Graphs, NEW q \in Feq, NEW f \in {g.feq[q].l, g.feq[q].r}, NEW t \in ArgTerm
  PROVE  /\ f \in Fun /\ Kind[f] # "lambda"
         /\ \/ Kind[f] = "update" /\ Idx[f] = t /\ ApplyExp(f, t) = Elem[f]
            \/ /\ ApplyExp(f, t) = AppOn(f, t) /\ ApplyExp(f, t) \in App
               /\ FunOf[ApplyExp(f, t)] = f /\ ArgOf[ApplyExp(f, t)] = t
<1>1. f \in Fun /\ Compared(g)
  BY GraphTypes, GraphAssumption
<1>2. t \in {g.argOf[a] : a \in DOMAIN g.funOf}
            \cup {g.idx[u] : u \in {d \in DOMAIN g.kind : g.kind[d] = "update"}}
  BY DEF ArgTerm, ArgOf, App, Idx, Fun, Kind
<1>3. /\ Kind[f] # "lambda"
      /\ \/ Kind[f] = "update" /\ Idx[f] = t
         \/ \E a \in App : FunOf[a] = f /\ ArgOf[a] = t
  <2>1. \/ g.kind[f] = "update" /\ g.idx[f] = t
        \/ \E a \in DOMAIN g.funOf : g.funOf[a] = f /\ g.argOf[a] = t
    BY <1>1, <1>2 DEF Compared, Feq
  <2>2. g.kind[f] # "lambda"
    <3>1. PICK S \in SUBSET Nodes(g) :
            /\ q \in S
            /\ \A n \in S \ DOMAIN g.funOf : Children(g, n) \subseteq S
            /\ \A d \in S \cap DOMAIN g.kind : g.kind[d] # "lambda"
      BY GraphAssumption DEF Searched, Feq
    <3>2. q \in DOMAIN g.feq /\ q \notin DOMAIN g.funOf
      BY GraphAssumption DEF Feq, Apart
    <3>3. Children(g, q) = {g.feq[q].l, g.feq[q].r}
      BY <3>2 DEF Children
    <3> QED
      BY <1>1, <3>1, <3>2, <3>3 DEF Fun
  <2> QED
    BY <2>1, <2>2 DEF Kind, Idx, App, FunOf, ArgOf
<1>4. CASE Kind[f] = "update" /\ Idx[f] = t
  BY <1>1, <1>3, <1>4 DEF ApplyExp
<1>5. CASE ~(Kind[f] = "update" /\ Idx[f] = t)
  <2>1. ApplyExp(f, t) = AppOn(f, t)
    BY <1>5 DEF ApplyExp
  <2>2. AppOn(f, t) \in App /\ FunOf[AppOn(f, t)] = f /\ ArgOf[AppOn(f, t)] = t
    BY <1>3, <1>5 DEF AppOn
  <2> QED
    BY <1>1, <1>3, <2>1, <2>2
<1> QED
  BY <1>4, <1>5

LEMMA ExtensionalityValid ==
  ASSUME g \in Graphs, NEW q \in Feq, NEW t \in ArgTerm
  PROVE  Valid(ExtensionalityLemma(q, t))
<1> DEFINE l == ExtensionalityLemma(q, t)
<1>1. /\ l.prem = {<<"true", q, q>>}
      /\ l.con = <<"eq", ApplyExp(g.feq[q].l, t), ApplyExp(g.feq[q].r, t)>>
  BY DEF ExtensionalityLemma
<1>2. \A e : LiteralHolds(<<"true", q, q>>, e) <=> e[q] = 1
  BY DEF LiteralHolds
<1>3. \A e : LiteralHolds(l.con, e) <=> e[ApplyExp(g.feq[q].l, t)] = e[ApplyExp(g.feq[q].r, t)]
  BY <1>1 DEF LiteralHolds
<1> HIDE DEF l
<1>4. ASSUME NEW e \in Evaluations, \A p \in l.prem : LiteralHolds(p, e)
      PROVE  LiteralHolds(l.con, e)
  <2>1. PICK uf, x, ev : Meaning(uf, x, e, ev)
    BY EvaluationsMeaning
  <2>2. t \in Term
    BY GraphTypes DEF ArgTerm
  <2>3. e[t] \in Val
    BY <2>1, <2>2 DEF Meaning
  <2>4. ASSUME NEW f \in {g.feq[q].l, g.feq[q].r}
        PROVE  e[ApplyExp(f, t)] = ev[<<f, e[t]>>]
    <3>1. f \in Fun
      BY Applied
    <3>2. CASE Kind[f] = "update" /\ Idx[f] = t /\ ApplyExp(f, t) = Elem[f]
      <4>1. ev[<<f, e[t]>>] = IF e[t] = e[Idx[f]] THEN e[Elem[f]] ELSE ev[<<Base[f], e[t]>>]
        <5>1. MeaningAt(uf, e, ev, f, e[t])
          BY <2>1, <2>3, <3>1, FunctionMeaning
        <5> QED
          BY <3>2, <5>1 DEF MeaningAt
      <4> QED
        BY <3>2, <4>1
    <3>3. CASE /\ ApplyExp(f, t) \in App
               /\ FunOf[ApplyExp(f, t)] = f /\ ArgOf[ApplyExp(f, t)] = t
      BY <2>1, <3>3 DEF Meaning
    <3> QED
      BY <3>2, <3>3, Applied
  <2>5. e[q] = 1
    BY <1>1, <1>2, <1>4
  <2>6. ev[<<g.feq[q].l, e[t]>>] = ev[<<g.feq[q].r, e[t]>>]
    <3>1. e[q] = IF \A u \in Val : ev[<<g.feq[q].l, u>>] = ev[<<g.feq[q].r, u>>]
                 THEN 1 ELSE 0
      BY <2>1 DEF Meaning
    <3> QED
      BY <2>3, <2>5, <3>1
  <2> QED
    BY <1>3, <2>4, <2>6
<1> QED
  BY <1>4 DEF l, Valid, LemmaHolds


-----------------------------------------------------------------------------
(* The invariant *)

\* The function of the apply knows a value for its argument, and the apply has it.
Settled(a) == LET b == rho[FunOf[a]][val[ArgOf[a]]] IN b # NULL /\ val[b] = val[a]

OnWay(a, f) == Way(a, FunOf[a], f)

TypeInv ==
  /\ g \in Graphs
  /\ val \in [Term -> Val]
  /\ prop_stack \in Seq(App \X Fun)
  /\ apply_search_cache \subseteq App
  /\ propagated \subseteq App
  /\ init_apps \in Seq(App)
  /\ \A l \in lemmas : LemmaHolds(l, val)

\* Applies are only where their way leads under the candidate.
WayInv ==
  /\ \A c \in Range(prop_stack) : OnWay(c[1], c[2])
  /\ \A f \in Fun, v \in Val, a \in App : rho[f][v] = a => OnWay(a, f)

(* As long as there is no conflict, the applies met so far have the values  *)
(* that their functions know, and the initial ones have been met or are     *)
(* still to come.                                                           *)
SettledInv ==
  cur_lemmas = {} =>
    /\ \A f \in Fun : Kind[f] = "update" /\ rho[f][val[Idx[f]]] # NULL =>
                        val[rho[f][val[Idx[f]]]] = val[Elem[f]]
    /\ \A a \in propagated : Settled(a)
    /\ \A c \in Range(prop_stack) : c[2] = FunOf[c[1]] \/ Settled(c[1])
    /\ \A a \in Range(init_apps) : Settled(a) \/ <<a, FunOf[a]>> \in Range(prop_stack)

CheckInv == TypeInv /\ Filed /\ WayInv /\ SettledInv /\ LemmasSound

LEMMA Frame ==
  ASSUME g' = g, val' = val
  PROVE  /\ App' = App /\ Fun' = Fun /\ Term' = Term /\ FunOf' = FunOf /\ ArgOf' = ArgOf
         /\ Kind' = Kind /\ Idx' = Idx /\ Elem' = Elem /\ Base' = Base
         /\ \A a, f : OnWay(a, f)' <=> OnWay(a, f)
         /\ \A l : Valid(l)' <=> Valid(l)
BY DEF OnWay, App, Fun, Term, FunOf, ArgOf, Kind, Idx, Elem, Base, Way, Down, SameArgs,
       CondOf, Then, Else, Valid, Evaluations

-----------------------------------------------------------------------------
(* The stack *)

LEMMA Popped ==
  ASSUME g \in Graphs, prop_stack \in Seq(App \X Fun), prop_stack # <<>>
  PROVE  /\ <<app, fun>> \in Range(prop_stack) /\ app \in App /\ fun \in Fun
         /\ Front(prop_stack) \in Seq(App \X Fun)
         /\ Range(prop_stack) = Range(Front(prop_stack)) \cup {<<app, fun>>}
<1> DEFINE n == Len(prop_stack)
<1>1. n \in Nat /\ n >= 1 /\ DOMAIN prop_stack = 1..n
  OBVIOUS
<1>2. prop_stack[n] \in App \X Fun /\ prop_stack[n] = <<app, fun>>
  BY <1>1 DEF app, fun, Last
<1>3. /\ Front(prop_stack) \in Seq(App \X Fun)
      /\ DOMAIN Front(prop_stack) = 1..(n - 1)
      /\ \A i \in 1..(n - 1) : Front(prop_stack)[i] = prop_stack[i]
  BY <1>1 DEF Front
<1>4. 1..n = 1..(n - 1) \cup {n}
  BY <1>1
<1> HIDE DEF n
<1>5. Range(prop_stack) = Range(Front(prop_stack)) \cup {prop_stack[n]}
  BY <1>1, <1>3, <1>4 DEF Range
<1> QED
  BY <1>2, <1>3, <1>5

LEMMA AppendRange ==
  ASSUME NEW A, NEW s \in Seq(A), NEW c \in A
  PROVE  Append(s, c) \in Seq(A) /\ Range(Append(s, c)) = Range(s) \cup {c}
<1>1. /\ Append(s, c) \in Seq(A) /\ DOMAIN Append(s, c) = 1..(Len(s) + 1)
      /\ DOMAIN s = 1..Len(s) /\ Len(s) \in Nat
      /\ Append(s, c)[Len(s) + 1] = c
      /\ \A i \in 1..Len(s) : Append(s, c)[i] = s[i]
  OBVIOUS
<1>2. 1..(Len(s) + 1) = 1..Len(s) \cup {Len(s) + 1}
  BY <1>1
<1> QED
  BY <1>1, <1>2 DEF Range

\* A stack and a cache that have s and, apart from applies at the start of their way, D.
StackOf(sc, s, D) ==
  /\ sc \in [stack : Seq(App \X Fun), cache : SUBSET App]
  /\ Range(s) \subseteq Range(sc.stack) /\ D \subseteq Range(sc.stack)
  /\ \A c \in Range(sc.stack) : c \in Range(s) \cup D \/ c[2] = FunOf[c[1]]

LEMMA PushAppliesStack ==
  ASSUME g \in Graphs, NEW sc, NEW s, NEW D, StackOf(sc, s, D), NEW t
  PROVE  StackOf(PushApplies(sc, t), s, D)
<1>1. CASE t \notin App \ sc.cache
  BY <1>1 DEF PushApplies
<1>2. CASE t \in App \ sc.cache
  <2> DEFINE st == Append(sc.stack, <<t, FunOf[t]>>)
  <2>1. PushApplies(sc, t) = [stack |-> st, cache |-> sc.cache \cup {t}]
    BY <1>2 DEF PushApplies
  <2>2. <<t, FunOf[t]>> \in App \X Fun
    BY <1>2, GraphTypes
  <2>3. st \in Seq(App \X Fun) /\ Range(st) = Range(sc.stack) \cup {<<t, FunOf[t]>>}
    BY <2>2, AppendRange DEF StackOf
  <2>4. sc.cache \cup {t} \in SUBSET App
    BY <1>2 DEF StackOf
  <2> HIDE DEF st
  <2> QED
    BY <2>1, <2>3, <2>4 DEF StackOf
<1> QED
  BY <1>1, <1>2

LEMMA PushStack ==
  ASSUME NEW sc, NEW s, NEW D, StackOf(sc, s, D), NEW a \in App, NEW f \in Fun
  PROVE  StackOf(Push(sc, a, f), s, D \cup {<<a, f>>})
<1> DEFINE st == Append(sc.stack, <<a, f>>)
<1>1. Push(sc, a, f) = [stack |-> st, cache |-> sc.cache]
  BY DEF Push
<1>2. st \in Seq(App \X Fun) /\ Range(st) = Range(sc.stack) \cup {<<a, f>>}
  BY AppendRange DEF StackOf
<1> HIDE DEF st
<1> QED
  BY <1>1, <1>2 DEF StackOf

LEMMA AfterArgsStack ==
  ASSUME TypeInv, Busy
  PROVE  StackOf(AfterArgs, Front(prop_stack), {})
<1>1. StackOf([stack |-> Front(prop_stack), cache |-> apply_search_cache], Front(prop_stack), {})
  BY Popped DEF StackOf, TypeInv, Busy
<1> QED
  BY <1>1, PushAppliesStack DEF AfterArgs, TypeInv


-----------------------------------------------------------------------------
(* One pass of the loop.  What the passes have in common: the top of the    *)
(* stack is gone, D went on it and applies at the start of their way; app   *)
(* is remembered by fun or was already settled; new lemmas are valid and    *)
(* exclude the candidate.                                                   *)
Pass(D) ==
  /\ g' = g /\ val' = val /\ lemmas' = lemmas /\ init_apps' = init_apps
  /\ StackOf([stack |-> prop_stack', cache |-> apply_search_cache'], Front(prop_stack), D)
  /\ D # {} => D = {<<app, Down(app, fun)>>} /\ Down(app, fun) # NULL
  /\ propagated' \subseteq propagated \cup {app}
  /\ rho' = rho \/ (Hashed = NULL /\ Save)
  /\ \A l \in cur_lemmas' : l \in cur_lemmas \/ (Valid(l) /\ ~LemmaHolds(l, val))
  /\ cur_lemmas' = {} =>
       /\ cur_lemmas = {}
       /\ \/ app \in propagated /\ rho' = rho
          \/ Hashed # NULL /\ val[Hashed] = val[app]
          \/ /\ Hashed = NULL /\ Save
             /\ Kind[fun] = "update" /\ SameArgs(app, fun) => val[app] = val[Elem[fun]]

(* A lemma that excludes the candidate is new. *)
LEMMA NewLemma ==
  ASSUME TypeInv, NEW l, ~LemmaHolds(l, val)
  PROVE  l \in {l} \ lemmas
BY DEF TypeInv

LEMMA PassSkip ==
  ASSUME CheckInv, SkipPropagated
  PROVE  Pass({})
<1>1. /\ g' = g /\ val' = val /\ lemmas' = lemmas /\ init_apps' = init_apps
      /\ prop_stack' = Front(prop_stack) /\ apply_search_cache' = apply_search_cache
      /\ propagated' = propagated /\ rho' = rho /\ cur_lemmas' = cur_lemmas
      /\ app \in propagated /\ Busy
  BY DEF SkipPropagated, formula
<1>2. StackOf([stack |-> prop_stack', cache |-> apply_search_cache'], Front(prop_stack), {})
  BY <1>1, Popped DEF StackOf, CheckInv, TypeInv, Busy
<1> QED
  BY <1>1, <1>2 DEF Pass

LEMMA PassHashed ==
  ASSUME CheckInv, PropagateHashed
  PROVE  Pass({})
<1>1. /\ g' = g /\ val' = val /\ lemmas' = lemmas /\ init_apps' = init_apps
      /\ propagated' = propagated \cup {app} /\ rho' = rho /\ SetStack(AfterArgs)
      /\ Busy /\ Hashed # NULL
  BY DEF PropagateHashed, formula
<1>2. StackOf([stack |-> prop_stack', cache |-> apply_search_cache'], Front(prop_stack), {})
  <2>1. StackOf(AfterArgs, Front(prop_stack), {})
    BY <1>1, AfterArgsStack DEF CheckInv
  <2>2. prop_stack' = AfterArgs.stack /\ apply_search_cache' = AfterArgs.cache
    BY <1>1 DEF SetStack
  <2> QED
    BY <2>1, <2>2 DEF StackOf
<1>3. CASE val[Hashed] = val[app]
  <2>1. cur_lemmas' = cur_lemmas
    BY <1>3 DEF PropagateHashed, NoConflict
  <2> QED
    BY <1>1, <1>2, <1>3, <2>1 DEF Pass
<1>4. CASE val[Hashed] # val[app]
  <2> DEFINE l == CongruenceLemma(fun, Hashed, app)
  <2>1. cur_lemmas' = cur_lemmas \cup ({l} \ lemmas)
    BY <1>4 DEF PropagateHashed, Conflict
  <2>2. g \in Graphs /\ app \in App /\ fun \in Fun /\ <<app, fun>> \in Range(prop_stack)
    BY <1>1, Popped DEF CheckInv, TypeInv, Busy
  <2>3. val[ArgOf[app]] \in Val
    BY <2>2, GraphTypes DEF CheckInv, TypeInv
  <2>4. /\ Hashed \in App /\ Way(Hashed, FunOf[Hashed], fun)
        /\ val[ArgOf[Hashed]] = val[ArgOf[app]]
    <3> DEFINE v == val[ArgOf[app]]
    <3>1. Hashed = rho[fun][v] /\ v \in Val /\ rho[fun][v] # NULL
      BY <1>1, <2>3 DEF Hashed
    <3> HIDE DEF v
    <3>2. Hashed \in App /\ val[ArgOf[Hashed]] = v
      BY <2>2, <3>1 DEF CheckInv, Filed
    <3>3. Way(Hashed, FunOf[Hashed], fun)
      BY <2>2, <3>1, <3>2 DEF CheckInv, WayInv, OnWay
    <3> QED
      BY <3>2, <3>3 DEF v
  <2>5. Way(app, FunOf[app], fun)
    BY <2>2 DEF CheckInv, WayInv, OnWay
  <2>6. Valid(l) /\ ~LemmaHolds(l, val)
    BY <1>4, <2>2, <2>4, <2>5, Congruence
  <2> HIDE DEF l
  <2>7. l \in cur_lemmas'
    BY <2>1, <2>6, NewLemma DEF CheckInv
  <2> QED
    BY <1>1, <1>2, <2>1, <2>6, <2>7 DEF Pass
<1> QED
  BY <1>3, <1>4

LEMMA PassUf ==
  ASSUME CheckInv, PropagateUf
  PROVE  Pass({})
<1>1. /\ g' = g /\ val' = val /\ lemmas' = lemmas /\ init_apps' = init_apps
      /\ propagated' = propagated \cup {app} /\ Hashed = NULL /\ Save /\ SetStack(AfterArgs)
      /\ Busy /\ cur_lemmas' = cur_lemmas /\ Kind[fun] = "uf"
  BY DEF PropagateUf, formula, NoConflict
<1>2. StackOf([stack |-> prop_stack', cache |-> apply_search_cache'], Front(prop_stack), {})
  <2>1. StackOf(AfterArgs, Front(prop_stack), {})
    BY <1>1, AfterArgsStack DEF CheckInv
  <2>2. prop_stack' = AfterArgs.stack /\ apply_search_cache' = AfterArgs.cache
    BY <1>1 DEF SetStack
  <2> QED
    BY <2>1, <2>2 DEF StackOf
<1> QED
  BY <1>1, <1>2 DEF Pass

LEMMA PassCond ==
  ASSUME CheckInv, PropagateCond
  PROVE  Pass({<<app, Down(app, fun)>>})
<1> DEFINE sc == Push(PushApplies(AfterArgs, CondOf[fun]), app, Down(app, fun))
<1>1. /\ g' = g /\ val' = val /\ lemmas' = lemmas /\ init_apps' = init_apps
      /\ propagated' = propagated /\ Hashed = NULL /\ Save /\ SetStack(sc)
      /\ Busy /\ cur_lemmas' = cur_lemmas /\ Kind[fun] = "cond"
  BY DEF PropagateCond, formula, NoConflict
<1>2. g \in Graphs /\ app \in App /\ fun \in Fun
  BY <1>1, Popped DEF CheckInv, TypeInv, Busy
<1>3. Down(app, fun) \in Fun /\ Down(app, fun) # NULL
  BY <1>1, <1>2, GraphTypes DEF Down
<1>4. StackOf(sc, Front(prop_stack), {<<app, Down(app, fun)>>})
  <2>1. StackOf(AfterArgs, Front(prop_stack), {})
    BY <1>1, AfterArgsStack DEF CheckInv
  <2>2. StackOf(PushApplies(AfterArgs, CondOf[fun]), Front(prop_stack), {})
    BY <1>2, <2>1, PushAppliesStack
  <2>3. StackOf(sc, Front(prop_stack), {} \cup {<<app, Down(app, fun)>>})
    BY <1>2, <1>3, <2>2, PushStack
  <2> QED
    BY <2>3
<1> HIDE DEF sc
<1>5. StackOf([stack |-> prop_stack', cache |-> apply_search_cache'], Front(prop_stack),
              {<<app, Down(app, fun)>>})
  BY <1>1, <1>4 DEF StackOf, SetStack
<1> QED
  BY <1>1, <1>3, <1>5 DEF Pass


LEMMA PassUpdate ==
  ASSUME CheckInv, PropagateUpdate
  PROVE  \E D : Pass(D)
<1> DEFINE next == Push(AfterArgs, app, Base[fun])
           Search(sc) == PushApplies(PushApplies(sc, Idx[fun]), Elem[fun])
           stop == Search(AfterArgs)
           go == Search(next)
           l == ValueLemma(fun, app)
<1>1. /\ g' = g /\ val' = val /\ lemmas' = lemmas /\ init_apps' = init_apps
      /\ Hashed = NULL /\ Save /\ Busy /\ Kind[fun] = "update"
  BY DEF PropagateUpdate, formula
<1>2. g \in Graphs /\ app \in App /\ fun \in Fun /\ <<app, fun>> \in Range(prop_stack)
  BY <1>1, Popped DEF CheckInv, TypeInv, Busy
<1>3. Base[fun] \in Fun /\ Base[fun] # NULL
  BY <1>1, <1>2, GraphTypes
<1>4. StackOf(AfterArgs, Front(prop_stack), {})
  BY <1>1, AfterArgsStack DEF CheckInv
<1>5. CASE SameArgs(app, fun)
  <2>1. /\ propagated' = propagated \cup {app} /\ SetStack(stop)
        /\ cur_lemmas' = IF val[app] = val[Elem[fun]] THEN cur_lemmas
                         ELSE cur_lemmas \cup ({l} \ lemmas)
    BY <1>5 DEF PropagateUpdate
  <2>2. StackOf(stop, Front(prop_stack), {})
    BY <1>2, <1>4, PushAppliesStack
  <2> HIDE DEF stop
  <2>3. StackOf([stack |-> prop_stack', cache |-> apply_search_cache'], Front(prop_stack), {})
    BY <2>1, <2>2 DEF StackOf, SetStack
  <2>4. CASE val[app] = val[Elem[fun]]
    <3>1. cur_lemmas' = cur_lemmas
      BY <2>1, <2>4
    <3>2. Pass({})
      BY <1>1, <2>1, <2>3, <2>4, <3>1 DEF Pass
    <3> QED
      BY <3>2
  <2>5. CASE val[app] # val[Elem[fun]]
    <3>1. cur_lemmas' = cur_lemmas \cup ({l} \ lemmas)
      BY <2>1, <2>5
    <3>2. Way(app, FunOf[app], fun) /\ Down(app, fun) = NULL
      BY <1>1, <1>2, <1>5 DEF CheckInv, WayInv, OnWay, Down
    <3>3. Valid(l) /\ ~LemmaHolds(l, val)
      BY <1>1, <1>2, <2>5, <3>2, ReadValue
    <3> HIDE DEF l
    <3>4. l \in cur_lemmas'
      BY <3>1, <3>3, NewLemma DEF CheckInv
    <3>5. Pass({})
      BY <1>1, <2>1, <2>3, <3>1, <3>3, <3>4 DEF Pass
    <3> QED
      BY <3>5
  <2> QED
    BY <2>4, <2>5
<1>6. CASE ~SameArgs(app, fun)
  <2>1. propagated' = propagated /\ SetStack(go) /\ cur_lemmas' = cur_lemmas
    BY <1>6 DEF PropagateUpdate
  <2>2. StackOf(next, Front(prop_stack), {} \cup {<<app, Base[fun]>>})
    BY <1>2, <1>3, <1>4, PushStack
  <2>3. StackOf(next, Front(prop_stack), {<<app, Base[fun]>>})
    BY <2>2
  <2> HIDE DEF next
  <2>4. StackOf(go, Front(prop_stack), {<<app, Base[fun]>>})
    BY <1>2, <2>3, PushAppliesStack
  <2> HIDE DEF go
  <2>5. StackOf([stack |-> prop_stack', cache |-> apply_search_cache'], Front(prop_stack),
                {<<app, Base[fun]>>})
    BY <2>1, <2>4 DEF StackOf, SetStack
  <2>6. Down(app, fun) = Base[fun]
    BY <1>1, <1>6 DEF Down
  <2>7. Pass({<<app, Base[fun]>>})
    BY <1>1, <1>3, <1>6, <2>1, <2>5, <2>6 DEF Pass
  <2> QED
    BY <2>7
<1> QED
  BY <1>5, <1>6

LEMMA PassLambda ==
  ASSUME CheckInv, PropagateLambda
  PROVE  \E D : Pass(D)
<1> DEFINE next == Push(AfterArgs, app, Base[fun])
           go == PushApplies(next, Idx[fun])
           stop == PushApplies(PushApplies(AfterArgs, Elem[fun]), Idx[fun])
           l == ValueLemma(fun, app)
<1>1. /\ g' = g /\ val' = val /\ lemmas' = lemmas /\ init_apps' = init_apps
      /\ Hashed = NULL /\ Save /\ Busy /\ Kind[fun] = "lambda"
  BY DEF PropagateLambda, formula
<1>2. g \in Graphs /\ app \in App /\ fun \in Fun /\ <<app, fun>> \in Range(prop_stack)
  BY <1>1, Popped DEF CheckInv, TypeInv, Busy
<1>3. Base[fun] \in Fun /\ Base[fun] # NULL
  BY <1>1, <1>2, GraphTypes
<1>4. StackOf(AfterArgs, Front(prop_stack), {})
  BY <1>1, AfterArgsStack DEF CheckInv
<1>5. CASE SameArgs(app, fun)
  <2>1. propagated' = propagated /\ SetStack(go) /\ cur_lemmas' = cur_lemmas
    BY <1>5 DEF PropagateLambda, NoConflict
  <2>2. StackOf(next, Front(prop_stack), {} \cup {<<app, Base[fun]>>})
    BY <1>2, <1>3, <1>4, PushStack
  <2>3. StackOf(next, Front(prop_stack), {<<app, Base[fun]>>})
    BY <2>2
  <2> HIDE DEF next
  <2>4. StackOf(go, Front(prop_stack), {<<app, Base[fun]>>})
    BY <1>2, <2>3, PushAppliesStack
  <2> HIDE DEF go
  <2>5. StackOf([stack |-> prop_stack', cache |-> apply_search_cache'], Front(prop_stack),
                {<<app, Base[fun]>>})
    BY <2>1, <2>4 DEF StackOf, SetStack
  <2>6. Down(app, fun) = Base[fun]
    BY <1>1, <1>5 DEF Down
  <2>7. Pass({<<app, Base[fun]>>})
    BY <1>1, <1>3, <2>1, <2>5, <2>6 DEF Pass
  <2> QED
    BY <2>7
<1>6. CASE ~SameArgs(app, fun) /\ val[app] = val[Elem[fun]]
  <2>1. propagated' = propagated \cup {app} /\ SetStack(stop) /\ cur_lemmas' = cur_lemmas
    BY <1>6 DEF PropagateLambda, NoConflict
  <2>2. StackOf(stop, Front(prop_stack), {})
    BY <1>2, <1>4, PushAppliesStack
  <2> HIDE DEF stop
  <2>3. StackOf([stack |-> prop_stack', cache |-> apply_search_cache'], Front(prop_stack), {})
    BY <2>1, <2>2 DEF StackOf, SetStack
  <2>4. Pass({})
    BY <1>1, <2>1, <2>3 DEF Pass
  <2> QED
    BY <2>4
<1>7. CASE ~SameArgs(app, fun) /\ val[app] # val[Elem[fun]]
  <2>1. propagated' = propagated \cup {app} /\ SetStack(AfterArgs)
        /\ cur_lemmas' = cur_lemmas \cup ({l} \ lemmas)
    BY <1>7 DEF PropagateLambda, Conflict
  <2>2. StackOf([stack |-> prop_stack', cache |-> apply_search_cache'], Front(prop_stack), {})
    BY <1>4, <2>1 DEF StackOf, SetStack
  <2>3. Way(app, FunOf[app], fun) /\ Down(app, fun) = NULL
    BY <1>1, <1>2, <1>7 DEF CheckInv, WayInv, OnWay, Down
  <2>4. Valid(l) /\ ~LemmaHolds(l, val)
    BY <1>1, <1>2, <1>7, <2>3, ReadValue
  <2> HIDE DEF l
  <2>5. l \in cur_lemmas'
    BY <2>1, <2>4, NewLemma DEF CheckInv
  <2>6. Pass({})
    BY <1>1, <2>1, <2>2, <2>4, <2>5 DEF Pass
  <2> QED
    BY <2>6
<1> QED
  BY <1>5, <1>6, <1>7


-----------------------------------------------------------------------------
(* A pass keeps the invariant. *)

LEMMA PassInv ==
  ASSUME CheckInv, Busy, NEW D, Pass(D)
  PROVE  CheckInv'
<1> DEFINE w == val[ArgOf[app]]
<1> USE DEF CheckInv
<1>1. /\ g \in Graphs /\ g' = g /\ val' = val /\ lemmas' = lemmas /\ init_apps' = init_apps
      /\ prop_stack # <<>> /\ prop_stack \in Seq(App \X Fun)
  BY DEF TypeInv, Pass, Busy
<1>2. /\ App' = App /\ Fun' = Fun /\ Term' = Term /\ FunOf' = FunOf /\ ArgOf' = ArgOf
      /\ Kind' = Kind /\ Idx' = Idx /\ Elem' = Elem
      /\ \A a, f : OnWay(a, f)' <=> OnWay(a, f)
      /\ \A l : Valid(l)' <=> Valid(l)
  BY <1>1, Frame
<1>3. /\ app \in App /\ fun \in Fun /\ <<app, fun>> \in Range(prop_stack)
      /\ Range(prop_stack) = Range(Front(prop_stack)) \cup {<<app, fun>>}
  BY <1>1, Popped
<1>4. w \in Val
  BY <1>1, <1>3, GraphTypes DEF TypeInv
<1>5. /\ prop_stack' \in Seq(App \X Fun) /\ apply_search_cache' \subseteq App
      /\ Range(Front(prop_stack)) \subseteq Range(prop_stack')
      /\ \A c \in Range(prop_stack') : c \in Range(Front(prop_stack)) \cup D
                                         \/ c[2] = FunOf[c[1]]
  BY DEF Pass, StackOf
<1>6. TypeInv'
  <2>1. propagated' \subseteq App
    BY <1>3 DEF Pass, TypeInv
  <2>2. \A l : LemmaHolds(l, val)' <=> LemmaHolds(l, val)
    BY <1>1 DEF LemmaHolds, LiteralHolds
  <2> QED
    BY <1>1, <1>2, <1>5, <2>1, <2>2 DEF TypeInv
<1>7. /\ rho' \in [Fun -> [Val -> App \cup {NULL}]]
      /\ \A f \in Fun, v \in Val : \/ rho'[f][v] = rho[f][v]
                                   \/ f = fun /\ v = w /\ rho[f][v] = NULL /\ rho'[f][v] = app
  <2>1. rho \in [Fun -> [Val -> App \cup {NULL}]]
    BY DEF Filed
  <2>2. CASE rho' = rho
    BY <2>1, <2>2
  <2>3. CASE Hashed = NULL /\ Save
    <3>1. rho' = [rho EXCEPT ![fun][w] = app] /\ rho[fun][w] = NULL
      BY <2>3 DEF Save, Hashed
    <3> HIDE DEF w
    <3> QED
      BY <1>3, <1>4, <2>1, <3>1
  <2> QED
    BY <2>2, <2>3 DEF Pass
<1>8. OnWay(app, fun)
  BY <1>3 DEF WayInv
<1>9. Filed'
  <2>1. ASSUME NEW f \in Fun, NEW v \in Val, rho'[f][v] # NULL
        PROVE  val[ArgOf[rho'[f][v]]] = v
    BY <1>7, <2>1 DEF Filed
  <2>2. (\A f \in Fun, v \in Val : rho[f][v] # NULL => val[ArgOf[rho[f][v]]] = v)'
    BY <1>1, <1>2, <2>1
  <2> QED
    BY <1>2, <1>7, <2>2 DEF Filed
<1>10. WayInv'
  <2>1. ASSUME NEW c \in Range(prop_stack') PROVE OnWay(c[1], c[2])
    <3>1. CASE c \in Range(Front(prop_stack))
      BY <1>3, <3>1 DEF WayInv
    <3>2. CASE c \in D
      <4>1. c = <<app, Down(app, fun)>> /\ Down(app, fun) # NULL
        BY <3>2 DEF Pass
      <4> QED
        BY <1>3, <1>8, <4>1, WayOn DEF OnWay
    <3>3. CASE c[2] = FunOf[c[1]]
      BY <3>3, WayHere DEF OnWay
    <3> QED
      BY <1>5, <3>1, <3>2, <3>3
  <2>2. ASSUME NEW f \in Fun, NEW v \in Val, NEW a \in App, rho'[f][v] = a
        PROVE  OnWay(a, f)
    BY <1>1, <1>7, <1>8, <2>2, GraphTypes DEF WayInv
  <2>3. \A c \in Range(prop_stack') : OnWay(c[1], c[2])'
    BY <1>2, <2>1
  <2>4. \A f \in Fun', v \in Val, a \in App' : rho'[f][v] = a => OnWay(a, f)'
    BY <1>2, <2>2
  <2> QED
    BY <2>3, <2>4 DEF WayInv, Range
<1>11. \A a \in App : Settled(a) => Settled(a)'
  <2> SUFFICES ASSUME NEW a \in App, Settled(a) PROVE Settled(a)'
    OBVIOUS
  <2>1. FunOf[a] \in Fun /\ val[ArgOf[a]] \in Val
    BY <1>1, GraphTypes DEF TypeInv
  <2>2. rho[FunOf[a]][val[ArgOf[a]]] # NULL
    BY DEF Settled
  <2>3. rho'[FunOf[a]][val[ArgOf[a]]] = rho[FunOf[a]][val[ArgOf[a]]]
    BY <1>7, <2>1, <2>2
  <2> QED
    BY <1>1, <1>2, <2>3 DEF Settled
<1>12. ASSUME cur_lemmas' = {} PROVE Settled(app) \/ rho'[FunOf[app]][w] = app
  <2>1. cur_lemmas = {}
    BY <1>12 DEF Pass
  <2>2. fun = FunOf[app] \/ Settled(app)
    BY <1>3, <2>1 DEF SettledInv
  <2>3. CASE app \in propagated
    BY <2>1, <2>3 DEF SettledInv
  <2>4. CASE Hashed # NULL /\ val[Hashed] = val[app]
    BY <2>2, <2>4 DEF Settled, Hashed
  <2>5. CASE Hashed = NULL /\ Save
    <3>1. rho' = [rho EXCEPT ![fun][w] = app]
      BY <2>5 DEF Save
    <3> HIDE DEF w
    <3>2. rho'[fun][w] = app
      BY <1>3, <1>4, <3>1 DEF Filed
    <3> QED
      BY <2>2, <3>2
  <2> QED
    BY <1>12, <2>3, <2>4, <2>5 DEF Pass
<1>13. ASSUME cur_lemmas' = {}, NEW b \in App, b = app PROVE Settled(b)'
  <2>1. CASE Settled(b)
    BY <1>11, <2>1
  <2>2. CASE rho'[FunOf[b]][val[ArgOf[b]]] = b
    BY <1>1, <1>2, <2>2, GraphTypes DEF Settled
  <2> QED
    BY <1>12, <1>13, <2>1, <2>2
<1>14. SettledInv'
  <2> SUFFICES ASSUME cur_lemmas' = {}
               PROVE  /\ \A f \in Fun : Kind[f] = "update" /\ rho'[f][val[Idx[f]]] # NULL =>
                           val[rho'[f][val[Idx[f]]]] = val[Elem[f]]
                      /\ \A a \in propagated' : Settled(a)'
                      /\ \A c \in Range(prop_stack') : c[2] = FunOf[c[1]] \/ Settled(c[1])'
                      /\ \A a \in Range(init_apps) :
                           Settled(a)' \/ <<a, FunOf[a]>> \in Range(prop_stack')
    BY <1>1, <1>2 DEF SettledInv, Range
  <2>1. cur_lemmas = {}
    BY DEF Pass
  <2>2. ASSUME NEW f \in Fun, Kind[f] = "update", rho'[f][val[Idx[f]]] # NULL
        PROVE  val[rho'[f][val[Idx[f]]]] = val[Elem[f]]
    <3>1. val[Idx[f]] \in Val
      BY <1>1, <2>2, GraphTypes DEF TypeInv
    <3>2. CASE rho'[f][val[Idx[f]]] = rho[f][val[Idx[f]]]
      BY <2>1, <2>2, <3>2 DEF SettledInv
    <3>3. CASE /\ f = fun /\ val[Idx[f]] = w /\ rho[f][val[Idx[f]]] = NULL
               /\ rho'[f][val[Idx[f]]] = app
      <4>1. SameArgs(app, fun) /\ Hashed = NULL /\ rho' # rho
        BY <1>1, <1>3, <3>3, GraphTypes DEF SameArgs, Hashed
      <4>2. val[app] = val[Elem[fun]]
        BY <2>2, <3>3, <4>1 DEF Pass
      <4> QED
        BY <3>3, <4>2
    <3> QED
      BY <1>7, <3>1, <3>2, <3>3
  <2>3. ASSUME NEW a \in propagated' PROVE Settled(a)'
    <3>1. a \in App /\ (a \in propagated \/ a = app)
      BY <1>3 DEF Pass, TypeInv
    <3> QED
      BY <1>11, <1>13, <2>1, <3>1 DEF SettledInv
  <2>4. ASSUME NEW c \in Range(prop_stack') PROVE c[2] = FunOf[c[1]] \/ Settled(c[1])'
    <3>1. c[1] \in App
      BY <1>5 DEF Range
    <3>2. CASE c \in Range(Front(prop_stack))
      <4>1. c[2] = FunOf[c[1]] \/ Settled(c[1])
        BY <1>3, <2>1, <3>2 DEF SettledInv
      <4> QED
        BY <1>11, <3>1, <4>1
    <3>3. CASE c \in D
      <4>1. c[1] = app
        BY <3>3 DEF Pass
      <4> QED
        BY <1>13, <3>1, <4>1
    <3> QED
      BY <1>5, <3>2, <3>3
  <2>5. ASSUME NEW a \in Range(init_apps)
        PROVE  Settled(a)' \/ <<a, FunOf[a]>> \in Range(prop_stack')
    <3>1. a \in App
      BY DEF TypeInv, Range
    <3>2. CASE Settled(a)
      BY <1>11, <3>1, <3>2
    <3>3. CASE <<a, FunOf[a]>> \in Range(Front(prop_stack))
      BY <1>5, <3>3
    <3>4. CASE a = app
      BY <1>13, <3>1, <3>4
    <3> QED
      BY <1>3, <2>1, <3>2, <3>3, <3>4 DEF SettledInv
  <2> QED
    BY <2>2, <2>3, <2>4, <2>5
<1>15. LemmasSound'
  <2>1. \A l : LemmaHolds(l, val)' <=> LemmaHolds(l, val)
    BY <1>1 DEF LemmaHolds, LiteralHolds
  <2>2. ASSUME NEW l \in cur_lemmas'
        PROVE  /\ ~LemmaHolds(l, val) \/ (TermsOf(l) \cap App) \ Range(init_apps) # {}
               /\ Valid(l)
    BY DEF Pass, LemmasSound, Valid
  <2>3. ASSUME NEW l \in cur_lemmas'
        PROVE  /\ ~LemmaHolds(l, val)' \/ (TermsOf(l) \cap App') \ Range(init_apps') # {}
               /\ Valid(l)'
    BY <1>1, <1>2, <2>1, <2>2
  <2> QED
    BY <2>3 DEF LemmasSound, Valid, TermsOf, Range
<1> QED
  BY <1>6, <1>9, <1>10, <1>14, <1>15


-----------------------------------------------------------------------------
(* The stack is empty *)

(* A side that the formula has applied to the arguments, or whose own       *)
(* element it is, has that value in its table.                              *)
LEMMA InTable ==
  ASSUME CheckInv, cur_lemmas = {}, prop_stack = <<>>,
         NEW q \in Feq, NEW f \in {g.feq[q].l, g.feq[q].r}, NEW t \in ArgTerm,
         ApplyExp(f, t) \in App => ApplyExp(f, t) \in Range(init_apps)
  PROVE  /\ val[t] \in DOMAIN GenerateTable(f)
         /\ val[GenerateTable(f)[val[t]].value] = val[ApplyExp(f, t)]
<1> DEFINE y == ApplyExp(f, t)
           v == val[t]
<1>1. g \in Graphs /\ val \in [Term -> Val] /\ Filed
  BY DEF CheckInv, TypeInv
<1>2. f \in Fun /\ t \in Term
  BY <1>1, Applied, GraphTypes DEF ArgTerm
<1>3. v \in Val
  BY <1>1, <1>2
<1>4. SUFFICES v \in DOMAIN Known(f) /\ val[Known(f)[v].value] = val[y]
  BY <1>1, <1>2, TableFacts
<1>5. CASE Kind[f] = "update" /\ Idx[f] = t /\ y = Elem[f]
  BY <1>1, <1>2, <1>5, KnownTable
<1>6. CASE y \in App /\ FunOf[y] = f /\ ArgOf[y] = t
  <2>1. Range(prop_stack) = {}
    BY DEF Range
  <2>2. Settled(y)
    BY <1>6, <2>1 DEF CheckInv, SettledInv
  <2>3. rho[f][v] # NULL /\ val[rho[f][v]] = val[y]
    BY <1>6, <2>2 DEF Settled
  <2>4. CASE Kind[f] = "update" /\ v = val[Idx[f]]
    <3>1. val[rho[f][v]] = val[Elem[f]]
      BY <1>2, <2>3, <2>4 DEF CheckInv, SettledInv
    <3>2. v \in DOMAIN Known(f) /\ Known(f)[v].value = Elem[f]
      BY <1>1, <1>2, <2>4, KnownTable
    <3> QED
      BY <2>3, <3>1, <3>2
  <2>5. CASE ~(Kind[f] = "update" /\ v = val[Idx[f]])
    <3>1. v \in DOMAIN Known(f) /\ Known(f)[v].value = rho[f][v]
      BY <1>1, <1>2, <1>3, <2>3, <2>5, KnownTable
    <3> QED
      BY <2>3, <3>1
  <2> QED
    BY <2>4, <2>5
<1> HIDE DEF v
<1> QED
  BY <1>1, <1>5, <1>6, Applied

LEMMA ExtensionalityProgress ==
  ASSUME CheckInv, cur_lemmas = {}, prop_stack = <<>>,
         NEW q \in Feq, val[q] = 1, NEW l \in ExtensionalityLemmasOf(q)
  PROVE  /\ ~LemmaHolds(l, val) \/ (TermsOf(l) \cap App) \ Range(init_apps) # {}
         /\ Valid(l)
<1> DEFINE f0 == g.feq[q].l
           f1 == g.feq[q].r
           t0 == GenerateTable(f0)
           t1 == GenerateTable(f1)
<1>1. g \in Graphs /\ val \in [Term -> Val] /\ Filed
  BY DEF CheckInv, TypeInv
<1>2. f0 \in Fun /\ f1 \in Fun
  BY <1>1, GraphTypes
<1>3. t0 \in Tables /\ t1 \in Tables
  BY <1>1, <1>2, TableFacts
<1>4. PICK v \in TableConflicts(t0, t1) : l = ExtensionalityLemma(q, Over(t0, t1)[v].args)
  BY DEF ExtensionalityLemmasOf
<1> HIDE DEF t0, t1
<1> DEFINE t == Over(t0, t1)[v].args
<1>5. t \in ArgTerm /\ val[t] = v
  <2>1. v \in DOMAIN t0 \cup DOMAIN t1
    BY <1>4 DEF TableConflicts
  <2>2. v \in DOMAIN Over(t0, t1)
    BY <2>1 DEF Over
  <2>3. IsTable(Over(t0, t1))
    BY <1>3, OverTable DEF Tables
  <2> QED
    BY <2>2, <2>3 DEF IsTable
<1> HIDE DEF t
<1>6. l = ExtensionalityLemma(q, t)
  BY <1>4 DEF t
<1>7. Valid(l)
  BY <1>1, <1>5, <1>6, ExtensionalityValid
<1> DEFINE y0 == ApplyExp(f0, t)
           y1 == ApplyExp(f1, t)
<1>8. l.prem = {<<"true", q, q>>} /\ l.con = <<"eq", y0, y1>>
  BY <1>6 DEF ExtensionalityLemma
<1> HIDE DEF y0, y1
<1>9. y0 \in TermsOf(l) /\ y1 \in TermsOf(l)
  <2>1. <<"eq", y0, y1>> \in l.prem \cup {l.con}
    BY <1>8
  <2>2. {<<"eq", y0, y1>>[2], <<"eq", y0, y1>>[3]} \in {{p[2], p[3]} : p \in l.prem \cup {l.con}}
    BY <2>1
  <2> QED
    BY <2>2 DEF TermsOf
<1>10. ASSUME (TermsOf(l) \cap App) \ Range(init_apps) = {} PROVE ~LemmaHolds(l, val)
  <2>1. y0 \in App => y0 \in Range(init_apps)
    BY <1>9, <1>10
  <2>2. y1 \in App => y1 \in Range(init_apps)
    BY <1>9, <1>10
  <2>3. v \in DOMAIN t0 /\ val[t0[v].value] = val[y0]
    BY <1>5, <2>1, InTable DEF t0, y0
  <2>4. v \in DOMAIN t1 /\ val[t1[v].value] = val[y1]
    BY <1>5, <2>2, InTable DEF t1, y1
  <2>5. val[t0[v].value] # val[t1[v].value]
    BY <1>4, <2>3, <2>4 DEF TableConflicts
  <2>6. ~LiteralHolds(l.con, val)
    BY <1>8, <2>3, <2>4, <2>5 DEF LiteralHolds
  <2>7. \A p \in l.prem : LiteralHolds(p, val)
    <3>1. LiteralHolds(<<"true", q, q>>, val)
      BY DEF LiteralHolds
    <3> QED
      BY <1>8, <3>1
  <2> QED
    BY <2>6, <2>7 DEF LemmaHolds
<1> QED
  BY <1>7, <1>10

LEMMA DoneInv ==
  ASSUME CheckInv, Done
  PROVE  CheckInv'
<1>1. /\ g' = g /\ val' = val /\ lemmas' = lemmas /\ init_apps' = init_apps
      /\ prop_stack' = prop_stack /\ apply_search_cache' = apply_search_cache
      /\ propagated' = propagated /\ rho' = rho /\ prop_stack = <<>>
      /\ cur_lemmas' = IF cur_lemmas = {} THEN AddExtensionalityLemmas ELSE cur_lemmas
  BY DEF Done, formula
<1>2. /\ App' = App /\ Fun' = Fun /\ Term' = Term /\ FunOf' = FunOf /\ ArgOf' = ArgOf
      /\ Kind' = Kind /\ Idx' = Idx /\ Elem' = Elem
      /\ \A a, f : OnWay(a, f)' <=> OnWay(a, f)
      /\ \A l : Valid(l)' <=> Valid(l)
  BY <1>1, Frame
<1>3. \A l : LemmaHolds(l, val)' <=> LemmaHolds(l, val)
  BY <1>1 DEF LemmaHolds, LiteralHolds
<1>4. TypeInv'
  BY <1>1, <1>2, <1>3 DEF CheckInv, TypeInv
<1>5. Filed'
  BY <1>1, <1>2 DEF CheckInv, Filed
<1>6. WayInv'
  BY <1>1, <1>2 DEF CheckInv, WayInv, Range
<1>7. \A a : Settled(a)' <=> Settled(a)
  BY <1>1, <1>2 DEF Settled
<1>8. SettledInv'
  <2>1. cur_lemmas' = {} => cur_lemmas = {}
    BY <1>1
  <2> QED
    BY <1>1, <1>2, <1>7, <2>1 DEF CheckInv, SettledInv, Range
<1>9. ASSUME NEW l \in cur_lemmas'
      PROVE  /\ ~LemmaHolds(l, val) \/ (TermsOf(l) \cap App) \ Range(init_apps) # {}
             /\ Valid(l)
  <2>1. CASE cur_lemmas # {}
    BY <1>1, <2>1 DEF CheckInv, LemmasSound, Valid
  <2>2. CASE cur_lemmas = {}
    <3>1. l \in AddExtensionalityLemmas
      BY <1>1, <1>9, <2>2
    <3>2. PICK q \in {r \in Feq : val[r] = 1} : l \in ExtensionalityLemmasOf(q)
      BY <3>1 DEF AddExtensionalityLemmas
    <3> QED
      BY <1>1, <2>2, <3>2, ExtensionalityProgress
  <2> QED
    BY <2>1, <2>2
<1>10. LemmasSound'
  <2>1. ASSUME NEW l \in cur_lemmas'
        PROVE  /\ ~LemmaHolds(l, val)' \/ (TermsOf(l) \cap App') \ Range(init_apps') # {}
               /\ Valid(l)'
    BY <1>1, <1>2, <1>3, <1>9
  <2> QED
    BY <2>1 DEF LemmasSound, Valid, TermsOf, Range
<1> QED
  BY <1>4, <1>5, <1>6, <1>8, <1>10 DEF CheckInv


-----------------------------------------------------------------------------
(* A candidate to begin with *)

LEMMA CandidateFacts ==
  ASSUME NEW ls, NEW synth, NEW v \in Candidates(ls, synth)
  PROVE  v \in [Term -> Val] /\ \A l \in ls : LemmaHolds(l, v)
BY DEF Candidates

LEMMA OnStackFacts ==
  ASSUME g \in Graphs, NEW s \in Seq(App)
  PROVE  /\ OnStack(s) \in Seq(App \X Fun)
         /\ \A c \in Range(OnStack(s)) : c[2] = FunOf[c[1]]
         /\ \A a \in Range(s) : <<a, FunOf[a]>> \in Range(OnStack(s))
<1> DEFINE n == Len(s)
           m == [i \in DOMAIN s |-> <<s[i], FunOf[s[i]]>>]
<1>1. n \in Nat /\ DOMAIN s = 1..n /\ \A i \in 1..n : s[i] \in App /\ FunOf[s[i]] \in Fun
  BY GraphTypes
<1>2. m \in Seq(App \X Fun) /\ Len(m) = n /\ \A i \in 1..n : m[i] = <<s[i], FunOf[s[i]]>>
  BY <1>1
<1>3. OnStack(s) = [i \in 1..n |-> m[(n - i) + 1]]
  BY <1>2 DEF OnStack, Reverse
<1> HIDE DEF m, n
<1>4. \A i \in 1..n : (n - i) + 1 \in 1..n /\ (n - ((n - i) + 1)) + 1 = i
  BY <1>1
<1>5. OnStack(s) \in Seq(App \X Fun) /\ DOMAIN OnStack(s) = 1..n
      /\ \A i \in 1..n : OnStack(s)[i] = <<s[(n - i) + 1], FunOf[s[(n - i) + 1]]>>
  BY <1>1, <1>2, <1>3, <1>4
<1>6. \A c \in Range(OnStack(s)) : c[2] = FunOf[c[1]]
  BY <1>5 DEF Range
<1>7. ASSUME NEW a \in Range(s) PROVE <<a, FunOf[a]>> \in Range(OnStack(s))
  <2>1. PICK i \in 1..n : a = s[i]
    BY <1>1 DEF Range
  <2>2. (n - i) + 1 \in 1..n /\ OnStack(s)[(n - i) + 1] = <<a, FunOf[a]>>
    BY <1>4, <1>5, <2>1
  <2> QED
    BY <1>5, <2>2 DEF Range
<1> QED
  BY <1>5, <1>6, <1>7

(* A check that has just begun, of a candidate for the lemmas so far. *)
Begun ==
  /\ g \in Graphs /\ val \in [Term -> Val] /\ init_apps \in Seq(App)
  /\ \A l \in lemmas : LemmaHolds(l, val)
  /\ prop_stack = OnStack(init_apps)
  /\ apply_search_cache = {} /\ propagated = {} /\ rho = NoRho /\ cur_lemmas = {}

LEMMA BegunInv == Begun => CheckInv
<1> SUFFICES ASSUME Begun PROVE CheckInv
  OBVIOUS
<1>0. g \in Graphs /\ val \in [Term -> Val] /\ init_apps \in Seq(App)
  BY DEF Begun
<1>1. /\ prop_stack \in Seq(App \X Fun)
      /\ \A c \in Range(prop_stack) : c[2] = FunOf[c[1]]
      /\ \A a \in Range(init_apps) : <<a, FunOf[a]>> \in Range(prop_stack)
  BY <1>0, OnStackFacts DEF Begun
<1>2. rho \in [Fun -> [Val -> App \cup {NULL}]] /\ \A f \in Fun, v \in Val : rho[f][v] = NULL
  BY DEF Begun, NoRho
<1>3. TypeInv
  BY <1>0, <1>1 DEF Begun, TypeInv
<1>4. Filed
  BY <1>2 DEF Filed
<1>5. WayInv
  BY <1>0, <1>1, <1>2, WayHere, GraphTypes DEF WayInv, OnWay
<1>6. \A f \in Fun : Kind[f] = "update" => val[Idx[f]] \in Val
  BY <1>0, GraphTypes
<1>7. SettledInv
  BY <1>1, <1>2, <1>6 DEF SettledInv, Begun
<1>8. LemmasSound
  BY DEF LemmasSound, Begun
<1> QED
  BY <1>3, <1>4, <1>5, <1>7, <1>8 DEF CheckInv

LEMMA SetToSeqFacts ==
  ASSUME NEW A, NEW S \in SUBSET A, IsFiniteSet(S)
  PROVE  SetToSeq(S) \in Seq(A)
<1>1. Cardinality(S) \in Nat
  BY FS_CardinalityType
<1>2. \E f \in [1..Cardinality(S) -> S] : IsInjective(f)
  <2>1. ExistsBijection(1..Cardinality(S), S)
    BY FS_CardinalityType
  <2> QED
    BY <2>1 DEF ExistsBijection, Bijection, Injection, IsInjective
<1>3. SetToSeq(S) \in [1..Cardinality(S) -> S]
  BY <1>2 DEF SetToSeq
<1> QED
  BY <1>1, <1>3

LEMMA InitInv == Init => CheckInv
<1> SUFFICES ASSUME Init PROVE Begun
  BY BegunInv
<1>1. g \in Graphs
  BY DEF Init
<1>2. init_apps \in Seq(App)
  <2>1. init_apps \in [1..Cardinality(g.root) -> g.root]
    BY DEF Init, SetToSeqs
  <2>2. IsFiniteSet(g.root)
    BY <1>1, GraphTypes, FS_Subset
  <2>3. Cardinality(g.root) \in Nat
    BY <2>2, FS_CardinalityType
  <2> QED
    BY <1>1, <2>1, <2>3, GraphTypes
<1>3. val \in [Term -> Val]
  <2>1. val \in Candidates({}, g.synth)
    BY DEF Init
  <2> QED
    BY <2>1, CandidateFacts
<1> QED
  BY <1>1, <1>2, <1>3 DEF Init, Begun

LEMMA RefineInv ==
  ASSUME CheckInv, Refine
  PROVE  CheckInv'
<1> DEFINE new == ((UNION {TermsOf(l) : l \in cur_lemmas}) \cap App) \ Range(init_apps)
           apps == init_apps \o SetToSeq(new)
<1>1. g \in Graphs /\ init_apps \in Seq(App)
  BY DEF CheckInv, TypeInv
<1>2. apps \in Seq(App)
  <2>1. new \in SUBSET App /\ IsFiniteSet(new)
    BY <1>1, GraphTypes, FS_Subset
  <2>2. SetToSeq(new) \in Seq(App)
    BY <2>1, SetToSeqFacts
  <2> QED
    BY <1>1, <2>2
<1>3. /\ g' = g /\ init_apps' = apps /\ prop_stack' = OnStack(apps)
      /\ val' \in Candidates(lemmas', g.synth \cup Range(apps))
      /\ apply_search_cache' = {} /\ propagated' = {} /\ rho' = NoRho /\ cur_lemmas' = {}
  BY DEF Refine
<1> HIDE DEF apps
<1>4. val' \in [Term -> Val] /\ \A l \in lemmas' : LemmaHolds(l, val')
  BY <1>3, CandidateFacts
<1>5. App' = App /\ Fun' = Fun /\ Term' = Term /\ FunOf' = FunOf
  BY <1>3 DEF App, Fun, Term, FunOf
<1>6. OnStack(init_apps)' = OnStack(apps) /\ NoRho' = NoRho
  BY <1>3, <1>5 DEF OnStack, NoRho
<1>7. \A l \in lemmas' : LemmaHolds(l, val)'
  BY <1>4 DEF LemmaHolds, LiteralHolds
<1>8. Begun'
  BY <1>1, <1>2, <1>3, <1>4, <1>5, <1>6, <1>7 DEF Begun
<1> QED
  BY <1>8, BegunInv, PTL

LEMMA NextInv == CheckInv /\ [Next]_vars => CheckInv'
<1> SUFFICES ASSUME CheckInv, [Next]_vars PROVE CheckInv'
  OBVIOUS
<1>1. CASE SkipPropagated
  <2>1. Busy
    BY <1>1 DEF SkipPropagated
  <2>2. Pass({})
    BY <1>1, PassSkip
  <2> QED
    BY <2>1, <2>2, PassInv
<1>2. CASE PropagateHashed
  <2>1. Busy
    BY <1>2 DEF PropagateHashed
  <2>2. Pass({})
    BY <1>2, PassHashed
  <2> QED
    BY <2>1, <2>2, PassInv
<1>3. CASE PropagateUf
  <2>1. Busy
    BY <1>3 DEF PropagateUf
  <2>2. Pass({})
    BY <1>3, PassUf
  <2> QED
    BY <2>1, <2>2, PassInv
<1>4. CASE PropagateCond
  <2>1. Busy
    BY <1>4 DEF PropagateCond
  <2>2. Pass({<<app, Down(app, fun)>>})
    BY <1>4, PassCond
  <2> QED
    BY <2>1, <2>2, PassInv
<1>5. CASE PropagateUpdate
  <2>1. Busy
    BY <1>5 DEF PropagateUpdate
  <2>2. \E D : Pass(D)
    BY <1>5, PassUpdate
  <2> QED
    BY <2>1, <2>2, PassInv
<1>6. CASE PropagateLambda
  <2>1. Busy
    BY <1>6 DEF PropagateLambda
  <2>2. \E D : Pass(D)
    BY <1>6, PassLambda
  <2> QED
    BY <2>1, <2>2, PassInv
<1>7. CASE Done
  BY <1>7, DoneInv
<1>8. CASE Refine
  BY <1>8, RefineInv
<1>9. CASE UNCHANGED vars
  <2>1. UNCHANGED <<g, val, eager, lemmas, init_apps, prop_stack, apply_search_cache,
                    propagated, rho, conf_apps, cur_lemmas, pc>>
    BY <1>9 DEF vars, formula
  <2>2. App' = App /\ Fun' = Fun /\ Term' = Term /\ FunOf' = FunOf /\ ArgOf' = ArgOf
        /\ Kind' = Kind /\ Idx' = Idx /\ Elem' = Elem
        /\ (\A a, f : OnWay(a, f)' <=> OnWay(a, f))
        /\ (\A l : Valid(l)' <=> Valid(l))
    BY <2>1, Frame
  <2>3. \A l : LemmaHolds(l, val)' <=> LemmaHolds(l, val)
    BY <2>1 DEF LemmaHolds, LiteralHolds
  <2>4. \A a : Settled(a)' <=> Settled(a)
    BY <2>1, <2>2 DEF Settled
  <2>5. TypeInv' /\ Filed'
    BY <2>1, <2>2, <2>3 DEF CheckInv, TypeInv, Filed
  <2>6. WayInv'
    BY <2>1, <2>2 DEF CheckInv, WayInv, Range
  <2>7. SettledInv'
    BY <2>1, <2>2, <2>4 DEF CheckInv, SettledInv, Range
  <2>8. LemmasSound'
    <3>1. \A l \in cur_lemmas : Valid(l)
      BY DEF CheckInv, LemmasSound, Valid
    <3> QED
      BY <2>1, <2>2, <2>3, <3>1 DEF CheckInv, LemmasSound, Valid, TermsOf, Range
  <2> QED
    BY <2>5, <2>6, <2>7, <2>8 DEF CheckInv
<1> QED
  BY <1>1, <1>2, <1>3, <1>4, <1>5, <1>6, <1>7, <1>8, <1>9 DEF Next, CheckStep

(* Of every lemma that propagation and the comparison of tables add while   *)
(* checking a candidate (add_lemma and add_extensionality_lemmas of         *)
(* btorslvfun.c): it is false under the candidate or about a new apply, and *)
(* it is true whatever the functions and the variables are; for every set   *)
(* of graphs, every set of values and every number of candidates.           *)
THEOREM LemmasCorrect == Spec => []LemmasSound
<1>1. CheckInv => LemmasSound
  BY DEF CheckInv
<1> QED
  BY <1>1, InitInv, NextInv, PTL DEF Spec
=============================================================================
