------------------------ MODULE BtorPropagateAccepts ------------------------
(***************************************************************************)
(* A candidate that the consistency check of the function solver lets pass *)
(* is consistent: a proof that AcceptsOnlyConsistent is an invariant of    *)
(* BtorPropagate, for every graph and every value set.                     *)
(***************************************************************************)
EXTENDS BtorPropagateProofs

-----------------------------------------------------------------------------
(* Below a node: all that it is built from. *)

Under(a) ==
  {n \in Nodes(g) :
     \A S \in SUBSET Nodes(g) :
       Children(g, a) \subseteq S /\ (\A m \in S : Children(g, m) \subseteq S) => n \in S}

LEMMA ChildrenNodes ==
  ASSUME g \in Graphs, NEW n \in Nodes(g)
  PROVE  Children(g, n) \subseteq Nodes(g)
<1>1. Typed(g) /\ Apart(g)
  BY GraphAssumption
<1>2. CASE n \in DOMAIN g.funOf
  <2>1. Children(g, n) = {g.funOf[n], g.argOf[n]}
    BY <1>2 DEF Children
  <2>2. g.funOf[n] \in DOMAIN g.kind /\ g.argOf[n] \in Terms(g)
    BY <1>1, <1>2 DEF Typed, Terms
  <2> QED
    BY <2>1, <2>2 DEF Nodes
<1>3. CASE n \notin DOMAIN g.funOf /\ n \in DOMAIN g.feq
  <2>1. Children(g, n) = {g.feq[n].l, g.feq[n].r}
    BY <1>3 DEF Children
  <2> QED
    BY <1>1, <1>3, <2>1 DEF Typed, Nodes
<1>4. CASE n \notin DOMAIN g.funOf /\ n \notin DOMAIN g.feq
           /\ (n \notin DOMAIN g.kind \/ g.kind[n] = "uf")
  BY <1>4 DEF Children
<1>5. CASE n \notin DOMAIN g.funOf /\ n \notin DOMAIN g.feq
           /\ n \in DOMAIN g.kind /\ g.kind[n] = "cond"
  <2>1. Children(g, n) = {g.condOf[n], g.then[n], g.else[n]}
    BY <1>5 DEF Children
  <2> QED
    BY <1>1, <1>5, <2>1 DEF Typed, Nodes
<1>6. CASE n \notin DOMAIN g.funOf /\ n \notin DOMAIN g.feq
           /\ n \in DOMAIN g.kind /\ g.kind[n] \in {"update", "lambda"}
  <2>1. Children(g, n) = {g.base[n], g.idx[n], g.elem[n]}
    BY <1>6 DEF Children
  <2> QED
    BY <1>1, <1>6, <2>1 DEF Typed, Nodes
<1>7. n \in DOMAIN g.kind => g.kind[n] \in {"uf", "cond", "update", "lambda"}
  BY <1>1 DEF Typed
<1> QED
  BY <1>2, <1>3, <1>4, <1>5, <1>6, <1>7

LEMMA UnderChildren ==
  ASSUME g \in Graphs, NEW a \in Nodes(g)
  PROVE  /\ Children(g, a) \subseteq Under(a)
         /\ \A n \in Under(a) : n \in Nodes(g) /\ Children(g, n) \subseteq Under(a)
<1>1. Children(g, a) \subseteq Nodes(g)
  BY ChildrenNodes
<1>2. ASSUME NEW n \in Under(a) PROVE n \in Nodes(g) /\ Children(g, n) \subseteq Under(a)
  <2>1. n \in Nodes(g)
    BY DEF Under
  <2>2. Children(g, n) \subseteq Nodes(g)
    BY <2>1, ChildrenNodes
  <2>3. ASSUME NEW S \in SUBSET Nodes(g), Children(g, a) \subseteq S,
               \A m \in S : Children(g, m) \subseteq S
        PROVE  Children(g, n) \subseteq S
    BY <2>3 DEF Under
  <2> QED
    BY <2>1, <2>2, <2>3 DEF Under
<1> QED
  BY <1>1, <1>2 DEF Under

LEMMA UnderLeast ==
  ASSUME NEW a, NEW S \in SUBSET Nodes(g), Children(g, a) \subseteq S,
         \A m \in S : Children(g, m) \subseteq S
  PROVE  Under(a) \subseteq S
BY DEF Under

LEMMA UnderTrans ==
  ASSUME g \in Graphs, NEW a \in Nodes(g), NEW n \in Under(a)
  PROVE  Under(n) \subseteq Under(a)
<1>1. Children(g, n) \subseteq Under(a) /\ \A m \in Under(a) : Children(g, m) \subseteq Under(a)
  BY UnderChildren
<1>2. Under(a) \in SUBSET Nodes(g)
  BY DEF Under
<1> QED
  BY <1>1, <1>2, UnderLeast

(* No node is below itself. *)
LEMMA UnderNotItself ==
  ASSUME g \in Graphs, NEW a \in Nodes(g)
  PROVE  a \notin Under(a)
<1> DEFINE B == {n \in Nodes(g) : n \in Under(n)}
<1>1. SUFFICES ASSUME a \in B PROVE FALSE
  OBVIOUS
<1>2. PICK n \in B : Children(g, n) \cap B = {}
  <2>1. Founded(g)
    BY GraphAssumption
  <2> QED
    BY <1>1, <2>1 DEF Founded
<1>3. n \in Nodes(g) /\ n \in Under(n) /\ Children(g, n) \subseteq Nodes(g)
  BY <1>2, ChildrenNodes
<1> DEFINE T == Children(g, n) \cup UNION {Under(c) : c \in Children(g, n)}
<1>4. T \in SUBSET Nodes(g)
  BY <1>3 DEF Under
<1>5. ASSUME NEW m \in T PROVE Children(g, m) \subseteq T
  <2>1. CASE m \in Children(g, n)
    <3>1. Children(g, m) \subseteq Under(m)
      BY <1>3, <2>1, UnderChildren
    <3> QED
      BY <2>1, <3>1
  <2>2. CASE \E c \in Children(g, n) : m \in Under(c)
    <3>1. PICK c \in Children(g, n) : m \in Under(c)
      BY <2>2
    <3>2. Children(g, m) \subseteq Under(c)
      BY <1>3, <3>1, UnderChildren
    <3> QED
      BY <3>1, <3>2
  <2> QED
    BY <2>1, <2>2
<1>6. n \in T
  <2> HIDE DEF T
  <2>1. Children(g, n) \subseteq T
    BY DEF T
  <2> QED
    BY <1>3, <1>4, <1>5, <2>1, UnderLeast
<1>7. PICK c \in Children(g, n) : n = c \/ n \in Under(c)
  BY <1>6
<1>8. n # c
  BY <1>2
<1>9. c \in Under(c)
  BY <1>3, <1>7, <1>8, UnderChildren
<1> QED
  BY <1>2, <1>3, <1>9

-----------------------------------------------------------------------------
(* The invariant *)

\* The entry <<b, d>> is on stack s, and what is above it belongs to nodes below b.
Waits(s, b, d) ==
  \E i \in DOMAIN s : s[i] = <<b, d>> /\ \A j \in DOMAIN s : j > i => s[j][1] \in Under(b)

\* f has a value for v, the one of apply b.
Agrees(f, v, b) == rho[f][v] # NULL /\ val[rho[f][v]] = val[b]

(* Apply b, which f remembers for v, has gone as far as it goes and has the *)
(* value found there, or has gone on to the next function, or waits for it. *)
(* It is not marked while it waits: otherwise its entry would be skipped.   *)
Arrived(f, b) == Kind[f] # "uf" => val[b] = val[Elem[f]]

LinkInv ==
  \A f \in Fun, v \in Val, b \in App : rho[f][v] = b =>
    IF Down(b, f) = NULL THEN Arrived(f, b)
    ELSE \/ Agrees(Down(b, f), v, b)
         \/ b \notin propagated /\ Waits(prop_stack, b, Down(b, f))

\* The terms that decide what f is at v, and its value there if it ends there.
Needs(f, v) ==
  IF Kind[f] = "uf" THEN {}
  ELSE IF Kind[f] = "cond" THEN {CondOf[f]}
  ELSE IF Kind[f] = "update" \/ v # val[Idx[f]] THEN {Idx[f], Elem[f]}
  ELSE {Idx[f]}

\* The argument of an apply has been searched.
ArgKnown(a) == ArgOf[a] \in App => ArgOf[a] \in apply_search_cache

NeedsInv ==
  \A f \in Fun, v \in Val : rho[f][v] # NULL => Needs(f, v) \cap App \subseteq apply_search_cache

StartInv ==
  /\ \A a \in propagated : ArgKnown(a)
  /\ \A a \in apply_search_cache : Settled(a) \/ <<a, FunOf[a]>> \in Range(prop_stack)
  /\ \A a \in apply_search_cache \cup Range(init_apps) :
       ArgKnown(a) \/ <<a, FunOf[a]>> \in Range(prop_stack)

UnderInv == \A c \in Range(prop_stack) : c[2] \in Under(c[1])

\* What holds of a candidate and its lemmas.
CandidateInv ==
  /\ \A q \in Feq : val[q] \in {0, 1}
  /\ \A q \in Feq : val[q] = 0 => val[AppOn(g.feq[q].l, g.feq[q].arg)]
                                    # val[AppOn(g.feq[q].r, g.feq[q].arg)]
  /\ g.root \subseteq Range(init_apps)
  /\ \A l \in lemmas : TermsOf(l) \cap App \subseteq Range(init_apps)

WalkInv == cur_lemmas = {} => LinkInv /\ NeedsInv /\ StartInv

AcceptInv == CheckInv /\ UnderInv /\ CandidateInv /\ WalkInv /\ AcceptsOnlyConsistent

-----------------------------------------------------------------------------
(* Entries that wait *)

LEMMA WaitsTop ==
  ASSUME NEW s \in Seq(App \X Fun), NEW b, NEW d, NEW c \in App \X Fun
  PROVE  /\ Waits(Append(s, <<b, d>>), b, d)
         /\ Waits(s, b, d) /\ c[1] \in Under(b) => Waits(Append(s, c), b, d)
<1>1. Len(s) \in Nat /\ DOMAIN s = 1..Len(s)
  OBVIOUS
<1>2. ASSUME NEW e
      PROVE  /\ DOMAIN Append(s, e) = 1..(Len(s) + 1) /\ Append(s, e)[Len(s) + 1] = e
             /\ \A i \in 1..Len(s) : Append(s, e)[i] = s[i]
  OBVIOUS
<1>3. Waits(Append(s, <<b, d>>), b, d)
  <2>1. Append(s, <<b, d>>)[Len(s) + 1] = <<b, d>> /\ DOMAIN Append(s, <<b, d>>) = 1..(Len(s) + 1)
    BY <1>2
  <2> QED
    BY <1>1, <2>1 DEF Waits
<1>4. ASSUME Waits(s, b, d), c[1] \in Under(b)
      PROVE  Waits(Append(s, c), b, d)
  <2> DEFINE t == Append(s, c)
  <2>1. /\ DOMAIN t = 1..(Len(s) + 1) /\ t[Len(s) + 1] = c
        /\ \A i \in 1..Len(s) : t[i] = s[i]
    BY <1>2
  <2> HIDE DEF t
  <2>2. PICK i \in 1..Len(s) : /\ s[i] = <<b, d>>
                              /\ \A j \in 1..Len(s) : j > i => s[j][1] \in Under(b)
    BY <1>1, <1>4 DEF Waits
  <2>3. i \in DOMAIN t /\ t[i] = <<b, d>>
    BY <1>1, <2>1, <2>2
  <2>4. ASSUME NEW j \in DOMAIN t, j > i PROVE t[j][1] \in Under(b)
    <3>1. CASE j \in 1..Len(s)
      BY <2>1, <2>2, <2>4, <3>1
    <3>2. CASE j = Len(s) + 1
      BY <1>4, <2>1, <3>2
    <3> QED
      BY <1>1, <2>1, <3>1, <3>2
  <2>5. Waits(t, b, d)
    BY <2>3, <2>4 DEF Waits
  <2> QED
    BY <2>5 DEF t
<1> QED
  BY <1>3, <1>4

LEMMA WaitsPop ==
  ASSUME g \in Graphs, prop_stack \in Seq(App \X Fun), prop_stack # <<>>,
         NEW b, NEW d, Waits(prop_stack, b, d)
  PROVE  \/ b = app /\ d = fun
         \/ app \in Under(b) /\ Waits(Front(prop_stack), b, d)
<1> DEFINE n == Len(prop_stack)
           s == Front(prop_stack)
<1>1. n \in Nat /\ n >= 1 /\ DOMAIN prop_stack = 1..n
  OBVIOUS
<1>2. prop_stack[n] = <<app, fun>>
  BY <1>1 DEF app, fun, Last
<1>3. DOMAIN s = 1..(n - 1) /\ \A i \in 1..(n - 1) : s[i] = prop_stack[i]
  BY <1>1 DEF Front
<1> HIDE DEF n, s
<1>4. PICK i \in 1..n : /\ prop_stack[i] = <<b, d>>
                        /\ \A j \in 1..n : j > i => prop_stack[j][1] \in Under(b)
  BY <1>1 DEF Waits
<1>5. CASE i = n
  BY <1>2, <1>4, <1>5
<1>6. CASE i # n
  <2>1. i \in 1..(n - 1) /\ n \in 1..n /\ n > i
    BY <1>1, <1>6
  <2>2. app \in Under(b)
    BY <1>2, <1>4, <2>1
  <2>3. s[i] = <<b, d>>
    BY <1>3, <1>4, <2>1
  <2>4. \A j \in 1..(n - 1) : j > i => s[j][1] \in Under(b)
    BY <1>1, <1>3, <1>4
  <2>5. Waits(s, b, d)
    BY <1>3, <2>1, <2>3, <2>4 DEF Waits
  <2> QED
    BY <2>2, <2>5 DEF s
<1> QED
  BY <1>5, <1>6

-----------------------------------------------------------------------------
(* A pass: the stack and the cache while it runs.  Entries that waited      *)
(* below the top still wait, since what is pushed is below app.             *)
Search(sc) ==
  /\ sc \in [stack : Seq(App \X Fun), cache : SUBSET App]
  /\ apply_search_cache \subseteq sc.cache
  /\ Range(Front(prop_stack)) \subseteq Range(sc.stack)
  /\ \A t \in sc.cache \ apply_search_cache : <<t, FunOf[t]>> \in Range(sc.stack)
  /\ \A c \in Range(sc.stack) : c[2] \in Under(c[1])
  /\ \A b \in App, d \in Fun :
       app \in Under(b) /\ Waits(Front(prop_stack), b, d) => Waits(sc.stack, b, d)

LEMMA SearchStart ==
  ASSUME TypeInv, UnderInv, Busy
  PROVE  Search([stack |-> Front(prop_stack), cache |-> apply_search_cache])
BY Popped DEF Search, TypeInv, UnderInv, Busy

LEMMA AppNode ==
  ASSUME g \in Graphs, NEW a \in App
  PROVE  /\ a \in Nodes(g) /\ FunOf[a] \in Under(a) /\ ArgOf[a] \in Under(a)
         /\ FunOf[a] \in Children(g, a) /\ ArgOf[a] \in Children(g, a)
<1>1. a \in Nodes(g) /\ a \in DOMAIN g.funOf
  BY DEF App, Nodes, Terms
<1>2. Children(g, a) = {FunOf[a], ArgOf[a]}
  BY <1>1 DEF Children, FunOf, ArgOf
<1> QED
  BY <1>1, <1>2, UnderChildren

LEMMA SearchPushApplies ==
  ASSUME g \in Graphs, app \in App, NEW sc, Search(sc), NEW t, t \in App => t \in Under(app)
  PROVE  /\ Search(PushApplies(sc, t))
         /\ sc.cache \subseteq PushApplies(sc, t).cache
         /\ t \in App => t \in PushApplies(sc, t).cache
         /\ \A d \in Fun : Waits(sc.stack, app, d) => Waits(PushApplies(sc, t).stack, app, d)
<1>1. CASE t \notin App \ sc.cache
  BY <1>1 DEF PushApplies
<1>2. CASE t \in App \ sc.cache
  <2> DEFINE st == Append(sc.stack, <<t, FunOf[t]>>)
             ca == sc.cache \cup {t}
             r == PushApplies(sc, t)
  <2>1. r = [stack |-> st, cache |-> ca]
    BY <1>2 DEF PushApplies
  <2>2. <<t, FunOf[t]>> \in App \X Fun /\ sc.stack \in Seq(App \X Fun) /\ sc.cache \in SUBSET App
    BY <1>2, GraphTypes DEF Search
  <2>3. st \in Seq(App \X Fun) /\ Range(st) = Range(sc.stack) \cup {<<t, FunOf[t]>>}
    BY <2>2, AppendRange
  <2>4. \A b, d : Waits(sc.stack, b, d) /\ t \in Under(b) => Waits(st, b, d)
    BY <2>2, WaitsTop
  <2> HIDE DEF st
  <2>5. FunOf[t] \in Under(t)
    BY <1>2, AppNode
  <2>6. r.stack = st /\ r.cache = ca /\ r \in [stack : Seq(App \X Fun), cache : SUBSET App]
    BY <1>2, <2>1, <2>2, <2>3
  <2> HIDE DEF r
  <2>7. \A b \in App : app \in Under(b) => t \in Under(b)
    BY <1>2, AppNode, UnderTrans
  <2>8. Search(r)
    <3>1. \A c \in Range(r.stack) : c[2] \in Under(c[1])
      BY <2>3, <2>5, <2>6 DEF Search
    <3>2. \A u \in r.cache \ apply_search_cache : <<u, FunOf[u]>> \in Range(r.stack)
      BY <2>3, <2>6 DEF Search
    <3>3. \A b \in App, d \in Fun :
            app \in Under(b) /\ Waits(Front(prop_stack), b, d) => Waits(r.stack, b, d)
      BY <2>4, <2>6, <2>7 DEF Search
    <3> QED
      BY <2>3, <2>6, <3>1, <3>2, <3>3 DEF Search
  <2> QED
    BY <1>2, <2>4, <2>6, <2>8 DEF r
<1> QED
  BY <1>1, <1>2

LEMMA SearchPush ==
  ASSUME g \in Graphs, app \in App, NEW sc, Search(sc), NEW f \in Fun, f \in Under(app)
  PROVE  /\ Search(Push(sc, app, f)) /\ Push(sc, app, f).cache = sc.cache
         /\ Waits(Push(sc, app, f).stack, app, f)
<1> DEFINE st == Append(sc.stack, <<app, f>>)
           r == Push(sc, app, f)
<1>1. r = [stack |-> st, cache |-> sc.cache]
  BY DEF Push
<1>2. <<app, f>> \in App \X Fun /\ sc.stack \in Seq(App \X Fun) /\ sc.cache \in SUBSET App
  BY DEF Search
<1>3. st \in Seq(App \X Fun) /\ Range(st) = Range(sc.stack) \cup {<<app, f>>}
  BY <1>2, AppendRange
<1>4. /\ \A b, d : Waits(sc.stack, b, d) /\ app \in Under(b) => Waits(st, b, d)
      /\ Waits(st, app, f)
  BY <1>2, WaitsTop
<1> HIDE DEF st
<1>5. r.stack = st /\ r.cache = sc.cache /\ r \in [stack : Seq(App \X Fun), cache : SUBSET App]
  BY <1>1, <1>2, <1>3
<1> HIDE DEF r
<1>6. Search(r)
  <2>1. \A c \in Range(r.stack) : c[2] \in Under(c[1])
    BY <1>3, <1>5 DEF Search
  <2>2. \A u \in r.cache \ apply_search_cache : <<u, FunOf[u]>> \in Range(r.stack)
    BY <1>3, <1>5 DEF Search
  <2>3. \A b \in App, d \in Fun :
          app \in Under(b) /\ Waits(Front(prop_stack), b, d) => Waits(r.stack, b, d)
    BY <1>4, <1>5 DEF Search
  <2> QED
    BY <1>3, <1>5, <2>1, <2>2, <2>3 DEF Search
<1> QED
  BY <1>4, <1>5, <1>6 DEF r

LEMMA FunChildren ==
  ASSUME g \in Graphs, NEW f \in Fun
  PROVE  /\ Kind[f] = "cond" => Children(g, f) = {CondOf[f], Then[f], Else[f]}
         /\ Kind[f] \in {"update", "lambda"} => Children(g, f) = {Base[f], Idx[f], Elem[f]}
<1>1. f \notin DOMAIN g.funOf /\ f \notin DOMAIN g.feq /\ f \in DOMAIN g.kind
  BY GraphAssumption DEF Apart, Terms, Fun
<1>2. CASE Kind[f] = "cond"
  BY <1>1, <1>2 DEF Children, Kind, CondOf, Then, Else
<1>3. CASE Kind[f] \in {"update", "lambda"}
  BY <1>1, <1>3 DEF Children, Kind, Base, Idx, Elem
<1> QED
  BY <1>2, <1>3

(* The parts of a function below a node are below the node. *)
LEMMA FunParts ==
  ASSUME g \in Graphs, NEW a \in Nodes(g), NEW f \in Fun, f \in Under(a)
  PROVE  /\ Kind[f] = "cond" => {CondOf[f], Then[f], Else[f]} \subseteq Under(a)
         /\ Kind[f] \in {"update", "lambda"} => {Idx[f], Elem[f], Base[f]} \subseteq Under(a)
<1>1. Children(g, f) \subseteq Under(a)
  BY UnderChildren
<1> QED
  BY <1>1, FunChildren

LEMMA TopFacts ==
  ASSUME CheckInv, UnderInv, Busy
  PROVE  /\ g \in Graphs /\ app \in App /\ fun \in Fun /\ app \in Nodes(g)
         /\ fun \in Under(app) /\ val[ArgOf[app]] \in Val
         /\ <<app, fun>> \in Range(prop_stack)
         /\ Search(AfterArgs) /\ (ArgOf[app] \in App => ArgOf[app] \in AfterArgs.cache)
<1>1. g \in Graphs /\ val \in [Term -> Val] /\ prop_stack \in Seq(App \X Fun)
      /\ prop_stack # <<>>
  BY DEF CheckInv, TypeInv, Busy
<1>2. app \in App /\ fun \in Fun /\ <<app, fun>> \in Range(prop_stack)
  BY <1>1, Popped
<1>3. app \in Nodes(g) /\ ArgOf[app] \in Under(app)
  BY <1>1, <1>2, AppNode
<1>4. fun \in Under(app)
  BY <1>2 DEF UnderInv
<1>5. val[ArgOf[app]] \in Val
  BY <1>1, <1>2, GraphTypes
<1>6. Search(AfterArgs) /\ (ArgOf[app] \in App => ArgOf[app] \in AfterArgs.cache)
  BY <1>1, <1>2, <1>3, SearchStart, SearchPushApplies DEF AfterArgs, CheckInv
<1> QED
  BY <1>1, <1>2, <1>3, <1>4, <1>5, <1>6

(* What the passes have in common.  Without a conflict, app was marked      *)
(* already, or another apply is remembered for its argument, or it is the   *)
(* one to be remembered and has ended or waits.                             *)
Remembered ==
  /\ Hashed = NULL /\ Save
  /\ Needs(fun, val[ArgOf[app]]) \cap App \subseteq apply_search_cache'
  /\ IF Down(app, fun) = NULL THEN Arrived(fun, app)
     ELSE app \notin propagated' /\ Waits(prop_stack', app, Down(app, fun))

Walk ==
  /\ Search([stack |-> prop_stack', cache |-> apply_search_cache'])
  /\ cur_lemmas' = {} =>
       \/ app \in propagated /\ propagated' = propagated /\ rho' = rho
       \/ /\ app \notin propagated /\ propagated' \subseteq propagated \cup {app}
          /\ ArgOf[app] \in App => ArgOf[app] \in apply_search_cache'
          /\ Remembered \/ (rho' = rho /\ Hashed # NULL /\ val[Hashed] = val[app])

LEMMA SearchSet ==
  ASSUME NEW sc, Search(sc), SetStack(sc)
  PROVE  /\ Search([stack |-> prop_stack', cache |-> apply_search_cache'])
         /\ prop_stack' = sc.stack /\ apply_search_cache' = sc.cache
BY DEF Search, SetStack

LEMMA WalkSkip ==
  ASSUME CheckInv, UnderInv, SkipPropagated
  PROVE  Walk
<1>1. /\ Busy /\ app \in propagated /\ propagated' = propagated /\ rho' = rho
      /\ prop_stack' = Front(prop_stack) /\ apply_search_cache' = apply_search_cache
  BY DEF SkipPropagated
<1>2. Search([stack |-> Front(prop_stack), cache |-> apply_search_cache])
  BY <1>1, SearchStart DEF CheckInv
<1> QED
  BY <1>1, <1>2 DEF Walk

LEMMA WalkHashed ==
  ASSUME CheckInv, UnderInv, PropagateHashed
  PROVE  Walk
<1>1. /\ Busy /\ app \notin propagated /\ propagated' = propagated \cup {app}
      /\ rho' = rho /\ SetStack(AfterArgs) /\ Hashed # NULL
  BY DEF PropagateHashed
<1>2. /\ Search([stack |-> prop_stack', cache |-> apply_search_cache'])
      /\ ArgOf[app] \in App => ArgOf[app] \in apply_search_cache'
  BY <1>1, TopFacts, SearchSet
<1>3. cur_lemmas' = {} => val[Hashed] = val[app]
  <2>1. Pass({})
    BY PassHashed
  <2> QED
    BY <1>1, <2>1 DEF Pass
<1> QED
  BY <1>1, <1>2, <1>3 DEF Walk

LEMMA WalkUf ==
  ASSUME CheckInv, UnderInv, PropagateUf
  PROVE  Walk
<1>1. /\ Busy /\ app \notin propagated /\ propagated' = propagated \cup {app}
      /\ Save /\ SetStack(AfterArgs) /\ Hashed = NULL /\ Kind[fun] = "uf"
  BY DEF PropagateUf
<1>2. /\ Search([stack |-> prop_stack', cache |-> apply_search_cache'])
      /\ ArgOf[app] \in App => ArgOf[app] \in apply_search_cache'
  BY <1>1, TopFacts, SearchSet
<1>3. Down(app, fun) = NULL /\ Arrived(fun, app) /\ Needs(fun, val[ArgOf[app]]) = {}
  BY <1>1 DEF Down, Arrived, Needs
<1> QED
  BY <1>1, <1>2, <1>3 DEF Walk, Remembered

LEMMA WalkCond ==
  ASSUME CheckInv, UnderInv, PropagateCond
  PROVE  Walk
<1> DEFINE sc == PushApplies(AfterArgs, CondOf[fun])
           d == Down(app, fun)
<1>1. /\ Busy /\ app \notin propagated /\ propagated' = propagated
      /\ Save /\ SetStack(Push(sc, app, d)) /\ Hashed = NULL /\ Kind[fun] = "cond"
  BY DEF PropagateCond
<1>2. /\ g \in Graphs /\ app \in App /\ fun \in Fun /\ app \in Nodes(g) /\ fun \in Under(app)
      /\ Search(AfterArgs) /\ (ArgOf[app] \in App => ArgOf[app] \in AfterArgs.cache)
  BY <1>1, TopFacts
<1>3. {CondOf[fun], Then[fun], Else[fun]} \subseteq Under(app)
  BY <1>1, <1>2, FunParts
<1>4. d \in Fun /\ d \in Under(app) /\ d # NULL
  BY <1>1, <1>2, <1>3, GraphTypes DEF Down
<1> HIDE DEF d
<1>5. /\ Search(sc) /\ AfterArgs.cache \subseteq sc.cache
      /\ CondOf[fun] \in App => CondOf[fun] \in sc.cache
  BY <1>2, <1>3, SearchPushApplies
<1> HIDE DEF sc
<1>6. /\ Search(Push(sc, app, d)) /\ Push(sc, app, d).cache = sc.cache
      /\ Waits(Push(sc, app, d).stack, app, d)
  BY <1>2, <1>4, <1>5, SearchPush
<1>7. /\ Search([stack |-> prop_stack', cache |-> apply_search_cache'])
      /\ apply_search_cache' = sc.cache /\ Waits(prop_stack', app, d)
  BY <1>1, <1>6, SearchSet
<1>8. Needs(fun, val[ArgOf[app]]) = {CondOf[fun]}
  BY <1>1 DEF Needs
<1>9. Remembered
  BY <1>1, <1>4, <1>5, <1>7, <1>8 DEF Remembered, d
<1> QED
  BY <1>1, <1>2, <1>5, <1>7, <1>9 DEF Walk

LEMMA WalkUpdate ==
  ASSUME CheckInv, UnderInv, PropagateUpdate
  PROVE  Walk
<1> DEFINE Both(sc) == PushApplies(PushApplies(sc, Idx[fun]), Elem[fun])
           next == Push(AfterArgs, app, Base[fun])
<1>1. Busy /\ app \notin propagated /\ Save /\ Hashed = NULL /\ Kind[fun] = "update"
  BY DEF PropagateUpdate
<1>2. /\ g \in Graphs /\ app \in App /\ fun \in Fun /\ app \in Nodes(g) /\ fun \in Under(app)
      /\ Search(AfterArgs) /\ (ArgOf[app] \in App => ArgOf[app] \in AfterArgs.cache)
  BY <1>1, TopFacts
<1>3. Idx[fun] \in Under(app) /\ Elem[fun] \in Under(app) /\ Base[fun] \in Under(app)
      /\ Base[fun] \in Fun /\ Base[fun] # NULL
  BY <1>1, <1>2, FunParts, GraphTypes
<1>4. Needs(fun, val[ArgOf[app]]) = {Idx[fun], Elem[fun]}
  BY <1>1 DEF Needs
<1>5. ASSUME NEW sc, Search(sc)
      PROVE  /\ Search(Both(sc)) /\ sc.cache \subseteq Both(sc).cache
             /\ Idx[fun] \in App => Idx[fun] \in Both(sc).cache
             /\ Elem[fun] \in App => Elem[fun] \in Both(sc).cache
             /\ \A d \in Fun : Waits(sc.stack, app, d) => Waits(Both(sc).stack, app, d)
  <2> DEFINE s1 == PushApplies(sc, Idx[fun])
  <2>1. /\ Search(s1) /\ sc.cache \subseteq s1.cache
        /\ Idx[fun] \in App => Idx[fun] \in s1.cache
        /\ \A d \in Fun : Waits(sc.stack, app, d) => Waits(s1.stack, app, d)
    BY <1>2, <1>3, <1>5, SearchPushApplies
  <2> HIDE DEF s1
  <2> DEFINE s2 == PushApplies(s1, Elem[fun])
  <2>2. /\ Search(s2) /\ s1.cache \subseteq s2.cache
        /\ Elem[fun] \in App => Elem[fun] \in s2.cache
        /\ \A d \in Fun : Waits(s1.stack, app, d) => Waits(s2.stack, app, d)
    BY <1>2, <1>3, <2>1, SearchPushApplies
  <2>3. Both(sc) = s2
    BY DEF s1
  <2> HIDE DEF s2, Both
  <2> QED
    BY <2>1, <2>2, <2>3
<1>6. CASE SameArgs(app, fun)
  <2>1. propagated' = propagated \cup {app} /\ SetStack(Both(AfterArgs))
        /\ cur_lemmas' = IF val[app] = val[Elem[fun]] THEN cur_lemmas
                         ELSE cur_lemmas \cup ({ValueLemma(fun, app)} \ lemmas)
    BY <1>6 DEF PropagateUpdate
  <2> HIDE DEF Both
  <2>2. /\ Search([stack |-> prop_stack', cache |-> apply_search_cache'])
        /\ apply_search_cache' = Both(AfterArgs).cache
    BY <1>2, <1>5, <2>1, SearchSet
  <2>3. Down(app, fun) = NULL
    BY <1>1, <1>6 DEF Down
  <2>4. cur_lemmas' = {} => val[app] = val[Elem[fun]]
    <3>1. PICK D : Pass(D)
      BY PassUpdate
    <3> QED
      BY <1>1, <1>6, <3>1 DEF Pass
  <2>5. cur_lemmas' = {} => Remembered
    BY <1>1, <1>2, <1>4, <1>5, <2>2, <2>3, <2>4 DEF Remembered, Arrived
  <2> QED
    BY <1>1, <1>2, <1>5, <2>1, <2>2, <2>5 DEF Walk
<1>7. CASE ~SameArgs(app, fun)
  <2>1. propagated' = propagated /\ SetStack(Both(next))
    BY <1>7 DEF PropagateUpdate
  <2> HIDE DEF Both
  <2>2. Search(next) /\ next.cache = AfterArgs.cache /\ Waits(next.stack, app, Base[fun])
    BY <1>2, <1>3, SearchPush
  <2> HIDE DEF next
  <2>3. /\ Search([stack |-> prop_stack', cache |-> apply_search_cache'])
        /\ prop_stack' = Both(next).stack /\ apply_search_cache' = Both(next).cache
    BY <1>5, <2>1, <2>2, SearchSet
  <2>4. Down(app, fun) = Base[fun]
    BY <1>1, <1>7 DEF Down
  <2>5. Waits(prop_stack', app, Base[fun])
    BY <1>3, <1>5, <2>2, <2>3
  <2>6. Remembered
    BY <1>1, <1>3, <1>4, <1>5, <2>1, <2>2, <2>3, <2>4, <2>5 DEF Remembered
  <2> QED
    BY <1>1, <1>2, <1>5, <2>1, <2>2, <2>3, <2>6 DEF Walk
<1> QED
  BY <1>6, <1>7

LEMMA WalkLambda ==
  ASSUME CheckInv, UnderInv, PropagateLambda
  PROVE  Walk
<1> DEFINE next == Push(AfterArgs, app, Base[fun])
           l == ValueLemma(fun, app)
<1>1. Busy /\ app \notin propagated /\ Save /\ Hashed = NULL /\ Kind[fun] = "lambda"
  BY DEF PropagateLambda
<1>2. /\ g \in Graphs /\ app \in App /\ fun \in Fun /\ app \in Nodes(g) /\ fun \in Under(app)
      /\ Search(AfterArgs) /\ (ArgOf[app] \in App => ArgOf[app] \in AfterArgs.cache)
      /\ <<app, fun>> \in Range(prop_stack)
  BY <1>1, TopFacts
<1>3. Idx[fun] \in Under(app) /\ Elem[fun] \in Under(app) /\ Base[fun] \in Under(app)
      /\ Base[fun] \in Fun /\ Base[fun] # NULL
  BY <1>1, <1>2, FunParts, GraphTypes
<1>4. CASE SameArgs(app, fun)
  <2> DEFINE r == PushApplies(next, Idx[fun])
  <2>1. propagated' = propagated /\ SetStack(r)
    BY <1>4 DEF PropagateLambda
  <2>2. Search(next) /\ next.cache = AfterArgs.cache /\ Waits(next.stack, app, Base[fun])
    BY <1>2, <1>3, SearchPush
  <2> HIDE DEF next
  <2>3. /\ Search(r) /\ next.cache \subseteq r.cache /\ (Idx[fun] \in App => Idx[fun] \in r.cache)
        /\ Waits(r.stack, app, Base[fun])
    BY <1>2, <1>3, <2>2, SearchPushApplies
  <2> HIDE DEF r
  <2>4. /\ Search([stack |-> prop_stack', cache |-> apply_search_cache'])
        /\ prop_stack' = r.stack /\ apply_search_cache' = r.cache
    BY <2>1, <2>3, SearchSet
  <2>5. Down(app, fun) = Base[fun] /\ Needs(fun, val[ArgOf[app]]) = {Idx[fun]}
    BY <1>1, <1>4 DEF Down, Needs, SameArgs
  <2>6. Remembered
    BY <1>1, <1>3, <2>1, <2>3, <2>4, <2>5 DEF Remembered
  <2> QED
    BY <1>1, <1>2, <2>1, <2>2, <2>3, <2>4, <2>6 DEF Walk
<1>5. CASE ~SameArgs(app, fun) /\ val[app] = val[Elem[fun]]
  <2> DEFINE s1 == PushApplies(AfterArgs, Elem[fun])
             s2 == PushApplies(s1, Idx[fun])
  <2>1. propagated' = propagated \cup {app} /\ SetStack(s2)
    BY <1>5 DEF PropagateLambda
  <2>2. /\ Search(s1) /\ AfterArgs.cache \subseteq s1.cache
        /\ Elem[fun] \in App => Elem[fun] \in s1.cache
    BY <1>2, <1>3, SearchPushApplies
  <2> HIDE DEF s1
  <2>3. /\ Search(s2) /\ s1.cache \subseteq s2.cache
        /\ Idx[fun] \in App => Idx[fun] \in s2.cache
    BY <1>2, <1>3, <2>2, SearchPushApplies
  <2> HIDE DEF s2
  <2>4. /\ Search([stack |-> prop_stack', cache |-> apply_search_cache'])
        /\ apply_search_cache' = s2.cache
    BY <2>1, <2>3, SearchSet
  <2>5. Down(app, fun) = NULL /\ Needs(fun, val[ArgOf[app]]) = {Idx[fun], Elem[fun]}
    BY <1>1, <1>5 DEF Down, Needs, SameArgs
  <2>6. Remembered
    BY <1>1, <1>5, <2>2, <2>3, <2>4, <2>5 DEF Remembered, Arrived
  <2> QED
    BY <1>1, <1>2, <2>1, <2>2, <2>3, <2>4, <2>6 DEF Walk
<1>6. CASE ~SameArgs(app, fun) /\ val[app] # val[Elem[fun]]
  <2>1. SetStack(AfterArgs) /\ cur_lemmas' = cur_lemmas \cup ({l} \ lemmas)
    BY <1>6 DEF PropagateLambda, Conflict
  <2>2. Search([stack |-> prop_stack', cache |-> apply_search_cache'])
    BY <1>2, <2>1, SearchSet
  <2>3. Way(app, FunOf[app], fun) /\ Down(app, fun) = NULL
    BY <1>1, <1>2, <1>6 DEF CheckInv, WayInv, OnWay, Down
  <2>4. ~LemmaHolds(l, val)
    BY <1>1, <1>2, <1>6, <2>3, ReadValue
  <2> HIDE DEF l
  <2>5. l \in cur_lemmas'
    BY <2>1, <2>4, NewLemma DEF CheckInv
  <2> QED
    BY <2>2, <2>5 DEF Walk
<1> QED
  BY <1>4, <1>5, <1>6

-----------------------------------------------------------------------------
(* A pass keeps the invariant. *)

LEMMA AcceptFrame ==
  ASSUME g' = g, val' = val
  PROVE  /\ App' = App /\ Fun' = Fun /\ Feq' = Feq /\ FunOf' = FunOf /\ ArgOf' = ArgOf
         /\ \A a : Under(a)' = Under(a)
         /\ \A s, b, d : Waits(s, b, d)' <=> Waits(s, b, d)
         /\ \A b, f : Down(b, f)' = Down(b, f)
         /\ \A f, b : Arrived(f, b)' <=> Arrived(f, b)
         /\ \A f, v : Needs(f, v)' = Needs(f, v)
         /\ \A f, t : AppOn(f, t)' = AppOn(f, t)
<1>1. \A a : Under(a)' = Under(a)
  BY DEF Under
<1>2. \A s, b, d : Waits(s, b, d)' <=> Waits(s, b, d)
  BY DEF Waits, Under
<1> QED
  BY <1>1, <1>2 DEF App, Fun, Feq, FunOf, ArgOf, Down, SameArgs, Kind, CondOf, Then, Else, Base,
                    Idx, Elem, Arrived, Needs, AppOn

\* Nothing is forgotten, only app is new, and fun has its value unless app was marked.
LEMMA WalkRho ==
  ASSUME CheckInv, UnderInv, Busy, Walk, cur_lemmas' = {}
  PROVE  LET w == val[ArgOf[app]]
         IN /\ \A f \in Fun, v \in Val :
                 /\ rho[f][v] # NULL => rho'[f][v] = rho[f][v]
                 /\ rho'[f][v] # rho[f][v] => f = fun /\ v = w /\ rho'[f][v] = app /\ Remembered
            /\ app \notin propagated =>
                 rho'[fun][w] # NULL /\ val[rho'[fun][w]] = val[app]
<1> DEFINE w == val[ArgOf[app]]
<1>1. /\ g \in Graphs /\ app \in App /\ fun \in Fun /\ w \in Val /\ NULL \notin App
  BY TopFacts, GraphTypes
<1>2. rho \in [Fun -> [Val -> App \cup {NULL}]]
  BY DEF CheckInv, Filed
<1>3. CASE rho' = rho /\ (app \in propagated \/ (Hashed # NULL /\ val[Hashed] = val[app]))
  BY <1>3 DEF Hashed
<1>4. CASE Remembered
  <2>1. rho' = [rho EXCEPT ![fun][w] = app] /\ rho[fun][w] = NULL
    BY <1>4 DEF Remembered, Save, Hashed
  <2> HIDE DEF w
  <2>2. \A f \in Fun, v \in Val : rho'[f][v] = IF f = fun /\ v = w THEN app ELSE rho[f][v]
    BY <1>1, <1>2, <2>1
  <2>3. rho'[fun][w] = app /\ app # NULL
    BY <1>1, <2>2
  <2> QED
    BY <1>1, <1>4, <2>1, <2>2, <2>3 DEF w
<1> QED
  BY <1>3, <1>4 DEF Walk

LEMMA WalkKeeps ==
  ASSUME AcceptInv, Busy, NEW D, Pass(D), Walk
  PROVE  UnderInv' /\ CandidateInv' /\ WalkInv'
<1> DEFINE w == val[ArgOf[app]]
<1>0. CheckInv /\ UnderInv /\ CandidateInv /\ WalkInv
  BY DEF AcceptInv
<1>1. g' = g /\ val' = val /\ lemmas' = lemmas /\ init_apps' = init_apps
  BY DEF Pass
<1>2. /\ App' = App /\ Fun' = Fun /\ Feq' = Feq /\ FunOf' = FunOf /\ ArgOf' = ArgOf
      /\ \A a : Under(a)' = Under(a)
      /\ \A s, b, d : Waits(s, b, d)' <=> Waits(s, b, d)
      /\ \A b, f : Down(b, f)' = Down(b, f)
      /\ \A f, b : Arrived(f, b)' <=> Arrived(f, b)
      /\ \A f, v : Needs(f, v)' = Needs(f, v)
      /\ \A f, t : AppOn(f, t)' = AppOn(f, t)
  BY <1>1, AcceptFrame
<1>3. /\ g \in Graphs /\ app \in App /\ fun \in Fun /\ app \in Nodes(g) /\ w \in Val
      /\ prop_stack \in Seq(App \X Fun) /\ prop_stack # <<>>
  BY <1>0, TopFacts DEF CheckInv, TypeInv, Busy
<1>4. Range(prop_stack) = Range(Front(prop_stack)) \cup {<<app, fun>>}
  BY <1>3, Popped
<1>5. /\ apply_search_cache \subseteq apply_search_cache'
      /\ Range(Front(prop_stack)) \subseteq Range(prop_stack')
      /\ \A t \in apply_search_cache' \ apply_search_cache :
           <<t, FunOf[t]>> \in Range(prop_stack')
      /\ \A c \in Range(prop_stack') : c[2] \in Under(c[1])
      /\ \A b \in App, d \in Fun :
           app \in Under(b) /\ Waits(Front(prop_stack), b, d) => Waits(prop_stack', b, d)
  BY DEF Walk, Search
<1>6. UnderInv'
  BY <1>2, <1>5 DEF UnderInv, Range
<1>7. CandidateInv'
  BY <1>0, <1>1, <1>2 DEF CandidateInv, TermsOf, Range
<1>8. ASSUME cur_lemmas' = {} PROVE LinkInv' /\ NeedsInv' /\ StartInv'
  <2>1. cur_lemmas = {} /\ LinkInv /\ NeedsInv /\ StartInv
    BY <1>0, <1>8 DEF Pass, WalkInv
  <2>2. /\ \A f \in Fun, v \in Val :
             /\ rho[f][v] # NULL => rho'[f][v] = rho[f][v]
             /\ rho'[f][v] # rho[f][v] => f = fun /\ v = w /\ rho'[f][v] = app /\ Remembered
        /\ app \notin propagated => rho'[fun][w] # NULL /\ val[rho'[fun][w]] = val[app]
    BY <1>0, <1>8, WalkRho
  <2>3. /\ propagated' \subseteq propagated \cup {app}
        /\ app \in propagated => propagated' = propagated
        /\ app \notin propagated => (ArgOf[app] \in App => ArgOf[app] \in apply_search_cache')
    BY <1>8 DEF Walk
  <2>4. \A f \in Fun, v \in Val : rho[f][v] \in App \cup {NULL}
        /\ (rho[f][v] # NULL => val[ArgOf[rho[f][v]]] = v)
    BY <1>0 DEF CheckInv, Filed
  <2>5. ASSUME NEW f \in Fun, NEW v \in Val, NEW b \in App, rho'[f][v] = b
        PROVE  IF Down(b, f) = NULL THEN Arrived(f, b)
               ELSE \/ rho'[Down(b, f)][v] # NULL /\ val[rho'[Down(b, f)][v]] = val[b]
                    \/ b \notin propagated' /\ Waits(prop_stack', b, Down(b, f))
    <3> DEFINE d == Down(b, f)
    <3>1. CASE rho[f][v] # b
      BY <2>2, <2>5, <3>1 DEF Remembered
    <3>2. CASE rho[f][v] = b /\ d = NULL
      BY <2>1, <3>2 DEF LinkInv
    <3>3. CASE rho[f][v] = b /\ d # NULL
      <4>1. d \in Fun
        BY <1>3, <3>3, DownBelow
      <4>2. Agrees(d, v, b) \/ (b \notin propagated /\ Waits(prop_stack, b, d))
        BY <2>1, <3>3 DEF LinkInv
      <4> HIDE DEF d
      <4>3. CASE Agrees(d, v, b)
        <5>1. rho'[d][v] # NULL /\ val[rho'[d][v]] = val[b]
          BY <2>2, <4>1, <4>3 DEF Agrees
        <5> QED
          BY <3>3, <5>1 DEF d
      <4>4. CASE b \notin propagated /\ Waits(prop_stack, b, d)
        <5>1. CASE b = app /\ d = fun
          <6>1. v = w
            BY <1>3, <2>4, <3>3, <5>1, GraphTypes
          <6>2. rho'[d][v] # NULL /\ val[rho'[d][v]] = val[b]
            BY <2>2, <4>4, <5>1, <6>1
          <6> QED
            BY <3>3, <6>2 DEF d
        <5>2. CASE app \in Under(b) /\ Waits(Front(prop_stack), b, d)
          <6>1. Waits(prop_stack', b, d)
            BY <1>5, <4>1, <5>2
          <6>2. b # app
            BY <1>3, <5>2, UnderNotItself
          <6>3. b \notin propagated'
            BY <2>3, <4>4, <6>2
          <6> QED
            BY <3>3, <6>1, <6>3 DEF d
        <5> QED
          BY <1>3, <4>4, <5>1, <5>2, WaitsPop
      <4> QED
        BY <4>2, <4>3, <4>4
    <3> QED
      BY <3>1, <3>2, <3>3
  <2>6. LinkInv'
    <3>1. \A f, v, b : Agrees(f, v, b)' <=> rho'[f][v] # NULL /\ val[rho'[f][v]] = val[b]
      BY <1>1 DEF Agrees
    <3> QED
      BY <1>2, <2>5, <3>1 DEF LinkInv
  <2>7. NeedsInv'
    <3>1. ASSUME NEW f \in Fun, NEW v \in Val, rho'[f][v] # NULL
          PROVE  Needs(f, v) \cap App \subseteq apply_search_cache'
      <4>1. CASE rho[f][v] # NULL
        BY <1>5, <2>1, <4>1 DEF NeedsInv
      <4>2. CASE rho[f][v] = NULL
        BY <2>2, <3>1, <4>2 DEF Remembered
      <4> QED
        BY <4>1, <4>2
    <3> QED
      BY <1>2, <3>1 DEF NeedsInv
  <2>8. \A a \in App : Settled(a) => Settled(a)'
    <3>1. ASSUME NEW a \in App, Settled(a) PROVE Settled(a)'
      <4>1. FunOf[a] \in Fun /\ val[ArgOf[a]] \in Val
        BY <1>0, <1>3, GraphTypes DEF CheckInv, TypeInv
      <4>2. rho'[FunOf[a]][val[ArgOf[a]]] = rho[FunOf[a]][val[ArgOf[a]]]
        BY <2>2, <3>1, <4>1 DEF Settled
      <4> QED
        BY <1>1, <1>2, <3>1, <4>2 DEF Settled
    <3> QED
      BY <3>1
  <2>9. \A a \in App : ArgKnown(a) => ArgKnown(a)'
    BY <1>2, <1>5 DEF ArgKnown
  <2>10. ASSUME NEW a \in App, a = app PROVE ArgKnown(a)'
    <3>1. CASE app \in propagated
      BY <2>1, <2>9, <2>10, <3>1 DEF StartInv
    <3>2. CASE app \notin propagated
      BY <1>2, <2>3, <2>10, <3>2 DEF ArgKnown
    <3> QED
      BY <3>1, <3>2
  <2>11. ASSUME NEW a \in App, <<a, FunOf[a]>> \in Range(prop_stack)
         PROVE  <<a, FunOf[a]>> \in Range(prop_stack') \/ (ArgKnown(a)' /\ Settled(a)')
    <3>1. CASE <<a, FunOf[a]>> \in Range(Front(prop_stack))
      BY <1>5, <3>1
    <3>2. CASE a = app /\ FunOf[a] = fun
      <4>1. ArgKnown(a)'
        BY <2>10, <3>2
      <4>2. CASE app \in propagated
        <5>1. Settled(a)
          BY <1>0, <2>1, <3>2, <4>2 DEF CheckInv, SettledInv
        <5> QED
          BY <2>8, <4>1, <5>1
      <4>3. CASE app \notin propagated
        <5>1. rho'[FunOf[a]][val[ArgOf[a]]] # NULL /\ val[rho'[FunOf[a]][val[ArgOf[a]]]] = val[a]
          BY <2>2, <3>2, <4>3
        <5>2. Settled(a)'
          BY <1>1, <1>2, <5>1 DEF Settled
        <5> QED
          BY <4>1, <5>2
      <4> QED
        BY <4>2, <4>3
    <3> QED
      BY <1>4, <2>11, <3>1, <3>2
  <2>12. /\ apply_search_cache \subseteq App /\ apply_search_cache' \subseteq App
         /\ propagated \subseteq App /\ Range(init_apps) \subseteq App
    <3>1. init_apps \in Seq(App) /\ apply_search_cache \subseteq App /\ propagated \subseteq App
      BY <1>0 DEF CheckInv, TypeInv
    <3>2. apply_search_cache' \subseteq App
      BY DEF Walk, Search
    <3> QED
      BY <3>1, <3>2 DEF Range
  <2>13. \A a \in propagated' : ArgKnown(a)'
    BY <1>3, <2>1, <2>3, <2>9, <2>10, <2>12 DEF StartInv
  <2>14. ASSUME NEW a \in apply_search_cache'
         PROVE  Settled(a)' \/ <<a, FunOf[a]>> \in Range(prop_stack')
    <3>1. CASE a \notin apply_search_cache
      BY <1>5, <3>1
    <3>2. CASE a \in apply_search_cache
      BY <2>1, <2>8, <2>11, <2>12, <3>2 DEF StartInv
    <3> QED
      BY <3>1, <3>2
  <2>15. ASSUME NEW a \in apply_search_cache' \cup Range(init_apps)
         PROVE  ArgKnown(a)' \/ <<a, FunOf[a]>> \in Range(prop_stack')
    <3>1. CASE a \in apply_search_cache' \ apply_search_cache
      BY <1>5, <3>1
    <3>2. CASE a \in apply_search_cache \cup Range(init_apps)
      BY <2>1, <2>9, <2>11, <2>12, <3>2 DEF StartInv
    <3> QED
      BY <3>1, <3>2
  <2>16. StartInv'
    BY <1>1, <1>2, <2>13, <2>14, <2>15 DEF StartInv, Range
  <2> QED
    BY <2>6, <2>7, <2>16
<1> QED
  BY <1>6, <1>7, <1>8 DEF WalkInv

-----------------------------------------------------------------------------
(* A check that ended without a lemma.  The uninterpreted functions are     *)
(* chosen as rho says, and zero elsewhere; then the graph gives every term  *)
(* that matters the value of the candidate.                                 *)

\* The applies that the check has met.
Met == apply_search_cache \cup Range(init_apps)

Ended ==
  /\ g \in Graphs /\ val \in [Term -> Val] /\ Filed
  /\ apply_search_cache \subseteq App /\ Met \subseteq App /\ g.root \subseteq Met
  /\ \A f \in Fun, v \in Val, b \in App : rho[f][v] = b =>
       IF Down(b, f) = NULL THEN Arrived(f, b) ELSE Agrees(Down(b, f), v, b)
  /\ NeedsInv
  /\ \A a \in Met : Settled(a) /\ ArgKnown(a)
  /\ \A q \in Feq : val[q] \in {0, 1}
  /\ \A q \in Feq : val[q] = 0 => val[AppOn(g.feq[q].l, g.feq[q].arg)]
                                    # val[AppOn(g.feq[q].r, g.feq[q].arg)]
  /\ \A q \in Feq : val[q] = 1 =>
       TableConflicts(GenerateTable(g.feq[q].l), GenerateTable(g.feq[q].r)) = {}

\* uf and x are what the check knows.
Follows(uf, x) ==
  /\ \A t \in Var : x[t] = val[t]
  /\ \A f \in Fun, v \in Val :
       Kind[f] = "uf" => uf[f][v] = IF rho[f][v] = NULL THEN 0 ELSE val[rho[f][v]]

RightTerm(e, t) == t \in Var \cup Feq \cup Met => e[t] = val[t]

RightFun(ev, f) == \A v \in Val : rho[f][v] # NULL => ev[<<f, v>>] = val[rho[f][v]]

TableValue(f, v) ==
  IF v \in DOMAIN GenerateTable(f) THEN val[GenerateTable(f)[v].value] ELSE 0

RightTable(ev, f) == \A v \in Val : ev[<<f, v>>] = TableValue(f, v)

(* S is the part of the graph below the function equalities that has been   *)
(* searched for applies.                                                    *)
Right(e, ev, S, n) ==
  /\ RightTerm(e, n)
  /\ n \in Fun => RightFun(ev, n)
  /\ n \in Fun \cap S => RightTable(ev, n)

LEMMA RightApp ==
  ASSUME Ended, NEW uf, NEW x, NEW e, NEW ev, Meaning(uf, x, e, ev), NEW a \in Met,
         RightTerm(e, ArgOf[a]), RightFun(ev, FunOf[a])
  PROVE  e[a] = val[a]
<1>1. g \in Graphs /\ a \in App /\ val \in [Term -> Val]
  BY DEF Ended
<1>2. FunOf[a] \in Fun /\ val[ArgOf[a]] \in Val
  BY <1>1, GraphTypes
<1>3. ArgOf[a] \in Var \cup App
  BY <1>1, GraphAssumption DEF Typed, ArgOf, App, Var
<1>4. e[ArgOf[a]] = val[ArgOf[a]]
  <2>1. ArgOf[a] \in App => ArgOf[a] \in Met
    BY DEF Ended, ArgKnown, Met
  <2> QED
    BY <1>3, <2>1 DEF RightTerm
<1>5. e[a] = ev[<<FunOf[a], e[ArgOf[a]]>>]
  BY <1>1 DEF Meaning
<1>6. rho[FunOf[a]][val[ArgOf[a]]] # NULL /\ val[rho[FunOf[a]][val[ArgOf[a]]]] = val[a]
  BY DEF Ended, Settled
<1> QED
  BY <1>2, <1>4, <1>5, <1>6 DEF RightFun

LEMMA RightNeed ==
  ASSUME Ended, NEW f \in Fun, NEW v \in Val, rho[f][v] # NULL,
         NEW t \in Needs(f, v), t \in Term, NEW e, RightTerm(e, t)
  PROVE  e[t] = val[t]
<1>1. t \in App => t \in Met
  BY DEF Ended, NeedsInv, Met
<1>2. t \in Var \cup App \cup Feq
  BY DEF Term, Terms, Var, App, Feq
<1> QED
  BY <1>1, <1>2 DEF RightTerm

LEMMA RightFunction ==
  ASSUME Ended, NEW uf, NEW x, Follows(uf, x), NEW e, NEW ev, Meaning(uf, x, e, ev),
         NEW S, NEW f \in Fun, \A c \in Children(g, f) : Right(e, ev, S, c)
  PROVE  RightFun(ev, f)
<1> SUFFICES ASSUME NEW v \in Val, rho[f][v] # NULL PROVE ev[<<f, v>>] = val[rho[f][v]]
  BY DEF RightFun
<1> DEFINE b == rho[f][v]
           d == Down(b, f)
<1>1. g \in Graphs /\ val \in [Term -> Val] /\ b \in App /\ val[ArgOf[b]] = v
  BY DEF Ended, Filed
<1>2. Kind[f] \in {"uf", "cond", "update", "lambda"} /\ MeaningAt(uf, e, ev, f, v)
  BY <1>1, GraphTypes, FunctionMeaning
<1>3. IF d = NULL THEN Arrived(f, b) ELSE Agrees(d, v, b)
  BY <1>1 DEF Ended
<1> HIDE DEF b
<1>4. ASSUME d # NULL, d \in Children(g, f) PROVE ev[<<d, v>>] = val[b]
  <2>1. d \in Fun
    BY <1>1, <1>4, DownBelow
  <2> HIDE DEF d
  <2>2. RightFun(ev, d)
    BY <1>4, <2>1 DEF Right
  <2> QED
    BY <1>3, <1>4, <2>2 DEF Agrees, RightFun
<1>5. ASSUME NEW t \in Needs(f, v), t \in Children(g, f), t \in Term PROVE e[t] = val[t]
  <2>1. RightTerm(e, t)
    BY <1>5 DEF Right
  <2> QED
    BY <1>5, <2>1, RightNeed
<1>6. CASE Kind[f] = "uf"
  BY <1>2, <1>6 DEF Follows, MeaningAt, b
<1>7. CASE Kind[f] = "cond"
  <2>1. Children(g, f) = {CondOf[f], Then[f], Else[f]} /\ CondOf[f] \in Term
        /\ Then[f] # NULL /\ Else[f] # NULL
    BY <1>1, <1>7, FunChildren, GraphTypes
  <2>2. e[CondOf[f]] = val[CondOf[f]]
    BY <1>5, <1>7, <2>1 DEF Needs
  <2>3. d = IF val[CondOf[f]] = 1 THEN Then[f] ELSE Else[f]
    BY <1>7 DEF Down
  <2>4. ev[<<f, v>>] = IF e[CondOf[f]] = 1 THEN ev[<<Then[f], v>>] ELSE ev[<<Else[f], v>>]
    BY <1>2, <1>7 DEF MeaningAt
  <2> HIDE DEF d
  <2> QED
    BY <1>4, <2>1, <2>2, <2>3, <2>4 DEF b
<1>8. CASE Kind[f] = "update"
  <2>1. Children(g, f) = {Base[f], Idx[f], Elem[f]} /\ Idx[f] \in Term /\ Elem[f] \in Term
        /\ Base[f] # NULL
    BY <1>1, <1>8, FunChildren, GraphTypes
  <2>2. e[Idx[f]] = val[Idx[f]] /\ e[Elem[f]] = val[Elem[f]]
    BY <1>5, <1>8, <2>1 DEF Needs
  <2>3. d = IF v = val[Idx[f]] THEN NULL ELSE Base[f]
    BY <1>1, <1>8 DEF Down, SameArgs
  <2>4. ev[<<f, v>>] = IF v = e[Idx[f]] THEN e[Elem[f]] ELSE ev[<<Base[f], v>>]
    BY <1>2, <1>8 DEF MeaningAt
  <2> HIDE DEF d
  <2>5. CASE v = val[Idx[f]]
    BY <1>3, <1>8, <2>2, <2>3, <2>4, <2>5 DEF Arrived, b
  <2>6. CASE v # val[Idx[f]]
    BY <1>4, <2>1, <2>2, <2>3, <2>4, <2>6 DEF b
  <2> QED
    BY <2>5, <2>6
<1>9. CASE Kind[f] = "lambda"
  <2>1. Children(g, f) = {Base[f], Idx[f], Elem[f]} /\ Idx[f] \in Term /\ Elem[f] \in Term
        /\ Base[f] # NULL
    BY <1>1, <1>9, FunChildren, GraphTypes
  <2>2. e[Idx[f]] = val[Idx[f]] /\ (v # val[Idx[f]] => e[Elem[f]] = val[Elem[f]])
    BY <1>5, <1>9, <2>1 DEF Needs
  <2>3. d = IF v = val[Idx[f]] THEN Base[f] ELSE NULL
    BY <1>1, <1>9 DEF Down, SameArgs
  <2>4. ev[<<f, v>>] = IF v = e[Idx[f]] THEN ev[<<Base[f], v>>] ELSE e[Elem[f]]
    BY <1>2, <1>9 DEF MeaningAt
  <2> HIDE DEF d
  <2>5. CASE v # val[Idx[f]]
    BY <1>3, <1>9, <2>2, <2>3, <2>4, <2>5 DEF Arrived, b
  <2>6. CASE v = val[Idx[f]]
    BY <1>4, <2>1, <2>2, <2>3, <2>4, <2>6 DEF b
  <2> QED
    BY <2>5, <2>6
<1> QED
  BY <1>2, <1>6, <1>7, <1>8, <1>9

LEMMA TableStep ==
  ASSUME Ended, NEW f \in Fun, NEW v \in Val
  PROVE  /\ v \in DOMAIN Known(f) => TableValue(f, v) = val[Known(f)[v].value]
         /\ v \notin DOMAIN Known(f) /\ Kind[f] = "uf" => TableValue(f, v) = 0
         /\ v \notin DOMAIN Known(f) /\ Kind[f] # "uf" => TableValue(f, v) = TableValue(Visit(f), v)
<1>1. g \in Graphs /\ val \in [Term -> Val] /\ Filed
  BY DEF Ended
<1>2. /\ GenerateTable(f) = IF Kind[f] = "uf" THEN Known(f)
                            ELSE Over(Known(f), GenerateTable(Visit(f)))
      /\ \A u \in DOMAIN Known(f) : /\ u \in DOMAIN GenerateTable(f)
                                    /\ GenerateTable(f)[u] = Known(f)[u]
  BY <1>1, TableFacts
<1>3. CASE v \in DOMAIN Known(f)
  BY <1>2, <1>3 DEF TableValue
<1>4. CASE v \notin DOMAIN Known(f) /\ Kind[f] = "uf"
  BY <1>2, <1>4 DEF TableValue
<1>5. CASE v \notin DOMAIN Known(f) /\ Kind[f] # "uf"
  <2> DEFINE t == GenerateTable(Visit(f))
  <2>1. GenerateTable(f) = Over(Known(f), t)
    BY <1>2, <1>5
  <2> HIDE DEF t
  <2>2. (v \in DOMAIN GenerateTable(f) <=> v \in DOMAIN t)
        /\ (v \in DOMAIN t => GenerateTable(f)[v] = t[v])
    BY <1>5, <2>1 DEF Over
  <2> QED
    BY <1>5, <2>2 DEF TableValue, t
<1> QED
  BY <1>3, <1>4, <1>5

Skeleton(S) ==
  /\ S \subseteq Nodes(g) /\ Feq \subseteq S
  /\ \A n \in S \ App : Children(g, n) \subseteq S
  /\ S \cap App \subseteq g.root
  /\ \A f \in S \cap Fun : Kind[f] # "lambda"

LEMMA RightTables ==
  ASSUME Ended, NEW uf, NEW x, Follows(uf, x), NEW e, NEW ev, Meaning(uf, x, e, ev),
         NEW S, Skeleton(S), NEW f \in Fun \cap S,
         \A c \in Children(g, f) : Right(e, ev, S, c), RightFun(ev, f)
  PROVE  RightTable(ev, f)
<1> SUFFICES ASSUME NEW v \in Val PROVE ev[<<f, v>>] = TableValue(f, v)
  BY DEF RightTable
<1>1. g \in Graphs /\ val \in [Term -> Val] /\ Filed
  BY DEF Ended
<1>2. Kind[f] \in {"uf", "cond", "update"} /\ MeaningAt(uf, e, ev, f, v)
  BY <1>1, GraphTypes, FunctionMeaning DEF Skeleton
<1>3. Children(g, f) \subseteq S
  <2>1. f \notin App
    BY <1>1, GraphAssumption DEF Apart, Terms, Fun, App
  <2> QED
    BY <2>1 DEF Skeleton
<1>4. ASSUME NEW t \in Children(g, f), t \in Term PROVE e[t] = val[t]
  <2>1. t \in App => t \in Met
    BY <1>3 DEF Skeleton, Ended
  <2>2. t \in Var \cup App \cup Feq
    BY <1>4 DEF Term, Terms, Var, App, Feq
  <2> QED
    BY <1>4, <2>1, <2>2 DEF Right, RightTerm
<1>5. ASSUME NEW d \in Children(g, f), d \in Fun PROVE ev[<<d, v>>] = TableValue(d, v)
  BY <1>3, <1>5 DEF Right, RightTable
<1>6. /\ Kind[f] = "update" => /\ val[Idx[f]] \in DOMAIN Known(f)
                               /\ Known(f)[val[Idx[f]]].value = Elem[f]
      /\ rho[f][v] # NULL /\ (Kind[f] = "update" => v # val[Idx[f]]) =>
           v \in DOMAIN Known(f) /\ Known(f)[v].value = rho[f][v]
      /\ v \in DOMAIN Known(f) => (Kind[f] = "update" /\ v = val[Idx[f]]) \/ rho[f][v] # NULL
  BY <1>1, KnownTable
<1>7. /\ v \in DOMAIN Known(f) => TableValue(f, v) = val[Known(f)[v].value]
      /\ v \notin DOMAIN Known(f) /\ Kind[f] = "uf" => TableValue(f, v) = 0
      /\ v \notin DOMAIN Known(f) /\ Kind[f] # "uf" => TableValue(f, v) = TableValue(Visit(f), v)
  BY TableStep
<1>8. CASE rho[f][v] # NULL /\ (Kind[f] = "update" => v # val[Idx[f]])
  <2>1. TableValue(f, v) = val[rho[f][v]]
    BY <1>6, <1>7, <1>8
  <2> QED
    BY <1>8, <2>1 DEF RightFun
<1>9. CASE Kind[f] = "update" /\ v = val[Idx[f]]
  <2>1. TableValue(f, v) = val[Elem[f]]
    BY <1>6, <1>7, <1>9
  <2>2. e[Idx[f]] = val[Idx[f]] /\ e[Elem[f]] = val[Elem[f]]
    BY <1>1, <1>4, <1>9, FunChildren, GraphTypes
  <2>3. ev[<<f, v>>] = IF v = e[Idx[f]] THEN e[Elem[f]] ELSE ev[<<Base[f], v>>]
    BY <1>2, <1>9 DEF MeaningAt
  <2> QED
    BY <1>9, <2>1, <2>2, <2>3
<1>10. CASE rho[f][v] = NULL /\ ~(Kind[f] = "update" /\ v = val[Idx[f]])
  <2>1. v \notin DOMAIN Known(f)
    BY <1>6, <1>10
  <2>2. CASE Kind[f] = "uf"
    <3>1. ev[<<f, v>>] = 0
      BY <1>2, <1>10, <2>2 DEF MeaningAt, Follows
    <3> QED
      BY <1>7, <2>1, <2>2, <3>1
  <2>3. CASE Kind[f] = "cond"
    <3>1. Children(g, f) = {CondOf[f], Then[f], Else[f]} /\ CondOf[f] \in Term
          /\ Then[f] \in Fun /\ Else[f] \in Fun
      BY <1>1, <2>3, FunChildren, GraphTypes
    <3>2. e[CondOf[f]] = val[CondOf[f]]
      BY <1>4, <3>1
    <3>3. ev[<<f, v>>] = IF e[CondOf[f]] = 1 THEN ev[<<Then[f], v>>] ELSE ev[<<Else[f], v>>]
      BY <1>2, <2>3 DEF MeaningAt
    <3>4. Visit(f) = IF val[CondOf[f]] = 1 THEN Then[f] ELSE Else[f]
      BY <2>3 DEF Visit
    <3>5. TableValue(f, v) = TableValue(Visit(f), v)
      BY <1>7, <2>1, <2>3
    <3> QED
      BY <1>5, <3>1, <3>2, <3>3, <3>4, <3>5
  <2>4. CASE Kind[f] = "update"
    <3>1. Children(g, f) = {Base[f], Idx[f], Elem[f]} /\ Idx[f] \in Term /\ Base[f] \in Fun
      BY <1>1, <2>4, FunChildren, GraphTypes
    <3>2. e[Idx[f]] = val[Idx[f]]
      BY <1>4, <3>1
    <3>3. ev[<<f, v>>] = IF v = e[Idx[f]] THEN e[Elem[f]] ELSE ev[<<Base[f], v>>]
      BY <1>2, <2>4 DEF MeaningAt
    <3>4. TableValue(f, v) = TableValue(Base[f], v)
      BY <1>7, <2>1, <2>4 DEF Visit
    <3> QED
      BY <1>5, <1>10, <2>4, <3>1, <3>2, <3>3, <3>4
  <2> QED
    BY <1>2, <2>2, <2>3, <2>4
<1> QED
  BY <1>8, <1>9, <1>10

LEMMA RightFeq ==
  ASSUME Ended, NEW uf, NEW x, Follows(uf, x), NEW e, NEW ev, Meaning(uf, x, e, ev),
         NEW S, Skeleton(S), NEW q \in Feq,
         \A c \in Children(g, q) : Right(e, ev, S, c)
  PROVE  e[q] = val[q]
<1> DEFINE l == g.feq[q].l
           r == g.feq[q].r
           y == g.feq[q].arg
<1>1. g \in Graphs /\ val \in [Term -> Val] /\ Filed
  BY DEF Ended
<1>2. q \in DOMAIN g.feq /\ q \notin App /\ Typed(g) /\ Compared(g)
  BY <1>1, GraphAssumption DEF Feq, App, Apart
<1>3. Children(g, q) = {l, r}
  BY <1>2 DEF Children, App
<1>4. l \in Fun \cap S /\ r \in Fun \cap S
  BY <1>1, <1>2, <1>3, GraphTypes DEF Skeleton
<1>5. /\ RightFun(ev, l) /\ RightFun(ev, r) /\ RightTable(ev, l) /\ RightTable(ev, r)
  BY <1>3, <1>4 DEF Right
<1>6. e[q] = IF \A u \in Val : ev[<<l, u>>] = ev[<<r, u>>] THEN 1 ELSE 0
  BY DEF Meaning
<1>7. CASE val[q] = 1
  <2>1. TableConflicts(GenerateTable(l), GenerateTable(r)) = {}
    BY <1>7 DEF Ended
  <2>2. ASSUME NEW u \in Val PROVE TableValue(l, u) = TableValue(r, u)
    BY <2>1 DEF TableConflicts, TableValue
  <2>3. \A u \in Val : ev[<<l, u>>] = ev[<<r, u>>]
    BY <1>5, <2>2 DEF RightTable
  <2> QED
    BY <1>6, <1>7, <2>3
<1>8. CASE val[q] = 0
  <2>1. val[y] \in Val
    BY <1>1, <1>2, GraphTypes DEF Typed, Var
  <2>2. ASSUME NEW f \in {l, r} PROVE ev[<<f, val[y]>>] = val[AppOn(f, y)]
    <3>1. PICK a \in g.root : g.funOf[a] = f /\ g.argOf[a] = y
      BY <1>2 DEF Compared
    <3>2. a \in App /\ a \in Met /\ FunOf[a] = f /\ ArgOf[a] = y
      BY <1>1, <3>1, GraphTypes DEF Ended, FunOf, ArgOf
    <3>3. AppOn(f, y) = a
      <4>1. AppOn(f, y) \in App /\ FunOf[AppOn(f, y)] = f /\ ArgOf[AppOn(f, y)] = y
        BY <3>2 DEF AppOn
      <4>2. \A b, c \in App : FunOf[b] = FunOf[c] /\ ArgOf[b] = ArgOf[c] => b = c
        BY <1>1, GraphAssumption DEF Apart, App, FunOf, ArgOf
      <4> QED
        BY <3>2, <4>1, <4>2
    <3>4. rho[f][val[y]] # NULL /\ val[rho[f][val[y]]] = val[a]
      BY <3>2 DEF Ended, Settled
    <3> QED
      BY <1>5, <2>1, <3>3, <3>4 DEF RightFun
  <2>3. val[AppOn(l, y)] # val[AppOn(r, y)]
    BY <1>8 DEF Ended
  <2>4. ev[<<l, val[y]>>] # ev[<<r, val[y]>>]
    BY <2>2, <2>3
  <2> QED
    BY <1>6, <1>8, <2>1, <2>4
<1> QED
  BY <1>7, <1>8 DEF Ended

LEMMA AllRight ==
  ASSUME Ended, NEW uf, NEW x, Follows(uf, x), NEW e, NEW ev, Meaning(uf, x, e, ev),
         NEW S, Skeleton(S)
  PROVE  \A n \in Nodes(g) : Right(e, ev, S, n)
<1> DEFINE B == {n \in Nodes(g) : ~Right(e, ev, S, n)}
<1>1. g \in Graphs /\ Met \subseteq App
  BY DEF Ended
<1>2. SUFFICES ASSUME B # {} PROVE FALSE
  OBVIOUS
<1>3. PICK n \in B : Children(g, n) \cap B = {}
  <2>1. Founded(g) /\ B \in SUBSET Nodes(g)
    BY <1>1, GraphAssumption
  <2> QED
    BY <1>2, <2>1 DEF Founded
<1>4. n \in Nodes(g) /\ ~Right(e, ev, S, n) /\ \A c \in Children(g, n) : Right(e, ev, S, c)
  BY <1>1, <1>3, ChildrenNodes
<1> HIDE DEF B
<1>5. /\ Var \cap App = {} /\ Var \cap Feq = {} /\ App \cap Feq = {}
      /\ (Var \cup App \cup Feq) \cap Fun = {} /\ n \in Var \cup App \cup Feq \cup Fun
  BY <1>1, <1>4, GraphAssumption DEF Apart, Terms, Nodes, Var, App, Feq, Fun
<1>6. RightTerm(e, n)
  <2>1. CASE n \in Var
    BY <2>1 DEF RightTerm, Follows, Meaning
  <2>2. CASE n \in Feq
    BY <1>4, <2>2, RightFeq DEF RightTerm
  <2>3. CASE n \in Met
    <3>1. FunOf[n] \in Children(g, n) /\ ArgOf[n] \in Children(g, n) /\ FunOf[n] \in Fun
      BY <1>1, <2>3, AppNode, GraphTypes
    <3>2. RightTerm(e, ArgOf[n]) /\ RightFun(ev, FunOf[n])
      BY <1>4, <3>1 DEF Right
    <3> QED
      BY <2>3, <3>2, RightApp DEF RightTerm
  <2> QED
    BY <2>1, <2>2, <2>3 DEF RightTerm
<1>7. n \in Fun => RightFun(ev, n)
  BY <1>4, RightFunction
<1>8. n \in Fun \cap S => RightTable(ev, n)
  BY <1>4, <1>7, RightTables
<1> QED
  BY <1>4, <1>6, <1>7, <1>8 DEF Right

(* The functions can be chosen so that all applies of the formula and all   *)
(* function equalities have the value that the candidate gives them.        *)
LEMMA Consistent ==
  ASSUME Ended
  PROVE  \E e \in Evaluations : \A t \in Var \cup Feq \cup Range(init_apps) : e[t] = val[t]
<1> DEFINE U == {f \in DOMAIN g.kind : g.kind[f] = "uf"}
           uf == [f \in U |-> [v \in Val |-> IF rho[f][v] = NULL THEN 0 ELSE val[rho[f][v]]]]
           x == [t \in Var |-> val[t]]
           e == Evaluation(g, uf, x)
           ev == EvOf(g, uf, x)
<1>1. g \in Graphs /\ val \in [Term -> Val] /\ Filed /\ Met \subseteq App
  BY DEF Ended
<1>2. App \subseteq Term /\ Var \subseteq Term /\ U \subseteq Fun
  BY DEF App, Var, Term, Terms, Fun
<1>3. uf \in UfOf(g)
  <2>1. ASSUME NEW f \in U, NEW v \in Val
        PROVE  (IF rho[f][v] = NULL THEN 0 ELSE val[rho[f][v]]) \in Val
    BY <1>1, <1>2, ValueAssumption DEF Filed
  <2> QED
    BY <2>1 DEF UfOf
<1>4. x \in [Var -> Val]
  BY <1>1, <1>2
<1>5. Follows(uf, x)
  BY DEF Follows, Fun, Kind
<1>6. PICK S : Skeleton(S)
  <2>1. Searched(g)
    BY <1>1, GraphAssumption
  <2> QED
    BY <2>1 DEF Searched, Skeleton, Feq, App, Fun, Kind
<1> HIDE DEF uf, x
<1>7. Meaning(uf, x, e, ev)
  BY <1>1, <1>3, <1>4, EvaluationMeaning
<1>8. e \in Evaluations
  <2>1. EvaluationsOf[g] = {Evaluation(g, i[1], i[2]) : i \in UfOf(g) \X [g.var -> Val]}
    BY <1>1 DEF EvaluationsOf
  <2>2. <<uf, x>> \in UfOf(g) \X [g.var -> Val]
    BY <1>3, <1>4 DEF Var
  <2>3. <<uf, x>>[1] = uf /\ <<uf, x>>[2] = x
    OBVIOUS
  <2> QED
    BY <2>1, <2>2, <2>3 DEF Evaluations
<1> HIDE DEF e, ev
<1>9. ASSUME NEW t \in Var \cup Feq \cup Range(init_apps) PROVE e[t] = val[t]
  <2>1. t \in Nodes(g) /\ t \in Var \cup Feq \cup Met
    BY <1>1 DEF Nodes, Terms, Var, Feq, App, Met
  <2>2. Right(e, ev, S, t)
    BY <1>5, <1>6, <1>7, <2>1, AllRight
  <2> QED
    BY <2>1, <2>2 DEF Right, RightTerm
<1> QED
  BY <1>8, <1>9

LEMMA EndedHolds ==
  ASSUME AcceptInv, prop_stack = <<>>, cur_lemmas = {}, AddExtensionalityLemmas = {}
  PROVE  Ended
<1>0. CheckInv /\ CandidateInv /\ LinkInv /\ NeedsInv /\ StartInv /\ SettledInv
  BY DEF AcceptInv, WalkInv, CheckInv
<1>1. /\ g \in Graphs /\ val \in [Term -> Val] /\ Filed
      /\ apply_search_cache \subseteq App /\ init_apps \in Seq(App)
      /\ \A l \in lemmas : LemmaHolds(l, val)
  BY <1>0 DEF CheckInv, TypeInv
<1>2. Met \subseteq App /\ g.root \subseteq Met
  BY <1>0, <1>1 DEF Met, Range, CandidateInv
<1>3. DOMAIN prop_stack = {} /\ Range(prop_stack) = {}
  BY DEF Range
<1>4. \A b, d : ~Waits(prop_stack, b, d)
  BY <1>3 DEF Waits
<1>5. \A f \in Fun, v \in Val, b \in App : rho[f][v] = b =>
        IF Down(b, f) = NULL THEN Arrived(f, b) ELSE Agrees(Down(b, f), v, b)
  BY <1>0, <1>4 DEF LinkInv
<1>6. \A a \in Met : Settled(a) /\ ArgKnown(a)
  BY <1>0, <1>3 DEF Met, StartInv, SettledInv
<1>7. ASSUME NEW q \in Feq, val[q] = 1
      PROVE  TableConflicts(GenerateTable(g.feq[q].l), GenerateTable(g.feq[q].r)) = {}
  <2>1. ASSUME NEW l \in ExtensionalityLemmasOf(q) PROVE FALSE
    <3>1. l \in lemmas
      BY <1>7 DEF AddExtensionalityLemmas
    <3>2. LemmaHolds(l, val) /\ TermsOf(l) \cap App \subseteq Range(init_apps)
      BY <1>0, <1>1, <3>1 DEF CandidateInv
    <3> QED
      BY <1>0, <1>7, <3>2, ExtensionalityProgress
  <2> QED
    BY <2>1 DEF ExtensionalityLemmasOf
<1> QED
  BY <1>0, <1>1, <1>2, <1>5, <1>6, <1>7 DEF Ended, CandidateInv

-----------------------------------------------------------------------------
(* The steps *)

(* A step that leaves the walk alone. *)
LEMMA WalkSame ==
  ASSUME AcceptInv, UNCHANGED <<g, val, lemmas, init_apps, prop_stack, apply_search_cache,
                                propagated, rho>>,
         cur_lemmas' = {} => cur_lemmas = {}
  PROVE  UnderInv' /\ CandidateInv' /\ WalkInv'
<1>0. CheckInv /\ UnderInv /\ CandidateInv /\ WalkInv
  BY DEF AcceptInv
<1>1. /\ g' = g /\ val' = val /\ lemmas' = lemmas /\ init_apps' = init_apps
      /\ prop_stack' = prop_stack /\ apply_search_cache' = apply_search_cache
      /\ propagated' = propagated /\ rho' = rho /\ (cur_lemmas' = {} => cur_lemmas = {})
  OBVIOUS
<1>2. /\ App' = App /\ Fun' = Fun /\ Feq' = Feq /\ FunOf' = FunOf /\ ArgOf' = ArgOf
      /\ \A a : Under(a)' = Under(a)
      /\ \A s, b, d : Waits(s, b, d)' <=> Waits(s, b, d)
      /\ \A b, f : Down(b, f)' = Down(b, f)
      /\ \A f, b : Arrived(f, b)' <=> Arrived(f, b)
      /\ \A f, v : Needs(f, v)' = Needs(f, v)
      /\ \A f, t : AppOn(f, t)' = AppOn(f, t)
  BY <1>1, AcceptFrame
<1>3. UnderInv'
  BY <1>0, <1>1, <1>2 DEF UnderInv, Range
<1>4. CandidateInv'
  BY <1>0, <1>1, <1>2 DEF CandidateInv, TermsOf, Range
<1>5. WalkInv'
  <2> SUFFICES ASSUME cur_lemmas' = {} PROVE LinkInv' /\ NeedsInv' /\ StartInv'
    BY DEF WalkInv
  <2>1. LinkInv /\ NeedsInv /\ StartInv
    BY <1>0, <1>1 DEF WalkInv
  <2>2. \A f, v, b : Agrees(f, v, b)' <=> Agrees(f, v, b)
    BY <1>1 DEF Agrees
  <2>3. \A a : (ArgKnown(a)' <=> ArgKnown(a)) /\ (Settled(a)' <=> Settled(a))
    BY <1>1, <1>2 DEF ArgKnown, Settled
  <2>4. LinkInv'
    BY <1>1, <1>2, <2>1, <2>2 DEF LinkInv
  <2>5. NeedsInv'
    BY <1>1, <1>2, <2>1 DEF NeedsInv
  <2>6. StartInv'
    BY <1>1, <1>2, <2>1, <2>3 DEF StartInv, Range
  <2> QED
    BY <2>4, <2>5, <2>6
<1> QED
  BY <1>3, <1>4, <1>5

LEMMA DoneAccept ==
  ASSUME AcceptInv, Done
  PROVE  AcceptInv'
<1>0. CheckInv /\ UnderInv /\ CandidateInv /\ WalkInv
  BY DEF AcceptInv
<1>1. /\ g' = g /\ val' = val /\ lemmas' = lemmas /\ init_apps' = init_apps
      /\ prop_stack' = prop_stack /\ apply_search_cache' = apply_search_cache
      /\ propagated' = propagated /\ rho' = rho /\ prop_stack = <<>>
      /\ cur_lemmas' = IF cur_lemmas = {} THEN AddExtensionalityLemmas ELSE cur_lemmas
      /\ pc' = IF cur_lemmas' = {} THEN "done" ELSE "lemmas"
  BY DEF Done, formula
<1>2. CheckInv'
  BY <1>0, DoneInv
<1>3. UnderInv' /\ CandidateInv' /\ WalkInv'
  BY <1>1, WalkSame
<1>4. AcceptsOnlyConsistent'
  <2> SUFFICES ASSUME pc' = "done"
               PROVE  (\E e \in Evaluations :
                         \A t \in Var \cup Feq \cup Range(init_apps) : e[t] = val[t])'
    BY DEF AcceptsOnlyConsistent
  <2>1. cur_lemmas = {} /\ AddExtensionalityLemmas = {}
    BY <1>1
  <2>2. \E e \in Evaluations : \A t \in Var \cup Feq \cup Range(init_apps) : e[t] = val[t]
    BY <1>1, <2>1, EndedHolds, Consistent
  <2>3. Evaluations' = Evaluations /\ Var' = Var /\ Feq' = Feq /\ Range(init_apps)' = Range(init_apps)
    BY <1>1 DEF Evaluations, Var, Feq, Range
  <2> QED
    BY <1>1, <2>2, <2>3
<1> QED
  BY <1>2, <1>3, <1>4 DEF AcceptInv

(* A check that has just begun. *)
Fresh == Begun /\ CandidateInv /\ pc = "propagate"

LEMMA FreshAccept == Fresh => AcceptInv
<1> SUFFICES ASSUME Fresh PROVE AcceptInv
  OBVIOUS
<1>1. CheckInv /\ CandidateInv /\ AcceptsOnlyConsistent
  BY BegunInv DEF Fresh, AcceptsOnlyConsistent
<1>2. /\ g \in Graphs /\ init_apps \in Seq(App) /\ prop_stack = OnStack(init_apps)
      /\ apply_search_cache = {} /\ propagated = {} /\ rho = NoRho
  BY DEF Fresh, Begun
<1>3. /\ prop_stack \in Seq(App \X Fun)
      /\ \A c \in Range(prop_stack) : c[2] = FunOf[c[1]]
      /\ \A a \in Range(init_apps) : <<a, FunOf[a]>> \in Range(prop_stack)
  BY <1>2, OnStackFacts
<1>4. \A f \in Fun, v \in Val : rho[f][v] = NULL
  BY <1>2 DEF NoRho
<1>5. NULL \notin App
  BY <1>2, GraphAssumption DEF Apart, Nodes, Terms, App
<1>6. UnderInv
  <2>1. \A c \in Range(prop_stack) : c[1] \in App
    BY <1>3 DEF Range
  <2> QED
    BY <1>2, <1>3, <2>1, AppNode DEF UnderInv
<1>7. WalkInv
  <2>1. LinkInv /\ NeedsInv
    BY <1>4, <1>5 DEF LinkInv, NeedsInv
  <2>2. StartInv
    BY <1>2, <1>3 DEF StartInv
  <2> QED
    BY <2>1, <2>2 DEF WalkInv
<1> QED
  BY <1>1, <1>6, <1>7 DEF AcceptInv

LEMMA OnToSet ==
  ASSUME NEW S, IsFiniteSet(S), NEW f \in [1..Cardinality(S) -> S],
         \A i, j \in 1..Cardinality(S) : i # j => f[i] # f[j]
  PROVE  Range(f) = S
<1> DEFINE D == 1..Cardinality(S)
<1>1. Cardinality(S) \in Nat
  BY FS_CardinalityType
<1>2. Cardinality(D) = Cardinality(S)
  BY <1>1, FS_Interval
<1>3. f \in Injection(D, S)
  BY DEF Injection, IsInjective
<1>4. f \in Surjection(D, S)
  BY <1>2, <1>3, FS_Injection
<1> QED
  BY <1>4 DEF Surjection, Range

LEMMA CandidateMore ==
  ASSUME NEW ls, NEW synth, NEW v \in Candidates(ls, synth)
  PROVE  /\ \A q \in Feq : v[q] \in {0, 1}
         /\ \A q \in Feq : v[q] = 0 => v[AppOn(g.feq[q].l, g.feq[q].arg)]
                                         # v[AppOn(g.feq[q].r, g.feq[q].arg)]
BY DEF Candidates

LEMMA InitAccept == Init => AcceptInv
<1> SUFFICES ASSUME Init PROVE Fresh
  BY FreshAccept
<1>1. g \in Graphs /\ val \in Candidates({}, g.synth) /\ lemmas = {}
  BY DEF Init
<1>2. IsFiniteSet(g.root)
  BY <1>1, GraphTypes, FS_Subset
<1>3. /\ init_apps \in [1..Cardinality(g.root) -> g.root]
      /\ \A i, j \in 1..Cardinality(g.root) : i # j => init_apps[i] # init_apps[j]
  BY DEF Init, SetToSeqs
<1>4. Range(init_apps) = g.root
  BY <1>2, <1>3, OnToSet
<1>5. init_apps \in Seq(App)
  <2>1. Cardinality(g.root) \in Nat
    BY <1>2, FS_CardinalityType
  <2> QED
    BY <1>1, <1>3, <2>1, GraphTypes
<1>6. val \in [Term -> Val]
  BY <1>1, CandidateFacts
<1>7. Begun
  BY <1>1, <1>5, <1>6 DEF Init, Begun
<1>8. CandidateInv
  BY <1>1, <1>4, CandidateMore DEF CandidateInv
<1> QED
  BY <1>7, <1>8 DEF Fresh, Init

LEMMA RefineAccept ==
  ASSUME AcceptInv, Refine
  PROVE  AcceptInv'
<1> DEFINE new == ((UNION {TermsOf(l) : l \in cur_lemmas}) \cap App) \ Range(init_apps)
           s == SetToSeq(new)
           apps == init_apps \o s
<1>0. CheckInv /\ CandidateInv
  BY DEF AcceptInv
<1>1. g \in Graphs /\ init_apps \in Seq(App)
  BY <1>0 DEF CheckInv, TypeInv
<1>2. new \in SUBSET App /\ IsFiniteSet(new)
  BY <1>1, GraphTypes, FS_Subset
<1>3. /\ g' = g /\ init_apps' = apps /\ prop_stack' = OnStack(apps)
      /\ val' \in Candidates(lemmas', g.synth \cup Range(apps))
      /\ lemmas' = lemmas \cup cur_lemmas /\ pc' = "propagate"
      /\ apply_search_cache' = {} /\ propagated' = {} /\ rho' = NoRho /\ cur_lemmas' = {}
  BY DEF Refine
<1> HIDE DEF new
<1>4. s \in Seq(App) /\ Range(s) = new
  <2>1. s \in Seq(App)
    BY <1>2, SetToSeqFacts
  <2>2. \E f \in [1..Cardinality(new) -> new] : IsInjective(f)
    <3>1. ExistsBijection(1..Cardinality(new), new)
      BY <1>2, FS_CardinalityType
    <3> QED
      BY <3>1 DEF ExistsBijection, Bijection, Injection, IsInjective
  <2>3. s \in [1..Cardinality(new) -> new] /\ IsInjective(s)
    BY <2>2 DEF SetToSeq
  <2> HIDE DEF s
  <2>4. Range(s) = new
    BY <1>2, <2>3, OnToSet DEF IsInjective
  <2> QED
    BY <2>1, <2>4
<1> HIDE DEF s
<1>5. apps \in Seq(App) /\ Range(apps) = Range(init_apps) \cup new
  <2>1. /\ Len(init_apps) \in Nat /\ Len(s) \in Nat /\ apps \in Seq(App)
        /\ DOMAIN init_apps = 1..Len(init_apps) /\ DOMAIN s = 1..Len(s)
        /\ DOMAIN apps = 1..(Len(init_apps) + Len(s))
        /\ \A i \in 1..Len(init_apps) : apps[i] = init_apps[i]
        /\ \A i \in 1..(Len(init_apps) + Len(s)) :
             i > Len(init_apps) => apps[i] = s[i - Len(init_apps)]
    BY <1>1, <1>4
  <2> HIDE DEF apps
  <2>2. Range(apps) \subseteq Range(init_apps) \cup Range(s)
    <3>1. ASSUME NEW i \in DOMAIN apps PROVE apps[i] \in Range(init_apps) \cup Range(s)
      <4>1. CASE i \in 1..Len(init_apps)
        BY <2>1, <4>1 DEF Range
      <4>2. CASE i \notin 1..Len(init_apps)
        <5>1. i > Len(init_apps) /\ i - Len(init_apps) \in 1..Len(s)
          BY <2>1, <4>2
        <5> QED
          BY <2>1, <5>1 DEF Range
      <4> QED
        BY <4>1, <4>2
    <3> QED
      BY <3>1 DEF Range
  <2>3. Range(init_apps) \subseteq Range(apps)
    <3>1. \A i \in 1..Len(init_apps) : i \in 1..(Len(init_apps) + Len(s))
      BY <2>1
    <3> QED
      BY <2>1, <3>1 DEF Range
  <2>4. Range(s) \subseteq Range(apps)
    <3>1. ASSUME NEW j \in 1..Len(s)
          PROVE  j + Len(init_apps) \in DOMAIN apps /\ apps[j + Len(init_apps)] = s[j]
      <4>1. /\ j + Len(init_apps) \in 1..(Len(init_apps) + Len(s))
            /\ j + Len(init_apps) > Len(init_apps) /\ (j + Len(init_apps)) - Len(init_apps) = j
        BY <2>1
      <4> QED
        BY <2>1, <4>1
    <3> QED
      BY <2>1, <3>1 DEF Range
  <2> QED
    BY <1>4, <2>1, <2>2, <2>3, <2>4
<1> HIDE DEF apps
<1>6. val' \in [Term -> Val] /\ \A l \in lemmas' : LemmaHolds(l, val')
  BY <1>3, CandidateFacts
<1>7. App' = App /\ Fun' = Fun /\ Term' = Term /\ FunOf' = FunOf /\ Feq' = Feq
      /\ \A f, t : AppOn(f, t)' = AppOn(f, t)
  BY <1>3 DEF App, Fun, Term, FunOf, Feq, AppOn, ArgOf
<1>8. OnStack(init_apps)' = OnStack(apps) /\ NoRho' = NoRho
  BY <1>3, <1>7 DEF OnStack, NoRho
<1>9. Begun'
  <2>1. \A l \in lemmas' : LemmaHolds(l, val)'
    BY <1>6 DEF LemmaHolds, LiteralHolds
  <2> QED
    BY <1>1, <1>3, <1>5, <1>6, <1>7, <1>8, <2>1 DEF Begun
<1>10. CandidateInv'
  <2>1. /\ \A q \in Feq : val'[q] \in {0, 1}
        /\ \A q \in Feq : val'[q] = 0 => val'[AppOn(g.feq[q].l, g.feq[q].arg)]
                                           # val'[AppOn(g.feq[q].r, g.feq[q].arg)]
    BY <1>3, CandidateMore
  <2>2. Range(init_apps)' = Range(init_apps) \cup new
    BY <1>3, <1>5 DEF Range
  <2>3. \A l \in lemmas' : TermsOf(l) \cap App \subseteq Range(init_apps) \cup new
    <3>1. ASSUME NEW l \in cur_lemmas PROVE TermsOf(l) \cap App \subseteq Range(init_apps) \cup new
      BY DEF new
    <3> QED
      BY <1>0, <1>3, <3>1 DEF CandidateInv
  <2>4. \A l : TermsOf(l)' = TermsOf(l)
    BY DEF TermsOf
  <2> QED
    BY <1>0, <1>3, <1>7, <2>1, <2>2, <2>3, <2>4 DEF CandidateInv
<1>11. Fresh'
  BY <1>3, <1>9, <1>10 DEF Fresh
<1> QED
  BY <1>11, FreshAccept, PTL

(* One pass of the loop: it does not end the check. *)
LEMMA PassAccept ==
  ASSUME AcceptInv, Busy, NEW D, Pass(D), Walk, pc' # "done"
  PROVE  AcceptInv'
<1>1. CheckInv'
  BY PassInv DEF AcceptInv
<1>2. UnderInv' /\ CandidateInv' /\ WalkInv'
  BY WalkKeeps
<1>3. AcceptsOnlyConsistent'
  BY DEF AcceptsOnlyConsistent
<1> QED
  BY <1>1, <1>2, <1>3 DEF AcceptInv

LEMMA NextAccept == AcceptInv /\ [Next]_vars => AcceptInv'
<1> SUFFICES ASSUME AcceptInv, [Next]_vars PROVE AcceptInv'
  OBVIOUS
<1>0. CheckInv /\ UnderInv
  BY DEF AcceptInv
<1>1. CASE SkipPropagated
  <2>1. Busy /\ pc' # "done"
    BY <1>1 DEF SkipPropagated, Busy
  <2>2. Pass({})
    BY <1>0, <1>1, PassSkip
  <2>3. Walk
    BY <1>0, <1>1, WalkSkip
  <2> QED
    BY <2>1, <2>2, <2>3, PassAccept
<1>2. CASE PropagateHashed
  <2>1. Busy /\ pc' # "done"
    BY <1>2 DEF PropagateHashed, Busy, NoConflict, Conflict
  <2>2. Pass({})
    BY <1>0, <1>2, PassHashed
  <2>3. Walk
    BY <1>0, <1>2, WalkHashed
  <2> QED
    BY <2>1, <2>2, <2>3, PassAccept
<1>3. CASE PropagateUf
  <2>1. Busy /\ pc' # "done"
    BY <1>3 DEF PropagateUf, Busy, NoConflict
  <2>2. Pass({})
    BY <1>0, <1>3, PassUf
  <2>3. Walk
    BY <1>0, <1>3, WalkUf
  <2> QED
    BY <2>1, <2>2, <2>3, PassAccept
<1>4. CASE PropagateCond
  <2>1. Busy /\ pc' # "done"
    BY <1>4 DEF PropagateCond, Busy, NoConflict
  <2>2. Pass({<<app, Down(app, fun)>>})
    BY <1>0, <1>4, PassCond
  <2>3. Walk
    BY <1>0, <1>4, WalkCond
  <2> QED
    BY <2>1, <2>2, <2>3, PassAccept
<1>5. CASE PropagateUpdate
  <2>1. Busy /\ pc' # "done"
    BY <1>5 DEF PropagateUpdate, Busy
  <2>2. \E D : Pass(D)
    BY <1>0, <1>5, PassUpdate
  <2>3. Walk
    BY <1>0, <1>5, WalkUpdate
  <2> QED
    BY <2>1, <2>2, <2>3, PassAccept
<1>6. CASE PropagateLambda
  <2>1. Busy /\ pc' # "done"
    BY <1>6 DEF PropagateLambda, Busy, NoConflict, Conflict
  <2>2. \E D : Pass(D)
    BY <1>0, <1>6, PassLambda
  <2>3. Walk
    BY <1>0, <1>6, WalkLambda
  <2> QED
    BY <2>1, <2>2, <2>3, PassAccept
<1>7. CASE Done
  BY <1>7, DoneAccept
<1>8. CASE Refine
  BY <1>8, RefineAccept
<1>9. CASE UNCHANGED vars
  <2>1. CheckInv'
    BY <1>0, <1>9, NextInv
  <2>2. UNCHANGED <<g, val, eager, lemmas, init_apps, prop_stack, apply_search_cache,
                    propagated, rho, conf_apps, cur_lemmas, pc>>
    BY <1>9 DEF vars, formula
  <2>3. UnderInv' /\ CandidateInv' /\ WalkInv'
    BY <2>2, WalkSame
  <2>4. AcceptsOnlyConsistent'
    BY <2>2 DEF AcceptInv, AcceptsOnlyConsistent, Evaluations, Var, Feq, Range
  <2> QED
    BY <2>1, <2>3, <2>4 DEF AcceptInv
<1> QED
  BY <1>1, <1>2, <1>3, <1>4, <1>5, <1>6, <1>7, <1>8, <1>9 DEF Next, CheckStep

(* A candidate for which check_and_resolve_conflicts of btorslvfun.c ends   *)
(* without a lemma is right about every variable, every function equality   *)
(* and every apply of the formula: there are functions that give them these *)
(* values.  So the engine answers SAT only where there is a model; for      *)
(* every set of graphs, every set of values and every number of candidates. *)
THEOREM AcceptsCorrect == Spec => []AcceptsOnlyConsistent
<1>1. AcceptInv => AcceptsOnlyConsistent
  BY DEF AcceptInv
<1> QED
  BY <1>1, InitAccept, NextAccept, PTL DEF Spec
=============================================================================
