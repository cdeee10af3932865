----------------------------- MODULE BtorGraph -----------------------------
(***************************************************************************)
(* The memory of the expression graph of an instance (btornode.c): nodes   *)
(* in the hash chains of the unique table, in the parent lists of their    *)
(* children (a link per child position, the position in the tag of the     *)
(* pointer), in the tables of the instance, bound to their binder, and     *)
(* simplified to other nodes.  As in BtorSorts an operator takes an        *)
(* instance and returns it as the call leaves it, with the result in b.r.  *)
(*                                                                         *)
(* Data abstraction.  The kinds are the constant zero of one bit, inputs,  *)
(* conjunction and the kinds that have local data or tables of their own:  *)
(* parameters, lambdas, uninterpreted functions, argument tuples, applies  *)
(* and proxies.  Ids are not reused, so an id is an address.  Hash tables  *)
(* keyed by nodes are lists in the order of insertion, which is the order  *)
(* of their iterators.  Hash values are taken modulo 2^16; the chains are  *)
(* far shorter.                                                            *)
(***************************************************************************)
EXTENDS BtorSorts

NoNode ==
  [kind |-> "none", sort |-> 0, e |-> <<>>, refs |-> 0, ext |-> 0, parents |-> 0,
   first |-> Nil, last |-> Nil, prev |-> <<>>, nextp |-> <<>>, chain |-> Nil,
   unique |-> FALSE, simp |-> Nil, btor |-> "nil", par |-> FALSE,
   constraint |-> FALSE, is_array |-> FALSE, av |-> <<>>, rho |-> <<>>,
   binder |-> Nil, body |-> Nil]

\* The place of a kind in BtorNodeKind.
KindNumber ==
  [const |-> 1, var |-> 2, param |-> 3, and |-> 5, apply |-> 16, lambda |-> 19,
   args |-> 21, uf |-> 23, proxy |-> 24]

Live(b) == {i \in DOMAIN b.nodes : b.nodes[i].kind # "none"}
Invert(p) == [p EXCEPT !.t = 1 - @]
CondInvert(p, q) == IF p.t = 1 THEN Invert(q) ELSE q
RealAddr(p) == [p EXCEPT !.t = 0]
IsKind(b, p, k) == b.nodes[p.id].kind = k

\* btor_simplify_exp: what stands for a node, the inversions on the way kept.
RECURSIVE Simplified(_, _)
Simplified(b, p) ==
  IF b.nodes[p.id].simp = Nil THEN p
  ELSE Simplified(b, CondInvert(p, b.nodes[p.id].simp))

Copy(b, p) == [b EXCEPT !.nodes[p.id].refs = @ + 1, !.r = p]
IncExt(b, p) == [b EXCEPT !.nodes[p.id].ext = @ + 1, !.external = @ + 1]
DecExt(b, p) == [b EXCEPT !.nodes[p.id].ext = @ - 1, !.external = @ - 1]

-----------------------------------------------------------------------------
(* Tables: sequences of rows <<key, data>>.                                 *)

Row(tab, id) == {i \in DOMAIN tab : tab[i][1].id = id}
DataOf(tab, id) == tab[CHOOSE i \in Row(tab, id) : TRUE][2]
Without(tab, id) == SelectSeq(tab, LAMBDA row : row[1].id # id)
HasKey(tab, id) == Row(tab, id) # {}

\* A table of ids (btorhashint.c) of the initial size, whose hash is the key
\* itself: a key below 32 has a slot of its own, 0 is the free slot.
HopRange == 32
Position(k) == k % HopRange
NoKeys == [i \in 0..(HopRange - 1) |-> 0]
NoTable == [count |-> 0, keys |-> NoKeys]
TableContains(t, k) == t.keys[Position(k)] = k
TableAdd(t, k) ==
  IF TableContains(t, k) THEN t
  ELSE [count |-> t.count + 1, keys |-> [t.keys EXCEPT ![Position(k)] = k]]
TableRemove(t, k) ==
  IF ~TableContains(t, k) THEN t
  ELSE [count |-> t.count - 1, keys |-> [t.keys EXCEPT ![Position(k)] = 0]]

GetSymbol(b, id) == IF HasKey(b.node2symbol, id) THEN DataOf(b.node2symbol, id) ELSE Nil

\* A string of the instance replaces the one the node had.
SetSymbol(b, id, s) ==
  LET old == GetSymbol(b, id)
      rest == IF old = Nil THEN b.symbols ELSE Without(b.symbols, old.id)
      row == Row(b.node2symbol, id)
  IN  [b EXCEPT !.symbols = Append(rest, <<Here(b, s), Here(b, id)>>),
                !.node2symbol = IF row = {} THEN Append(@, <<Here(b, id), Here(b, s)>>)
                                ELSE [i \in DOMAIN @ |-> IF i \in row
                                        THEN <<@[i][1], Here(b, s)>> ELSE @[i]]]
GetBySymbol(b, s) == IF HasKey(b.symbols, s) THEN DataOf(b.symbols, s) ELSE Nil

RemoveFromHashTables(b, id, keepSymbol) ==
  LET sym == GetSymbol(b, id)
      drop == ~keepSymbol /\ sym # Nil
  IN  [b EXCEPT !.vars = Without(@, id), !.ufs = Without(@, id),
                !.lambdas = Without(@, id),
                !.parameterized = Without(@, id),
                !.node2symbol = IF drop THEN Without(@, id) ELSE @,
                !.symbols = IF drop THEN Without(@, sym.id) ELSE @]

-----------------------------------------------------------------------------
(* The unique table.                                                        *)

Primes == <<62937, 17393, 4083>>
Mod16(n) == n % 65536

HashBv(e) == FoldSeq(LAMBDA x, y : Mod16(x + y), 0,
                     [i \in DOMAIN e |-> Mod16(Primes[i] * e[i].id)])

\* hash_binder_exp: a walk over the body, where a node that depends on no
\* parameter counts by its signed id.  acc holds the hash, the nodes seen
\* and the free parameters met (collected when wanted).
RECURSIVE HashBody(_, _, _, _)
HashBody(b, param, stack, acc) ==
  IF stack = <<>> THEN acc
  ELSE LET p == Last(stack)
           n == b.nodes[p.id]
           sign == IF p.t = 1 THEN -1 ELSE 1
           kind == KindNumber[n.kind]
           rest == Front(stack)
       IN  IF p.id \in acc.marked THEN HashBody(b, param, rest, acc)
           ELSE IF ~n.par
           THEN HashBody(b, param, rest, [acc EXCEPT !.hash = Mod16(@ + sign * p.id)])
           ELSE IF n.kind = "lambda"
           THEN HashBody(b, param, rest,
                  [acc EXCEPT !.hash = Mod16(@ + DataOf(b.lambdas, p.id) + kind
                                             + KindNumber["param"])])
           ELSE HashBody(b, param, rest \o n.e,
                  [acc EXCEPT !.hash = Mod16(@ + sign * kind), !.marked = @ \cup {p.id},
                     !.params = IF n.kind = "param" /\ p.id # param.id
                                THEN TableAdd(@, p.id) ELSE @])
HashBinder(b, param, body) ==
  HashBody(b, param, <<body>>, [hash |-> 0, marked |-> {}, params |-> NoTable])

\* compute_hash_exp; the constant is the zero of width 1 (btor_bv_hash).
HashOf(b, id) ==
  LET n == b.nodes[id]
  IN  IF n.kind = "const" THEN Primes[1]
      ELSE IF n.kind = "lambda" THEN DataOf(b.lambdas, id)
      ELSE HashBv(n.e)
Slot(hash, size) == (hash % size) + 1

RECURSIVE ChainFrom(_, _)
ChainFrom(b, p) ==
  IF p = Nil THEN <<>> ELSE <<p.id>> \o ChainFrom(b, b.nodes[p.id].chain)
Chain(b, hash) ==
  IF b.chains = <<>> THEN <<>> ELSE ChainFrom(b, b.chains[Slot(hash, Len(b.chains))])

\* The place find_exp returns is the end of the chain when nothing is found.
ChainInsert(b, id, hash) ==
  LET c == Chain(b, hash)
      linked == IF c = <<>>
                THEN [b EXCEPT !.chains[Slot(hash, Len(b.chains))] = Here(b, id)]
                ELSE [b EXCEPT !.nodes[Last(c)].chain = Here(b, id)]
  IN  [linked EXCEPT !.nunique = @ + 1, !.nodes[id].unique = TRUE]

\* enlarge_nodes_unique_table: every chain is taken apart from its head, and
\* each node put in front of its new chain.
RECURSIVE Rehash(_, _)
Rehash(b, ids) ==
  IF ids = <<>> THEN b
  ELSE LET i == Head(ids)
           h == Slot(HashOf(b, i), Len(b.chains))
       IN  Rehash([b EXCEPT !.nodes[i].chain = b.chains[h],
                            !.chains[h] = Here(b, i)], Tail(ids))
Enlarge(b) ==
  LET size == Len(b.chains)
      ids == FlattenSeq([h \in 1..size |-> ChainFrom(b, b.chains[h])])
  IN  Rehash([b EXCEPT !.chains = [h \in 1..(IF size = 0 THEN 1 ELSE 2 * size) |-> Nil]],
             ids)
EnlargeIfFull(b) == IF b.nunique >= Len(b.chains) THEN Enlarge(b) ELSE b

RemoveFromUniqueTable(b, id) ==
  IF ~b.nodes[id].unique THEN b
  ELSE LET h == HashOf(b, id)
           c == Chain(b, h)
           k == CHOOSE i \in DOMAIN c : c[i] = id
           linked == IF k = 1
                     THEN [b EXCEPT !.chains[Slot(h, Len(b.chains))] = b.nodes[id].chain]
                     ELSE [b EXCEPT !.nodes[c[k - 1]].chain = b.nodes[id].chain]
       IN  [linked EXCEPT !.nunique = @ - 1, !.nodes[id].unique = FALSE,
                          !.nodes[id].chain = Nil]

-----------------------------------------------------------------------------
(* Parent lists.  A parent is put in front of the list of its child, an     *)
(* apply at the end.                                                        *)

Tagged(b, parent, pos) == P(b.name, parent, pos)
IsBinder(n) == n.kind = "lambda"

ConnectList(b, parent, pos, child) ==
  LET c == b.nodes[child.id]
      me == Tagged(b, parent, pos)
  IN  CASE c.first = Nil ->
             [b EXCEPT !.nodes[child.id].first = me, !.nodes[child.id].last = me]
        [] c.first # Nil /\ b.nodes[parent].kind # "apply" ->
             [b EXCEPT !.nodes[parent].nextp[pos] = c.first,
                       !.nodes[c.first.id].prev[c.first.t] = me,
                       !.nodes[child.id].first = me]
        [] OTHER ->
             [b EXCEPT !.nodes[parent].prev[pos] = c.last,
                       !.nodes[c.last.id].nextp[c.last.t] = me,
                       !.nodes[child.id].last = me]

ConnectChild(b, parent, pos, child) ==
  ConnectList([b EXCEPT !.nodes[parent].par =
                          @ \/ (~IsBinder(b.nodes[parent]) /\ b.nodes[child.id].par),
                        !.nodes[parent].e = Append(@, child),
                        !.nodes[parent].prev = Append(@, Nil),
                        !.nodes[parent].nextp = Append(@, Nil),
                        !.nodes[child.id].parents = @ + 1,
                        !.nodes[child.id].refs = @ + 1],
              parent, pos, child)

RECURSIVE ConnectChildren(_, _, _)
ConnectChildren(b, parent, e) ==
  IF e = <<>> THEN b
  ELSE ConnectChildren(ConnectChild(b, parent, Len(b.nodes[parent].e) + 1, Head(e)),
                       parent, Tail(e))

\* A parameter that loses its binder is free again.
SetBinder(b, param, binder) == [b EXCEPT !.nodes[param].binder = binder]
Unbind(b, parent, pos) ==
  LET child == b.nodes[parent].e[pos].id
  IN  IF IsBinder(b.nodes[parent]) /\ pos = 1
         /\ b.nodes[child].binder = Here(b, parent)
      THEN SetBinder(b, child, Nil) ELSE b

DisconnectList(b, parent, pos) ==
  LET child == b.nodes[parent].e[pos].id
      c == b.nodes[child]
      me == Tagged(b, parent, pos)
      nxt == b.nodes[parent].nextp[pos]
      prv == b.nodes[parent].prev[pos]
  IN  CASE c.first = me /\ c.last = me ->
             [b EXCEPT !.nodes[child].first = Nil, !.nodes[child].last = Nil]
        [] c.first = me /\ c.last # me ->
             [b EXCEPT !.nodes[child].first = nxt, !.nodes[nxt.id].prev[nxt.t] = Nil]
        [] c.first # me /\ c.last = me ->
             [b EXCEPT !.nodes[child].last = prv, !.nodes[prv.id].nextp[prv.t] = Nil]
        [] OTHER ->
             [b EXCEPT !.nodes[nxt.id].prev[nxt.t] = prv,
                       !.nodes[prv.id].nextp[prv.t] = nxt]

DisconnectChild(b, parent, pos) ==
  LET child == b.nodes[parent].e[pos].id
      out == DisconnectList(Unbind(b, parent, pos), parent, pos)
  IN  [out EXCEPT !.nodes[child].parents = @ - 1,
                  !.nodes[parent].nextp[pos] = Nil, !.nodes[parent].prev[pos] = Nil]

RECURSIVE DisconnectChildren(_, _, _)
DisconnectChildren(b, parent, pos) ==
  IF pos > Len(b.nodes[parent].e) THEN b
  ELSE DisconnectChildren(DisconnectChild(b, parent, pos), parent, pos + 1)

-----------------------------------------------------------------------------
(* Release.                                                                 *)

EraseLocalData(b, id) ==
  [b EXCEPT !.aigs = @ \ {b.nodes[id].av[i].id : i \in DOMAIN b.nodes[id].av},
            !.nodes[id].av = <<>>, !.nodes[id].rho = <<>>]

ReallyDeallocate(b, id) ==
  [ReleaseSort(b, b.nodes[id].sort) EXCEPT !.nodes[id] = NoNode]

Take(b, id) ==
  ReallyDeallocate(
    DisconnectChildren(
      RemoveFromHashTables(EraseLocalData(RemoveFromUniqueTable(b, id), id), id, FALSE),
      id, 1),
    id)

\* recursively_release_exp: the simplified node is released first.
RECURSIVE ReleaseStack(_, _)
ReleaseStack(b, stack) ==
  IF stack = <<>> THEN b
  ELSE LET n == b.nodes[Head(stack).id]
       IN  IF n.refs > 1
           THEN ReleaseStack([b EXCEPT !.nodes[Head(stack).id].refs = @ - 1], Tail(stack))
           ELSE ReleaseStack(
                  Take([b EXCEPT !.nodes[Head(stack).id].simp = Nil], Head(stack).id),
                  (IF n.simp = Nil THEN <<>> ELSE <<n.simp>>) \o n.e \o Tail(stack))
Release(b, p) == ReleaseStack(b, <<p>>)

\* The node stays, without children, and keeps its symbol.
ToProxy(b, id) ==
  LET e == b.nodes[id].e
      out == DisconnectChildren(
               RemoveFromHashTables(EraseLocalData(RemoveFromUniqueTable(b, id), id),
                                    id, TRUE), id, 1)
  IN  ReleaseStack([out EXCEPT !.nodes[id] =
                      [@ EXCEPT !.kind = "proxy", !.e = <<>>, !.prev = <<>>,
                                !.nextp = <<>>, !.par = FALSE, !.body = Nil]], e)
SetSimplified(b, id, p) ==
  ToProxy([b EXCEPT !.nodes[p.id].refs = @ + 1, !.nodes[id].simp = p], id)

-----------------------------------------------------------------------------
(* Creation.                                                                *)

\* setup_node_and_add_to_id_table: the new node is referred to once.
Setup(b, kind, sort) ==
  [b EXCEPT !.nodes = Append(@, [NoNode EXCEPT !.kind = kind, !.sort = sort,
                                               !.refs = 1, !.btor = b.name]),
            !.r = Here(b, Len(b.nodes) + 1)]
Newest(b) == Len(b.nodes)
Named(b, s) == IF s = 0 THEN b ELSE SetSymbol(b, Newest(b), s)

CreateVar(b, sort, s) ==
  LET n == Setup(IncSort(b, sort), "var", sort)
  IN  Named([n EXCEPT !.vars = Append(@, <<n.r, 0>>)], s)
CreateUf(b, sort, s) ==
  LET n == Setup(IncSort(b, sort), "uf", sort)
  IN  Named([n EXCEPT !.ufs = Append(@, <<n.r, 0>>)], s)
CreateParam(b, sort, s) ==
  LET n == Setup(IncSort(b, sort), "param", sort)
  IN  Named([n EXCEPT !.nodes[Newest(n)].par = TRUE], s)

\* The zero of width 1; true is its inversion.
NewConst(b) == ChainInsert(Setup(b, "const", b.r), Newest(b) + 1, Primes[1])
CreateTrue(b) ==
  LET n == NewConst(EnlargeIfFull(SortBool(b)))
  IN  [n EXCEPT !.r = Invert(Here(n, Newest(n)))]

\* SORT_EXP: the operands of a conjunction in the order of their ids.
Sorted(kind, e) ==
  IF kind = "and" /\ e[1].id > e[2].id THEN <<e[2], e[1]>> ELSE e

FindBv(b, kind, e) ==
  SelectSeq(Chain(b, HashBv(e)), LAMBDA i : b.nodes[i].kind = kind /\ b.nodes[i].e = e)

\* compare_binder_exp: the body of a new binder, with its parameter replaced
\* by the one of an existing binder, rebuilt from nodes that exist.
RECURSIVE Replaced(_, _, _)
Replaced(b, p, map) ==
  LET n == b.nodes[p.id]
  IN  IF ~n.par THEN p
      ELSE IF n.kind = "param"
      THEN CondInvert(p, IF p.id \in DOMAIN map THEN map[p.id] ELSE RealAddr(p))
      ELSE LET e == [i \in DOMAIN n.e |-> Replaced(b, n.e[i], map)]
               found == IF \E i \in DOMAIN e : e[i] = Nil THEN <<>>
                        ELSE FindBv(b, n.kind, Sorted(n.kind, e))
           IN  IF found = <<>> THEN Nil ELSE CondInvert(p, Here(b, Head(found)))

\* The parameters and the body below nested binders.
RECURSIVE Bound(_, _)
Bound(b, p) ==
  IF IsBinder(b.nodes[p.id])
  THEN <<b.nodes[p.id].e[1]>> \o Bound(b, b.nodes[p.id].e[2]) ELSE <<>>
BodyOf(b, p) == IF IsBinder(b.nodes[p.id]) THEN b.nodes[p.id].body ELSE p

EqualBinder(b, param, body, id) ==
  LET other == b.nodes[id]
      mine == <<param>> \o Bound(b, body)
      its == Bound(b, Here(b, id))
  IN  /\ Len(mine) = Len(its)
      /\ \A i \in DOMAIN mine : b.nodes[mine[i].id].sort = b.nodes[its[i].id].sort
      /\ b.nodes[body.id].sort = b.nodes[other.e[2].id].sort
      /\ Replaced(b, BodyOf(b, body),
                  [k \in {mine[i].id : i \in DOMAIN mine} |->
                     its[CHOOSE i \in DOMAIN mine : mine[i].id = k]]) = other.body

FindBinder(b, param, body, hash) ==
  SelectSeq(Chain(b, hash),
    LAMBDA i : /\ b.nodes[i].kind = "lambda"
               /\ \/ b.nodes[i].e = <<param, body>>
                  \/ ~b.nodes[i].par /\ EqualBinder(b, param, body, i))

\* The sort of a new node: its reference is the one Setup hands to the node.
SortOfNew(b, kind, e) ==
  CASE kind = "apply" -> CopySort(b, FunCodomain(b, b.nodes[e[1].id].sort))
    [] kind = "args" -> SortTuple(b, [i \in DOMAIN e |-> b.nodes[e[i].id].sort])
    [] OTHER -> CopySort(b, b.nodes[e[1].id].sort)
NewNode(b, kind, e) == ConnectChildren(Setup(b, kind, b.r), Newest(b) + 1, e)

\* A found node is handed out once more, and what stands for it returned.
Found(b, id) ==
  LET simp == Simplified(b, Here(b, id))
      taken == [b EXCEPT !.nodes[id].refs = @ + 1]
  IN  IF simp = Here(b, id) THEN [taken EXCEPT !.r = simp]
      ELSE Release(Copy(taken, simp), Here(b, id))

Inserted(b, hash) == [ChainInsert(b, Newest(b), hash) EXCEPT !.r = Here(b, Newest(b))]
CreateExp(b, kind, e) ==
  LET found == FindBv(b, kind, e)
  IN  IF found # <<>> THEN Found(b, Head(found))
      ELSE Inserted(NewNode(SortOfNew(EnlargeIfFull(b), kind, e), kind, e), HashBv(e))

CreateAnd(b, p, q) ==
  CreateExp(b, "and", Sorted("and", <<Simplified(b, p), Simplified(b, q)>>))
CreateArgs(b, args) ==
  CreateExp(b, "args", [i \in DOMAIN args |-> Simplified(b, args[i])])
CreateApply(b, fun, args) ==
  CreateExp(b, "apply", <<Simplified(b, fun), Simplified(b, args)>>)

\* new_lambda_exp_node: a lambda over a lambda takes the table of the free
\* parameters of the inner one, without its own.
TakeParams(b, id, param, body) ==
  IF ~(IsKind(b, body, "lambda") /\ HasKey(b.parameterized, body.id)) THEN b
  ELSE LET left == TableRemove(DataOf(b.parameterized, body.id), param.id)
           moved == [b EXCEPT !.parameterized = Without(@, body.id)]
       IN  IF left.count > 0
           THEN [moved EXCEPT !.parameterized = Append(@, <<Here(b, id), left>>),
                              !.nodes[id].par = TRUE]
           ELSE moved
\* The free parameters that hash_binder_exp has met.
GiveParams(b, id, body, params) ==
  IF IsKind(b, body, "lambda") \/ params.count = 0 THEN b
  ELSE [b EXCEPT !.parameterized = Append(@, <<Here(b, id), params>>),
                 !.nodes[id].par = TRUE]

\* The domain is a tuple that only the new sort holds.
FunOver(t, cod) == ReleaseSort(SortFun(t, t.r, cod), t.r)
LambdaSort(b, param, body) ==
  LET s == b.nodes[body.id].sort
      inner == IF IsKind(b, body, "lambda")
               THEN TupleElements(b, FunDomain(b, s)) ELSE <<>>
  IN  FunOver(SortTuple(b, <<b.nodes[param.id].sort>> \o inner),
              b.nodes[BodyOf(b, body).id].sort)
BodySet(b, id, param, body) ==
  [SetBinder(b, param.id, Here(b, id)) EXCEPT
     !.nodes[id].body = Simplified(b, BodyOf(b, body))]
NewLambda(b, param, body, h) ==
  GiveParams(
    TakeParams(
      BodySet(NewNode(LambdaSort(b, param, body), "lambda", <<param, body>>),
              Newest(b) + 1, param, body),
      Newest(b) + 1, param, body),
    Newest(b) + 1, body, h.params)
Hashed(b, hash) == [b EXCEPT !.lambdas = Append(@, <<Here(b, Newest(b)), hash>>)]
CreateLambda(b, param, body) ==
  LET h == HashBinder(b, param, body)
      found == FindBinder(b, param, body, h.hash)
  IN  IF found # <<>> THEN Found(b, Head(found))
      ELSE Inserted(Hashed(NewLambda(EnlargeIfFull(b), param, body, h), h.hash), h.hash)

=============================================================================
