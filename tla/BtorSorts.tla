----------------------------- MODULE BtorSorts -----------------------------
(***************************************************************************)
(* The sorts of an instance (btorsort.c).  Sorts are hash consed and       *)
(* reference counted; a sort holds its component sorts through pointers,   *)
(* everything else names a sort by its id.  The operators take an instance *)
(* b and return it as the call leaves it, with the value the call returns  *)
(* in b.r.  The hash chains of the table are left out: a sort is found by  *)
(* equal_sort.                                                             *)
(***************************************************************************)
EXTENDS Integers, Sequences, FiniteSets, SequencesExt

\* A pointer: the instance whose memory it leads to, the object there, and
\* the tag kept in its low bits (an inversion, or the position of a child).
P(o, id, t) == [o |-> o, id |-> id, t |-> t]
Nil == P("nil", 0, 0)
Here(b, id) == P(b.name, id, 0)

NoSort == [kind |-> "none", width |-> 0, elems |-> <<>>, refs |-> 0, ext |-> 0,
           is_array |-> FALSE]
Pattern(kind, width, elems) ==
  [NoSort EXCEPT !.kind = kind, !.width = width, !.elems = elems]

IncSort(b, i) == [b EXCEPT !.sorts[i].refs = @ + 1]
CopySort(b, i) == [IncSort(b, i) EXCEPT !.r = i]

EqualSort(s, p) == s.kind = p.kind /\ s.width = p.width
                   /\ [i \in DOMAIN s.elems |-> s.elems[i].id]
                      = [i \in DOMAIN p.elems |-> p.elems[i].id]

RECURSIVE IncSorts(_, _)
IncSorts(b, elems) ==
  IF elems = <<>> THEN b ELSE IncSorts(IncSort(b, Head(elems).id), Tail(elems))

CreateSort(b, p) ==
  [IncSorts(b, p.elems) EXCEPT !.sorts = Append(@, [p EXCEPT !.refs = 1]),
                               !.r = Len(b.sorts) + 1]

\* What btor_sort_bv, btor_sort_fun and btor_sort_tuple share.
FindSort(b, p) ==
  LET found == {i \in DOMAIN b.sorts : EqualSort(b.sorts[i], p)}
  IN  IF found # {} THEN CopySort(b, CHOOSE i \in found : TRUE)
      ELSE CreateSort(b, p)

\* release_sort, the sorts still to be released on a stack.
RECURSIVE ReleaseSorts(_, _)
ReleaseSorts(b, elems) ==
  IF elems = <<>> THEN b
  ELSE LET i == Head(elems).id
           s == b.sorts[i]
       IN  IF s.refs > 1
           THEN ReleaseSorts([b EXCEPT !.sorts[i].refs = @ - 1], Tail(elems))
           ELSE ReleaseSorts([b EXCEPT !.sorts[i] = NoSort], s.elems \o Tail(elems))
ReleaseSort(b, i) == ReleaseSorts(b, <<Here(b, i)>>)

SortBv(b, w) == FindSort(b, Pattern("bv", w, <<>>))
SortBool(b) == SortBv(b, 1)
SortTuple(b, ids) ==
  FindSort(b, Pattern("tuple", 0, [i \in DOMAIN ids |-> Here(b, ids[i])]))
SortFun(b, dom, cod) ==
  FindSort(b, Pattern("fun", 0, <<Here(b, dom), Here(b, cod)>>))

\* The function sort is marked as an array sort, also when it existed before.
MarkArray(f, tuple) ==
  [ReleaseSort(f, tuple) EXCEPT !.sorts[f.r].is_array = TRUE]
ArrayOver(t, el) == MarkArray(SortFun(t, t.r, el), t.r)
SortArray(b, idx, el) == ArrayOver(SortTuple(b, <<idx>>), el)

-----------------------------------------------------------------------------
(* What a sort can be asked.                                                *)

SortWidth(b, i) == b.sorts[i].width
TupleArity(b, i) == Len(b.sorts[i].elems)
FunDomain(b, i) == b.sorts[i].elems[1].id
FunCodomain(b, i) == b.sorts[i].elems[2].id
FunArity(b, i) == TupleArity(b, FunDomain(b, i))
ArrayIndex(b, i) == b.sorts[FunDomain(b, i)].elems[1].id
SortIsValid(b, i) == i \in DOMAIN b.sorts /\ b.sorts[i].kind # "none"
SortIsBv(b, i) == b.sorts[i].kind = "bv"
SortIsBool(b, i) == SortIsBv(b, i) /\ SortWidth(b, i) = 1
SortIsFun(b, i) == b.sorts[i].kind = "fun"

\* The sorts of the elements of a tuple, in order.
TupleElements(b, i) ==
  [j \in DOMAIN b.sorts[i].elems |-> b.sorts[i].elems[j].id]

=============================================================================
