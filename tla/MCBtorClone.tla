---------------------------- MODULE MCBtorClone ----------------------------
(***************************************************************************)
(* Programs of a user for BtorClone.  Node 1 is the constant, sort 1 the   *)
(* Booleans; the ids in a program are those its own calls return.          *)
(***************************************************************************)
EXTENDS BtorClone

C(op, a) == [op |-> op, a |-> a]

\* Constraints, assumptions, assignments, symbols.
Formulas ==
  <<C("bool_sort", <<>>), C("var", <<1, 1>>), C("var", <<1, 0>>), C("and", <<2, -3>>),
    C("assert", <<-4>>), C("sat", <<"sat", 4>>), C("bv_assignment", <<2>>),
    C("set_symbol", <<3, 2>>), C("assume", <<-4>>), C("sat", <<"unsat", 0>>),
    C("free_bv_assignment", <<2>>), C("match_by_symbol", <<1>>), C("release_all", <<>>)>>

\* An uninterpreted function, its applies and their values.
Functions ==
  <<C("bool_sort", <<>>), C("fun_sort", <<<<1>>, 1>>), C("uf", <<3, 3>>),
    C("var", <<1, 0>>), C("apply", <<2, <<3>>>>), C("assume", <<-5>>),
    C("sat", <<"sat", 3>>), C("release_sort", <<3>>), C("copy", <<2>>),
    C("apply", <<2, <<-3>>>>)>>

\* Two functions of the user that are one up to the name of a parameter, and
\* one with a free parameter whose id is beyond the slots a clone copies.
LambdaTerms ==
  <<C("bool_sort", <<>>), C("param", <<1, 1>>), C("var", <<1, 0>>), C("and", <<2, 3>>),
    C("fun", <<<<2>>, 4>>), C("param", <<1, 2>>), C("and", <<6, 3>>),
    C("fun", <<<<6>>, 7>>), C("apply", <<5, <<3>>>>), C("param", <<1, 0>>),
    C("and", <<6, 10>>), C("fun", <<<<6>>, 11>>)>>

\* Sorts of several widths, an array, a function of two parameters.
ArraysAndSorts ==
  <<C("bitvec_sort", <<2>>), C("bool_sort", <<>>), C("array_sort", <<2, 1>>),
    C("copy_sort", <<2>>), C("array", <<4, 1>>), C("var", <<2, 0>>),
    C("apply", <<2, <<3>>>>), C("assert", <<-5>>), C("match_by_id", <<2>>),
    C("param", <<1, 0>>), C("param", <<1, 0>>), C("and", <<6, -7>>),
    C("fun", <<<<6, 7>>, 8>>), C("release_sort", <<2>>), C("sat", <<"sat", 0>>)>>

MCPrograms == {Formulas, Functions, LambdaTerms, ArraysAndSorts}
=============================================================================
