--------------------------- MODULE MCBtorPropagate ---------------------------
EXTENDS BtorPropagate

(* Functions: a and b are uninterpreted, u = write (a, i, e),               *)
(* q = ite (c, w, a), w = write (u, j, aj) and                              *)
(* m = lambda x . ite (x = i, u (x), n).                                    *)
(* Applies: e = b (i), n = b (j), aj = a (j), qi = q (i), mn = m (n);       *)
(* the formula contains aj, qi and mn, and aj is an element of w as well.   *)
(* Every assignment is tried, as there may have been lemmas for all.        *)
Nested ==
  [var |-> {"c", "i", "j"},
   funOf |-> [e |-> "b", n |-> "b", qi |-> "q", aj |-> "a", mn |-> "m"],
   argOf |-> [e |-> "i", n |-> "j", qi |-> "i", aj |-> "j", mn |-> "n"],
   kind |-> [a |-> "uf", b |-> "uf", u |-> "update", w |-> "update", q |-> "cond", m |-> "lambda"],
   base |-> [u |-> "a", w |-> "u", m |-> "u"],
   idx |-> [u |-> "i", w |-> "j", m |-> "i"],
   elem |-> [u |-> "e", w |-> "aj", m |-> "n"],
   condOf |-> [q |-> "c"], then |-> [q |-> "w"], else |-> [q |-> "a"],
   feq |-> <<>>, root |-> {"qi", "aj", "mn"}, synth |-> {"e", "n", "qi", "aj", "mn"},
   eager |-> {"NONE", "CONF", "ALL"}, again |-> FALSE]

(* The equality eq of h = ite (c, u, b) and b, with u = write (a, i, e); x  *)
(* is the variable of its inequality constraint.  The applies on i come     *)
(* with the lemmas.                                                         *)
Equal ==
  [var |-> {"c", "i", "e", "x"},
   funOf |-> [hx |-> "h", bx |-> "b", hi |-> "h", bi |-> "b"],
   argOf |-> [hx |-> "x", bx |-> "x", hi |-> "i", bi |-> "i"],
   kind |-> [a |-> "uf", b |-> "uf", u |-> "update", h |-> "cond"],
   base |-> [u |-> "a"], idx |-> [u |-> "i"], elem |-> [u |-> "e"],
   condOf |-> [h |-> "c"], then |-> [h |-> "u"], else |-> [h |-> "b"],
   feq |-> [eq |-> [l |-> "h", r |-> "b", arg |-> "x"]],
   root |-> {"hx", "bx"}, synth |-> {"hx", "bx"}, eager |-> {"CONF"}, again |-> TRUE]

MCGraphs == {Nested, Equal}
=============================================================================
