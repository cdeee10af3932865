----------------------------- MODULE MCBtorQuant ----------------------------
(* The quantifier engine on formulas over one-bit and two-bit variables.    *)
EXTENDS BtorQuantSolver

P(n) == Param(n, 1)
V(n) == Var(n, 1)
P2(n) == Param(n, 2)
Not(t) == Invert(t)
Or(s, t) == Not(AndExp(Not(s), Not(t)))
Xor(s, t) == Not(EqExp(s, t))
Forall(p, t) == CreateQuantifier("forall", p, t)
Exist(p, t) == CreateQuantifier("exists", p, t)

\* Two alternations: y1 sees x1, y2 sees x1 and x2; the second has no answer.
Game == <<Forall(P(1), Exist(P(2), Forall(P(3), Exist(P(4),
            AndExp(Or(Xor(P(1), P(2)), V(5)), Or(Xor(P(3), P(4)), AndExp(P(2), V(5))))))))>>
LostGame == <<Forall(P(1), Exist(P(2), Forall(P(3),
                AndExp(Or(P(2), P(3)), Or(Not(P(2)), AndExp(P(1), Not(P(3))))))))>>

\* Two existential variables whose terms depend on each other's.
Joint == <<Forall(P(1), Exist(P(2), Exist(P(3),
             AndExp(Or(Xor(P(2), P(3)), P(1)), Or(EqExp(P(2), P(3)), Not(P(1)))))))>>

\* A universal variable is refuted only by a term over an existential one.
Chase == <<Exist(P2(1), Forall(P2(2), Or(Create("ult", P2(2), P2(1)),
                                         Create("ult", P2(1), Create("add", P2(2), Const(2, 2))))))>>
Wide == <<Forall(P2(1), Exist(P2(2), EqExp(AndExp(P2(1), P2(2)), Const(2, 1))))>>

\* Equations that define a variable, below and outside a negation.
Defined == <<Forall(P(1), Or(Xor(P(1), V(5)), AndExp(P(1), V(6)))),
             Exist(P(2), AndExp(EqExp(P(2), V(6)), Or(P(2), V(7))))>>

\* Quantifiers in equations, under negations, and in a condition.
Shared == <<EqExp(Forall(P(1), Or(P(1), V(5))), Exist(P(2), AndExp(P(2), V(6)))),
            Not(Forall(P(3), Or(P(3), V(6))))>>
Choice == <<EqExp(CreateCond(Forall(P(1), Or(P(1), V(5))), V(6), V(7)), Xor(V(5), V(7)))>>

\* A quantifier met twice with the same polarity: below disjunctions; with its
\* negation pushed in, where it is misread; a Boolean equality met twice; and a
\* conditional below a negated quantifier, which is misread as well.
Less(s, t) == Create("ult", s, t)
All == Forall(P(1), Or(P(1), V(5)))
Never == Forall(P2(1), AndExp(Less(P2(1), Const(2, 1)), Less(Const(2, 2), P2(1))))
Twice == <<AndExp(Or(Never, V(6)), Or(Never, V(5)))>>
Negated == <<Forall(P(2), Or(AndExp(Not(Never), P(2)), AndExp(Not(Never), Not(P(2)))))>>
Iff == EqExp(All, V(6))
SharedIff == <<AndExp(Or(Iff, V(5)), Or(Iff, Not(V(5))))>>
NegatedChoice == <<Not(Forall(P(2), Or(CreateCond(All, V(5), V(6)), P(2)))), All, V(6)>>

\* No universal variable: some x is false, and true.
Ground == <<Not(Forall(P(1), Or(P(1), Not(AndExp(P(1), V(5))))))>>

Defaults == [dual |-> TRUE, synth |-> "elmr", fixsynth |-> TRUE, complete |-> TRUE, qi |-> TRUE,
             miniscope |-> TRUE, der |-> TRUE, cer |-> TRUE]
Plain == [Defaults EXCEPT !.miniscope = FALSE, !.der = FALSE, !.cer = FALSE]
Alone == [Plain EXCEPT !.dual = FALSE]

\* The formulas the two threads race on, and those of one thread alone.
Tried(inputs, settings) == {[input |-> i, opts |-> o] : i \in inputs, o \in settings}
MCProblems ==
  Tried({Game, LostGame, Joint, Defined, Ground, Choice}, {Defaults}) \union
  Tried({LostGame, Joint},
        {[Plain EXCEPT !.synth = "none", !.complete = FALSE, !.qi = FALSE],
         [Plain EXCEPT !.synth = "el_elmc"]}) \union
  Tried({Chase, Wide},
        {Alone, [Alone EXCEPT !.synth = "elmc"], [Defaults EXCEPT !.dual = FALSE]}) \union
  Tried({Twice}, {Defaults}) \union
  Tried({Negated, SharedIff, NegatedChoice}, {Alone}) \union
  Tried({Chase, Wide, Shared, Twice, Choice, Ground},
        {[Alone EXCEPT !.synth = "el", !.fixsynth = FALSE, !.qi = FALSE],
         [Defaults EXCEPT !.dual = FALSE, !.qi = FALSE]})

\* A universal variable that can be moved below an existential one's scope.
Moved == <<Forall(P(1), Exist(P(2), AndExp(AndExp(Or(P(2), V(5)), EqExp(P(1), P(2))), V(6))))>>
MiniscopeProblems == Tried({Moved}, {Defaults})
=============================================================================
