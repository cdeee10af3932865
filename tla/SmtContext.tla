----------------------------- MODULE SmtContext -----------------------------
(***************************************************************************)
(* What an incremental SMT solver promises its user, without stacks,       *)
(* caches, simplification or validity flags.                               *)
(*                                                                         *)
(*   base     the worlds left by what was asserted for good                *)
(*   frames   for each open level, everything asserted at levels 1 up to it *)
(*   pending  the assumptions made since the last check                    *)
(*   used     the assumptions of the last check, until the next change     *)
(*   verdict  the answer of the last check                                 *)
(***************************************************************************)
EXTENDS Integers, Sequences

CONSTANTS Exp, World, Den

VARIABLES base, frames, pending, used, verdict

vars == <<base, frames, pending, used, verdict>>

Models(S) == {w \in World : \A e \in S : w \in Den[e]}

\* Everything asserted above level 0.
Top == IF frames = <<>> THEN {} ELSE frames[Len(frames)]

Init ==
  /\ base = World /\ frames = <<>>
  /\ pending = {} /\ used = {} /\ verdict = "UNKNOWN"

Push(n) ==
  /\ frames' = frames \o [i \in 1..n |-> Top]
  /\ UNCHANGED <<base, pending, used, verdict>>

Pop(n) ==
  /\ n \in 1..Len(frames)
  /\ frames' = SubSeq(frames, 1, Len(frames) - n)
  /\ UNCHANGED <<base, pending, used, verdict>>

AssertTop(e) ==
  /\ frames # <<>>
  /\ frames' = [frames EXCEPT ![Len(frames)] = @ \cup {e}]
  /\ UNCHANGED <<base, pending, used, verdict>>

AssertBase(e) ==
  /\ frames = <<>>
  /\ base' = base \cap Den[e]
  /\ used' = {}
  /\ UNCHANGED <<frames, pending, verdict>>

Assume(e) ==
  /\ pending' = pending \cup {e}
  /\ used' = {}
  /\ UNCHANGED <<base, frames, verdict>>

Reset ==
  /\ pending' = {} /\ used' = {}
  /\ UNCHANGED <<base, frames, verdict>>

\* What the user assumed is asserted for good; open levels stay open.
Fixate ==
  /\ base' = base \cap Models(pending \cup used)
  /\ pending' = {} /\ used' = {}
  /\ UNCHANGED <<frames, verdict>>

Forget ==
  /\ used' = {}
  /\ UNCHANGED <<base, frames, pending, verdict>>

Check ==
  /\ verdict' \in {"SAT", "UNSAT", "UNKNOWN"}
  /\ LET worlds == base \cap Models(Top \cup pending)
     IN /\ verdict' = "SAT" => worlds # {}
        /\ verdict' = "UNSAT" => worlds = {}
  /\ used' = pending
  /\ pending' = {}
  /\ UNCHANGED <<base, frames>>

Next ==
  \/ \E n \in 1..(Len(frames') - Len(frames)) : Push(n)
  \/ \E n \in 1..Len(frames) : Pop(n)
  \/ \E e \in Exp : AssertTop(e) \/ AssertBase(e) \/ Assume(e)
  \/ Reset \/ Fixate \/ Forget \/ Check

Spec == Init /\ [][Next]_vars
=============================================================================
