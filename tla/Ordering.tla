------------------------------ MODULE Ordering ------------------------------
(***************************************************************************)
(* The elements of a finite set in their order.  The order is a set of     *)
(* pairs <<x, y>>, of an x that comes before a y; an element has the place *)
(* that the number of those before it leaves.                              *)
(***************************************************************************)
EXTENDS Integers, FiniteSets

Ordered(S, before) ==
  [i \in 1 .. Cardinality(S) |->
     CHOOSE x \in S : Cardinality({y \in S : <<y, x>> \in before}) = i - 1]

\* Numbers from the lowest up.
Upward(S) == Ordered(S, {p \in S \X S : p[1] < p[2]})

\* The elements of a sequence at the given places, in their order.
Picked(seq, places) == [n \in DOMAIN Upward(places) |-> seq[Upward(places)[n]]]
=============================================================================
