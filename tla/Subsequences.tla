---------------------------- MODULE Subsequences ----------------------------
(* What is left of a sequence when only the elements at some positions are  *)
(* kept, in their order.  It is SelectSeq with a set of positions for the   *)
(* test, so that facts about it can be stated for any test.                 *)
EXTENDS Naturals, Sequences, FiniteSets

(* The x-th smallest of a set of positions. *)
Nth(x, S) == CHOOSE q \in S : Cardinality({y \in S : y <= q}) = x

Subsequence(s, S) == [x \in 1 .. Cardinality(S) |-> s[Nth(x, S)]]

=============================================================================
