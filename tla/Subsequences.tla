---------------------------- MODULE Subsequences ----------------------------
(***************************************************************************)
(* What is left of a sequence when the rest is left out: for a set, where  *)
(* SelectSeq asks for an operator.                                         *)
(***************************************************************************)
EXTENDS Sequences, SequencesExt

\* The elements of seq that are in S, in their order.
Among(seq, S) == FlattenSeq([i \in DOMAIN seq |-> IF seq[i] \in S THEN <<seq[i]>> ELSE <<>>])
=============================================================================
