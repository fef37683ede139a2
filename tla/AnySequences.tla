---------------------------- MODULE AnySequences ----------------------------
(* Sequences of elements that need not have a common type. *)
EXTENDS Naturals, Sequences, SequencesExt

IsSequence(s) == Len(s) \in Nat /\ s = [n \in 1 .. Len(s) |-> s[n]]

\* The sum of a sequence of numbers.
Total(w) == FoldLeft(LAMBDA m, n : m + n, 0, w)
=============================================================================
