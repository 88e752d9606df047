------------------------------- MODULE Selection -------------------------------
(***************************************************************************)
(* Some elements of a sequence, by their positions: what SelectSeq gives,  *)
(* in a form that can be proved about.                                     *)
(***************************************************************************)
EXTENDS Integers, Sequences, FiniteSets

\* The position in a set of positions that has k of them up to itself.
Nth(kept, k) == CHOOSE n \in kept : Cardinality({m \in kept : m <= n}) = k

\* What a sequence has at some positions, in the same order.
Selected(seq, kept) == [k \in 1 .. Cardinality(kept) |-> seq[Nth(kept, k)]]

================================================================================
