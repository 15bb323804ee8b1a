------------------------------- MODULE Filter -------------------------------
(* A list comprehension with a condition.                                  *)
EXTENDS SequencesExt

(* The members of keep among the elements of seq, in their order.          *)
Kept(seq, keep) ==
  FlattenSeq([i \in 1..Len(seq) |-> IF seq[i] \in keep THEN <<seq[i]>> ELSE <<>>])
=============================================================================
