---------------------------- MODULE SeqRecursion ----------------------------
(***************************************************************************)
(* What is computed along a sequence, from its first element to its last:  *)
(* a comprehension with a condition, and a sum.                            *)
(***************************************************************************)
EXTENDS Integers, Sequences

\* The elements of q at the positions in K, in order.
Selected(q, K) ==
    LET upTo[n \in 0..Len(q)] ==
          IF n = 0 THEN <<>>
          ELSE IF n \in K THEN Append(upTo[n - 1], q[n]) ELSE upTo[n - 1]
    IN  upTo[Len(q)]

Total(q) ==
    LET upTo[n \in 0..Len(q)] == IF n = 0 THEN 0 ELSE upTo[n - 1] + q[n]
    IN  upTo[Len(q)]
=============================================================================
