------------------------------- MODULE Values -------------------------------
(***************************************************************************)
(* What all modules of one check share.  An optional value is a set of at  *)
(* most one element.                                                       *)
(***************************************************************************)
EXTENDS Integers, Sequences, SequencesExt

IsList(q) == q \in Seq(Range(q))

OrElse(a, b) == IF a # {} THEN a ELSE b

Over(m, limit)  == \E x \in m : x > limit
Under(m, limit) == \E x \in m : x < limit

\* |a - b|
Distance(a, b) == IF a < b THEN b - a ELSE a - b

Least(a, b)    == IF a < b THEN a ELSE b
Greatest(a, b) == IF a < b THEN b ELSE a

Smallest(S) == {x \in S : \A y \in S : x <= y}
Largest(S)  == {x \in S : \A y \in S : y <= x}

\* The elements of q at the places in I, in their order.
Only(q, I) ==
  LET upTo[n \in 0 .. Len(q)] ==
        IF n = 0 THEN <<>> ELSE IF n \in I THEN Append(upTo[n - 1], q[n]) ELSE upTo[n - 1]
  IN  upTo[Len(q)]

\* The lower median.
Median(q) == Smallest({x \in Range(q) : 2 * Len(SelectSeq(q, LAMBDA y : y <= x)) >= Len(q)})

SumOf(q) == FoldLeft(LAMBDA a, b : a + b, 0, q)
=============================================================================
