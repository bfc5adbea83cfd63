------------------------------ MODULE Listing ------------------------------
(* Sets put in order, parts of sequences, and sums.                           *)
EXTENDS Integers, Sequences, FiniteSets, SequencesExt

AtMost(m, n) == IF m < n THEN m ELSE n
AtLeast(m, n) == IF m > n THEN m ELSE n

\* The members of S, each behind those that come before it.
Ranked(S, Before(_, _)) ==
  [n \in 1..Cardinality(S) |-> CHOOSE i \in S : Cardinality({j \in S : Before(j, i)}) = n - 1]
Ascending(S) == Ranked(S, <)
\* What stands at some places of a sequence, in its order.
Those(s, at) == LET place == Ascending(at) IN [n \in DOMAIN place |-> s[place[n]]]
Total(numbers) == FoldLeft(LAMBDA sum, x : sum + x, 0, numbers)
=============================================================================
