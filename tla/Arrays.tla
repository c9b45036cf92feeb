------------------------------- MODULE Arrays -------------------------------
(***************************************************************************)
(* A function on JavaScript arrays that the pages of the workbench use in  *)
(* many places.                                                            *)
(***************************************************************************)
EXTENDS Naturals, Sequences, SequencesExt, FiniteSets

\* Array.filter: the elements of s that are in T, in their order.  (This is
\* SelectSeq, told by the places of the elements and not by recursion: the
\* k-th one is the one up to which there are k.)
Until(s, T, i) == Cardinality({j \in 1..i : s[j] \in T})
Only(s, T) ==
  [k \in 1..Until(s, T, Len(s)) |->
     s[CHOOSE i \in DOMAIN s : s[i] \in T /\ Until(s, T, i) = k]]

\* The sum of the first n of the numbers f[1], f[2], ...
SumUpTo(f, n) ==
  LET sum[i \in 0..n] == IF i = 0 THEN 0 ELSE sum[i - 1] + f[i] IN sum[n]

=============================================================================
