------------------------------ MODULE Ordering ------------------------------
(***************************************************************************)
(* Python's order on tuples of integers, and sorting a set by such a key.  *)
(***************************************************************************)
EXTENDS Integers, FiniteSets, SequencesExt

Before(s, t) == \E i \in 1..Len(s) : s[i] < t[i] /\ \A j \in 1..(i - 1) : s[j] = t[j]

\* The elements of S by ascending key, a function on S that tells them apart.
SortedBy(S, key) ==
  LET place == [x \in S |-> 1 + Cardinality({y \in S : Before(key[y], key[x])})]
  IN [i \in 1..Cardinality(S) |-> CHOOSE x \in S : place[x] = i]

\* seq[offset : offset + size]
Slice(seq, offset, size) == SubSeq(seq, offset + 1, Min({Len(seq), offset + size}))
=============================================================================
