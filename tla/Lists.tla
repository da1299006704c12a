------------------------------- MODULE Lists -------------------------------
(***************************************************************************)
(* What the analysis of mirador-rca and the processors of the aggregator   *)
(* do with lists alike: sort them and add them up.                         *)
(***************************************************************************)
EXTENDS Integers, FiniteSets, Sequences

(* sort.SliceStable, and sort.Slice too: an insertion sort up to twelve     *)
(* elements, which is as many as there are here.                            *)
Sorted(s, Before(_, _)) ==
  LET Ahead(i, j) == Before(s[i], s[j]) \/ (~Before(s[j], s[i]) /\ i < j)
  IN [k \in DOMAIN s |->
        s[CHOOSE i \in DOMAIN s : Cardinality({j \in DOMAIN s : Ahead(j, i)}) = k - 1]]

(* A loop that adds up.                                                     *)
SumOf(s) ==
  LET upto[k \in 0 .. Len(s)] == IF k = 0 THEN 0 ELSE upto[k - 1] + s[k]
  IN upto[Len(s)]

(* The member of the set of numbers that has n - 1 others before it.        *)
Nth(set, n) == CHOOSE k \in set : Cardinality({j \in set : j < k}) = n - 1
=============================================================================
