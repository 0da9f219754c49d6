---------------------------- MODULE Subsequence ----------------------------
(***************************************************************************)
(* Filtering a sequence by position (what retain, filter and filter_map of *)
(* Vec and Iterator do), without recursion.                                *)
(***************************************************************************)
EXTENDS Integers, FiniteSets, Sequences

\* The j-th smallest element of a finite set K of integers.
Nth(K, j) == CHOOSE k \in K : Cardinality({x \in K : x <= k}) = j

\* The elements of s at the indices K, in order.
Keep(s, K) == [j \in 1..Cardinality(K) |-> s[Nth(K, j)]]
=============================================================================
