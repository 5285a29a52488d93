------------------------------- MODULE Picking -------------------------------
(***************************************************************************)
(* Filtering a sequence by place, as Array.prototype.filter does in the    *)
(* source, without recursion.                                              *)
(***************************************************************************)
EXTENDS Naturals, Sequences, FiniteSets

\* The elements of s at the places K, in order.
Picked(s, K) ==
  [i \in 1..Cardinality(K) |-> s[CHOOSE k \in K : Cardinality({j \in K : j <= k}) = i]]
=============================================================================
