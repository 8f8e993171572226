----------------------------- MODULE Selections ------------------------------
(***************************************************************************)
(* The elements of a sequence at a set of positions, in their order: what a *)
(* filtering loop or comprehension of the code leaves.  (No fact about      *)
(* SelectSeq is available to the proofs; here the k-th element that is kept *)
(* is the one with k - 1 of the positions before it.)                       *)
(***************************************************************************)
EXTENDS Naturals, Sequences, FiniteSets

Before(S, i) == {j \in S : j < i}
Place(S, k) == {i \in S : Cardinality(Before(S, i)) = k - 1}
Kept(seq, S) == [k \in 1..Cardinality(S) |-> seq[CHOOSE i \in Place(S, k) : TRUE]]
=============================================================================
