-------------------------- MODULE MCFractalEngine --------------------------
(* A task of three steps: 1 is expandable into 4, 2 and 3 are terminal, 5   *)
(* replaces 1 and 6 replaces 4 when they fail, 7 is what a reflection adds. *)
(* With two permits, node 4 competes with 2 and 3 for the one that its      *)
(* parent leaves.                                                           *)
EXTENDS FractalEngine

MCNode     == 1..7
MCParent   == <<0, 0, 0, 1, 0, 1, 0>>
MCMarked   == {2, 3, 4, 5, 6, 7}
MCFallback == [c \in {5, 6} |-> IF c = 5 THEN 1 ELSE 4]
MCSuggested == {7}
=============================================================================
