------------------------------ MODULE MCStages -------------------------------
(* Stages for TLC: requests, images and problems are interchangeable.      *)
EXTENDS Stages, TLC

Symmetry == Permutations(Reqs) \cup Permutations(Images) \cup Permutations(Problems)
=============================================================================
