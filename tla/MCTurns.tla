------------------------------- MODULE MCTurns -------------------------------
(* Turns for TLC: calls are interchangeable, and so are connections.      *)
EXTENDS Turns

Symmetry == Permutations(Calls) \cup Permutations(Conns)
=============================================================================
