------------------------------- MODULE MCLobby -------------------------------
(* Lobby for TLC: sessions, connections and requests are interchangeable.  *)
EXTENDS Lobby

Symmetry == Permutations(Sessions) \cup Permutations(Conns) \cup Permutations(Reqs)
=============================================================================
