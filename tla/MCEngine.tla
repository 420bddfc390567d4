------------------------------ MODULE MCEngine ------------------------------
(* Small instances of Engine. *)
EXTENDS Engine, TLC

Symmetry == Permutations(Player) \cup Permutations(Planets)

\* The server of an open game: the universe exists and no player has come yet.
OpenInit == Init /\ sim = "start"
OpenSpec == OpenInit /\ [][Next]_vars
OpenFairSpec == OpenSpec /\ Fairness
=============================================================================
