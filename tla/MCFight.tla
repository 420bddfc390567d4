------------------------------ MODULE MCFight ------------------------------
(* Small instances of Fight, with the figures of Ship::List and Cannon::List. *)
EXTENDS Fight, TLC

\* Unit::type: Hornet and Cargo of Ship::List, the first cannon of Cannon::List.
Hornet == 1
Cargo  == 7
Gun    == 9

MCLife   == Hornet :> 2 @@ Cargo :> 2 @@ Gun :> 1
MCPower  == Hornet :> 2 @@ Cargo :> 0 @@ Gun :> 1
MCShield == Hornet :> 2 @@ Cargo :> 2 @@ Gun :> 1

Symmetry == Permutations(Player)
=============================================================================
