----------------------------- MODULE MCEconomy ------------------------------
(* A small instance of Economy: two planets, metal and carbon, and quantities   *)
(* counted in thousands of millions, of which 32 bits hold a little over four.  *)
EXTENDS Economy, TLC
CONSTANTS anne, ben, earth, moon

Amount(metal, carbon) == [r \in Res |-> IF r = Metal THEN metal ELSE carbon]

\* A level costs what its number says, and the third is beyond 32 bits.
Prices     == [b \in Building |-> [n \in 1 .. 2 |-> Amount(n, 0)]]
OnePrice   == [s \in Ship |-> Amount(1, 0)]
MineYield  == [lv \in Level |-> Amount(AtMost(lv[CommandCenter], 1), 0)]
Crystals   == {Amount(0, 1)}
SmallGift  == Amount(1, 0)
SmallStart == Amount(2, 0)

Site(center, factory) == [b \in Building |-> IF b = CommandCenter THEN center ELSE factory]
FleetOf(p, at, cargo, t) == [player |-> p, coord |-> at, cargo |-> cargo, task |-> t]

\* Anne lives on earth.  She has settled moon, or has lost it full and is about to settle it
\* again; the holds of her fleets are full.  Ben's fleet is near, and moon may be given to either.
SavedInit ==
    /\ phase = "idle" /\ todo = {}
    /\ roundCount = 1 /\ nextFleetID = 4
    /\ home = (anne :> earth @@ ben :> NoPlanet)
    /\ firstRound = [c \in Planet |-> 1]
    /\ \E settled \in BOOLEAN :
          /\ owner = (earth :> anne @@ moon :> IF settled THEN anne ELSE NoId)
          /\ level = (earth :> Site(1, 1) @@ moon :> Site(IF settled THEN 1 ELSE 0, 0))
    /\ task = [c \in Planet |-> NoTask]
    /\ hangar = [c \in Planet |-> FALSE]
    /\ stock = (earth :> Amount(1, 0) @@ moon :> Amount(IF owner[moon] = anne THEN 2 ELSE 6, 0))
    /\ fleet = (1 :> FleetOf(anne, moon, Amount(2, 0),
                        IF owner[moon] = anne THEN NoTask
                        ELSE [type |-> "Colonize", position |-> moon]) @@
                2 :> FleetOf(anne, moon, Amount(2, 0), NoTask) @@
                3 :> FleetOf(ben, moon, Amount(0, 0), NoTask))
    /\ Init

\* Action constraints: Ben's fleet only stands in the way, no fleet moves to where it is,
\* and a round's battles destroy one fleet or one colony.
BenStays == 3 \in FleetIDs /\ 3 \in FleetIDs' => fleet[3] = fleet'[3]
FarMoves == phase = "fleets" => \A f \in FleetIDs :
    fleet'[f].task # [type |-> "Move", position |-> fleet[f].coord]
OneLoss == phase = "fights" =>
    Cardinality(FleetIDs \ FleetIDs') + Cardinality(Owned \ Owned') <= 1

SavedSpec == SavedInit /\ [][Next]_vars
=============================================================================
