------------------------------ MODULE MCGalaxy ------------------------------
(* Small instances of Galaxy. *)
EXTENDS Galaxy, TLC
CONSTANTS p1, p2, a, b, c, d

\* Every place can be reached in one move.
AllNear(here) == Coord
\* The map is a line a - b - c - d.
LineNear(here) ==
    (a :> {b} @@ b :> {a, c} @@ c :> {b, d} @@ d :> {c})[here]

Order(type, position) == [type |-> type, position |-> position]
Queens(n) == [NoShips EXCEPT ![Queen] = n]
SavedFleet(p, at, from, queens, order) ==
    [player |-> p, coord |-> at, origin |-> from, ships |-> Queens(queens), task |-> order]

\* What holds of every universe a save file holds: it was saved between rounds.
Saved ==
    /\ phase = "idle" /\ todo = {}
    /\ planetToCreate = {}
    /\ task = [x \in Planets |-> NoTask]
    /\ planetCount = [p \in Player |-> 0] /\ fleetCount = [p \in Player |-> 0]
    /\ before = [x \in Planets |-> NoId]
    /\ deadFleets = {} /\ lostPlanets = {}
    /\ newParentMap = [x \in Planets |-> NoCoord]

\* p1 lives on a and settled b, with a cannon, in round 1.  Fleet 1, launched by b, and fleet 3,
\* of p2 who lives on d, both stand at the free planet c with the order to settle
\* it; p2's fleet 2 is on its way to b.
ColonyInit ==
    /\ Saved
    /\ owner = (a :> p1 @@ b :> p1 @@ c :> NoId @@ d :> p2)
    /\ parent = (a :> a @@ b :> a @@ c :> c @@ d :> d)
    /\ firstRound = (a :> 0 @@ b :> 1 @@ c :> 0 @@ d :> 0)
    /\ mainPlanet = (p1 :> a @@ p2 :> d)
    /\ cannon = [x \in Planets |-> IF x = b THEN 1 ELSE 0]
    /\ hangar = [x \in Planets |-> NoShips]
    /\ fleet = (1 :> SavedFleet(p1, c, b, 2, Order("Colonize", c)) @@
                2 :> SavedFleet(p2, c, d, 1, Order("Move", b)) @@
                3 :> SavedFleet(p2, c, d, 1, Order("Colonize", c)))
    /\ nextFleetID = 4
    /\ roundCount = 3

\* Three fleets of p1 meet above a, which has a ship of its own to launch; p2 lives on d.
MeetingInit ==
    /\ Saved
    /\ owner = (a :> p1 @@ b :> NoId @@ c :> NoId @@ d :> p2)
    /\ parent = [x \in Planets |-> x]
    /\ firstRound = [x \in Planets |-> 0]
    /\ mainPlanet = (p1 :> a @@ p2 :> d)
    /\ cannon = [x \in Planets |-> 0]
    /\ hangar = [x \in Planets |-> IF x = a THEN Queens(1) ELSE NoShips]
    /\ fleet = (1 :> SavedFleet(p1, a, a, 1, NoTask) @@
                2 :> SavedFleet(p1, b, a, 1, Order("Move", a)) @@
                3 :> SavedFleet(p1, b, a, 2, Order("Move", a)))
    /\ nextFleetID = 4
    /\ roundCount = 3

\* An action constraint: planets build ships and cannons, not buildings, which module
\* Galaxy only knows as busy slots.
NoBuilding == \A x \in Planets : task'[x] # "Building"

SavedSpec == (ColonyInit \/ MeetingInit) /\ [][Next]_vars /\ WF_vars(RoundStep)
=============================================================================
