---------------------------- MODULE GalaxyProofs ----------------------------
(* Theorems of Galaxy, for every set of players and planets and every limit. *)
EXTENDS Galaxy, Sums, FiniteSetTheorems, TLAPS

\* Every variable has its type when the universe has just been constructed (construct).
LEMMA TypeInit == Init => TypeOK
  <1> SUFFICES ASSUME Init PROVE TypeOK
    OBVIOUS
  <1>1. PICK main \in [Player -> Planets \cup {NoCoord}] :
           /\ mainPlanet = main
           /\ owner = [c \in Planets |-> IF \E p \in Player : main[p] = c
                                         THEN CHOOSE p \in Player : main[p] = c ELSE NoId]
    BY DEF Init
  <1>2. owner \in [Planets -> Player \cup {NoId}]
    BY <1>1
  <1>3. IsFiniteSet({})
    BY FS_EmptySet
  <1> QED
    BY <1>1, <1>2, <1>3 DEF Init, TypeOK, ShipTab, NoShips, PlanetTask, FleetIDs

\* The sum of two ship tables and a table with one ship more are ship tables.
LEMMA ShipTables ==
    /\ NoShips \in ShipTab
    /\ \A t1, t2 \in ShipTab : AddShips(t1, t2) \in ShipTab
    /\ \A t \in ShipTab, s \in Ship : OneMore(t, s) \in ShipTab
  BY DEF ShipTab, NoShips, AddShips, OneMore

\* A fleet with other ships is a fleet, of the same player and origin.
LEMMA OtherShips ==
    ASSUME NEW fl \in Fleet, NEW tab \in ShipTab
    PROVE  LET new == [fl EXCEPT !.ships = tab]
           IN  new \in Fleet /\ new.player = fl.player /\ new.origin = fl.origin
  BY DEF Fleet

\* A planet's round leaves a fleet map: the new fleet has a new number.
LEMMA TypePlanetRound ==
    ASSUME TypeOK, NEW c \in Planets, PlanetRound(c)
    PROVE  TypeOK'
  <1> USE DEF TypeOK, FleetIDs, Owned
  <1>1. PICK done \in {task[c]} \cup {NoTask} :
         LET built  == IF done \in Ship THEN OneMore(hangar[c], done) ELSE hangar[c]
             launch == fleetCount[owner[c]] < MaxFleetCount /\ ~IsEmpty(built)
         IN  /\ task' = IF done = NoTask THEN task ELSE [task EXCEPT ![c] = NoTask]
             /\ cannon' = IF done = "Cannon" THEN [cannon EXCEPT ![c] = @ + 1] ELSE cannon
             /\ hangar' = [hangar EXCEPT ![c] = IF launch THEN NoShips ELSE built]
             /\ nextFleetID' = IF launch THEN nextFleetID + 1 ELSE nextFleetID
             /\ fleet' = IF launch
                         THEN [f \in FleetIDs \cup {nextFleetID} |->
                                 IF f = nextFleetID THEN NewFleet(c, built) ELSE fleet[f]]
                         ELSE fleet
    BY DEF PlanetRound
  <1> DEFINE built  == IF done \in Ship THEN OneMore(hangar[c], done) ELSE hangar[c]
             launch == fleetCount[owner[c]] < MaxFleetCount /\ ~IsEmpty(built)
  <1>2. built \in ShipTab
    BY ShipTables
  <1>3. /\ c \in todo /\ phase = "planetTasks" /\ owner[c] \in Player
    BY DEF PlanetRound
  <1>4. NewFleet(c, built) \in Fleet
    BY <1>2, <1>3 DEF NewFleet, Fleet, FleetTask, Coord
  <1> HIDE DEF built
  <1>5. /\ fleet' \in [FleetIDs' -> Fleet] /\ FleetIDs' \subseteq Nat
        /\ IsFiniteSet(FleetIDs')
        /\ FleetIDs \subseteq FleetIDs'
    <2>1. IsFiniteSet(FleetIDs \cup {nextFleetID})
      BY FS_AddElement
    <2> QED
      BY <1>1, <1>4, <2>1 DEF built
  <1>6. hangar' \in [Planets -> ShipTab]
    BY <1>1, <1>2, ShipTables DEF built
  <1>7. /\ task' \in [Planets -> PlanetTask]
        /\ cannon' \in [Planets -> Nat]
        /\ nextFleetID' \in Nat
    BY <1>1 DEF PlanetTask
  <1> QED
    BY <1>3, <1>5, <1>6, <1>7 DEF PlanetRound, clockVars, playerVars, landVars, fightVars

\* A fleet's round keeps every fleet a fleet: no order, and no queen that is not there.
LEMMA TypeFleetRound ==
    ASSUME TypeOK, NEW f \in FleetIDs, FleetRound(f)
    PROVE  TypeOK'
  <1> USE DEF TypeOK, FleetIDs, Owned
  <1> DEFINE order   == fleet[f].task
             settles == /\ order # NoTask
                        /\ order.type = "Colonize"
                        /\ CanSettle(f, order.position)
  <1>1. /\ fleet[f] \in Fleet
        /\ order \in FleetTask
        /\ phase = "fleetTasks" /\ todo' = todo \ {f} /\ todo \subseteq FleetIDs
        /\ UNCHANGED <<phase, clockVars, playerVars, siteVars, nextFleetID, fightVars>>
    BY DEF FleetRound, Fleet
  <1>2. order # NoTask => order.position \in Coord
    BY <1>1 DEF FleetTask, Coord
  <1>3. settles => order.position \in Planets
    BY <1>1 DEF FleetTask
  <1>4. CASE settles /\ Settle(f, order.position)
    <2> DEFINE c == order.position
    <2>1. fleet[f].ships \in [Ship -> Nat] /\ fleet[f].ships[Queen] \in Nat \ {0}
      BY <1>1, <1>4, ShipAssumption DEF CanSettle, Fleet, ShipTab
    <2>2. fleet[f].ships[Queen] - 1 \in Nat
      BY <2>1
    <2>3. [fleet[f].ships EXCEPT ![Queen] = @ - 1] \in ShipTab
      BY <2>1, <2>2 DEF ShipTab
    <2>4. /\ fleet' = [fleet EXCEPT ![f] = [fleet[f] EXCEPT
                            !.ships = [fleet[f].ships EXCEPT ![Queen] = @ - 1],
                            !.task = NoTask]]
      BY <1>4, <1>1 DEF Settle, Fleet
    <2>5. [fleet[f] EXCEPT !.ships = [fleet[f].ships EXCEPT ![Queen] = @ - 1],
                           !.task = NoTask] \in Fleet
      BY <1>1, <2>3 DEF Fleet, FleetTask
    <2>6. fleet' \in [FleetIDs -> Fleet] /\ FleetIDs' = FleetIDs
      BY <2>4, <2>5
    <2>7. /\ fleet[f].player \in Player /\ fleet[f].origin \in Planets
      BY <1>1 DEF Fleet
    <2>8. /\ owner' \in [Planets -> Player \cup {NoId}]
          /\ parent' \in [Planets -> Planets]
          /\ firstRound' \in [Planets -> Nat]
      BY <1>4, <2>7 DEF Settle
    <2> QED
      BY <1>1, <2>6, <2>8 DEF clockVars, playerVars, siteVars, fightVars
  <1>5. CASE /\ ~settles
             /\ fleet' = [fleet EXCEPT
                            ![f].coord = IF order # NoTask /\ order.type = "Move"
                                         THEN order.position ELSE @,
                            ![f].task = NoTask]
             /\ UNCHANGED landVars
    <2>1. fleet' \in [FleetIDs -> Fleet] /\ FleetIDs' = FleetIDs
      BY <1>1, <1>2, <1>5 DEF Fleet, FleetTask
    <2> QED
      BY <1>1, <1>5, <2>1 DEF clockVars, playerVars, siteVars, fightVars, landVars
  <1> QED
    BY <1>4, <1>5 DEF FleetRound

\* What a battle may change: ships and cannons become fewer, and the only planet
\* it can lose is the one it was fought for, which is then without cannons.
LEMMA BattleEffect ==
    ASSUME TypeOK, NEW c \in Coord, Battle(c)
    PROVE  /\ fleet' \in [FleetIDs -> Fleet] /\ FleetIDs' = FleetIDs
           /\ \A f \in FleetIDs : /\ fleet'[f].player = fleet[f].player
                                 /\ fleet'[f].origin = fleet[f].origin
           /\ deadFleets' \subseteq FleetIDs
           /\ cannon' \in [Planets -> Nat]
           /\ \A x \in Planets : x # c => cannon'[x] = cannon[x]
           /\ \A x \in Planets : cannon'[x] <= cannon[x]
           /\ lostPlanets' \subseteq Planets
           /\ \A x \in lostPlanets' :
                 x \in lostPlanets \/ (x = c /\ x \in Owned /\ cannon'[x] = 0)
  <1> USE DEF TypeOK, FleetIDs
  <1>1. CASE UNCHANGED <<fleet, cannon, deadFleets, lostPlanets>>
    BY <1>1
  <1>2. CASE ~UNCHANGED <<fleet, cannon, deadFleets, lostPlanets>>
    <2>0. PICK stay \in SUBSET FleetsAt(c) : \E after \in [stay -> [Ship -> 0 .. MaxFleetSize]] :
                 /\ fleet' = [f \in FleetIDs |-> IF f \in stay
                                THEN [fleet[f] EXCEPT !.ships = after[f]] ELSE fleet[f]]
                 /\ deadFleets' = deadFleets \cup {f \in stay : IsEmpty(after[f])}
                 /\ IF c \in Owned
                    THEN \E guns \in 0 .. cannon[c] :
                           /\ cannon' = [cannon EXCEPT ![c] = guns]
                           /\ lostPlanets' = IF Holds(c, stay, after, guns)
                                             THEN lostPlanets ELSE lostPlanets \cup {c}
                    ELSE UNCHANGED <<cannon, lostPlanets>>
      BY <1>2 DEF Battle
    <2>1. PICK after \in [stay -> [Ship -> 0 .. MaxFleetSize]] :
                 /\ fleet' = [f \in FleetIDs |-> IF f \in stay
                                THEN [fleet[f] EXCEPT !.ships = after[f]] ELSE fleet[f]]
                 /\ deadFleets' = deadFleets \cup {f \in stay : IsEmpty(after[f])}
                 /\ IF c \in Owned
                    THEN \E guns \in 0 .. cannon[c] :
                           /\ cannon' = [cannon EXCEPT ![c] = guns]
                           /\ lostPlanets' = IF Holds(c, stay, after, guns)
                                             THEN lostPlanets ELSE lostPlanets \cup {c}
                    ELSE UNCHANGED <<cannon, lostPlanets>>
      BY <2>0
    <2>2. stay \subseteq FleetIDs
      BY DEF FleetsAt
    <2>3. 0 .. MaxFleetSize \subseteq Nat
      BY LimitAssumption
    <2>4. \A f \in stay : after[f] \in ShipTab
      BY <2>3 DEF ShipTab
    <2>5. \A f \in stay : [fleet[f] EXCEPT !.ships = after[f]] \in Fleet
      BY <2>2, <2>4, OtherShips
    <2>6. \A f \in FleetIDs : fleet'[f] = IF f \in stay
                                 THEN [fleet[f] EXCEPT !.ships = after[f]] ELSE fleet[f]
      BY <2>1
    <2>7. /\ fleet' \in [FleetIDs -> Fleet] /\ FleetIDs' = FleetIDs
      BY <2>1, <2>5
    <2>8. \A f \in FleetIDs : /\ fleet'[f].player = fleet[f].player
                             /\ fleet'[f].origin = fleet[f].origin
      <3>1. TAKE f \in FleetIDs
      <3>2. CASE f \in stay
        <4>1. fleet[f] \in Fleet /\ after[f] \in ShipTab
          BY <2>4, <3>2
        <4>2. fleet'[f] = [fleet[f] EXCEPT !.ships = after[f]]
          BY <2>6, <3>2
        <4> QED
          BY <4>1, <4>2, OtherShips
      <3>3. CASE f \notin stay
        BY <2>6, <3>3
      <3> QED
        BY <3>2, <3>3
    <2>9. CASE c \in Owned
      <3>1. PICK guns \in 0 .. cannon[c] :
               /\ cannon' = [cannon EXCEPT ![c] = guns]
               /\ lostPlanets' = IF Holds(c, stay, after, guns)
                                 THEN lostPlanets ELSE lostPlanets \cup {c}
        BY <2>1, <2>9
      <3>2. ~Holds(c, stay, after, guns) => guns = 0
        BY DEF Holds, Owned
      <3> QED
        BY <2>1, <2>2, <2>7, <2>8, <2>9, <3>1, <3>2 DEF Owned
    <2> QED
      BY <2>1, <2>2, <2>7, <2>8, <2>9
  <1> QED
    BY <1>1, <1>2

\* No pass of a round gives a variable a value outside its type, whatever the scripts ask.
LEMMA TypeStep == TypeOK /\ [Next]_vars => TypeOK'
  <1> SUFFICES ASSUME TypeOK, [Next]_vars PROVE TypeOK'
    OBVIOUS
  <1> USE DEF TypeOK, FleetIDs, Owned
  <1>1. ASSUME NEW p \in Player, AddPlayer(p) PROVE TypeOK'
    BY <1>1 DEF AddPlayer, clockVars, landVars, siteVars, fleetVars, fightVars
  <1>2. CASE BeginRound
    <2>1. /\ \A p \in Player : Cardinality({c \in Planets : owner[c] = p}) \in Nat
          /\ \A p \in Player : Cardinality({f \in FleetIDs : fleet[f].player = p}) \in Nat
      BY PlanetsAssumption, FS_Subset, FS_CardinalityType
    <2> QED
      BY <1>2, <2>1 DEF BeginRound, playerVars, landVars, siteVars, fleetVars, fightVars
  <1>3. ASSUME NEW p \in Player, NEW c \in Planets, CreateMainPlanet(p, c) PROVE TypeOK'
    BY <1>3 DEF CreateMainPlanet, clockVars, siteVars, fleetVars, fightVars
  <1>4. CASE EndCreate
    BY <1>4 DEF EndCreate, clockVars, playerVars, landVars, siteVars, fleetVars, fightVars
  <1>5. ASSUME NEW c \in Planets, PlanetRound(c) PROVE TypeOK'
    BY <1>5, TypePlanetRound
  <1>6. CASE EndPlanetTasks
    BY <1>6 DEF EndPlanetTasks, clockVars, playerVars, landVars, siteVars, fleetVars, fightVars
  <1>7. ASSUME NEW f \in FleetIDs, FleetRound(f) PROVE TypeOK'
    BY <1>7, TypeFleetRound
  <1>8. CASE EndFleetTasks
    BY <1>8 DEF EndFleetTasks, clockVars, playerVars, landVars, siteVars, fleetVars, fightVars
  <1>9. CASE ExecPlanets
    <2>1. task' \in [Planets -> PlanetTask]
      <3>1. PICK action \in [Owned -> {"Nothing", "StopBuilding", "Building", "Cannon"} \cup Ship] :
               task' = [c \in Planets |->
                          IF c \in Owned THEN ApplyPlanetAction(c, action[c]) ELSE task[c]]
        BY <1>9 DEF ExecPlanets
      <3>2. \A c \in Owned : ApplyPlanetAction(c, action[c]) \in PlanetTask
        <4>1. TAKE c \in Owned
        <4>2. /\ action[c] \in {"Nothing", "StopBuilding", "Building", "Cannon"} \cup Ship
              /\ task[c] \in PlanetTask
          OBVIOUS
        <4> QED
          BY <4>2 DEF ApplyPlanetAction, PlanetTask
      <3> QED
        BY <3>1, <3>2
    <2> QED
      BY <1>9, <2>1 DEF ExecPlanets, clockVars, playerVars, landVars, fleetVars, fightVars
  <1>10. ASSUME NEW f \in FleetIDs, NEW g \in FleetIDs, GatherFleet(f, g) PROVE TypeOK'
    <2>1. [fleet[f] EXCEPT !.ships = AddShips(@, fleet[g].ships)] \in Fleet
      <3> DEFINE tab == AddShips(fleet[f].ships, fleet[g].ships)
      <3>1. fleet[f] \in Fleet /\ fleet[f].ships \in ShipTab /\ fleet[g].ships \in ShipTab
        BY DEF Fleet
      <3>2. tab \in ShipTab
        BY <3>1, ShipTables
      <3> HIDE DEF tab
      <3>3. [fleet[f] EXCEPT !.ships = tab] \in Fleet
        BY <3>1, <3>2, OtherShips
      <3> QED
        BY <3>3 DEF tab
    <2>2. fleet' \in [FleetIDs \ {g} -> Fleet] /\ FleetIDs' = FleetIDs \ {g}
      BY <1>10, <2>1 DEF GatherFleet
    <2>3. IsFiniteSet(FleetIDs \ {g})
      BY FS_RemoveElement
    <2> QED
      BY <1>10, <2>2, <2>3 DEF GatherFleet, clockVars, playerVars, landVars, siteVars, fightVars
  <1>11. ASSUME NEW f \in FleetIDs, NEW c \in Planets, GatherHangar(f, c) PROVE TypeOK'
    <2>1. [fleet[f] EXCEPT !.ships = AddShips(@, hangar[c])] \in Fleet
      <3> DEFINE tab == AddShips(fleet[f].ships, hangar[c])
      <3>1. fleet[f] \in Fleet /\ fleet[f].ships \in ShipTab /\ hangar[c] \in ShipTab
        BY DEF Fleet
      <3>2. tab \in ShipTab
        BY <3>1, ShipTables
      <3> HIDE DEF tab
      <3>3. [fleet[f] EXCEPT !.ships = tab] \in Fleet
        BY <3>1, <3>2, OtherShips
      <3> QED
        BY <3>3 DEF tab
    <2>2. fleet' \in [FleetIDs -> Fleet] /\ FleetIDs' = FleetIDs
      BY <1>11, <2>1 DEF GatherHangar
    <2>3. hangar' \in [Planets -> ShipTab]
      BY <1>11, ShipTables DEF GatherHangar
    <2> QED
      BY <1>11, <2>2, <2>3 DEF GatherHangar, clockVars, playerVars, landVars, fightVars
  <1>12. ASSUME NEW f \in FleetIDs, GatherNoMore(f) PROVE TypeOK'
    BY <1>12 DEF GatherNoMore, clockVars, playerVars, landVars, siteVars, fleetVars, fightVars
  <1>13. CASE EndGather
    BY <1>13 DEF EndGather, clockVars, playerVars, landVars, siteVars, fleetVars, fightVars
  <1>14. ASSUME NEW f \in FleetIDs, OrderFleet(f) PROVE TypeOK'
    <2>1. PICK order \in FleetTask :
             \/ fleet' = fleet
             \/ fleet' = [fleet EXCEPT ![f].task = order]
      BY <1>14 DEF OrderFleet
    <2>2. fleet' \in [FleetIDs -> Fleet] /\ FleetIDs' = FleetIDs
      BY <2>1 DEF Fleet
    <2> QED
      BY <1>14, <2>2 DEF OrderFleet, clockVars, playerVars, landVars, siteVars, fightVars
  <1>15. CASE EndFleets
    <2>1. Manned \subseteq FleetIDs /\ IsFiniteSet(Manned)
      BY FS_Subset DEF Manned
    <2>2. fleet' \in [Manned -> Fleet] /\ FleetIDs' = Manned
      BY <1>15, <2>1 DEF EndFleets, Restrict
    <2>3. todo' \subseteq Coord
      BY <1>15 DEF EndFleets
    <2> QED
      BY <1>15, <2>1, <2>2, <2>3 DEF EndFleets, clockVars, playerVars, landVars, siteVars, fightVars
  <1>16. ASSUME NEW c \in Coord, Battle(c) PROVE TypeOK'
    <2>1. /\ fleet' \in [FleetIDs -> Fleet] /\ FleetIDs' = FleetIDs
          /\ deadFleets' \subseteq FleetIDs
          /\ cannon' \in [Planets -> Nat]
          /\ lostPlanets' \subseteq Planets
      BY <1>16, BattleEffect
    <2> QED
      BY <1>16, <2>1 DEF Battle, clockVars, playerVars, landVars
  <1>17. CASE OnPlanetLose
    BY <1>17, ShipTables DEF OnPlanetLose, NewParents, Taken, PlanetTask, clockVars, playerVars,
                             fleetVars
  <1>18. ASSUME NEW f \in FleetIDs, ReparentFleet(f) PROVE TypeOK'
    <2>1. [fleet[f] EXCEPT !.origin = newParentMap[@]] \in Fleet
      BY <1>18 DEF ReparentFleet, OrphanFleets, Fleet
    <2>2. fleet' \in [FleetIDs -> Fleet] /\ FleetIDs' = FleetIDs
      BY <1>18, <2>1 DEF ReparentFleet
    <2> QED
      BY <1>18, <2>2 DEF ReparentFleet, clockVars, playerVars, landVars, siteVars, fightVars
  <1>19. ASSUME NEW c \in Planets, ReparentPlanet(c) PROVE TypeOK'
    BY <1>19 DEF ReparentPlanet, OrphanPlanets, clockVars, playerVars, siteVars, fleetVars,
                 fightVars
  <1>20. CASE EndRound
    <2>1. IsFiniteSet(FleetIDs \ deadFleets)
      BY FS_Subset
    <2>2. fleet' \in [FleetIDs \ deadFleets -> Fleet] /\ FleetIDs' = FleetIDs \ deadFleets
      BY <1>20 DEF EndRound, Restrict
    <2> QED
      BY <1>20, <2>1, <2>2 DEF EndRound, playerVars, landVars, siteVars
  <1>21. CASE UNCHANGED vars
    BY <1>21 DEF vars, clockVars, playerVars, landVars, siteVars, fleetVars, fightVars
  <1> QED
    BY <1>1, <1>2, <1>3, <1>4, <1>5, <1>6, <1>7, <1>8, <1>9, <1>10, <1>11, <1>12, <1>13, <1>14,
       <1>15, <1>16, <1>17, <1>18, <1>19, <1>20, <1>21 DEF Next, RoundStep, AtBound

\* Every variable keeps its type; in particular a settled colony costs a queen
\* that was there, and no pass visits a fleet that is gone.
THEOREM TypeCorrect == Spec => []TypeOK
  BY TypeInit, TypeStep, PTL DEF Spec

-----------------------------------------------------------------------------
(* The inductive invariant.                                                *)

Bonds == Lineage /\ Roots /\ Ages /\ Waiting /\ Visits /\ MainPlanetKept /\ FreePlanetBare

\* A universe just constructed has main planets and no colony: all bonds hold (construct).
LEMMA BondsInit == Init => Bonds
  <1> SUFFICES ASSUME Init PROVE Bonds
    OBVIOUS
  <1>1. PICK main \in [Player -> Planets \cup {NoCoord}] :
           /\ \A p, q \in Player : p # q /\ main[p] # NoCoord => main[p] # main[q]
           /\ mainPlanet = main
           /\ owner = [c \in Planets |-> IF \E p \in Player : main[p] = c
                                         THEN CHOOSE p \in Player : main[p] = c ELSE NoId]
    BY DEF Init
  <1>2. \A c \in Owned : owner[c] \in Player /\ mainPlanet[owner[c]] = c
    BY <1>1 DEF Owned
  <1>3. MainPlanetKept
    <2>1. SUFFICES ASSUME NEW p \in Player, main[p] # NoCoord PROVE owner[main[p]] = p
      BY <1>1 DEF MainPlanetKept
    <2>2. main[p] \in Planets
      BY <2>1
    <2>3. PICK q \in Player : owner[main[p]] = q /\ main[q] = main[p]
      BY <1>1, <2>2
    <2> QED
      BY <1>1, <2>1, <2>3
  <1>4. Lineage
    BY <1>2 DEF Init, Lineage, Family, FleetIDs
  <1>5. Roots /\ Ages /\ Waiting /\ Visits /\ FreePlanetBare
    BY <1>1 DEF Init, Roots, Ages, Waiting, Visits, FreePlanetBare, IsEmpty, NoShips, FleetIDs
  <1> QED
    BY <1>3, <1>4, <1>5 DEF Bonds

\* A main planet is taken from the free planets, so nothing hangs from it yet.
LEMMA BondsCreate ==
    ASSUME TypeOK, Bonds, NEW p \in Player, NEW c \in Planets, CreateMainPlanet(p, c)
    PROVE  Bonds'
  <1> USE DEF TypeOK, Bonds, Owned, FleetIDs
  <1>1. /\ phase = "create" /\ p \in planetToCreate /\ owner[c] = NoId
        /\ owner' = [owner EXCEPT ![c] = p] /\ mainPlanet' = [mainPlanet EXCEPT ![p] = c]
        /\ planetToCreate' = planetToCreate \ {p}
        /\ UNCHANGED <<phase, todo, roundCount, parent, firstRound, hangar, cannon, task,
                       fleet, deadFleets, lostPlanets, newParentMap>>
    BY DEF CreateMainPlanet, clockVars, siteVars, fleetVars, fightVars
  <1>2. mainPlanet[p] = NoCoord /\ p # NoId /\ c # NoCoord
    BY <1>1, NullAssumption DEF Waiting, Coord
  <1>3. \A q \in Player : q # p => mainPlanet[q] # c
    BY <1>1, <1>2, NullAssumption DEF MainPlanetKept
  <1>4. Family'
    <2>1. ASSUME NEW x \in Owned', mainPlanet'[owner'[x]] # x
          PROVE  owner'[parent'[x]] = owner'[x] /\ firstRound'[parent'[x]] < firstRound'[x]
      <3>1. x # c /\ x \in Owned /\ owner'[x] = owner[x]
        BY <1>1, <2>1
      <3>2. mainPlanet[owner[x]] # x
        BY <1>1, <1>2, <2>1, <3>1, NullAssumption DEF Coord
      <3>3. owner[parent[x]] = owner[x] /\ firstRound[parent[x]] < firstRound[x]
        BY <1>1, <3>1, <3>2 DEF Lineage, Family
      <3> QED
        BY <1>1, <3>1, <3>3
    <2>2. ASSUME NEW f \in FleetIDs' PROVE owner'[fleet'[f].origin] = fleet'[f].player
      <3>1. owner[fleet[f].origin] = fleet[f].player /\ fleet[f] \in Fleet
        BY <1>1, <2>2 DEF Lineage, Family
      <3> QED
        BY <1>1, <3>1, NullAssumption DEF Fleet
    <2> QED
      BY <2>1, <2>2 DEF Family
  <1>5. Lineage'
    BY <1>1, <1>4 DEF Lineage
  <1>6. Roots' /\ MainPlanetKept'
    BY <1>1, <1>2, <1>3 DEF Roots, MainPlanetKept
  <1>7. Ages' /\ Waiting' /\ Visits' /\ FreePlanetBare'
    BY <1>1 DEF Ages, Waiting, Visits, FreePlanetBare
  <1> QED
    BY <1>5, <1>6, <1>7

\* A new fleet starts from a planet its player owns, settled in an earlier round.
LEMMA BondsPlanetRound ==
    ASSUME TypeOK, Bonds, NEW c \in Planets, PlanetRound(c)
    PROVE  Bonds'
  <1> USE DEF TypeOK, Bonds, Owned, FleetIDs
  <1>1. /\ phase = "planetTasks" /\ owner[c] \in Player
        /\ \A x \in Planets : x # c => /\ task'[x] = task[x] /\ cannon'[x] = cannon[x]
                                      /\ hangar'[x] = hangar[x]
        /\ UNCHANGED <<phase, roundCount, planetToCreate, mainPlanet, owner, parent,
                       firstRound, lostPlanets, newParentMap>>
    BY DEF PlanetRound, clockVars, playerVars, landVars, fightVars
  <1>2. \A f \in FleetIDs' :
           \/ f \in FleetIDs /\ fleet'[f] = fleet[f]
           \/ fleet'[f].player = owner[c] /\ fleet'[f].origin = c
    <2>1. PICK done \in {task[c]} \cup {NoTask} :
             LET built  == IF done \in Ship THEN OneMore(hangar[c], done) ELSE hangar[c]
                 launch == fleetCount[owner[c]] < MaxFleetCount /\ ~IsEmpty(built)
             IN  fleet' = IF launch
                          THEN [f \in FleetIDs \cup {nextFleetID} |->
                                  IF f = nextFleetID THEN NewFleet(c, built) ELSE fleet[f]]
                          ELSE fleet
      BY DEF PlanetRound
    <2> DEFINE built  == IF done \in Ship THEN OneMore(hangar[c], done) ELSE hangar[c]
               new    == NewFleet(c, built)
    <2>2. new.player = owner[c] /\ new.origin = c
      BY DEF NewFleet
    <2> HIDE DEF new
    <2>3. \/ fleet' = fleet
          \/ fleet' = [f \in FleetIDs \cup {nextFleetID} |->
                         IF f = nextFleetID THEN new ELSE fleet[f]]
      BY <2>1 DEF new
    <2>4. CASE fleet' = fleet
      BY <2>4
    <2>5. CASE fleet' = [f \in FleetIDs \cup {nextFleetID} |->
                           IF f = nextFleetID THEN new ELSE fleet[f]]
      <3>1. FleetIDs' = FleetIDs \cup {nextFleetID}
        BY <2>5
      <3>2. \A f \in FleetIDs' : fleet'[f] = IF f = nextFleetID THEN new ELSE fleet[f]
        BY <2>5, <3>1
      <3> QED
        BY <2>2, <3>1, <3>2
    <2> QED
      BY <2>3, <2>4, <2>5
  <1>3. Family' /\ Ages'
    <2>1. firstRound[c] < roundCount
      BY <1>1 DEF Ages
    <2>2. Family
      BY <1>1 DEF Lineage
    <2> QED
      BY <1>1, <1>2, <2>1, <2>2 DEF Family, Ages
  <1>4. Lineage' /\ Roots' /\ Waiting' /\ Visits' /\ MainPlanetKept'
    BY <1>1, <1>3 DEF Lineage, Roots, Waiting, Visits, MainPlanetKept
  <1>5. FreePlanetBare'
    BY <1>1, NullAssumption DEF FreePlanetBare
  <1> QED
    BY <1>3, <1>4, <1>5

\* A colony is younger than the planet its fleet came from.
LEMMA BondsFleetRound ==
    ASSUME TypeOK, Bonds, NEW f \in FleetIDs, FleetRound(f)
    PROVE  Bonds'
  <1> USE DEF TypeOK, Bonds, Owned, FleetIDs
  <1> DEFINE c == fleet[f].task.position
  <1>1. /\ phase = "fleetTasks" /\ Family
        /\ UNCHANGED <<phase, roundCount, planetToCreate, mainPlanet, hangar, cannon, task,
                       lostPlanets, newParentMap>>
    BY DEF FleetRound, clockVars, playerVars, siteVars, fightVars, Lineage
  <1>2. /\ FleetIDs' = FleetIDs
        /\ \A g \in FleetIDs : /\ fleet'[g].player = fleet[g].player
                              /\ fleet'[g].origin = fleet[g].origin
    <2> DEFINE settled == fleet' = [fleet EXCEPT ![f].ships[Queen] = @ - 1, ![f].task = NoTask]
               moved   == \E x : fleet' = [fleet EXCEPT ![f].coord = x, ![f].task = NoTask]
    <2>1. settled \/ moved
      BY DEF FleetRound, Settle
    <2>2. fleet[f] \in Fleet
      OBVIOUS
    <2>3. CASE settled
      BY <2>2, <2>3 DEF Fleet
    <2>4. CASE moved
      BY <2>2, <2>4 DEF Fleet
    <2> QED
      BY <2>1, <2>3, <2>4
  <1>3. CASE UNCHANGED <<owner, parent, firstRound>>
    <2>1. Family'
      BY <1>1, <1>2, <1>3 DEF Family
    <2> QED
      BY <1>1, <1>2, <1>3, <2>1 DEF Lineage, Roots, Ages, Waiting, Visits, MainPlanetKept,
                                    FreePlanetBare
  <1>4. CASE /\ c \in Planets /\ owner[c] = NoId
             /\ owner' = [owner EXCEPT ![c] = fleet[f].player]
             /\ parent' = [parent EXCEPT ![c] = fleet[f].origin]
             /\ firstRound' = [firstRound EXCEPT ![c] = roundCount]
    <2>1. fleet[f].player \in Player /\ fleet[f].origin \in Planets
      BY DEF Fleet
    <2>2. /\ owner[fleet[f].origin] = fleet[f].player
          /\ firstRound[fleet[f].origin] < roundCount
          /\ fleet[f].origin # c
      BY <1>1, <1>4, <2>1, NullAssumption DEF Family, Ages
    <2>3. \A p \in Player : mainPlanet[p] # c
      BY <1>4, NullAssumption DEF MainPlanetKept, Coord
    <2>4. Family'
      <3>1. ASSUME NEW x \in Owned', mainPlanet'[owner'[x]] # x
            PROVE  owner'[parent'[x]] = owner'[x] /\ firstRound'[parent'[x]] < firstRound'[x]
        <4>1. CASE x = c
          BY <1>4, <2>1, <2>2, <4>1
        <4>2. CASE x # c
          <5>1. x \in Owned /\ mainPlanet[owner[x]] # x
            BY <1>1, <1>4, <3>1, <4>2
          <5>2. owner[parent[x]] = owner[x] /\ firstRound[parent[x]] < firstRound[x]
            BY <1>1, <5>1 DEF Family
          <5>3. parent[x] # c
            BY <1>4, <5>1, <5>2
          <5> QED
            BY <1>4, <4>2, <5>2, <5>3
        <4> QED
          BY <4>1, <4>2
      <3>2. ASSUME NEW g \in FleetIDs' PROVE owner'[fleet'[g].origin] = fleet'[g].player
        <4>1. fleet[g] \in Fleet /\ owner[fleet[g].origin] = fleet[g].player
          BY <1>1, <1>2, <3>2 DEF Family
        <4> QED
          BY <1>2, <1>4, <3>2, <4>1, NullAssumption DEF Fleet
      <3> QED
        BY <3>1, <3>2 DEF Family
    <2>5. Roots' /\ MainPlanetKept' /\ Waiting' /\ Visits' /\ FreePlanetBare'
      BY <1>1, <1>4, <2>1, <2>3, NullAssumption
         DEF Roots, MainPlanetKept, Waiting, Visits, FreePlanetBare
    <2>6. Ages'
      <3>1. \A g \in FleetIDs : fleet[g].origin # c
        BY <1>1, <1>4, NullAssumption DEF Family, Fleet
      <3> QED
        BY <1>1, <1>2, <1>4, <3>1 DEF Ages, Fleet
    <2> QED
      BY <1>1, <2>4, <2>5, <2>6 DEF Lineage
  <1>5. UNCHANGED <<owner, parent, firstRound>>
        \/ /\ fleet[f].task # NoTask /\ fleet[f].task.type = "Colonize"
           /\ CanSettle(f, c) /\ Settle(f, c)
    BY DEF FleetRound, landVars, CanSettle, Settle
  <1>6. fleet[f].task \in FleetTask
    BY DEF Fleet
  <1>7. fleet[f].task # NoTask /\ fleet[f].task.type = "Colonize" => c \in Planets
    BY <1>6 DEF FleetTask
  <1> QED
    BY <1>3, <1>4, <1>5, <1>7 DEF CanSettle, Settle

\* A battle takes neither planet nor parent; it records which planets are lost.
LEMMA BondsBattle ==
    ASSUME TypeOK, Bonds, NEW c \in Coord, Battle(c)
    PROVE  Bonds'
  <1> USE DEF TypeOK, Bonds, Owned, FleetIDs
  <1>1. /\ phase = "fights" /\ c \in todo /\ todo' = todo \ {c}
        /\ UNCHANGED <<phase, roundCount, planetToCreate, mainPlanet, owner, parent,
                       firstRound, hangar, task, newParentMap>>
    BY DEF Battle, clockVars, playerVars, landVars
  <1>2. Family' /\ Ages'
    BY <1>1, BattleEffect DEF Lineage, Family, Ages
  <1>3. Visits'
    BY <1>1, BattleEffect DEF Visits
  <1>4. FreePlanetBare'
    <2>1. \A x \in Planets : cannon[x] = 0 => cannon'[x] = 0
      BY BattleEffect
    <2> QED
      BY <1>1, <2>1 DEF FreePlanetBare
  <1> QED
    BY <1>1, <1>2, <1>3, <1>4 DEF Lineage, Roots, Waiting, MainPlanetKept

\* Losing planets: `was' is the owner before the losses.
LEMMA BondsPlanetLose ==
    ASSUME TypeOK, Bonds, OnPlanetLose
    PROVE  Bonds'
  <1> USE DEF TypeOK, Bonds, Owned, FleetIDs
  <1>1. /\ phase = "fights" /\ phase' = "reparent"
        /\ owner' = [c \in Planets |-> IF c \in Taken THEN NoId ELSE owner[c]]
        /\ task' = [c \in Planets |-> IF c \in Taken THEN NoTask ELSE task[c]]
        /\ hangar' = [c \in Planets |-> IF c \in Taken THEN NoShips ELSE hangar[c]]
        /\ newParentMap' = [c \in Planets |-> IF c \in Taken THEN parent[c] ELSE NoCoord]
        /\ parent' = [c \in Planets |-> IF c \in Taken THEN c ELSE parent[c]]
        /\ UNCHANGED <<roundCount, planetToCreate, mainPlanet, firstRound, cannon, fleet,
                       lostPlanets>>
    BY DEF OnPlanetLose, NewParents, clockVars, playerVars, fleetVars
  <1>2. \A c \in Taken : /\ c \in Planets /\ owner[c] # NoId /\ cannon[c] = 0
                        /\ mainPlanet[owner[c]] # c
    BY <1>1 DEF Taken, Visits
  <1>3. Family
    BY <1>1 DEF Lineage
  <1> DEFINE RootedAfter(x) == owner'[x] # NoId \/ newParentMap'[x] # NoCoord
  <1>4. \A x \in Planets : owner[x] # NoId => RootedAfter(x)
    BY <1>1, NullAssumption DEF Coord
  <1> HIDE DEF RootedAfter
  <1>5. PICK was \in [Planets -> Player \cup {NoId}] : was = owner
    OBVIOUS
  <1>6. Heirs(was)'
    <2>1. \A c \in Owned' : owner[c] = owner'[c]
      BY <1>1
    <2>2. ASSUME NEW c \in Planets, newParentMap'[c] # NoCoord
          PROVE  /\ owner'[c] = NoId /\ RootedAfter(newParentMap'[c])
                 /\ owner[newParentMap'[c]] = owner[c]
                 /\ firstRound'[newParentMap'[c]] < firstRound'[c]
      <3>1. c \in Taken /\ newParentMap'[c] = parent[c] /\ owner'[c] = NoId
        BY <1>1, <2>2
      <3>2. owner[parent[c]] = owner[c] /\ firstRound[parent[c]] < firstRound[c]
        BY <1>2, <1>3, <3>1 DEF Family
      <3> QED
        BY <1>1, <1>2, <1>4, <3>1, <3>2
    <2>3. ASSUME NEW c \in Owned', mainPlanet'[owner'[c]] # c
          PROVE  /\ RootedAfter(parent'[c]) /\ owner[parent'[c]] = owner'[c]
                 /\ firstRound'[parent'[c]] < firstRound'[c]
      <3>1. c \in Owned /\ c \notin Taken /\ owner'[c] = owner[c] /\ parent'[c] = parent[c]
        BY <1>1, <2>3
      <3>2. owner[parent[c]] = owner[c] /\ firstRound[parent[c]] < firstRound[c]
        BY <1>1, <1>3, <2>3, <3>1 DEF Family
      <3> QED
        BY <1>1, <1>4, <3>1, <3>2
    <2>4. ASSUME NEW f \in FleetIDs'
          PROVE  RootedAfter(fleet'[f].origin) /\ owner[fleet'[f].origin] = fleet'[f].player
      <3>1. fleet[f] \in Fleet /\ fleet'[f] = fleet[f]
        BY <1>1, <2>4
      <3>2. owner[fleet[f].origin] = fleet[f].player /\ fleet[f].origin \in Planets
        BY <1>1, <1>3, <2>4, <3>1 DEF Family, Fleet
      <3> QED
        BY <1>1, <1>4, <3>1, <3>2, NullAssumption DEF Fleet
    <2> QED
      BY <1>5, <2>1, <2>2, <2>3, <2>4 DEF Heirs, Rooted, RootedAfter
  <1>7. Lineage'
    BY <1>1, <1>6 DEF Lineage
  <1>8. Roots' /\ MainPlanetKept'
    BY <1>1, <1>2 DEF Roots, MainPlanetKept
  <1>9. FreePlanetBare'
    BY <1>1, <1>2 DEF FreePlanetBare, IsEmpty, NoShips
  <1>10. Ages' /\ Waiting' /\ Visits'
    BY <1>1 DEF Ages, Waiting, Visits
  <1> QED
    BY <1>7, <1>8, <1>9, <1>10

\* One step of a walk leads an orphan to an older planet of the same player.
LEMMA BondsReparentFleet ==
    ASSUME TypeOK, Bonds, NEW f \in FleetIDs, ReparentFleet(f)
    PROVE  Bonds'
  <1> USE DEF TypeOK, Bonds, Owned, FleetIDs
  <1>1. /\ phase = "reparent" /\ phase' = phase
        /\ newParentMap[fleet[f].origin] # NoCoord
        /\ fleet' = [fleet EXCEPT ![f].origin = newParentMap[@]]
        /\ UNCHANGED <<todo, roundCount, planetToCreate, mainPlanet, owner, parent, firstRound,
                       hangar, cannon, task, lostPlanets, newParentMap>>
    BY DEF ReparentFleet, OrphanFleets, clockVars, playerVars, landVars, siteVars, fightVars
  <1> DEFINE o == fleet[f].origin
  <1>2. /\ FleetIDs' = FleetIDs
        /\ \A g \in FleetIDs : g # f => fleet'[g] = fleet[g]
        /\ fleet'[f].origin = newParentMap[o] /\ fleet'[f].player = fleet[f].player
        /\ o \in Planets /\ newParentMap[o] \in Planets
    BY <1>1 DEF Fleet
  <1>3. PICK was \in [Planets -> Player \cup {NoId}] : Heirs(was)
    BY <1>1 DEF Lineage
  <1>4. Heirs(was)'
    BY <1>1, <1>2, <1>3 DEF Heirs, Rooted
  <1>5. Ages'
    <2>1. firstRound[newParentMap[o]] < firstRound[o] /\ firstRound[o] < roundCount
      BY <1>1, <1>2, <1>3 DEF Heirs, Ages
    <2> QED
      BY <1>1, <1>2, <2>1 DEF Ages
  <1>6. Lineage'
    BY <1>1, <1>4 DEF Lineage
  <1> QED
    BY <1>1, <1>5, <1>6 DEF Roots, Waiting, Visits, MainPlanetKept, FreePlanetBare

\* Giving an orphan planet the parent its walk has reached keeps all bonds (execFights).
LEMMA BondsReparentPlanet ==
    ASSUME TypeOK, Bonds, NEW c \in Planets, ReparentPlanet(c)
    PROVE  Bonds'
  <1> USE DEF TypeOK, Bonds, Owned, FleetIDs
  <1>1. /\ phase = "reparent" /\ phase' = phase
        /\ c \in Owned /\ newParentMap[parent[c]] # NoCoord
        /\ parent' = [parent EXCEPT ![c] = newParentMap[@]]
        /\ UNCHANGED <<todo, roundCount, planetToCreate, mainPlanet, owner, firstRound,
                       hangar, cannon, task, fleet, lostPlanets, newParentMap>>
    BY DEF ReparentPlanet, OrphanPlanets, clockVars, playerVars, siteVars, fleetVars, fightVars
  <1>2. PICK was \in [Planets -> Player \cup {NoId}] : Heirs(was)
    BY <1>1 DEF Lineage
  <1>3. owner[parent[c]] = NoId /\ owner[c] # NoId /\ owner[c] \in Player
    BY <1>1, <1>2 DEF Heirs
  <1>4. \A p \in Player : mainPlanet[p] # c
    BY <1>3, NullAssumption DEF Roots, Coord
  <1>5. Heirs(was)'
    BY <1>1, <1>2, <1>3, <1>4 DEF Heirs, Rooted
  <1>6. Lineage' /\ Roots'
    BY <1>1, <1>3, <1>4, <1>5 DEF Lineage, Roots
  <1> QED
    BY <1>1, <1>6 DEF Ages, Waiting, Visits, MainPlanetKept, FreePlanetBare

\* When no orphan is left, every parent and origin is owned again.
LEMMA BondsEndRound ==
    ASSUME TypeOK, Bonds, EndRound
    PROVE  Bonds'
  <1> USE DEF TypeOK, Bonds, Owned, FleetIDs
  <1>1. /\ phase = "reparent" /\ OrphanFleets = {} /\ OrphanPlanets = {} /\ phase' = "idle"
        /\ newParentMap' = [c \in Planets |-> NoCoord] /\ lostPlanets' = {}
        /\ UNCHANGED <<todo, roundCount, planetToCreate, mainPlanet, owner, parent, firstRound,
                       hangar, cannon, task>>
    BY DEF EndRound, playerVars, landVars, siteVars
  <1>2. /\ FleetIDs' \subseteq FleetIDs
        /\ \A f \in FleetIDs' : fleet'[f] = fleet[f]
    BY DEF EndRound, Restrict
  <1>3. PICK was \in [Planets -> Player \cup {NoId}] : Heirs(was)
    BY <1>1 DEF Lineage
  <1>4. Family
    <2>1. ASSUME NEW c \in Owned, mainPlanet[owner[c]] # c
          PROVE  owner[parent[c]] = owner[c] /\ firstRound[parent[c]] < firstRound[c]
      <3>1. newParentMap[parent[c]] = NoCoord
        BY <1>1 DEF OrphanPlanets
      <3> QED
        BY <1>3, <2>1, <3>1 DEF Heirs, Rooted
    <2>2. ASSUME NEW f \in FleetIDs PROVE owner[fleet[f].origin] = fleet[f].player
      <3>1. newParentMap[fleet[f].origin] = NoCoord /\ fleet[f].origin \in Planets
        BY <1>1 DEF OrphanFleets, Fleet
      <3> QED
        BY <1>3, <3>1 DEF Heirs, Rooted
    <2> QED
      BY <2>1, <2>2 DEF Family
  <1>5. Lineage' /\ Ages'
    BY <1>1, <1>2, <1>4 DEF Lineage, Family, Ages
  <1> QED
    BY <1>1, <1>5 DEF Roots, Waiting, Visits, MainPlanetKept, FreePlanetBare

\* Every step of a round, and every sign-up, keeps the bonds of families (Simulation::round).
LEMMA BondsStep == TypeOK /\ Bonds /\ [Next]_vars => Bonds'
  <1> SUFFICES ASSUME TypeOK, Bonds, [Next]_vars PROVE Bonds'
    OBVIOUS
  <1> USE DEF TypeOK, FleetIDs, Owned
  <1> DEFINE Rest == <<planetToCreate, mainPlanet, owner, parent, firstRound, hangar, cannon,
                       task, lostPlanets, newParentMap>>
  \* The steps that move the round on and leave planets, fleets and players alone.
  <1>1. ASSUME UNCHANGED <<Rest, roundCount, fleet>>,
               phase' # "create", phase # "reparent", phase' # "reparent",
               phase' = "planetTasks" => phase \in {"create", "planetTasks"},
               phase' # "fights", phase # "fights"
        PROVE  Bonds'
    BY <1>1 DEF Bonds, Lineage, Family, Roots, Ages, Waiting, Visits, MainPlanetKept,
                FreePlanetBare
  \* The passes over the fleets that keep players and origins.
  <1>2. ASSUME UNCHANGED <<planetToCreate, mainPlanet, owner, parent, firstRound, cannon,
                           task, lostPlanets, newParentMap, roundCount>>,
               \A c \in Planets : owner[c] = NoId => hangar'[c] = hangar[c],
               FleetIDs' \subseteq FleetIDs,
               \A f \in FleetIDs' : /\ fleet'[f].player = fleet[f].player
                                   /\ fleet'[f].origin = fleet[f].origin,
               phase \in {"gather", "fleets"}, phase' \in {"gather", "fleets", "fights"}
        PROVE  Bonds'
    BY <1>2 DEF Bonds, Lineage, Family, Roots, Ages, Waiting, Visits, MainPlanetKept,
                FreePlanetBare
  <1>3. ASSUME NEW p \in Player, AddPlayer(p) PROVE Bonds'
    <2>1. /\ mainPlanet[p] = NoCoord /\ planetToCreate' = planetToCreate \cup {p}
          /\ UNCHANGED <<phase, todo, roundCount, mainPlanet, owner, parent, firstRound, hangar,
                         cannon, task, fleet, lostPlanets, newParentMap>>
      BY <1>3 DEF AddPlayer, clockVars, landVars, siteVars, fleetVars, fightVars
    <2>2. Waiting'
      BY <2>1 DEF Bonds, Waiting
    <2>3. Lineage'
      BY <2>1 DEF Bonds, Lineage, Family, Heirs, Rooted
    <2> QED
      BY <2>1, <2>2, <2>3 DEF Bonds, Roots, Ages, Visits, MainPlanetKept, FreePlanetBare
  <1>4. CASE BeginRound
    <2>1. /\ phase = "idle" /\ phase' = "create" /\ roundCount' = roundCount + 1
          /\ UNCHANGED <<planetToCreate, mainPlanet, owner, parent, firstRound, hangar, cannon,
                         task, fleet, lostPlanets, newParentMap>>
      BY <1>4 DEF BeginRound, playerVars, landVars, siteVars, fleetVars, fightVars
    <2>2. \A f \in FleetIDs : fleet[f].origin \in Planets
      BY DEF Fleet
    <2>3. Ages'
      BY <2>1, <2>2 DEF Bonds, Ages
    <2>4. Lineage'
      BY <2>1 DEF Bonds, Lineage, Family
    <2> QED
      BY <2>1, <2>3, <2>4 DEF Bonds, Roots, Waiting, Visits, MainPlanetKept, FreePlanetBare
  <1>5. ASSUME NEW p \in Player, NEW c \in Planets, CreateMainPlanet(p, c) PROVE Bonds'
    BY <1>5, BondsCreate
  <1>6. CASE EndCreate
    BY <1>1, <1>6 DEF EndCreate, clockVars, playerVars, landVars, siteVars, fleetVars, fightVars,
                      Bonds, Visits
  <1>7. ASSUME NEW c \in Planets, PlanetRound(c) PROVE Bonds'
    BY <1>7, BondsPlanetRound
  <1>8. CASE EndPlanetTasks
    BY <1>1, <1>8 DEF EndPlanetTasks, clockVars, playerVars, landVars, siteVars, fleetVars,
                      fightVars
  <1>9. ASSUME NEW f \in FleetIDs, FleetRound(f) PROVE Bonds'
    BY <1>9, BondsFleetRound
  <1>10. CASE EndFleetTasks
    BY <1>1, <1>10 DEF EndFleetTasks, clockVars, playerVars, landVars, siteVars, fleetVars,
                       fightVars
  <1>11. CASE ExecPlanets
    <2>1. \A c \in Planets : owner[c] = NoId => task'[c] = task[c]
      BY <1>11 DEF ExecPlanets
    <2> QED
      BY <1>11, <2>1 DEF ExecPlanets, clockVars, playerVars, landVars, fleetVars, fightVars,
                Bonds, Lineage, Family, Roots, Ages, Waiting, Visits, MainPlanetKept,
                FreePlanetBare
  <1>12. ASSUME NEW f \in FleetIDs, NEW g \in FleetIDs, GatherFleet(f, g) PROVE Bonds'
    <2>1. /\ FleetIDs' \subseteq FleetIDs
          /\ \A h \in FleetIDs' : /\ fleet'[h].player = fleet[h].player
                                 /\ fleet'[h].origin = fleet[h].origin
      BY <1>12 DEF GatherFleet, Fleet
    <2> QED
      BY <1>2, <1>12, <2>1 DEF GatherFleet, clockVars, playerVars, landVars, siteVars, fightVars
  <1>13. ASSUME NEW f \in FleetIDs, NEW c \in Planets, GatherHangar(f, c) PROVE Bonds'
    <2>1. /\ FleetIDs' \subseteq FleetIDs
          /\ \A h \in FleetIDs' : /\ fleet'[h].player = fleet[h].player
                                 /\ fleet'[h].origin = fleet[h].origin
      BY <1>13 DEF GatherHangar, Fleet
    <2>2. owner[c] # NoId
      BY <1>13, NullAssumption DEF GatherHangar, Fleet
    <2>3. \A x \in Planets : owner[x] = NoId => hangar'[x] = hangar[x]
      BY <1>13, <2>2 DEF GatherHangar
    <2> QED
      BY <1>2, <1>13, <2>1, <2>3 DEF GatherHangar, clockVars, playerVars, landVars, fightVars
  <1>14. ASSUME NEW f \in FleetIDs, GatherNoMore(f) PROVE Bonds'
    BY <1>1, <1>14 DEF GatherNoMore, clockVars, playerVars, landVars, siteVars, fleetVars,
                       fightVars
  <1>15. CASE EndGather
    BY <1>1, <1>15 DEF EndGather, clockVars, playerVars, landVars, siteVars, fleetVars, fightVars
  <1>16. ASSUME NEW f \in FleetIDs, OrderFleet(f) PROVE Bonds'
    <2>1. PICK order : fleet' = fleet \/ fleet' = [fleet EXCEPT ![f].task = order]
      BY <1>16 DEF OrderFleet
    <2>2. /\ FleetIDs' \subseteq FleetIDs
          /\ \A h \in FleetIDs' : /\ fleet'[h].player = fleet[h].player
                                 /\ fleet'[h].origin = fleet[h].origin
      BY <2>1 DEF Fleet
    <2> QED
      BY <1>2, <1>16, <2>2 DEF OrderFleet, clockVars, playerVars, landVars, siteVars, fightVars
  <1>17. CASE EndFleets
    <2>1. /\ FleetIDs' \subseteq FleetIDs
          /\ \A h \in FleetIDs' : fleet'[h] = fleet[h]
      BY <1>17 DEF EndFleets, Restrict, Manned
    <2> QED
      BY <1>2, <1>17, <2>1 DEF EndFleets, clockVars, playerVars, landVars, siteVars, fightVars
  <1>18. ASSUME NEW c \in Coord, Battle(c) PROVE Bonds'
    BY <1>18, BondsBattle
  <1>19. CASE OnPlanetLose
    BY <1>19, BondsPlanetLose
  <1>20. ASSUME NEW f \in FleetIDs, ReparentFleet(f) PROVE Bonds'
    BY <1>20, BondsReparentFleet
  <1>21. ASSUME NEW c \in Planets, ReparentPlanet(c) PROVE Bonds'
    BY <1>21, BondsReparentPlanet
  <1>22. CASE EndRound
    BY <1>22, BondsEndRound
  <1>23. CASE UNCHANGED vars
    BY <1>23 DEF vars, clockVars, playerVars, landVars, siteVars, fleetVars, fightVars,
                 Bonds, Lineage, Family, Heirs, Rooted, Roots, Ages, Waiting, Visits,
                 MainPlanetKept, FreePlanetBare
  <1> QED
    BY <1>3, <1>4, <1>5, <1>6, <1>7, <1>8, <1>9, <1>10, <1>11, <1>12, <1>13, <1>14, <1>15, <1>16,
       <1>17, <1>18, <1>19, <1>20, <1>21, <1>22, <1>23 DEF Next, RoundStep, AtBound

\* The inductive invariant holds.
THEOREM Inductive == Spec => []IInv
  <1>1. Init => TypeOK /\ Bonds
    BY TypeInit, BondsInit
  <1>2. TypeOK /\ Bonds /\ [Next]_vars => (TypeOK /\ Bonds)'
    BY TypeStep, BondsStep
  <1>3. TypeOK /\ Bonds => IInv
    BY DEF IInv, Bonds
  <1> QED
    BY <1>1, <1>2, <1>3, PTL DEF Spec

-----------------------------------------------------------------------------
(* What follows from it.                                                   *)

\* Between rounds a player's planets form a tree below the main planet, and a
\* fleet's origin is a planet of the fleet's player.
THEOREM FamiliesStay == Spec => []FamilyTree
  <1>1. IInv => FamilyTree
    BY NullAssumption DEF IInv, TypeOK, Lineage, Family, Roots, FamilyTree, Owned, FleetIDs, Coord
  <1> QED
    BY <1>1, Inductive, PTL

\* Every step of the reassignment walks of execFights leads to a planet settled
\* strictly earlier: the `while(true)' loops of Simulation::execFights end.
THEOREM WalksTerminate == Spec => []WalksEnd
  <1>1. IInv => WalksEnd
    BY DEF IInv, TypeOK, Lineage, Heirs, WalksEnd
  <1> QED
    BY <1>1, Inductive, PTL

\* No fight takes a player's main planet.
THEOREM MainPlanetsStay == Spec => []MainPlanetKept
  <1>1. IInv => MainPlanetKept
    BY DEF IInv
  <1> QED
    BY <1>1, Inductive, PTL

\* A planet becomes free without task, hangar or cannons of its last owner.
THEOREM FreePlanetsBare == Spec => []FreePlanetBare
  <1>1. IInv => FreePlanetBare
    BY DEF IInv
  <1> QED
    BY <1>1, Inductive, PTL

-----------------------------------------------------------------------------
(* No fleet without ships is published.                                    *)

\* A fleet is launched with the ships that were in the hangar (execPlanetTasks).
LEMMA CrewsPlanetRound ==
    ASSUME TypeOK, Crews, NEW c \in Planets, PlanetRound(c)
    PROVE  Crews'
  <1> USE DEF Crews, FleetIDs
  <1>1. /\ phase = "planetTasks" /\ phase' = phase
        /\ \A f \in FleetIDs : ~IsEmpty(fleet[f].ships)
    BY DEF PlanetRound
  <1>2. CASE fleet' = fleet
    BY <1>1, <1>2
  <1>3. CASE fleet' # fleet
    <2>1. PICK built : /\ ~IsEmpty(built)
                       /\ fleet' = [f \in FleetIDs \cup {nextFleetID} |->
                                      IF f = nextFleetID THEN NewFleet(c, built) ELSE fleet[f]]
      BY <1>3 DEF PlanetRound
    <2>2. ASSUME NEW f \in FleetIDs' PROVE ~IsEmpty(fleet'[f].ships)
      <3>1. CASE f = nextFleetID
        BY <2>1, <3>1 DEF NewFleet
      <3>2. CASE f # nextFleetID
        BY <1>1, <2>1, <2>2, <3>2
      <3> QED
        BY <3>1, <3>2
    <2> QED
      BY <1>1, <2>2
  <1> QED
    BY <1>2, <1>3

\* A fleet that loses its last ship in a battle is marked as dead (execFights).
LEMMA CrewsBattle ==
    ASSUME TypeOK, Crews, NEW c \in Coord, Battle(c)
    PROVE  Crews'
  <1> USE DEF Crews, FleetIDs
  <1>1. /\ phase = "fights" /\ phase' = phase
        /\ \A f \in FleetIDs : IsEmpty(fleet[f].ships) => f \in deadFleets
    BY DEF Battle
  <1>2. CASE fleet' = fleet /\ deadFleets' = deadFleets
    BY <1>1, <1>2
  <1>3. CASE ~(fleet' = fleet /\ deadFleets' = deadFleets)
    <2>1. PICK stay \in SUBSET FleetsAt(c) : \E after \in [stay -> [Ship -> 0 .. MaxFleetSize]] :
                 /\ fleet' = [f \in FleetIDs |-> IF f \in stay
                                THEN [fleet[f] EXCEPT !.ships = after[f]] ELSE fleet[f]]
                 /\ deadFleets' = deadFleets \cup {f \in stay : IsEmpty(after[f])}
      BY <1>3 DEF Battle
    <2>2. PICK after \in [stay -> [Ship -> 0 .. MaxFleetSize]] :
                 /\ fleet' = [f \in FleetIDs |-> IF f \in stay
                                THEN [fleet[f] EXCEPT !.ships = after[f]] ELSE fleet[f]]
                 /\ deadFleets' = deadFleets \cup {f \in stay : IsEmpty(after[f])}
      BY <2>1
    <2>3. ASSUME NEW f \in FleetIDs', IsEmpty(fleet'[f].ships) PROVE f \in deadFleets'
      <3>1. f \in FleetIDs /\ fleet[f] \in Fleet
        BY <2>2, <2>3 DEF TypeOK
      <3>2. CASE f \in stay
        <4>1. fleet'[f].ships = after[f]
          BY <2>2, <3>1, <3>2 DEF Fleet
        <4> QED
          BY <2>2, <2>3, <3>2, <4>1
      <3>3. CASE f \notin stay
        BY <1>1, <2>2, <2>3, <3>1, <3>3
      <3> QED
        BY <3>2, <3>3
    <2> QED
      BY <1>1, <2>3
  <1> QED
    BY <1>2, <1>3

\* Every step of a round keeps the fleets crewed, or marked (Simulation::round).
LEMMA CrewsStep == TypeOK /\ Crews /\ [Next]_vars => Crews'
  <1> SUFFICES ASSUME TypeOK, Crews, [Next]_vars PROVE Crews'
    OBVIOUS
  <1> USE DEF FleetIDs
  \* The steps that leave the fleets alone and move on within the round's first passes.
  <1>1. ASSUME UNCHANGED <<fleet, deadFleets>>,
               \/ phase' = phase
               \/ phase' \in {"fleetTasks", "planets", "gather", "fleets"}
               \/ phase = "idle" /\ phase' = "create"
               \/ phase = "create" /\ phase' = "planetTasks"
               \/ phase = "fights" /\ phase' = "reparent"
        PROVE  Crews'
    BY <1>1 DEF Crews
  \* The passes over the fleets, during which a fleet may be left without ships.
  <1>2. ASSUME phase' \in {"fleetTasks", "planets", "gather", "fleets"} PROVE Crews'
    BY <1>2 DEF Crews
  <1>3. ASSUME NEW c \in Planets, PlanetRound(c) PROVE Crews'
    BY <1>3, CrewsPlanetRound
  <1>4. CASE EndFleets
    <2>1. /\ phase' = "fights"
          /\ \A f \in FleetIDs' : ~IsEmpty(fleet'[f].ships)
      BY <1>4 DEF EndFleets, Restrict, Manned
    <2> QED
      BY <2>1 DEF Crews
  <1>5. ASSUME NEW c \in Coord, Battle(c) PROVE Crews'
    BY <1>5, CrewsBattle
  <1>6. ASSUME NEW f \in FleetIDs, ReparentFleet(f) PROVE Crews'
    <2>1. /\ phase = "reparent" /\ phase' = phase /\ deadFleets' = deadFleets
          /\ fleet' = [fleet EXCEPT ![f].origin = newParentMap[@]]
      BY <1>6 DEF ReparentFleet, fightVars
    <2>2. FleetIDs' = FleetIDs /\ \A g \in FleetIDs : fleet'[g].ships = fleet[g].ships
      BY <2>1 DEF TypeOK, Fleet
    <2> QED
      BY <2>1, <2>2 DEF Crews
  <1>7. CASE EndRound
    <2>1. /\ phase = "reparent" /\ phase' = "idle"
          /\ \A f \in FleetIDs' : f \in FleetIDs \ deadFleets /\ fleet'[f] = fleet[f]
      BY <1>7 DEF EndRound, Restrict
    <2> QED
      BY <2>1 DEF Crews
  <1>8. ASSUME NEW p \in Player, AddPlayer(p) PROVE Crews'
    BY <1>1, <1>8 DEF AddPlayer, fleetVars, fightVars
  <1>9. CASE BeginRound \/ EndCreate \/ EndPlanetTasks \/ OnPlanetLose \/ UNCHANGED vars
    BY <1>1, <1>9 DEF BeginRound, EndCreate, EndPlanetTasks, OnPlanetLose, vars, fleetVars,
                      fightVars
  <1>10. ASSUME NEW c \in Planets,
                ReparentPlanet(c) \/ \E p \in Player : CreateMainPlanet(p, c)
         PROVE  Crews'
    BY <1>1, <1>10 DEF CreateMainPlanet, ReparentPlanet, fleetVars, fightVars
  <1>11. ASSUME NEW f \in FleetIDs,
                \/ FleetRound(f) \/ GatherNoMore(f) \/ OrderFleet(f)
                \/ \E g \in FleetIDs : GatherFleet(f, g)
                \/ \E c \in Planets : GatherHangar(f, c)
         PROVE  Crews'
    BY <1>2, <1>11 DEF FleetRound, GatherFleet, GatherHangar, GatherNoMore, OrderFleet,
                       clockVars, playerVars
  <1>12. CASE EndFleetTasks \/ ExecPlanets \/ EndGather
    BY <1>2, <1>12 DEF EndFleetTasks, ExecPlanets, EndGather
  <1> QED
    BY <1>3, <1>4, <1>5, <1>6, <1>7, <1>8, <1>9, <1>10, <1>11, <1>12 DEF Next, RoundStep, AtBound

\* No fleet without ships is published: neither one whose lone queen settled a planet nor
\* one destroyed in a battle.
THEOREM NoGhosts == Spec => []NoGhostFleet
  <1>1. Init => Crews
    BY DEF Init, Crews, FleetIDs
  <1>2. IInv => TypeOK
    BY DEF IInv
  <1>3. Crews => NoGhostFleet
    BY DEF Crews, NoGhostFleet
  <1> QED
    BY <1>1, <1>2, <1>3, CrewsStep, Inductive, PTL DEF Spec
-----------------------------------------------------------------------------
(* The size of fleets, which only CanGather tests.                         *)

\* SizeOf counts the ships of a table: none for an empty one, one for a ship just built, and
\* no more when there are fewer ships of every kind.
LEMMA Sizes ==
    /\ \A t \in ShipTab : SizeOf(t) \in Nat
    /\ \A t \in ShipTab : IsEmpty(t) => SizeOf(t) = 0
    /\ \A t \in ShipTab, s \in Ship : SizeOf(OneMore(t, s)) = SizeOf(t) + 1
    /\ \A t, u \in ShipTab : (\A s \in Ship : t[s] <= u[s]) => SizeOf(t) <= SizeOf(u)
  <1>1. IsFiniteSet(Ship)
    BY ShipAssumption
  <1>2. \A t : SizeOf(t) = Sum(t)
    BY DEF SizeOf, Sum
  <1>3. \A t \in ShipTab : SizeOf(t) \in Nat
    BY <1>1, <1>2, SumNat DEF ShipTab
  <1>4. \A t \in ShipTab : IsEmpty(t) => SizeOf(t) = 0
    BY <1>1, <1>2, SumZero DEF ShipTab, IsEmpty
  <1>5. ASSUME NEW t \in ShipTab, NEW s \in Ship
        PROVE  SizeOf(OneMore(t, s)) = SizeOf(t) + 1
    <2>1. t \in [Ship -> Nat] /\ t[s] \in Nat /\ t[s] + 1 \in Nat
      BY DEF ShipTab
    <2>2. Sum([t EXCEPT ![s] = t[s] + 1]) = Sum(t) - t[s] + (t[s] + 1)
      BY <1>1, <2>1, SumExcept
    <2>3. OneMore(t, s) = [t EXCEPT ![s] = t[s] + 1]
      BY DEF OneMore
    <2>4. Sum(t) \in Nat
      BY <1>2, <1>3
    <2> QED
      BY <1>2, <2>1, <2>2, <2>3, <2>4
  <1>6. \A t, u \in ShipTab : (\A s \in Ship : t[s] <= u[s]) => SizeOf(t) <= SizeOf(u)
    BY <1>1, <1>2, SumMonotone DEF ShipTab
  <1> QED
    BY <1>3, <1>4, <1>5, <1>6

\* A planet's round launches the one ship of its hangar, or adds one to an empty hangar.
LEMMA BerthsPlanetRound ==
    ASSUME TypeOK, Berths, NEW c \in Planets, PlanetRound(c)
    PROVE  Berths'
  <1> USE DEF TypeOK, FleetIDs
  <1>1. PICK done \in {task[c]} \cup {NoTask} :
         LET built  == IF done \in Ship THEN OneMore(hangar[c], done) ELSE hangar[c]
             launch == fleetCount[owner[c]] < MaxFleetCount /\ ~IsEmpty(built)
         IN  /\ task' = IF done = NoTask THEN task ELSE [task EXCEPT ![c] = NoTask]
             /\ hangar' = [hangar EXCEPT ![c] = IF launch THEN NoShips ELSE built]
             /\ fleet' = IF launch
                         THEN [f \in FleetIDs \cup {nextFleetID} |->
                                 IF f = nextFleetID THEN NewFleet(c, built) ELSE fleet[f]]
                         ELSE fleet
    BY DEF PlanetRound
  <1> DEFINE built  == IF done \in Ship THEN OneMore(hangar[c], done) ELSE hangar[c]
             launch == fleetCount[owner[c]] < MaxFleetCount /\ ~IsEmpty(built)
  <1>2. built \in ShipTab /\ SizeOf(built) <= 1
    <2>1. hangar[c] \in ShipTab
      OBVIOUS
    <2>2. CASE done \in Ship
      <3>1. IsEmpty(hangar[c])
        BY <2>2, ShipAssumption DEF Berths
      <3> QED
        BY <2>1, <2>2, <3>1, Sizes, ShipTables
    <2>3. CASE done \notin Ship
      BY <2>1, <2>3 DEF Berths
    <2> QED
      BY <2>2, <2>3
  <1>3. NoShips \in ShipTab /\ IsEmpty(NoShips) /\ SizeOf(NoShips) = 0
    BY ShipTables, Sizes DEF IsEmpty, NoShips
  <1>4. ASSUME NEW f \in FleetIDs' PROVE SizeOf(fleet'[f].ships) <= MaxFleetSize
    <2>1. CASE launch /\ f = nextFleetID
      <3>1. fleet'[f].ships = built
        BY <1>1, <2>1 DEF NewFleet
      <3>2. SizeOf(built) \in Nat
        BY <1>2, Sizes
      <3> HIDE DEF built
      <3> QED
        BY <1>2, <3>1, <3>2, LimitAssumption
    <2>2. CASE ~(launch /\ f = nextFleetID)
      <3>1. f \in FleetIDs /\ fleet'[f] = fleet[f]
        BY <1>1, <1>4, <2>2
      <3> QED
        BY <3>1 DEF Berths, FleetsFit
    <2> QED
      BY <2>1, <2>2
  <1> HIDE DEF built, launch
  <1>5. hangar' = [hangar EXCEPT ![c] = IF launch THEN NoShips ELSE built]
    BY <1>1 DEF built, launch
  <1>6. \A d \in Planets : SizeOf(hangar'[d]) <= 1
    BY <1>2, <1>3, <1>5 DEF Berths
  <1>7. ASSUME NEW d \in Planets, task'[d] \in Ship PROVE IsEmpty(hangar'[d])
    <2>1. task[d] \in Ship /\ IsEmpty(hangar[d]) /\ task' = (IF done = NoTask THEN task ELSE [task EXCEPT ![c] = NoTask])
      BY <1>1, <1>7, ShipAssumption DEF Berths
    <2>2. CASE d # c
      BY <1>5, <2>1, <2>2
    <2>3. CASE d = c
      <3>1. done = NoTask
        BY <1>7, <2>1, <2>3, ShipAssumption
      <3>2. built = hangar[c]
        BY <3>1, ShipAssumption DEF built
      <3> QED
        BY <1>3, <1>5, <2>1, <2>3, <3>2
    <2> QED
      BY <2>2, <2>3
  <1> QED
    BY <1>4, <1>6, <1>7 DEF Berths, FleetsFit

\* A fleet only loses ships in its round and in a battle.
LEMMA BerthsFleets ==
    ASSUME TypeOK, Berths, FleetIDs' \subseteq FleetIDs, fleet' \in [FleetIDs' -> Fleet],
           \A f \in FleetIDs' : \A s \in Ship : fleet'[f].ships[s] <= fleet[f].ships[s],
           UNCHANGED <<hangar, task>>
    PROVE  Berths'
  <1>1. ASSUME NEW f \in FleetIDs' PROVE SizeOf(fleet'[f].ships) <= MaxFleetSize
    <2>1. /\ fleet[f].ships \in ShipTab /\ fleet'[f].ships \in ShipTab
          /\ SizeOf(fleet[f].ships) <= MaxFleetSize
      BY DEF TypeOK, Fleet, Berths, FleetsFit
    <2>2. SizeOf(fleet'[f].ships) <= SizeOf(fleet[f].ships)
      BY <2>1, Sizes
    <2>3. SizeOf(fleet[f].ships) \in Nat /\ SizeOf(fleet'[f].ships) \in Nat
      BY <2>1, Sizes
    <2> QED
      BY <2>1, <2>2, <2>3, LimitAssumption
  <1> QED
    BY <1>1 DEF Berths, FleetsFit

\* Ships are gathered only when they fit.
LEMMA BerthsGather ==
    ASSUME TypeOK, Berths, NEW f \in FleetIDs,
           \/ \E g \in FleetIDs : GatherFleet(f, g)
           \/ \E c \in Planets : GatherHangar(f, c)
    PROVE  Berths'
  <1> USE DEF TypeOK, FleetIDs
  <1>0. NoShips \in ShipTab /\ IsEmpty(NoShips) /\ SizeOf(NoShips) = 0
    BY ShipTables, Sizes DEF IsEmpty, NoShips
  <1>1. ASSUME NEW g \in FleetIDs, GatherFleet(f, g) PROVE Berths'
    <2>1. /\ fleet' = [h \in FleetIDs \ {g} |->
                         IF h = f THEN [fleet[f] EXCEPT !.ships = AddShips(@, fleet[g].ships)]
                                  ELSE fleet[h]]
          /\ SizeOf(AddShips(fleet[f].ships, fleet[g].ships)) <= MaxFleetSize
          /\ UNCHANGED <<hangar, task>>
      BY <1>1 DEF GatherFleet, CanGather, siteVars
    <2>2. \A h \in FleetIDs' : SizeOf(fleet'[h].ships) <= MaxFleetSize
      <3> TAKE h \in FleetIDs'
      <3>1. CASE h = f
        <4>1. fleet'[f].ships = AddShips(fleet[f].ships, fleet[g].ships)
          BY <2>1, <3>1 DEF Fleet
        <4> QED
          BY <2>1, <3>1, <4>1
      <3>2. CASE h # f
        BY <2>1, <3>2 DEF Berths, FleetsFit
      <3> QED
        BY <3>1, <3>2
    <2> QED
      BY <2>1, <2>2 DEF Berths, FleetsFit
  <1>2. ASSUME NEW c \in Planets, GatherHangar(f, c) PROVE Berths'
    <2>1. /\ fleet' = [fleet EXCEPT ![f].ships = AddShips(@, hangar[c])]
          /\ hangar' = [hangar EXCEPT ![c] = NoShips]
          /\ SizeOf(AddShips(fleet[f].ships, hangar[c])) <= MaxFleetSize
          /\ UNCHANGED task
      BY <1>2 DEF GatherHangar, CanGather
    <2>2. \A h \in FleetIDs' : SizeOf(fleet'[h].ships) <= MaxFleetSize
      <3> TAKE h \in FleetIDs'
      <3>1. CASE h = f
        <4>1. fleet'[f].ships = AddShips(fleet[f].ships, hangar[c])
          BY <2>1, <3>1 DEF Fleet
        <4> QED
          BY <2>1, <3>1, <4>1
      <3>2. CASE h # f
        BY <2>1, <3>2 DEF Berths, FleetsFit
      <3> QED
        BY <3>1, <3>2
    <2> QED
      BY <1>0, <2>1, <2>2 DEF Berths, FleetsFit
  <1> QED
    BY <1>1, <1>2

\* Every step keeps the fleets within the limit and the hangars down to one ship.
LEMMA BerthsStep == TypeOK /\ TypeOK' /\ Berths /\ [Next]_vars => Berths'
  <1> SUFFICES ASSUME TypeOK, TypeOK', Berths, [Next]_vars PROVE Berths'
    OBVIOUS
  <1> USE DEF FleetIDs
  <1>0. NoShips \in ShipTab /\ IsEmpty(NoShips) /\ SizeOf(NoShips) = 0
    BY ShipTables, Sizes DEF IsEmpty, NoShips
  <1>1. ASSUME UNCHANGED <<fleet, hangar, task>> PROVE Berths'
    BY <1>1 DEF Berths, FleetsFit
  <1>2. ASSUME NEW c \in Planets, PlanetRound(c) PROVE Berths'
    BY <1>2, BerthsPlanetRound
  <1>3. ASSUME NEW f \in FleetIDs, FleetRound(f) PROVE Berths'
    <2>1. UNCHANGED <<hangar, task>> /\ FleetIDs' = FleetIDs /\ fleet' \in [FleetIDs' -> Fleet]
      BY <1>3 DEF FleetRound, Settle, siteVars, TypeOK
    <2>2. \A g \in FleetIDs' : \A s \in Ship : fleet'[g].ships[s] <= fleet[g].ships[s]
      <3> SUFFICES ASSUME NEW g \in FleetIDs, NEW s \in Ship
                   PROVE  fleet'[g].ships[s] <= fleet[g].ships[s]
        BY <2>1
      <3>1. fleet[g] \in Fleet /\ fleet[g].ships \in [Ship -> Nat] /\ fleet[g].ships[s] \in Nat
        BY DEF TypeOK, Fleet, ShipTab
      <3>2. CASE fleet' = [fleet EXCEPT ![f].ships[Queen] = @ - 1, ![f].task = NoTask]
        BY <3>1, <3>2, ShipAssumption DEF TypeOK, Fleet
      <3>3. CASE fleet' = [fleet EXCEPT
                             ![f].coord = IF fleet[f].task # NoTask /\ fleet[f].task.type = "Move"
                                          THEN fleet[f].task.position ELSE @,
                             ![f].task = NoTask]
        BY <3>1, <3>3 DEF TypeOK, Fleet
      <3> QED
        BY <1>3, <3>2, <3>3 DEF FleetRound, Settle
    <2> QED
      BY <2>1, <2>2, BerthsFleets
  <1>4. CASE ExecPlanets
    <2>1. fleet' = fleet /\ hangar' = hangar
      BY <1>4 DEF ExecPlanets, fleetVars
    <2>2. ASSUME NEW c \in Planets, task'[c] \in Ship PROVE IsEmpty(hangar[c])
      <3>1. CASE task'[c] = task[c]
        BY <2>2, <3>1 DEF Berths
      <3>2. CASE task'[c] # task[c]
        <4>1. PICK action \in [Owned -> {"Nothing", "StopBuilding", "Building", "Cannon"} \cup Ship] :
                task' = [d \in Planets |->
                     IF d \in Owned THEN ApplyPlanetAction(d, action[d]) ELSE task[d]]
          BY <1>4 DEF ExecPlanets
        <4>2. c \in Owned /\ task'[c] = ApplyPlanetAction(c, action[c])
          BY <3>2, <4>1
        <4>3. task'[c] # NoTask
          BY <2>2, ShipAssumption
        <4>4. CanBuild(c, action[c]) /\ task'[c] = action[c]
          BY <3>2, <4>2, <4>3 DEF ApplyPlanetAction
        <4> QED
          BY <2>2, <4>4 DEF CanBuild
      <3> QED
        BY <3>1, <3>2
    <2> QED
      BY <2>1, <2>2 DEF Berths, FleetsFit
  <1>5. ASSUME NEW f \in FleetIDs,
               \/ \E g \in FleetIDs : GatherFleet(f, g)
               \/ \E c \in Planets : GatherHangar(f, c)
        PROVE  Berths'
    BY <1>5, BerthsGather
  <1>6. ASSUME NEW f \in FleetIDs, OrderFleet(f) \/ ReparentFleet(f) PROVE Berths'
    <2>1. UNCHANGED <<hangar, task>> /\ FleetIDs' = FleetIDs
      BY <1>6 DEF OrderFleet, ReparentFleet, siteVars, TypeOK
    <2>2. \A g \in FleetIDs : fleet'[g].ships = fleet[g].ships
      <3>1. fleet \in [FleetIDs -> Fleet]
        BY DEF TypeOK
      <3>2. CASE ReparentFleet(f)
        BY <3>1, <3>2 DEF ReparentFleet, Fleet
      <3>3. CASE OrderFleet(f)
        <4>1. fleet' = fleet \/ \E order \in FleetTask : fleet' = [fleet EXCEPT ![f].task = order]
          BY <3>3 DEF OrderFleet
        <4> QED
          BY <3>1, <4>1 DEF Fleet
      <3> QED
        BY <1>6, <3>2, <3>3
    <2> QED
      BY <2>1, <2>2 DEF Berths, FleetsFit
  <1>7. CASE EndFleets \/ EndRound
    <2>1. /\ UNCHANGED <<hangar, task>>
          /\ FleetIDs' \subseteq FleetIDs
          /\ \A f \in FleetIDs' : fleet'[f] = fleet[f]
      BY <1>7 DEF EndFleets, EndRound, Restrict, Manned, siteVars
    <2> QED
      BY <2>1 DEF Berths, FleetsFit
  <1>8. ASSUME NEW c \in Coord, Battle(c) PROVE Berths'
    <2>1. UNCHANGED <<hangar, task>>
      BY <1>8 DEF Battle
    <2>2. CASE fleet' = fleet
      BY <1>1, <2>1, <2>2
    <2>3. CASE fleet' # fleet
      <3>0. PICK stay \in SUBSET FleetsAt(c) : \E after \in [stay -> [Ship -> 0 .. MaxFleetSize]] :
              /\ \A f \in stay : after[f] \in Losses(fleet[f].ships)
              /\ fleet' = [f \in FleetIDs |-> IF f \in stay
                             THEN [fleet[f] EXCEPT !.ships = after[f]] ELSE fleet[f]]
        BY <1>8, <2>3 DEF Battle
      <3>1. PICK after \in [stay -> [Ship -> 0 .. MaxFleetSize]] :
              /\ \A f \in stay : after[f] \in Losses(fleet[f].ships)
              /\ fleet' = [f \in FleetIDs |-> IF f \in stay
                             THEN [fleet[f] EXCEPT !.ships = after[f]] ELSE fleet[f]]
        BY <3>0
      <3>2. FleetIDs' = FleetIDs /\ fleet' \in [FleetIDs' -> Fleet]
        BY <3>1 DEF TypeOK
      <3>3. \A f \in FleetIDs : \A s \in Ship : fleet'[f].ships[s] <= fleet[f].ships[s]
        <4> TAKE f \in FleetIDs
        <4> TAKE s \in Ship
        <4>1. fleet[f] \in Fleet /\ fleet[f].ships[s] \in Nat
          BY DEF TypeOK, Fleet, ShipTab
        <4>2. CASE f \in stay
          <5>1. fleet'[f].ships = after[f]
            BY <3>1, <4>1, <4>2 DEF Fleet
          <5>2. after[f][s] <= fleet[f].ships[s]
            BY <3>1, <4>2 DEF Losses
          <5> QED
            BY <5>1, <5>2
        <4>3. CASE f \notin stay
          BY <3>1, <4>1, <4>3
        <4> QED
          BY <4>2, <4>3
      <3> QED
        BY <2>1, <3>2, <3>3, BerthsFleets
    <2> QED
      BY <2>2, <2>3
  <1>9. CASE OnPlanetLose
    <2>1. /\ fleet' = fleet
          /\ task' = [c \in Planets |-> IF c \in Taken THEN NoTask ELSE task[c]]
          /\ hangar' = [c \in Planets |-> IF c \in Taken THEN NoShips ELSE hangar[c]]
      BY <1>9 DEF OnPlanetLose, fleetVars
    <2> QED
      BY <1>0, <2>1, ShipAssumption DEF Berths, FleetsFit
  <1>10. CASE \/ BeginRound \/ EndCreate \/ EndPlanetTasks \/ EndFleetTasks \/ EndGather
              \/ UNCHANGED vars
              \/ \E p \in Player : AddPlayer(p) \/ \E c \in Planets : CreateMainPlanet(p, c)
              \/ \E f \in FleetIDs : GatherNoMore(f)
              \/ \E c \in Planets : ReparentPlanet(c)
    BY <1>1, <1>10 DEF BeginRound, EndCreate, EndPlanetTasks, EndFleetTasks, EndGather, AddPlayer,
         CreateMainPlanet, GatherNoMore, ReparentPlanet, vars, siteVars, fleetVars
  <1> QED
    BY <1>2, <1>3, <1>4, <1>5, <1>6, <1>7, <1>8, <1>9, <1>10 DEF Next, RoundStep, AtBound

\* No fleet exceeds the size limit, although launching a hangar never tests it.
THEOREM FleetsStayFit == Spec => []FleetsFit
  <1>1. Init => Berths
    <2> SUFFICES ASSUME Init PROVE Berths
      OBVIOUS
    <2>1. NoShips \in ShipTab /\ IsEmpty(NoShips) /\ SizeOf(NoShips) = 0
      BY ShipTables, Sizes DEF IsEmpty, NoShips
    <2> QED
      BY <2>1, ShipAssumption DEF Init, Berths, FleetsFit, FleetIDs
  <1>2. IInv => TypeOK
    BY DEF IInv
  <1>3. Berths => FleetsFit
    BY DEF Berths
  <1> QED
    BY <1>1, <1>2, <1>3, BerthsStep, Inductive, PTL DEF Spec

-----------------------------------------------------------------------------
(* What a round does to the owners.                                        *)

\* A colony belongs to a player who had a planet before the round: the fleet's origin is
\* his, and belonged to him or was settled by him in this same round (execFleetTasks).
LEMMA SettlersHadPlanets ==
  ASSUME IInv, SoFar, NEW f \in FleetIDs, FleetRound(f)
  PROVE  SoFar'
  <1>1. phase = "fleetTasks" /\ phase' = "fleetTasks" /\ before' = before
    BY DEF FleetRound, clockVars
  <1>2. CASE owner' = owner
    BY <1>1, <1>2 DEF SoFar, InBounds, Settling
  <1>3. CASE owner' # owner
    <2> DEFINE c == fleet[f].task.position
               o == fleet[f].origin
               p == fleet[f].player
    <2>1. /\ fleet[f].task # NoTask /\ fleet[f].task.type = "Colonize"
          /\ owner[c] = NoId /\ owner' = [owner EXCEPT ![c] = p]
      BY <1>3 DEF FleetRound, landVars, Settle, CanSettle
    <2>2. fleet[f] \in Fleet /\ o \in Planets /\ owner \in [Planets -> Player \cup {NoId}]
      BY DEF IInv, TypeOK, Fleet
    <2>3. owner[o] = p
      BY <1>1 DEF IInv, Lineage, Family
    <2> HIDE DEF c, o, p
    <2>4. \A e \in Planets : \/ owner[e] = before[e]
                             \/ before[e] = NoId /\ \E d \in Planets : owner[e] = before[d]
      BY <1>1 DEF SoFar, Settling
    <2>5. \E d \in Planets : p = before[d]
      BY <2>2, <2>3, <2>4
    <2>6. \A e \in Planets : e # c => owner'[e] = owner[e]
      BY <2>1, <2>2
    <2>7. c \in Planets => before[c] = NoId /\ owner'[c] = p
      BY <2>1, <2>2, <2>4
    <2>8. \A e \in Planets : \/ owner'[e] = before[e]
                             \/ before[e] = NoId /\ \E d \in Planets : owner'[e] = before[d]
      BY <2>4, <2>5, <2>6, <2>7
    <2> QED
      BY <1>1, <2>8 DEF SoFar, InBounds, Settling
  <1> QED
    BY <1>2, <1>3

\* What is lost was free before the round, or was not its owner's main planet
\* (onPlanetLose).
LEMMA LosersKeepHome ==
  ASSUME IInv, SoFar, OnPlanetLose
  PROVE  SoFar'
  <1>1. /\ phase = "fights" /\ phase' = "reparent" /\ UNCHANGED <<before, mainPlanet>>
        /\ owner' = [c \in Planets |-> IF c \in Taken THEN NoId ELSE owner[c]]
    BY DEF OnPlanetLose, clockVars, playerVars
  <1>2. before \in [Planets -> Player \cup {NoId}]
    BY DEF IInv, TypeOK
  <1> SUFFICES ASSUME NEW c \in Planets PROVE MayBecome(c, before, owner', mainPlanet, NoId)
    BY <1>1, <1>2 DEF SoFar, InBounds, RoundMayLeave, Settling
  <1>3. \/ owner[c] = before[c]
        \/ before[c] = NoId /\ \E d \in Planets : owner[c] = before[d]
    BY <1>1 DEF SoFar, Settling
  <1>4. CASE c \in Taken
    <2>1. owner'[c] = NoId /\ mainPlanet[owner[c]] # c
      BY <1>1, <1>4 DEF Taken
    <2> QED
      BY <1>3, <2>1 DEF MayBecome
  <1>5. CASE c \notin Taken
    <2>1. owner'[c] = owner[c]
      BY <1>1, <1>5
    <2> QED
      BY <1>2, <1>3, <2>1 DEF MayBecome
  <1> QED
    BY <1>4, <1>5

\* No visit of any pass takes the owners beyond what the round may leave (round, onPlanetLose).
LEMMA SoFarStep == IInv /\ SoFar /\ [Next]_vars => SoFar'
  <1> SUFFICES ASSUME IInv, SoFar, [Next]_vars PROVE SoFar'
    OBVIOUS
  <1>1. ASSUME UNCHANGED <<owner, before, mainPlanet>>,
               phase' \in Settling => phase \in Settling,
               phase' = "reparent" => phase = "reparent"
        PROVE  SoFar'
    BY <1>1 DEF SoFar, InBounds, Settling
  <1>2. CASE \/ BeginRound \/ EndRound
             \/ \E p \in Player, c \in Planets : CreateMainPlanet(p, c)
    <2>1. phase' \in {"create", "idle"}
      BY <1>2 DEF BeginRound, EndRound, CreateMainPlanet
    <2> QED
      BY <2>1 DEF SoFar, InBounds, Settling
  <1>3. CASE EndCreate
    BY <1>3 DEF EndCreate, landVars, SoFar, InBounds, Settling
  <1>4. CASE \E f \in FleetIDs : FleetRound(f)
    BY <1>4, SettlersHadPlanets
  <1>5. CASE OnPlanetLose
    BY <1>5, LosersKeepHome
  <1>6. CASE \/ \E p \in Player : AddPlayer(p)
             \/ \E c \in Planets : PlanetRound(c) \/ ReparentPlanet(c)
             \/ \E f, g \in FleetIDs : GatherFleet(f, g)
             \/ \E f \in FleetIDs, c \in Planets : GatherHangar(f, c)
             \/ \E f \in FleetIDs : GatherNoMore(f) \/ OrderFleet(f) \/ ReparentFleet(f)
             \/ \E c \in Coord : Battle(c)
             \/ UNCHANGED vars
    <2>1. UNCHANGED <<owner, before, mainPlanet, phase>>
      BY <1>6 DEF AddPlayer, PlanetRound, GatherFleet, GatherHangar, GatherNoMore, OrderFleet,
                  Battle, ReparentFleet, ReparentPlanet, vars, clockVars, playerVars, landVars
    <2> QED
      BY <1>1, <2>1
  <1>7. CASE EndPlanetTasks \/ EndFleetTasks \/ ExecPlanets \/ EndGather \/ EndFleets
    <2>1. UNCHANGED <<owner, before, mainPlanet>> /\ phase \in Settling /\ phase' # "reparent"
      BY <1>7 DEF EndPlanetTasks, EndFleetTasks, ExecPlanets, EndGather, EndFleets, clockVars,
                  playerVars, landVars, Settling
    <2> QED
      BY <1>1, <2>1
  <1> QED
    BY <1>2, <1>3, <1>4, <1>5, <1>6, <1>7 DEF Next, RoundStep, AtBound

\* No step takes a planet from one player for another: both the task to settle and the
\* arrival ask that it is free (canColonize, execFleetTasks).
LEMMA NoPlanetStolen == IInv /\ [Next]_vars => [NotStolen]_vars
  <1> SUFFICES ASSUME IInv, Next PROVE NotStolen
    OBVIOUS
  <1> USE DEF IInv, TypeOK, NotStolen
  <1>1. CASE UNCHANGED owner
    BY <1>1
  <1>2. ASSUME NEW p \in Player, NEW c \in Planets, CreateMainPlanet(p, c) PROVE NotStolen
    BY <1>2 DEF CreateMainPlanet
  <1>3. ASSUME NEW f \in FleetIDs, FleetRound(f) PROVE NotStolen
    BY <1>3 DEF FleetRound, CanSettle, Settle, landVars
  <1>4. CASE OnPlanetLose
    BY <1>4 DEF OnPlanetLose
  <1> QED
    BY <1>1, <1>2, <1>3, <1>4
       DEF Next, RoundStep, AtBound, AddPlayer, BeginRound, EndCreate, PlanetRound,
           EndPlanetTasks, EndFleetTasks, ExecPlanets, GatherFleet, GatherHangar, GatherNoMore,
           EndGather, OrderFleet, EndFleets, Battle, ReparentFleet, ReparentPlanet, EndRound,
           landVars, vars

\* Whatever the players order and however the battles end, no step takes a planet from one
\* player for another, and a round leaves the planets to owners that module Engine allows:
\* who settles had a planet before the round, who loses one keeps the main planet.
THEOREM RoundsStayInBounds == Spec => RoundOutcome
  <1>1. Init => SoFar
    BY DEF Init, SoFar, InBounds, Settling
  <1>2. IInv /\ SoFar' /\ [Next]_vars => [NotStolen /\ InBounds']_vars
    BY NoPlanetStolen DEF SoFar
  <1> QED
    BY <1>1, <1>2, SoFarStep, Inductive, PTL DEF Spec, RoundOutcome

-----------------------------------------------------------------------------
(* Every step of a round brings its end nearer.                            *)

\* Battles are at the places of fleets, of which there are finitely many.
LEMMA FiniteBattles ==
  ASSUME TypeOK, EndFleets
  PROVE  IsFiniteSet(todo')
  <1> DEFINE at == [f \in FleetIDs |-> fleet[f].coord]
             P  == {at[f] : f \in FleetIDs}
  <1>1. IsFiniteSet(P)
    <2>1. IsFiniteSet(FleetIDs)
      BY DEF TypeOK
    <2>2. at \in Surjection(FleetIDs, P)
      BY DEF Surjection
    <2> QED
      BY <2>1, <2>2, FS_Surjection
  <1>2. IsFiniteSet(P \cup Planets)
    BY <1>1, PlanetsAssumption, FS_Union
  <1>3. todo' \subseteq P \cup Planets
    <2> SUFFICES ASSUME NEW c \in todo', c \notin Planets PROVE c \in P
      OBVIOUS
    <2>1. PICK p \in PlayersAt(c, Manned \cap FleetsAt(c)) : TRUE
      BY DEF EndFleets
    <2>2. p \in {fleet[f].player : f \in Manned \cap FleetsAt(c)}
      BY <2>1 DEF PlayersAt, Owned
    <2> QED
      BY <2>2 DEF FleetsAt
  <1> QED
    BY <1>2, <1>3, FS_Subset

\* There is never more than finitely much to do.
FiniteTodo == IsFiniteSet(todo)

\* No pass makes it infinite.
LEMMA TodoStep == TypeOK /\ FiniteTodo /\ [Next]_vars => FiniteTodo'
  <1> SUFFICES ASSUME TypeOK, FiniteTodo, [Next]_vars PROVE FiniteTodo'
    OBVIOUS
  <1> USE DEF FiniteTodo
  <1>1. CASE \E x : todo' = todo \ {x}
    BY <1>1, FS_RemoveElement
  <1>2. CASE EndFleets
    BY <1>2, FiniteBattles
  <1>3. CASE EndCreate
    BY <1>3, PlanetsAssumption, FS_Subset DEF EndCreate, Owned
  <1>4. CASE EndPlanetTasks \/ ExecPlanets \/ EndGather
    BY <1>4 DEF EndPlanetTasks, ExecPlanets, EndGather, TypeOK
  <1>5. CASE EndFleetTasks
    BY <1>5, FS_EmptySet DEF EndFleetTasks
  <1>6. CASE \/ \E c \in Planets : PlanetRound(c) \/ ReparentPlanet(c)
             \/ \E f, g \in FleetIDs : GatherFleet(f, g)
             \/ \E f \in FleetIDs, c \in Planets : GatherHangar(f, c)
             \/ \E f \in FleetIDs : \/ FleetRound(f) \/ GatherNoMore(f) \/ OrderFleet(f)
                                    \/ ReparentFleet(f)
             \/ \E c \in Coord : Battle(c)
    <2>1. todo' = todo \/ \E x : todo' = todo \ {x}
      BY <1>6 DEF PlanetRound, ReparentPlanet, GatherFleet, GatherHangar, FleetRound,
                  GatherNoMore, OrderFleet, ReparentFleet, Battle
    <2> QED
      BY <1>1, <2>1
  <1>7. CASE \/ BeginRound \/ OnPlanetLose \/ EndRound \/ UNCHANGED vars
             \/ \E p \in Player : AddPlayer(p) \/ \E c \in Planets : CreateMainPlanet(p, c)
    <2>1. todo' = todo
      BY <1>7 DEF BeginRound, OnPlanetLose, EndRound, AddPlayer, CreateMainPlanet, vars
    <2> QED
      BY <2>1
  <1> QED
    BY <1>2, <1>3, <1>4, <1>5, <1>6, <1>7 DEF Next, RoundStep, AtBound

\* A visit leaves one visit less.
LEMMA VisitsCount ==
  ASSUME IsFiniteSet(todo), NEW x \in todo, todo' = todo \ {x},
         phase' = phase, phase \notin {"create", "reparent"}
  PROVE  Work' \in 0 .. Work - 1
  <1>1. /\ Cardinality(todo') = Cardinality(todo) - 1
        /\ Cardinality(todo) \in Nat /\ Cardinality(todo') \in Nat
    BY FS_RemoveElement, FS_CardinalityType
  <1>2. Work = Cardinality(todo) /\ Work' = Cardinality(todo')
    BY DEF Work
  <1> QED
    BY <1>1, <1>2

\* A player who is served is without a planet no more (createNewPlayersPlanets).
LEMMA ServiceCounts ==
  ASSUME IInv, NEW p \in Player, NEW c \in Planets, CreateMainPlanet(p, c)
  PROVE  Work' \in 0 .. Work - 1
  <1>1. p \in Homeless
    BY DEF CreateMainPlanet, IInv, Waiting, Homeless
  <1>2. Homeless' = Homeless \ {p}
    BY NullAssumption DEF CreateMainPlanet, Homeless, IInv, TypeOK, Coord
  <1>3. IsFiniteSet(Homeless)
    BY PlayerAssumption, FS_Subset DEF Homeless
  <1>4. /\ Cardinality(Homeless') = Cardinality(Homeless) - 1
        /\ Cardinality(Homeless) \in Nat /\ Cardinality(Homeless') \in Nat
    BY <1>1, <1>2, <1>3, FS_RemoveElement, FS_CardinalityType
  <1>5. Work = Cardinality(Homeless) /\ Work' = Cardinality(Homeless')
    BY DEF Work, CreateMainPlanet
  <1> QED
    BY <1>4, <1>5

\* The ages are natural numbers, and so are their sums.
LEMMA AgesAdd ==
  ASSUME TypeOK
  PROVE  /\ OriginAge \in [FleetIDs -> Nat] /\ IsFiniteSet(FleetIDs)
         /\ ParentAge \in [Planets -> Nat]
         /\ SizeOf(OriginAge) = Sum(OriginAge) /\ Sum(OriginAge) \in Nat
         /\ SizeOf(ParentAge) = Sum(ParentAge) /\ Sum(ParentAge) \in Nat
  <1>1. OriginAge \in [FleetIDs -> Nat] /\ IsFiniteSet(FleetIDs) /\ ParentAge \in [Planets -> Nat]
    BY DEF TypeOK, OriginAge, ParentAge, Fleet
  <1>2. SizeOf(OriginAge) = Sum(OriginAge) /\ SizeOf(ParentAge) = Sum(ParentAge)
    BY DEF SizeOf, Sum
  <1> HIDE DEF OriginAge, ParentAge
  <1> QED
    BY <1>1, <1>2, PlanetsAssumption, SumNat

\* A smaller term makes a smaller sum.
LEMMA SmallerTerm ==
  ASSUME NEW S, IsFiniteSet(S), NEW g \in [S -> Nat], NEW x \in S, NEW v \in Nat, v < g[x]
  PROVE  Sum([g EXCEPT ![x] = v]) \in Nat /\ Sum([g EXCEPT ![x] = v]) < Sum(g)
  <1>1. Sum([g EXCEPT ![x] = v]) = Sum(g) - g[x] + v
    BY SumExcept
  <1>2. [g EXCEPT ![x] = v] \in [S -> Nat]
    OBVIOUS
  <1>3. Sum(g) \in Nat /\ Sum([g EXCEPT ![x] = v]) \in Nat /\ g[x] \in Nat
    BY <1>2, SumNat
  <1> QED
    BY <1>1, <1>3

\* A step of a walk leads to an older planet (execFights).
LEMMA WalksAge ==
  ASSUME IInv, phase = "reparent", phase' = "reparent",
         \/ \E f \in FleetIDs : ReparentFleet(f)
         \/ \E c \in Planets : ReparentPlanet(c)
  PROVE  Work' \in 0 .. Work - 1
  <1>0. TypeOK /\ TypeOK'
    <2>1. Next
      BY DEF Next, RoundStep
    <2> QED
      BY <2>1, TypeStep DEF IInv
  <1>1. \A c \in Planets : newParentMap[c] # NoCoord =>
           newParentMap[c] \in Planets /\ firstRound[newParentMap[c]] < firstRound[c]
    BY DEF IInv, Lineage, Heirs, TypeOK
  <1>2. /\ Work = Sum(OriginAge) + Sum(ParentAge) /\ Work' = Sum(OriginAge)' + Sum(ParentAge)'
        /\ Sum(OriginAge) \in Nat /\ Sum(ParentAge) \in Nat
    <2>1. (TypeOK => /\ SizeOf(OriginAge) = Sum(OriginAge)
                     /\ SizeOf(ParentAge) = Sum(ParentAge))'
      BY AgesAdd, PTL
    <2> QED
      BY <1>0, <2>1, AgesAdd DEF Work
  <1>3. ASSUME NEW f \in FleetIDs, ReparentFleet(f)
        PROVE  Work' \in 0 .. Work - 1
    <2> DEFINE o == fleet[f].origin
               v == firstRound[newParentMap[o]]
    <2>1. /\ newParentMap[o] # NoCoord /\ o \in Planets
          /\ fleet' = [fleet EXCEPT ![f].origin = newParentMap[o]]
          /\ UNCHANGED <<parent, firstRound>>
      BY <1>0, <1>3 DEF ReparentFleet, OrphanFleets, landVars, TypeOK, Fleet
    <2>2. v \in Nat /\ v < OriginAge[f]
      BY <1>0, <1>1, <2>1 DEF OriginAge, TypeOK
    <2>3. OriginAge' = [OriginAge EXCEPT ![f] = v]
      BY <1>0, <2>1 DEF OriginAge, TypeOK, Fleet
    <2>4. ParentAge' = ParentAge
      BY <2>1 DEF ParentAge
    <2> HIDE DEF o, v
    <2>5. Sum([OriginAge EXCEPT ![f] = v]) \in Nat
          /\ Sum([OriginAge EXCEPT ![f] = v]) < Sum(OriginAge)
      BY <1>0, <2>2, AgesAdd, SmallerTerm
    <2> QED
      BY <1>2, <2>3, <2>4, <2>5
  <1>4. ASSUME NEW c \in Planets, ReparentPlanet(c)
        PROVE  Work' \in 0 .. Work - 1
    <2> DEFINE v == firstRound[newParentMap[parent[c]]]
    <2>1. /\ newParentMap[parent[c]] # NoCoord /\ parent[c] \in Planets
          /\ parent' = [parent EXCEPT ![c] = newParentMap[parent[c]]]
          /\ UNCHANGED <<fleet, firstRound>>
      BY <1>0, <1>4 DEF ReparentPlanet, OrphanPlanets, fleetVars, TypeOK
    <2>2. v \in Nat /\ v < ParentAge[c]
      BY <1>0, <1>1, <2>1 DEF ParentAge, TypeOK
    <2>3. ParentAge' = [ParentAge EXCEPT ![c] = v]
      BY <1>0, <2>1 DEF ParentAge, TypeOK
    <2>4. OriginAge' = OriginAge
      BY <2>1 DEF OriginAge, FleetIDs
    <2> HIDE DEF v
    <2>5. Sum([ParentAge EXCEPT ![c] = v]) \in Nat
          /\ Sum([ParentAge EXCEPT ![c] = v]) < Sum(ParentAge)
      BY <1>0, <2>2, AgesAdd, PlanetsAssumption, SmallerTerm
    <2> QED
      BY <1>2, <2>3, <2>4, <2>5
  <1> QED
    BY <1>3, <1>4

\* Every step of a round that has begun.
LEMMA OnwardStep == IInv /\ FiniteTodo /\ Next /\ phase # "idle" => Onward
  <1> SUFFICES ASSUME IInv, IsFiniteSet(todo), Next, phase # "idle" PROVE Onward
    BY DEF FiniteTodo
  <1>1. ASSUME NEW p \in Player, AddPlayer(p) PROVE Onward
    <2>1. UNCHANGED <<phase, todo, mainPlanet, fleet, parent, firstRound>>
      BY <1>1 DEF AddPlayer, fleetVars, landVars
    <2>2. Work' = Work
      BY <2>1 DEF Work, Homeless, OriginAge, ParentAge
    <2> QED
      BY <1>1, <2>1, <2>2 DEF Onward
  <1>2. ASSUME NEW p \in Player, NEW c \in Planets, CreateMainPlanet(p, c) PROVE Onward
    BY <1>2, ServiceCounts DEF Onward, CreateMainPlanet
  <1>3. CASE \/ EndCreate \/ EndPlanetTasks \/ EndFleetTasks \/ ExecPlanets \/ EndGather
             \/ EndFleets \/ OnPlanetLose \/ EndRound
    BY <1>3 DEF EndCreate, EndPlanetTasks, EndFleetTasks, ExecPlanets, EndGather, EndFleets,
                OnPlanetLose, EndRound, Onward, Stage
  <1>4. CASE \/ \E c \in Planets : PlanetRound(c)
             \/ \E f, g \in FleetIDs : GatherFleet(f, g)
             \/ \E f \in FleetIDs, c \in Planets : GatherHangar(f, c)
             \/ \E f \in FleetIDs : FleetRound(f) \/ GatherNoMore(f) \/ OrderFleet(f)
             \/ \E c \in Coord : Battle(c)
    <2>1. /\ phase' = phase /\ phase \notin {"create", "reparent"}
          /\ \E x \in todo : todo' = todo \ {x}
      BY <1>4 DEF PlanetRound, GatherFleet, GatherHangar, FleetRound, GatherNoMore,
                  OrderFleet, Battle, IsNext
    <2> QED
      BY <2>1, VisitsCount DEF Onward
  <1>5. CASE \/ \E f \in FleetIDs : ReparentFleet(f)
             \/ \E c \in Planets : ReparentPlanet(c)
    <2>1. phase = "reparent" /\ phase' = "reparent"
      BY <1>5 DEF ReparentFleet, ReparentPlanet
    <2> QED
      BY <1>5, <2>1, WalksAge DEF Onward
  <1>6. CASE BeginRound \/ AtBound
    BY <1>6 DEF BeginRound, AtBound
  <1> QED
    BY <1>1, <1>2, <1>3, <1>4, <1>5, <1>6 DEF Next, RoundStep

\* What makes a round end, for any number of players, planets and fleets: the passes follow
\* each other, each visit leaves one less, each new player is served once, and the walks
\* of the orphans lead to older and older planets.
THEOREM RoundsAdvance == Spec => RoundAdvances
  <1>1. Init => FiniteTodo
    BY FS_EmptySet DEF Init, FiniteTodo
  <1>2. IInv => TypeOK
    BY DEF IInv
  <1>3. IInv /\ FiniteTodo /\ [Next]_vars => [phase # "idle" => Onward]_vars
    BY OnwardStep
  <1> QED
    BY <1>1, <1>2, <1>3, TodoStep, Inductive, PTL DEF Spec, RoundAdvances

-----------------------------------------------------------------------------
(* A battle is a meeting as module Encounter states it.                   *)

\* What a battle leaves alone, in its terms and in those of the encounter.
LEMMA BattleElsewhere ==
    ASSUME TypeOK, NEW c \in Coord, Battle(c)
    PROVE  /\ phase = "fights" /\ c \in todo
           /\ Elsewhere(c)
  <1>1. /\ phase = "fights" /\ c \in todo /\ todo' = todo \ {c}
        /\ UNCHANGED <<phase, clockVars, playerVars, landVars, hangar, task, nextFleetID,
                       newParentMap>>
    BY DEF Battle
  <1>2. fleet \in [FleetIDs -> Fleet] /\ cannon \in [Planets -> Nat]
    BY DEF TypeOK
  <1> DEFINE Rest == /\ FleetIDs' = FleetIDs
                     /\ \A f \in FleetIDs : fleet'[f] = [fleet[f] EXCEPT !.ships = fleet'[f].ships]
                     /\ \A f \in FleetIDs \ FleetsAt(c) : fleet'[f] = fleet[f]
                     /\ \A d \in Planets : d # c \/ d \notin Owned => cannon'[d] = cannon[d]
                     /\ deadFleets' \ FleetsAt(c) = deadFleets \ FleetsAt(c)
                     /\ lostPlanets' \ {c} = lostPlanets \ {c}
                     /\ (c \notin Owned => UNCHANGED lostPlanets)
  <1>3. CASE UNCHANGED <<fleet, cannon, deadFleets, lostPlanets>>
    <2>1. \A f \in FleetIDs : fleet[f] = [fleet[f] EXCEPT !.ships = fleet[f].ships]
      BY <1>2 DEF Fleet
    <2>2. Rest
      BY <1>3, <2>1 DEF FleetIDs
    <2> QED
      BY <1>1, <2>2 DEF Elsewhere
  <1>4. ASSUME NEW stay \in SUBSET FleetsAt(c),
               NEW after \in [stay -> [Ship -> 0 .. MaxFleetSize]],
               fleet' = [f \in FleetIDs |-> IF f \in stay
                            THEN [fleet[f] EXCEPT !.ships = after[f]] ELSE fleet[f]],
               deadFleets' = deadFleets \cup {f \in stay : IsEmpty(after[f])},
               IF c \in Owned
               THEN \E guns \in 0 .. cannon[c] :
                      /\ cannon' = [cannon EXCEPT ![c] = guns]
                      /\ lostPlanets' = IF Holds(c, stay, after, guns)
                                        THEN lostPlanets ELSE lostPlanets \cup {c}
               ELSE UNCHANGED <<cannon, lostPlanets>>
        PROVE  Rest
    <2>1. FleetIDs' = FleetIDs
      BY <1>4 DEF FleetIDs
    <2>2. ASSUME NEW f \in FleetIDs
          PROVE  /\ fleet'[f] = [fleet[f] EXCEPT !.ships = fleet'[f].ships]
                 /\ f \notin FleetsAt(c) => fleet'[f] = fleet[f]
      <3>1. CASE f \in stay
        <4>1. fleet'[f] = [fleet[f] EXCEPT !.ships = after[f]]
          BY <1>4, <3>1
        <4>2. fleet'[f].ships = after[f]
          BY <1>2, <4>1 DEF Fleet
        <4> QED
          BY <3>1, <4>1, <4>2
      <3>2. CASE f \notin stay
        BY <1>2, <1>4, <3>2 DEF Fleet
      <3> QED
        BY <3>1, <3>2
    <2>3. /\ \A d \in Planets : d # c \/ d \notin Owned => cannon'[d] = cannon[d]
          /\ lostPlanets' \ {c} = lostPlanets \ {c}
          /\ (c \notin Owned => UNCHANGED lostPlanets)
      BY <1>2, <1>4
    <2>4. deadFleets' \ FleetsAt(c) = deadFleets \ FleetsAt(c)
      BY <1>4
    <2> QED
      BY <2>1, <2>2, <2>3, <2>4
  <1>5. Rest
    <2>1. CASE ~ UNCHANGED <<fleet, cannon, deadFleets, lostPlanets>>
      <3>1. PICK stay \in SUBSET FleetsAt(c) : \E after \in [stay -> [Ship -> 0 .. MaxFleetSize]] :
              /\ fleet' = [f \in FleetIDs |-> IF f \in stay
                             THEN [fleet[f] EXCEPT !.ships = after[f]] ELSE fleet[f]]
              /\ deadFleets' = deadFleets \cup {f \in stay : IsEmpty(after[f])}
              /\ IF c \in Owned
                 THEN \E guns \in 0 .. cannon[c] :
                        /\ cannon' = [cannon EXCEPT ![c] = guns]
                        /\ lostPlanets' = IF Holds(c, stay, after, guns)
                                          THEN lostPlanets ELSE lostPlanets \cup {c}
                 ELSE UNCHANGED <<cannon, lostPlanets>>
        BY <2>1 DEF Battle
      <3> QED
        BY <1>4, <3>1
    <2> QED
      BY <1>3, <2>1, <1>2 DEF Fleet, FleetIDs
  <1> QED
    BY <1>1, <1>5 DEF Elsewhere

\* Who is at c stays there and keeps its leader, while ships and cannons are destroyed.
LEMMA SameArmies ==
    ASSUME TypeOK, NEW c \in Coord, Elsewhere(c)
    PROVE  /\ FleetsAt(c)' = FleetsAt(c) /\ ArmiesAt(c)' = ArmiesAt(c)
           /\ LeaderAt(c)' = LeaderAt(c) /\ Owned' = Owned
           /\ Grounded \notin FleetsAt(c)
           /\ \A f \in FleetIDs : fleet'[f].player = fleet[f].player
                                  /\ fleet'[f].coord = fleet[f].coord
  <1>1. /\ owner' = owner /\ FleetIDs' = FleetIDs
        /\ \A f \in FleetIDs : fleet'[f] = [fleet[f] EXCEPT !.ships = fleet'[f].ships]
    BY DEF Elsewhere, landVars
  <1>2. ASSUME NEW f \in FleetIDs
        PROVE  fleet'[f].player = fleet[f].player /\ fleet'[f].coord = fleet[f].coord
    <2>1. fleet[f] \in Fleet
      BY DEF TypeOK
    <2> QED
      BY <1>1, <2>1 DEF Fleet
  <1>3. FleetsAt(c)' = FleetsAt(c) /\ Owned' = Owned
    BY <1>1, <1>2 DEF FleetsAt, Owned
  <1>4. ArmiesAt(c)' = ArmiesAt(c)
    BY <1>3 DEF ArmiesAt, Grounded
  <1>5. Grounded \notin FleetsAt(c)
    BY DEF TypeOK, FleetsAt, Grounded
  <1>6. \A a \in ArmiesAt(c) : a # Grounded => a \in FleetIDs
    BY DEF ArmiesAt, FleetsAt
  <1>7. \A a \in ArmiesAt(c) : (IF a = Grounded THEN owner[c] ELSE fleet[a].player)'
                                 = IF a = Grounded THEN owner[c] ELSE fleet[a].player
    BY <1>1, <1>2, <1>6
  <1>8. LeaderAt(c)' = LeaderAt(c)
    BY <1>4, <1>7 DEF LeaderAt
  <1> QED
    BY <1>2, <1>3, <1>4, <1>5, <1>8

\* The armies at c and what they consist of, before and after.
LEMMA Strength ==
    ASSUME TypeOK, NEW c \in Coord, Elsewhere(c)
    PROVE  /\ Met(c)!Army = ArmiesAt(c) /\ DOMAIN UnitsAt(c)' = ArmiesAt(c)
           /\ \A f \in FleetsAt(c) :
                /\ UnitsAt(c)[f] = fleet[f].ships /\ UnitsAt(c)'[f] = fleet'[f].ships
                /\ LeaderAt(c)[f] = fleet[f].player /\ LeaderAt(c)[f] \in Player
                /\ f \in FleetIDs /\ f \in ArmiesAt(c) /\ f # Grounded
                /\ DOMAIN fleet[f].ships = Ship
           /\ c \in Owned =>
                /\ UnitsAt(c)[Grounded] = [k \in {"Cannon"} |-> cannon[c]]
                /\ UnitsAt(c)'[Grounded] = [k \in {"Cannon"} |-> cannon'[c]]
                /\ LeaderAt(c)[Grounded] = owner[c] /\ LeaderAt(c)[Grounded] \in Player
                /\ Grounded \in ArmiesAt(c)
           /\ Grounded \in ArmiesAt(c) => c \in Owned
  <1>1. ArmiesAt(c)' = ArmiesAt(c) /\ Owned' = Owned /\ Grounded \notin FleetsAt(c)
    BY SameArmies
  <1>2. \A f \in FleetsAt(c) : /\ f \in FleetIDs /\ f \in ArmiesAt(c) /\ f # Grounded
                               /\ fleet[f] \in Fleet
    BY <1>1 DEF FleetsAt, ArmiesAt, TypeOK
  <1>3. c \in Owned <=> Grounded \in ArmiesAt(c)
    BY <1>1 DEF ArmiesAt
  <1>4. c \in Owned => owner[c] \in Player
    BY DEF Owned, TypeOK
  <1>5. UnitsAt(c)' = [a \in ArmiesAt(c) |-> IF a = Grounded
                          THEN [k \in {"Cannon"} |-> cannon'[c]] ELSE fleet'[a].ships]
    BY <1>1 DEF UnitsAt, Grounded
  <1>6. Met(c)!Army = ArmiesAt(c)
    BY DEF Met!Army, UnitsAt
  <1>7. \A f \in FleetsAt(c) : /\ LeaderAt(c)[f] = fleet[f].player
                               /\ LeaderAt(c)[f] \in Player
                               /\ DOMAIN fleet[f].ships = Ship
    BY <1>2 DEF LeaderAt, Fleet, ShipTab
  <1>8. \A f \in FleetsAt(c) : UnitsAt(c)[f] = fleet[f].ships /\ UnitsAt(c)'[f] = fleet'[f].ships
    BY <1>2, <1>5 DEF UnitsAt
  <1>9. c \in Owned =>
                /\ UnitsAt(c)[Grounded] = [k \in {"Cannon"} |-> cannon[c]]
                /\ UnitsAt(c)'[Grounded] = [k \in {"Cannon"} |-> cannon'[c]]
                /\ LeaderAt(c)[Grounded] = owner[c] /\ LeaderAt(c)[Grounded] \in Player
    BY <1>3, <1>4, <1>5 DEF UnitsAt, LeaderAt
  <1>10. DOMAIN UnitsAt(c)' = ArmiesAt(c)
    BY <1>5
  <1> HIDE DEF Grounded
  <1> QED
    BY <1>2, <1>3, <1>6, <1>7, <1>8, <1>9, <1>10

\* The army of a fleet is without units when no ship is left.
LEMMA EmptyArmy ==
    ASSUME NEW c, NEW t, DOMAIN t = Ship
    PROVE  Met(c)!IsEmpty(t) <=> IsEmpty(t)
  BY DEF Met!IsEmpty, IsEmpty

\* The army of a planet is without units when no cannon is left.
LEMMA EmptyGround ==
    ASSUME NEW c, NEW n
    PROVE  Met(c)!IsEmpty([k \in {"Cannon"} |-> n]) <=> n = 0
  BY DEF Met!IsEmpty

\* A battle is an encounter of the fleets that stay and the planet, everybody against
\* everybody else (execFights, fight).
LEMMA BattleIsMeeting ==
    ASSUME IInv, Fought, NEW c \in Coord, Battle(c)
    PROVE  Met(c)!Next
  <1>0. TypeOK /\ Visits
    BY DEF IInv
  <1>1. phase = "fights" /\ c \in todo /\ c \notin todo' /\ Elsewhere(c)
    BY <1>0, BattleElsewhere DEF Elsewhere
  <1> USE DEF Met!Army
  <1>2. /\ FleetsAt(c)' = FleetsAt(c) /\ LeaderAt(c)' = LeaderAt(c)
        /\ FleetsAt(c) \subseteq FleetIDs /\ Grounded \notin FleetsAt(c)
    BY <1>0, <1>1, SameArmies DEF FleetsAt
  <1>3. deadFleets \cap FleetsAt(c) = {}
    BY <1>1 DEF Fought, FleetsAt
  <1>4. c \notin lostPlanets
    BY <1>0, <1>1 DEF Visits
  <1>5. Met(c)!Army = ArmiesAt(c) /\ DOMAIN UnitsAt(c)' = ArmiesAt(c)
    BY <1>0, <1>1, Strength
  <1>6. SUFFICES \E stay \in SUBSET ArmiesAt(c), foes \in SUBSET (Player \X Player) :
                    Met(c)!Outcome(stay, foes)
    BY <1>1, <1>2, <1>5 DEF Met!Next
  <1>7. CASE UNCHANGED <<fleet, cannon, deadFleets, lostPlanets>>
    <2> DEFINE all == ArmiesAt(c)
    <2>1. Met(c)!Engaged(all, {}) = {}
      BY DEF Met!Engaged, Met!Enemies
    <2>2. ASSUME NEW a \in all PROVE UnitsAt(c)'[a] = UnitsAt(c)[a]
      <3>1. a = Grounded \/ a \in FleetsAt(c)
        BY DEF ArmiesAt
      <3>2. CASE a \in FleetsAt(c)
        BY <1>0, <1>1, <1>7, <3>2, Strength
      <3>3. CASE a = Grounded
        BY <1>0, <1>1, <1>7, <3>3, Strength
      <3> QED
        BY <3>1, <3>2, <3>3
    <2>3. \A a \in all : Met(c)!Suffers(a, {})
      BY <2>2 DEF Met!Suffers
    <2>4. /\ (deadFleets \cap FleetsAt(c))' = deadFleets \cap FleetsAt(c)
          /\ {a \in {Grounded} : c \in lostPlanets}' = {a \in {Grounded} : c \in lostPlanets}
      BY <1>2, <1>7 DEF Grounded
    <2>5. Met(c)!Outcome(all, {})
      BY <1>5, <2>1, <2>3, <2>4 DEF Met!Outcome
    <2> QED
      BY <2>5
  <1>8. ASSUME NEW stay \in SUBSET FleetsAt(c),
               \E p, q \in PlayersAt(c, stay) : p # q,
               NEW after \in [stay -> [Ship -> 0 .. MaxFleetSize]],
               \A f \in stay : after[f] \in Losses(fleet[f].ships),
               fleet' = [f \in FleetIDs |-> IF f \in stay
                            THEN [fleet[f] EXCEPT !.ships = after[f]] ELSE fleet[f]],
               deadFleets' = deadFleets \cup {f \in stay : IsEmpty(after[f])},
               IF c \in Owned
               THEN \E guns \in 0 .. cannon[c] :
                      /\ cannon' = [cannon EXCEPT ![c] = guns]
                      /\ lostPlanets' = IF Holds(c, stay, after, guns)
                                        THEN lostPlanets ELSE lostPlanets \cup {c}
               ELSE UNCHANGED <<cannon, lostPlanets>>
        PROVE  \E st \in SUBSET ArmiesAt(c), foes \in SUBSET (Player \X Player) :
                    Met(c)!Outcome(st, foes)
    <2> DEFINE all  == stay \cup {a \in {Grounded} : c \in Owned}
               foes == {e \in Player \X Player : e[1] # e[2]}
    <2>1. all \in SUBSET ArmiesAt(c) /\ foes \in SUBSET (Player \X Player)
      BY DEF ArmiesAt
    <2>2. \A p, q \in Player : <<p, q>> \in foes <=> p # q
      OBVIOUS
    <2>3. \A a \in all : LeaderAt(c)[a] \in Player
      BY <1>0, <1>1, <2>1, Strength DEF ArmiesAt
    <2>4. \A p \in PlayersAt(c, stay) : \E a \in all : LeaderAt(c)[a] = p
      <3> TAKE p \in PlayersAt(c, stay)
      <3>1. CASE \E f \in stay : p = fleet[f].player
        BY <1>0, <1>1, <3>1, Strength
      <3>2. CASE c \in Owned /\ p = owner[c]
        BY <1>0, <1>1, <3>2, Strength
      <3> QED
        BY <3>1, <3>2 DEF PlayersAt
    <2> HIDE DEF foes
    <2>5. Met(c)!Engaged(all, foes) = all
      <3>1. ASSUME NEW a \in all PROVE Met(c)!Enemies(a, all, foes) # {}
        <4>1. PICK b \in all : LeaderAt(c)[b] # LeaderAt(c)[a]
          BY <1>8, <2>4
        <4>2. <<LeaderAt(c)[a], LeaderAt(c)[b]>> \in foes
          BY <2>2, <2>3, <4>1
        <4> QED
          BY <4>2 DEF Met!Enemies
      <3> QED
        BY <3>1 DEF Met!Engaged
    <2>6. all # {}
      BY <1>8, <2>4
    <2>7. ASSUME NEW f \in stay
          PROVE  /\ fleet'[f].ships = after[f] /\ DOMAIN after[f] = Ship
                 /\ \A s \in Ship : after[f][s] <= fleet[f].ships[s]
      <3>1. fleet[f] \in Fleet /\ f \in FleetIDs
        BY <1>0, <1>2 DEF TypeOK
      <3>2. fleet'[f] = [fleet[f] EXCEPT !.ships = after[f]]
        BY <1>8, <3>1
      <3> QED
        BY <1>8, <3>1, <3>2 DEF Fleet, Losses
    <2>8. ASSUME c \in Owned
          PROVE  cannon[c] \in Nat /\ cannon'[c] \in Nat /\ cannon'[c] <= cannon[c]
      <3>1. cannon[c] \in Nat
        BY <1>0, <2>8 DEF TypeOK, Owned
      <3> QED
        BY <1>0, <1>8, <2>8, <3>1 DEF TypeOK, Owned
    <2>9. ASSUME NEW a \in ArmiesAt(c) PROVE Met(c)!Suffers(a, all)
      <3>1. CASE a \in stay
        <4>1. UnitsAt(c)[a] = fleet[a].ships /\ UnitsAt(c)'[a] = after[a] /\ DOMAIN fleet[a].ships = Ship
          BY <1>0, <1>1, <2>7, <3>1, Strength
        <4> QED
          BY <2>7, <3>1, <4>1 DEF Met!Suffers
      <3>2. CASE a = Grounded
        <4>1. c \in Owned
          BY <1>0, <1>1, <3>2, Strength
        <4>2. /\ UnitsAt(c)[a] = [k \in {"Cannon"} |-> cannon[c]]
              /\ UnitsAt(c)'[a] = [k \in {"Cannon"} |-> cannon'[c]]
          BY <1>0, <1>1, <3>2, <4>1, Strength
        <4> QED
          BY <2>8, <3>2, <4>1, <4>2 DEF Met!Suffers
      <3>3. CASE a \in FleetsAt(c) /\ a \notin stay
        <4>1. fleet'[a] = fleet[a]
          BY <1>2, <1>8, <3>3
        <4>2. UnitsAt(c)'[a] = UnitsAt(c)[a]
          BY <1>0, <1>1, <3>3, <4>1, Strength
        <4>3. a \notin all
          BY <1>2, <3>3
        <4> QED
          BY <4>2, <4>3 DEF Met!Suffers
      <3> QED
        BY <3>1, <3>2, <3>3 DEF ArmiesAt
    <2>10. (deadFleets \cap FleetsAt(c))' = Met(c)!Destroyed(all)
      <3>1. all \ {Grounded} = stay
        BY <1>2
      <3>2. \A f \in stay : Met(c)!IsEmpty(UnitsAt(c)'[f]) <=> IsEmpty(after[f])
        BY <1>0, <1>1, <2>7, EmptyArmy, Strength
      <3>3. Met(c)!Destroyed(all) = {f \in stay : IsEmpty(after[f])}
        BY <3>1, <3>2 DEF Met!Destroyed
      <3> QED
        BY <1>2, <1>3, <1>8, <3>3
    <2>11. {a \in {Grounded} : c \in lostPlanets}' = Met(c)!Taken(all)
      <3>1. CASE c \in Owned
        <4>1. PICK guns \in 0 .. cannon[c] :
                      /\ cannon' = [cannon EXCEPT ![c] = guns]
                      /\ lostPlanets' = IF Holds(c, stay, after, guns)
                                        THEN lostPlanets ELSE lostPlanets \cup {c}
          BY <1>8, <3>1
        <4>2. cannon'[c] = guns /\ guns \in Nat
          BY <1>0, <2>8, <3>1, <4>1 DEF TypeOK, Owned
        <4>3. c \in lostPlanets' <=> ~ Holds(c, stay, after, guns)
          BY <1>4, <4>1
        <4>4. Met(c)!IsEmpty(UnitsAt(c)'[Grounded]) <=> guns = 0
          <5>1. UnitsAt(c)'[Grounded] = [k \in {"Cannon"} |-> cannon'[c]]
            BY <1>0, <1>1, <3>1, Strength
          <5>2. UnitsAt(c)'[Grounded] = [k \in {"Cannon"} |-> guns]
            BY <4>2, <5>1
          <5>3. Met(c)!IsEmpty([k \in {"Cannon"} |-> guns]) <=> guns = 0
            BY EmptyGround
          <5> QED
            BY <5>2, <5>3
        <4>5. all \ {Grounded} = stay /\ all \cap {Grounded} = {Grounded}
          BY <1>2, <3>1
        <4>6. \A f \in stay : /\ Met(c)!IsEmpty(UnitsAt(c)'[f]) <=> IsEmpty(after[f])
                              /\ LeaderAt(c)[f] = fleet[f].player
          BY <1>0, <1>1, <2>7, EmptyArmy, Strength
        <4>7. LeaderAt(c)[Grounded] = owner[c]
          BY <1>0, <1>1, <3>1, Strength
        <4>8. Grounded \in Met(c)!Taken(all) <=> ~ Holds(c, stay, after, guns)
          BY <4>2, <4>4, <4>5, <4>6, <4>7 DEF Met!Taken, Holds
        <4>9. Met(c)!Taken(all) \subseteq {Grounded}
          BY DEF Met!Taken
        <4>10. {a \in {Grounded} : c \in lostPlanets}' = {a \in {Grounded} : c \in lostPlanets'}
          BY DEF Grounded
        <4> QED
          BY <4>3, <4>8, <4>9, <4>10
      <3>2. CASE c \notin Owned
        <4>1. lostPlanets' = lostPlanets /\ all \cap {Grounded} = {}
          BY <1>2, <1>8, <3>2
        <4>2. Met(c)!Taken(all) = {}
          BY <4>1 DEF Met!Taken
        <4> QED
          BY <1>4, <4>1, <4>2 DEF Grounded
      <3> QED
        BY <3>1, <3>2
    <2>12. Met(c)!Outcome(all, foes)
      <3>1. Grounded \in ArmiesAt(c) => Grounded \in all
        BY <1>0, <1>1, Strength
      <3> QED
        BY <1>5, <2>2, <2>5, <2>6, <2>9, <2>10, <2>11, <3>1 DEF Met!Outcome
    <2> QED
      BY <2>1, <2>12
  <1>9. CASE ~ UNCHANGED <<fleet, cannon, deadFleets, lostPlanets>>
    <2>1. PICK stay \in SUBSET FleetsAt(c) :
            /\ \E p, q \in PlayersAt(c, stay) : p # q
            /\ \E after \in [stay -> [Ship -> 0 .. MaxFleetSize]] :
                 /\ \A f \in stay : after[f] \in Losses(fleet[f].ships)
                 /\ fleet' = [f \in FleetIDs |-> IF f \in stay
                                THEN [fleet[f] EXCEPT !.ships = after[f]] ELSE fleet[f]]
                 /\ deadFleets' = deadFleets \cup {f \in stay : IsEmpty(after[f])}
                 /\ IF c \in Owned
                    THEN \E guns \in 0 .. cannon[c] :
                           /\ cannon' = [cannon EXCEPT ![c] = guns]
                           /\ lostPlanets' = IF Holds(c, stay, after, guns)
                                             THEN lostPlanets ELSE lostPlanets \cup {c}
                    ELSE UNCHANGED <<cannon, lostPlanets>>
      BY <1>9 DEF Battle
    <2> QED
      BY <1>8, <2>1
  <1> QED
    BY <1>7, <1>9

\* No kind of ship is in a fleet more often than there are ships.
LEMMA ShipsFit ==
    ASSUME NEW tab \in ShipTab, SizeOf(tab) <= MaxFleetSize
    PROVE  \A s \in Ship : tab[s] <= MaxFleetSize
  <1> TAKE s \in Ship
  <1>1. IsFiniteSet(Ship) /\ IsFiniteSet(Ship \ {s}) /\ MaxFleetSize \in Nat
    BY ShipAssumption, LimitAssumption, FS_RemoveElement
  <1>2. tab \in [Ship -> Nat] /\ tab[s] \in Nat
    BY DEF ShipTab
  <1> DEFINE rest == [y \in Ship \ {s} |-> tab[y]]
  <1>3. rest \in [Ship \ {s} -> Nat]
    BY <1>2
  <1> HIDE DEF rest
  <1>4. Sum(rest) \in Nat
    BY <1>1, <1>3, SumNat
  <1>5. Sum(tab) = tab[s] + Sum(rest)
    BY <1>1, <1>2, SumTakes DEF rest
  <1>6. SizeOf(tab) = Sum(tab)
    BY DEF SizeOf, Sum
  <1> QED
    BY <1>1, <1>2, <1>4, <1>5, <1>6

\* Whatever module Encounter allows to happen at a place, Battle can do: what fight()
\* computes, which is such an encounter, is never missing from a round of this module.
THEOREM EncountersAreBattles ==
    ASSUME IInv, FleetsFit, Fought, TypeOK', NEW c \in Coord,
           phase = "fights", c \in todo, Met(c)!Next, Elsewhere(c)
    PROVE  Battle(c)
  <1>0. TypeOK /\ Visits
    BY DEF IInv
  <1>1. /\ FleetsAt(c)' = FleetsAt(c) /\ FleetsAt(c) \subseteq FleetIDs
        /\ Grounded \notin FleetsAt(c)
        /\ \A f \in FleetIDs : fleet'[f].player = fleet[f].player
    BY <1>0, SameArmies DEF FleetsAt
  <1>2. /\ deadFleets \cap FleetsAt(c) = {} /\ c \notin lostPlanets
        /\ deadFleets' \subseteq FleetIDs /\ deadFleets \subseteq FleetIDs
    BY <1>0 DEF Fought, FleetsAt, Visits, TypeOK, Elsewhere
  <1>3. Met(c)!Army = ArmiesAt(c)
    BY <1>0, Strength
  <1>4. PICK stay \in SUBSET ArmiesAt(c), foes \in SUBSET (Player \X Player) :
                    Met(c)!Outcome(stay, foes)
    BY <1>3 DEF Met!Next
  <1> DEFINE S       == stay \ {Grounded}
             engaged == Met(c)!Engaged(stay, foes)
  <1>5. S \in SUBSET FleetsAt(c)
    BY DEF ArmiesAt
  <1>6. /\ Grounded \in ArmiesAt(c) => Grounded \in stay
        /\ \A p, q \in Player : <<p, q>> \in foes => p # q
        /\ \A a \in ArmiesAt(c) : Met(c)!Suffers(a, engaged)
        /\ engaged = {} => /\ (deadFleets \cap FleetsAt(c))' = deadFleets \cap FleetsAt(c)
                           /\ {a \in {Grounded} : c \in lostPlanets}'
                                = {a \in {Grounded} : c \in lostPlanets}
        /\ engaged # {} => /\ (deadFleets \cap FleetsAt(c))' = Met(c)!Destroyed(stay)
                           /\ {a \in {Grounded} : c \in lostPlanets}' = Met(c)!Taken(stay)
    BY <1>3, <1>4 DEF Met!Outcome
  <1>7. {a \in {Grounded} : c \in lostPlanets}' = {a \in {Grounded} : c \in lostPlanets'}
    BY DEF Grounded
  <1>8. (deadFleets \cap FleetsAt(c))' = deadFleets' \cap FleetsAt(c)
    BY <1>1
  <1>9. engaged \subseteq stay
    BY DEF Met!Engaged
  <1> HIDE DEF engaged
  <1>10. /\ fleet \in [FleetIDs -> Fleet] /\ fleet' \in [FleetIDs -> Fleet]
         /\ cannon \in [Planets -> Nat] /\ cannon' \in [Planets -> Nat]
    BY <1>0 DEF TypeOK, Elsewhere
  \* Ships are only lost, and only by fleets that are engaged.
  <1>11. ASSUME NEW f \in FleetsAt(c)
         PROVE  /\ \A s \in Ship : fleet'[f].ships[s] <= fleet[f].ships[s]
                /\ f \notin engaged => fleet'[f] = fleet[f]
    <2>1. /\ UnitsAt(c)[f] = fleet[f].ships /\ UnitsAt(c)'[f] = fleet'[f].ships
          /\ f \in ArmiesAt(c) /\ DOMAIN fleet[f].ships = Ship
      BY <1>0, Strength
    <2>2. Met(c)!Suffers(f, engaged)
      BY <1>6, <2>1
    <2>3. fleet[f].ships \in [Ship -> Nat] /\ fleet[f] \in Fleet
      BY <1>1, <1>10 DEF Fleet, ShipTab
    <2>4. fleet'[f] = [fleet[f] EXCEPT !.ships = fleet'[f].ships]
      BY <1>1 DEF Elsewhere
    <2>5. CASE f \in engaged
      BY <2>1, <2>2, <2>5 DEF Met!Suffers
    <2>6. CASE f \notin engaged
      <3>1. fleet'[f].ships = fleet[f].ships
        BY <2>1, <2>2, <2>6 DEF Met!Suffers
      <3> QED
        BY <2>3, <2>4, <3>1 DEF Fleet
    <2> QED
      BY <2>5, <2>6
  <1>12. \A f \in FleetIDs \ S : fleet'[f] = fleet[f] \/ f \in engaged
    BY <1>11 DEF Elsewhere
  <1>13. ASSUME c \in Owned
         PROVE  cannon'[c] \in 0 .. cannon[c] /\ (Grounded \notin engaged => cannon'[c] = cannon[c])
    <2>1. /\ UnitsAt(c)[Grounded] = [k \in {"Cannon"} |-> cannon[c]]
          /\ UnitsAt(c)'[Grounded] = [k \in {"Cannon"} |-> cannon'[c]]
          /\ Grounded \in ArmiesAt(c)
      BY <1>0, <1>13, Strength
    <2>2. Met(c)!Suffers(Grounded, engaged)
      BY <1>6, <2>1
    <2>3. cannon[c] \in Nat /\ cannon'[c] \in Nat
      BY <1>10, <1>13 DEF Owned
    <2>4. CASE Grounded \in engaged
      BY <2>1, <2>2, <2>3, <2>4 DEF Met!Suffers
    <2>5. CASE Grounded \notin engaged
      <3>1. [k \in {"Cannon"} |-> cannon'[c]] = [k \in {"Cannon"} |-> cannon[c]]
        BY <2>1, <2>2, <2>5 DEF Met!Suffers
      <3>2. cannon'[c] = cannon[c]
        BY <3>1
      <3> QED
        BY <2>3, <2>5, <3>2
    <2> QED
      BY <2>4, <2>5
  <1>14. \A d \in Planets : d # c \/ c \notin Owned => cannon'[d] = cannon[d]
    BY DEF Elsewhere
  <1>15. CASE engaged = {}
    <2>1. fleet' = fleet
      BY <1>5, <1>10, <1>11, <1>15 DEF Elsewhere
    <2>2. cannon' = cannon
      BY <1>10, <1>13, <1>14, <1>15
    <2>3. deadFleets' = deadFleets
      BY <1>6, <1>8, <1>15 DEF Elsewhere
    <2>4. lostPlanets' = lostPlanets
      <3>1. lostPlanets' \ {c} = lostPlanets \ {c}
        BY DEF Elsewhere
      <3>2. {a \in {Grounded} : c \in lostPlanets'} = {a \in {Grounded} : c \in lostPlanets}
        BY <1>6, <1>7, <1>15
      <3>3. c \in lostPlanets' <=> c \in lostPlanets
        BY <3>2
      <3>4. \A x : x \in lostPlanets' <=> x \in lostPlanets
        BY <3>1, <3>3
      <3> QED
        BY <3>4
    <2> QED
      BY <2>1, <2>2, <2>3, <2>4 DEF Battle, Elsewhere
  <1>16. CASE engaged # {}
    <2>1. PICK a \in stay, b \in stay : <<LeaderAt(c)[a], LeaderAt(c)[b]>> \in foes
      BY <1>16 DEF engaged, Met!Engaged, Met!Enemies
    <2>2. \A x \in stay : /\ LeaderAt(c)[x] \in Player
                          /\ x \in S => LeaderAt(c)[x] = fleet[x].player
                          /\ x \notin S => c \in Owned /\ LeaderAt(c)[x] = owner[c] /\ x = Grounded
      BY <1>0, <1>5, Strength
    <2>3. LeaderAt(c)[a] # LeaderAt(c)[b]
      BY <1>6, <2>1, <2>2
    <2>4. \E p, q \in PlayersAt(c, S) : p # q
      <3>1. \A x \in stay : LeaderAt(c)[x] \in PlayersAt(c, S)
        BY <2>2 DEF PlayersAt, Owned
      <3> QED
        BY <2>1, <2>3, <3>1
    <2>5. S # {}
      BY <2>1, <2>2, <2>3
    <2> DEFINE after == [f \in S |-> fleet'[f].ships]
    <2>6. ASSUME NEW f \in S
          PROVE  /\ fleet'[f].ships \in Losses(fleet[f].ships)
                 /\ fleet'[f].ships \in [Ship -> 0 .. MaxFleetSize]
      <3>1. /\ fleet[f].ships \in ShipTab /\ fleet'[f].ships \in [Ship -> Nat]
            /\ SizeOf(fleet[f].ships) <= MaxFleetSize
        BY <1>1, <1>5, <1>10 DEF Fleet, ShipTab, FleetsFit
      <3>2. \A s \in Ship : fleet[f].ships[s] <= MaxFleetSize
        BY <3>1, ShipsFit
      <3>3. \A s \in Ship : fleet'[f].ships[s] <= fleet[f].ships[s]
        BY <1>5, <1>11
      <3>4. \A s \in Ship : fleet'[f].ships[s] \in 0 .. MaxFleetSize
        <4> TAKE s \in Ship
        <4>1. fleet'[f].ships[s] \in Nat /\ fleet[f].ships[s] \in Nat /\ MaxFleetSize \in Nat
          BY <3>1, LimitAssumption DEF ShipTab
        <4> QED
          BY <3>2, <3>3, <4>1
      <3>5. fleet'[f].ships \in [Ship -> 0 .. MaxFleetSize]
        BY <3>1, <3>4
      <3> QED
        BY <3>3, <3>5 DEF Losses
    <2>7. after \in [S -> [Ship -> 0 .. MaxFleetSize]] /\ \A f \in S : after[f] \in Losses(fleet[f].ships)
      BY <2>6
    <2>8. fleet' = [f \in FleetIDs |-> IF f \in S THEN [fleet[f] EXCEPT !.ships = after[f]]
                                       ELSE fleet[f]]
      <3>1. \A f \in FleetIDs : fleet'[f] = IF f \in S THEN [fleet[f] EXCEPT !.ships = after[f]]
                                            ELSE fleet[f]
        <4> TAKE f \in FleetIDs
        <4>1. CASE f \in S
          BY <4>1 DEF Elsewhere
        <4>2. CASE f \notin S
          <5>1. f # Grounded /\ f \notin engaged
            BY <1>0, <1>9, <4>2 DEF TypeOK, Grounded
          <5> QED
            BY <1>12, <4>2, <5>1
        <4> QED
          BY <4>1, <4>2
      <3> QED
        BY <1>10, <3>1
    <2>9. \A f \in S : /\ Met(c)!IsEmpty(UnitsAt(c)'[f]) <=> IsEmpty(after[f])
                       /\ LeaderAt(c)[f] = fleet[f].player
      <3> TAKE f \in S
      <3>1. UnitsAt(c)'[f] = after[f] /\ LeaderAt(c)[f] = fleet[f].player
        BY <1>0, <1>5, Strength
      <3>2. DOMAIN after[f] = Ship
        BY <2>7
      <3>3. Met(c)!IsEmpty(after[f]) <=> IsEmpty(after[f])
        BY <3>2, EmptyArmy
      <3> QED
        BY <3>1, <3>3
    <2> HIDE DEF after
    <2>10. deadFleets' = deadFleets \cup {f \in S : IsEmpty(after[f])}
      <3>1. Met(c)!Destroyed(stay) = {f \in S : IsEmpty(after[f])}
        BY <2>9 DEF Met!Destroyed
      <3>2. deadFleets' \cap FleetsAt(c) = {f \in S : IsEmpty(after[f])}
        BY <1>6, <1>8, <1>16, <3>1
      <3> QED
        BY <1>2, <3>2 DEF Elsewhere
    <2>11. ASSUME c \in Owned
           PROVE  \E guns \in 0 .. cannon[c] :
                      /\ cannon' = [cannon EXCEPT ![c] = guns]
                      /\ lostPlanets' = IF Holds(c, S, after, guns)
                                        THEN lostPlanets ELSE lostPlanets \cup {c}
      <3> DEFINE guns == cannon'[c]
      <3>1. guns \in 0 .. cannon[c] /\ guns \in Nat /\ cannon[c] \in Nat
        BY <1>10, <1>13, <2>11 DEF Owned
      <3>2. cannon' = [cannon EXCEPT ![c] = guns]
        BY <1>10, <1>14, <2>11 DEF Owned
      <3>3. Grounded \in stay /\ LeaderAt(c)[Grounded] = owner[c]
            /\ UnitsAt(c)'[Grounded] = [k \in {"Cannon"} |-> guns]
        BY <1>0, <1>6, <2>11, Strength
      <3> HIDE DEF guns
      <3>4. Met(c)!IsEmpty([k \in {"Cannon"} |-> guns]) <=> guns = 0
        BY EmptyGround
      <3>5. Met(c)!IsEmpty(UnitsAt(c)'[Grounded]) <=> guns = 0
        BY <3>3, <3>4
      <3>6. Grounded \in Met(c)!Taken(stay) <=> ~ Holds(c, S, after, guns)
        BY <2>9, <3>1, <3>3, <3>5 DEF Met!Taken, Holds
      <3>7. c \in lostPlanets' <=> ~ Holds(c, S, after, guns)
        BY <1>6, <1>7, <1>16, <3>6
      <3>8. lostPlanets' \ {c} = lostPlanets \ {c} /\ c \notin lostPlanets
        BY <1>2 DEF Elsewhere
      <3>9. CASE Holds(c, S, after, guns)
        <4>1. \A x : x \in lostPlanets' <=> x \in lostPlanets
          BY <3>7, <3>8, <3>9
        <4>2. lostPlanets' = lostPlanets
          BY <4>1
        <4> QED
          BY <3>1, <3>2, <3>9, <4>2
      <3>10. CASE ~ Holds(c, S, after, guns)
        <4>1. \A x : x \in lostPlanets' <=> x \in lostPlanets \cup {c}
          BY <3>7, <3>8, <3>10
        <4>2. lostPlanets' = lostPlanets \cup {c}
          BY <4>1
        <4> QED
          BY <3>1, <3>2, <3>10, <4>2
      <3> QED
        BY <3>9, <3>10
    <2>12. ASSUME c \notin Owned PROVE UNCHANGED <<cannon, lostPlanets>>
      BY <1>10, <1>14, <2>12 DEF Elsewhere
    <2> HIDE DEF S
    <2> QED
      BY <1>5, <2>4, <2>5, <2>7, <2>8, <2>10, <2>11, <2>12 DEF Battle, Elsewhere
  <1> QED
    BY <1>15, <1>16

\* A fleet destroyed is one of a place where the battle has been fought (execFights).
LEMMA FoughtStep == TypeOK /\ Fought /\ [Next]_vars => Fought'
  <1> SUFFICES ASSUME TypeOK, Fought, [Next]_vars, phase' = "fights" PROVE Fought'
    BY DEF Fought
  <1>1. ASSUME NEW c \in Coord, Battle(c) PROVE Fought'
    <2>1. phase = "fights" /\ Elsewhere(c)
      BY <1>1, BattleElsewhere
    <2>2. ASSUME NEW f \in deadFleets' PROVE fleet'[f].coord \notin todo'
      <3>1. todo' = todo \ {c} /\ deadFleets' \ FleetsAt(c) = deadFleets \ FleetsAt(c)
            /\ deadFleets \subseteq FleetIDs
        BY <2>1 DEF Elsewhere, TypeOK
      <3>2. f \in FleetIDs /\ fleet'[f].coord = fleet[f].coord
        BY <2>1, <3>1, SameArmies DEF FleetsAt
      <3>3. CASE f \in FleetsAt(c)
        BY <3>1, <3>2, <3>3 DEF FleetsAt
      <3>4. CASE f \notin FleetsAt(c)
        BY <2>1, <3>1, <3>2, <3>4 DEF Fought
      <3> QED
        BY <3>3, <3>4
    <2> QED
      BY <2>2 DEF Fought
  <1>2. CASE EndFleets
    <2>1. deadFleets' = {}
      BY <1>2 DEF EndFleets, fightVars, TypeOK
    <2> QED
      BY <2>1 DEF Fought
  <1>3. CASE UNCHANGED <<phase, todo, fleet, deadFleets>>
    BY <1>3 DEF Fought
  <1>4. ASSUME NEW p \in Player, AddPlayer(p) PROVE Fought'
    BY <1>3, <1>4 DEF AddPlayer, fleetVars, fightVars
  <1>5. ASSUME NEW f \in FleetIDs,
               \/ FleetRound(f) \/ GatherNoMore(f) \/ OrderFleet(f) \/ ReparentFleet(f)
               \/ \E g \in FleetIDs : GatherFleet(f, g)
               \/ \E c \in Planets : GatherHangar(f, c)
        PROVE  FALSE
    BY <1>5 DEF FleetRound, GatherNoMore, OrderFleet, ReparentFleet, GatherFleet, GatherHangar
  <1>6. ASSUME NEW c \in Planets,
               PlanetRound(c) \/ ReparentPlanet(c) \/ \E p \in Player : CreateMainPlanet(p, c)
        PROVE  FALSE
    BY <1>6 DEF PlanetRound, ReparentPlanet, CreateMainPlanet
  <1>7. BeginRound \/ EndCreate \/ EndPlanetTasks \/ EndFleetTasks \/ ExecPlanets \/ EndGather
        \/ OnPlanetLose \/ EndRound => FALSE
    BY DEF BeginRound, EndCreate, EndPlanetTasks, EndFleetTasks, ExecPlanets, EndGather,
           OnPlanetLose, EndRound
  <1>8. CASE UNCHANGED vars
    BY <1>3, <1>8 DEF vars, fleetVars, fightVars
  <1> QED
    BY <1>1, <1>2, <1>4, <1>5, <1>6, <1>7, <1>8 DEF Next, RoundStep, AtBound

\* Every battle of execFights is an encounter as module Encounter states it.
THEOREM BattlesMeet == Spec => BattlesAreEncounters
  <1> DEFINE Meet == phase = "fights" => \A c \in todo \ todo' : Met(c)!Next
  <1>1. Init => Fought
    BY DEF Init, Fought
  <1>2. IInv => TypeOK
    BY DEF IInv
  <1>3. IInv /\ Fought /\ [Next]_vars => [Meet]_vars
    <2> SUFFICES ASSUME IInv, Fought, Next, phase = "fights", NEW c \in todo \ todo'
                 PROVE  Met(c)!Next
      OBVIOUS
    <2>1. c \in Coord
      BY DEF IInv, TypeOK
    <2>2. ASSUME NEW d \in Coord, Battle(d) PROVE d = c
      BY <2>2 DEF Battle
    <2>3. \E d \in Coord : Battle(d)
      <3>1. ASSUME NEW p \in Player, AddPlayer(p) PROVE FALSE
        BY <3>1 DEF AddPlayer
      <3>2. ASSUME NEW f \in FleetIDs,
               \/ FleetRound(f) \/ GatherNoMore(f) \/ OrderFleet(f) \/ ReparentFleet(f)
               \/ \E g \in FleetIDs : GatherFleet(f, g)
               \/ \E d \in Planets : GatherHangar(f, d)
            PROVE  FALSE
        BY <3>2 DEF FleetRound, GatherNoMore, OrderFleet, ReparentFleet, GatherFleet, GatherHangar
      <3>3. ASSUME NEW d \in Planets,
               PlanetRound(d) \/ ReparentPlanet(d) \/ \E p \in Player : CreateMainPlanet(p, d)
            PROVE  FALSE
        BY <3>3 DEF PlanetRound, ReparentPlanet, CreateMainPlanet
      <3>4. BeginRound \/ EndCreate \/ EndPlanetTasks \/ EndFleetTasks \/ ExecPlanets \/ EndGather
            \/ EndFleets \/ OnPlanetLose \/ EndRound => FALSE
        BY DEF BeginRound, EndCreate, EndPlanetTasks, EndFleetTasks, ExecPlanets, EndGather,
               EndFleets, OnPlanetLose, EndRound
      <3>5. UNCHANGED vars => FALSE
        BY DEF vars
      <3> QED
        BY <3>1, <3>2, <3>3, <3>4, <3>5 DEF Next, RoundStep, AtBound
    <2> QED
      BY <2>1, <2>2, <2>3, BattleIsMeeting
  <1> QED
    BY <1>1, <1>2, <1>3, FoughtStep, Inductive, PTL DEF Spec, BattlesAreEncounters
=============================================================================
