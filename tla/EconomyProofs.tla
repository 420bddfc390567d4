--------------------------- MODULE EconomyProofs ---------------------------
(***************************************************************************)
(* Proofs about Economy: types, and that no order a script gives is        *)
(* refused by the payment behind canBuild and that resources only come     *)
(* from production and settling, for any number of planets, fleets,        *)
(* resources and buildings, any prices and any widths.                     *)
(***************************************************************************)
EXTENDS Economy, Sums, FiniteSetTheorems, TLAPS

-----------------------------------------------------------------------------
(* The inductive invariant.                                                *)

Low(c) == \A r \in Res : stock[c][r] <= Cap
\* A planet whose stock the limit has cut in this round, or that was settled since.
Cut(c) == Low(c) \/ firstRound[c] = roundCount

FreeBare == \A c \in Planet \ Owned : task[c] = NoTask
Limited ==
    /\ phase = "planetTasks" => \A c \in Owned \ todo : Low(c)
    /\ phase = "fleetTasks" => \A c \in Owned : Cut(c)
    /\ phase = "planets" => \A c \in todo : Cut(c)

IInv == TypeOK /\ FreeBare /\ Priced /\ Limited /\ OrdersPaid

-----------------------------------------------------------------------------
(* The arithmetic of resource sets.                                        *)

\* Sums stick at the largest value (addArray).
LEMMA SumFits ==
    ASSUME NEW s \in RessourceSet, NEW t \in RessourceSet
    PROVE  AddArray(s, t) \in RessourceSet
BY WidthAssumption DEF RessourceSet, AddArray, AtMost

\* The limit of planetRound and fleetRound holds when it was applied.
LEMMA CutFits ==
    ASSUME NEW s \in RessourceSet
    PROVE  Capped(s) \in RessourceSet /\ \A r \in Res : Capped(s)[r] <= Cap
BY WidthAssumption DEF RessourceSet, Capped, AtMost

\* What canPay allows leaves no resource below zero (pay).
LEMMA PaymentFits ==
    ASSUME NEW s \in RessourceSet, NEW price \in RessourceSet, CanPay(s, price)
    PROVE  Less(s, price) \in RessourceSet
BY WidthAssumption DEF RessourceSet, Less, CanPay

\* A planet that has produced is within the limit (planetRound).
LEMMA ProductionFits ==
    ASSUME NEW s \in RessourceSet, NEW lv \in Level, NEW g \in Crystal
    PROVE  Produce(s, lv, g) \in RessourceSet /\ \A r \in Res : Produce(s, lv, g)[r] <= Cap
<1>1. Yield[lv] \in RessourceSet /\ g \in RessourceSet
    BY TableAssumption
<1>2. AddArray(AddArray(s, Yield[lv]), g) \in RessourceSet
    BY <1>1, SumFits
<1> QED BY <1>2, CutFits DEF Produce

\* Nothing is a set of resources.
LEMMA NothingFits == Nothing \in RessourceSet
BY WidthAssumption DEF Nothing, RessourceSet

-----------------------------------------------------------------------------
(* One lemma for each action.                                              *)

\* A new universe satisfies the invariant.
LEMMA StartsWell == Init => IInv
BY DEF Init, IInv, TypeOK, FreeBare, Priced, Limited, OrdersPaid, Rejected

\* A round that begins has changed nothing yet.
LEMMA RoundBeginsSafe == IInv /\ RoundBegins => IInv'
BY DEF IInv, TypeOK, FreeBare, Priced, Limited, OrdersPaid, RoundBegins, Rejected,
       FleetIDs, Owned, landVars, siteVars, fleetVars, Low, Cut

\* createMainPlanet leaves a stock below the limits and no task.
LEMMA CreateMainPlanetSafe ==
    ASSUME IInv, NEW p \in Player, NEW c \in Planet, CreateMainPlanet(p, c)
    PROVE  IInv'
<1> USE DEF IInv, CreateMainPlanet
<1>1. level' \in [Planet -> Level]
    BY TableAssumption DEF TypeOK, Level
<1>2. stock' \in [Planet -> RessourceSet]
    BY TableAssumption DEF TypeOK
<1>3. TypeOK'
    BY <1>1, <1>2 DEF TypeOK, Owned, FleetIDs, fleetVars, Rejected
<1>4. FreeBare' /\ Limited' /\ OrdersPaid'
    BY NullAssumption DEF TypeOK, FreeBare, Owned, Limited, OrdersPaid, Low, Cut
<1>5. Priced'
  <2> SUFFICES ASSUME NEW d \in Planet, task[d] # NoTask, task[d].type = "Building"
               PROVE  level'[d][task[d].value] < MaxLevel
      BY DEF Priced
  <2>1. d # c BY DEF FreeBare, Owned
  <2> QED BY <2>1 DEF Priced, TypeOK
<1> QED BY <1>3, <1>4, <1>5

\* The end of a pass changes no stock; the scripts run after the stocks have been cut.
LEMMA NextPassSafe == IInv /\ NextPass => IInv'
<1> SUFFICES ASSUME IInv, NextPass PROVE IInv'
    OBVIOUS
<1> USE DEF IInv, NextPass, Pass, landVars, siteVars, fleetVars
<1>1. TypeOK'
    BY DEF TypeOK, FleetIDs, Owned, Rejected
<1>2. FreeBare' /\ Priced' /\ OrdersPaid'
    BY DEF FreeBare, Priced, Owned, OrdersPaid
<1>3. Limited'
    BY DEF Limited, Owned, Low, Cut
<1> QED BY <1>1, <1>2, <1>3

\* The planets still to come keep what is known of them when one has been visited.
LEMMA PlanetRoundSafe ==
    ASSUME IInv, NEW c \in Planet, PlanetRound(c)
    PROVE  IInv'
<1> USE DEF IInv
<1>1. c \in todo /\ todo' = todo \ {c} /\ phase = "planetTasks" /\ phase' = phase
      /\ UNCHANGED <<roundCount, home, owner, firstRound>>
    BY DEF PlanetRound, Visit, landVars
<1> PICK done \in BOOLEAN, launched \in BOOLEAN, crystals \in Crystal :
          LET t    == task[c]
              lv   == IF done /\ t.type = "Building"
                      THEN [level[c] EXCEPT ![t.value] = @ + 1] ELSE level[c]
              made == hangar[c] \/ (done /\ t.type = "Ship")
          IN  /\ done => t # NoTask
              /\ launched => made /\ nextFleetID <= MaxFleetID
              /\ level' = [level EXCEPT ![c] = lv]
              /\ task' = [task EXCEPT ![c] = IF done THEN NoTask ELSE @]
              /\ hangar' = [hangar EXCEPT ![c] = made /\ ~launched]
              /\ stock' = [stock EXCEPT ![c] = Produce(@, lv, crystals)]
              /\ IF launched
                 THEN /\ fleet' = [f \in FleetIDs \cup {nextFleetID} |->
                            IF f # nextFleetID THEN fleet[f]
                            ELSE [player |-> owner[c], coord |-> c,
                                  cargo |-> Nothing, task |-> NoTask]]
                      /\ nextFleetID' = nextFleetID + 1
                 ELSE UNCHANGED fleetVars
    BY DEF PlanetRound
<1> DEFINE lv   == IF done /\ task[c].type = "Building"
                   THEN [level[c] EXCEPT ![task[c].value] = @ + 1] ELSE level[c]
           made == hangar[c] \/ (done /\ task[c].type = "Ship")
<1>2. lv \in Level
  <2>1. CASE done /\ task[c].type = "Building"
    <3>1. task[c] \in PlanetTask /\ task[c].value \in Building
        BY <2>1 DEF TypeOK, PlanetTask
    <3>2. level[c][task[c].value] \in 0 .. MaxLevel - 1
        BY <2>1, <3>1, TableAssumption DEF Priced, TypeOK, Level
    <3> QED BY <2>1, <3>1, <3>2, TableAssumption DEF TypeOK, Level
  <2>2. CASE ~(done /\ task[c].type = "Building")
      BY <2>2 DEF TypeOK
  <2> QED BY <2>1, <2>2
<1>3. level' = [level EXCEPT ![c] = lv] /\ stock' = [stock EXCEPT ![c] = Produce(@, lv, crystals)]
    OBVIOUS
<1> HIDE DEF lv
<1>4. stock'[c] \in RessourceSet /\ \A r \in Res : stock'[c][r] <= Cap
  <2>1. stock \in [Planet -> RessourceSet]
      BY DEF TypeOK
  <2>2. stock'[c] = Produce(stock[c], lv, crystals) /\ stock[c] \in RessourceSet
      BY <1>3, <2>1
  <2> QED BY <1>2, <2>2, ProductionFits
<1>5. level' \in [Planet -> Level] /\ stock' \in [Planet -> RessourceSet]
  <2>1. level' \in [Planet -> Level]
      BY <1>2, <1>3 DEF TypeOK
  <2>2. stock \in [Planet -> RessourceSet]
      BY DEF TypeOK
  <2> QED BY <1>3, <1>4, <2>1, <2>2
<1>6. task' \in [Planet -> PlanetTask \cup {NoTask}]
    BY DEF TypeOK
<1>7. hangar' \in [Planet -> BOOLEAN]
    BY DEF TypeOK
<1>8. /\ fleet' \in [FleetIDs' -> Fleet] /\ FleetIDs' \subseteq 1 .. nextFleetID' - 1
      /\ nextFleetID' \in Nat \ {0}
  <2>1. CASE launched
    <3>1. [player |-> owner[c], coord |-> c, cargo |-> Nothing, task |-> NoTask] \in Fleet
        BY <1>1, NothingFits DEF TypeOK, Owned, Fleet
    <3> QED BY <2>1, <3>1 DEF TypeOK, FleetIDs
  <2>2. CASE ~launched
      BY <2>2 DEF TypeOK, FleetIDs, fleetVars
  <2> QED BY <2>1, <2>2
<1>9. TypeOK'
    BY <1>1, <1>5, <1>6, <1>7, <1>8 DEF TypeOK, Owned, Rejected
<1>10. Priced'
  <2> SUFFICES ASSUME NEW d \in Planet, task'[d] # NoTask, task'[d].type = "Building"
               PROVE  level'[d][task'[d].value] < MaxLevel
      BY DEF Priced
  <2>1. CASE d = c
    <3>1. ~done /\ task'[d] = task[d]
        BY <2>1 DEF TypeOK
    <3>2. level'[d] = level[d]
        BY <2>1, <3>1, <1>3 DEF TypeOK, lv
    <3> QED BY <3>1, <3>2 DEF Priced
  <2>2. CASE d # c
      BY <2>2, <1>3 DEF Priced, TypeOK
  <2> QED BY <2>1, <2>2
<1>11. FreeBare'
    BY <1>1 DEF FreeBare, Owned, TypeOK
<1>12. Limited' /\ OrdersPaid'
    BY <1>1, <1>3, <1>4 DEF Limited, OrdersPaid, Low, Owned, TypeOK
<1> QED BY <1>9, <1>10, <1>11, <1>12

\* Fleets at their tasks.
LEMMA RestedFits ==
    ASSUME TypeOK, NEW f \in FleetIDs, NEW coord \in Planet, NEW cargo \in RessourceSet,
           fleet' = Rested(f, coord, cargo), UNCHANGED nextFleetID
    PROVE  fleet' \in [FleetIDs' -> Fleet] /\ FleetIDs' = FleetIDs
<1> DEFINE g == [fleet[f] EXCEPT !.coord = coord, !.cargo = Capped(cargo), !.task = NoTask]
<1>1. Capped(cargo) \in RessourceSet
    BY CutFits
<1>2. fleet \in [FleetIDs -> Fleet] /\ fleet[f] \in Fleet
    BY DEF TypeOK
<1>3. g \in Fleet
    BY <1>1, <1>2 DEF Fleet
<1>4. fleet' = [fleet EXCEPT ![f] = g]
    BY DEF Rested
<1> HIDE DEF g
<1>5. fleet' \in [FleetIDs -> Fleet]
    BY <1>2, <1>3, <1>4
<1> QED BY <1>5 DEF FleetIDs

\* A fleet that rests or moves is cut down to the limit (fleetRound).
LEMMA FleetRestsSafe ==
    ASSUME IInv, NEW f \in FleetIDs, FleetRests(f) \/ FleetMoves(f)
    PROVE  IInv'
<1> USE DEF IInv
<1>1. /\ phase = "fleetTasks" /\ todo' = todo \ {f}
      /\ UNCHANGED <<phase, roundCount, landVars, siteVars, stock, nextFleetID>>
    BY DEF FleetRests, FleetMoves, Visit
<1>2. fleet[f] \in Fleet
    BY DEF TypeOK
<1>3. \E coord \in Planet : fleet' = Rested(f, coord, fleet[f].cargo)
  <2>1. CASE FleetRests(f)
      BY <2>1, <1>2 DEF FleetRests, Fleet
  <2>2. CASE FleetMoves(f)
    <3>1. fleet[f].task \in FleetTask
        BY <2>2, <1>2 DEF FleetMoves, Fleet
    <3> QED BY <2>2, <3>1 DEF FleetMoves, FleetTask
  <2> QED BY <2>1, <2>2
<1>4. fleet[f].cargo \in RessourceSet
    BY <1>2 DEF Fleet
<1>5. fleet' \in [FleetIDs' -> Fleet] /\ FleetIDs' = FleetIDs
    BY <1>1, <1>3, <1>4, RestedFits
<1>6. TypeOK'
    BY <1>1, <1>5 DEF TypeOK, Owned, landVars, siteVars, Rejected
<1>7. FreeBare' /\ Priced' /\ Limited' /\ OrdersPaid'
    BY <1>1 DEF FreeBare, Priced, Limited, OrdersPaid, Low, Cut, Owned, landVars, siteVars
<1> QED BY <1>6, <1>7

\* A harvest keeps fleet and planet within 32 bits.
LEMMA FleetHarvestsSafe ==
    ASSUME IInv, NEW f \in FleetIDs, FleetHarvests(f)
    PROVE  IInv'
<1> USE DEF IInv
<1> DEFINE c == fleet[f].task.position
<1>1. /\ phase = "fleetTasks" /\ todo' = todo \ {f} /\ owner[c] = NoId
      /\ UNCHANGED <<phase, roundCount, landVars, siteVars, nextFleetID>>
      /\ stock' = [stock EXCEPT ![c] = Nothing]
      /\ fleet' = Rested(f, fleet[f].coord, AddArray(fleet[f].cargo, stock[c]))
    BY DEF FleetHarvests, Visit, Emptied
<1>2. fleet[f] \in Fleet
    BY DEF TypeOK
<1>3. c \in Planet
  <2>1. fleet[f].task \in FleetTask
      BY <1>2 DEF FleetHarvests, Fleet
  <2> QED BY <2>1 DEF FleetTask
<1> HIDE DEF c
<1>4. AddArray(fleet[f].cargo, stock[c]) \in RessourceSet /\ fleet[f].coord \in Planet
    BY <1>2, <1>3, SumFits DEF Fleet, TypeOK
<1>5. fleet' \in [FleetIDs' -> Fleet] /\ FleetIDs' = FleetIDs
    BY <1>1, <1>4, RestedFits
<1>6. stock' \in [Planet -> RessourceSet]
    BY <1>1, <1>3, NothingFits DEF TypeOK
<1>7. TypeOK'
    BY <1>1, <1>5, <1>6 DEF TypeOK, Owned, landVars, siteVars, Rejected
<1>8. FreeBare' /\ Priced' /\ OrdersPaid'
    BY <1>1 DEF FreeBare, Priced, OrdersPaid, Owned, landVars, siteVars
<1>9. Limited'
    BY <1>1, <1>3 DEF Limited, Low, Cut, Owned, landVars, TypeOK
<1> QED BY <1>7, <1>8, <1>9

\* A new colony is beyond the limit, and known to be of this round.
LEMMA FleetColonizesSafe ==
    ASSUME IInv, NEW f \in FleetIDs, FleetColonizes(f)
    PROVE  IInv'
<1> USE DEF IInv
<1> DEFINE c == fleet[f].task.position
<1>1. /\ phase = "fleetTasks" /\ todo' = todo \ {f} /\ owner[c] = NoId
      /\ owner' = [owner EXCEPT ![c] = fleet[f].player]
      /\ firstRound' = [firstRound EXCEPT ![c] = roundCount]
      /\ level' = [level EXCEPT ![c][CommandCenter] = 1]
      /\ stock' = [stock EXCEPT ![c] = AddArray(@, Gift)]
      /\ fleet' = Rested(f, fleet[f].coord, fleet[f].cargo)
      /\ UNCHANGED <<phase, roundCount, home, task, hangar, nextFleetID>>
    BY DEF FleetColonizes, Visit
<1>2. fleet[f] \in Fleet
    BY DEF TypeOK
<1>3. c \in Planet
  <2>1. fleet[f].task \in FleetTask
      BY <1>2 DEF FleetColonizes, Fleet
  <2> QED BY <2>1 DEF FleetTask
<1> HIDE DEF c
<1>4. fleet[f].player \in Player /\ fleet[f].coord \in Planet /\ fleet[f].cargo \in RessourceSet
    BY <1>2 DEF Fleet
<1>5. fleet' \in [FleetIDs' -> Fleet] /\ FleetIDs' = FleetIDs
    BY <1>1, <1>4, RestedFits
<1>6. stock' \in [Planet -> RessourceSet]
  <2>1. AddArray(stock[c], Gift) \in RessourceSet
      BY <1>3, SumFits, TableAssumption DEF TypeOK
  <2> QED BY <1>1, <2>1 DEF TypeOK
<1>7. level' \in [Planet -> Level]
    BY <1>1, <1>3, TableAssumption DEF TypeOK, Level
<1>8. TypeOK'
    BY <1>1, <1>3, <1>4, <1>5, <1>6, <1>7 DEF TypeOK, Owned, Rejected
<1>9. FreeBare' /\ Limited' /\ OrdersPaid'
    BY <1>1, <1>3, <1>4, NullAssumption
    DEF TypeOK, FreeBare, Owned, Limited, OrdersPaid, Low, Cut
<1>10. Priced'
  <2> SUFFICES ASSUME NEW d \in Planet, task[d] # NoTask, task[d].type = "Building"
               PROVE  level'[d][task[d].value] < MaxLevel
      BY <1>1 DEF Priced
  <2>1. d # c BY <1>1 DEF FreeBare, Owned
  <2> QED BY <1>1, <2>1 DEF Priced, TypeOK
<1> QED BY <1>8, <1>9, <1>10

-----------------------------------------------------------------------------
(* Orders.                                                                 *)

\* What the scripts of planets do to one planet leaves the others as they are.
LEMMA OrderSafe ==
    ASSUME IInv, NEW c \in Planet, phase = "planets", c \in todo, todo' = todo \ {c},
           UNCHANGED <<roundCount, landVars, level, hangar, fleetVars>>,
           NEW t \in PlanetTask, t.type = "Building" => level[c][t.value] < MaxLevel,
           NEW price \in RessourceSet, CanPay(stock[c], price), task[c] = NoTask,
           AddTask(c, t.type, t.value, TRUE, price),
           [type |-> t.type, value |-> t.value] = t
    PROVE  IInv'
<1> USE DEF IInv, landVars, fleetVars
<1>1. price[Metal] \in 0 .. Top /\ stock[c][Metal] \in 0 .. Top
    BY TableAssumption DEF RessourceSet, TypeOK
<1>2. CASE stock[c][Metal] - price[Metal] > Alarm
  <2>1. phase' = "strange" /\ UNCHANGED <<task, stock>>
      BY <1>2 DEF AddTask
  <2>2. c \in Owned /\ Cut(c)
      BY DEF TypeOK, Limited
  <2>3. ~Low(c)
      BY <1>1, <1>2, WidthAssumption, TableAssumption DEF Low
  <2>4. firstRound[c] = roundCount
      BY <2>2, <2>3 DEF Cut
  <2>5. TypeOK'
      BY <2>1 DEF TypeOK, FleetIDs, Owned, Rejected
  <2> QED BY <2>1, <2>2, <2>4, <2>5 DEF FreeBare, Priced, Limited, OrdersPaid, Owned
<1>3. CASE ~(stock[c][Metal] - price[Metal] > Alarm)
  <2>1. /\ task' = [task EXCEPT ![c] = t]
        /\ stock' = [stock EXCEPT ![c] = Less(@, price)]
        /\ phase' = phase
      BY <1>3 DEF AddTask
  <2>2. Less(stock[c], price) \in RessourceSet
      BY PaymentFits DEF TypeOK
  <2>3. stock' \in [Planet -> RessourceSet] /\ task' \in [Planet -> PlanetTask \cup {NoTask}]
      BY <2>1, <2>2 DEF TypeOK
  <2>4. TypeOK'
      BY <2>1, <2>3 DEF TypeOK, FleetIDs, Owned, Rejected
  <2>5. c \in Owned
      BY DEF TypeOK
  <2>6. FreeBare' /\ Priced'
      BY <2>1, <2>5 DEF FreeBare, Priced, Owned, TypeOK
  <2>7. Limited' /\ OrdersPaid'
      BY <2>1 DEF Limited, OrdersPaid, Low, Cut, TypeOK
  <2> QED BY <2>4, <2>6, <2>7
<1> QED BY <1>2, <1>3

\* An order that canBuild allowed is paid, and its task has a price.
LEMMA PlanetOrdersSafe ==
    ASSUME IInv, NEW c \in Planet, PlanetOrders(c)
    PROVE  IInv'
<1>1. /\ phase = "planets" /\ c \in todo /\ todo' = todo \ {c}
      /\ UNCHANGED <<roundCount, landVars, level, hangar, fleetVars>>
    BY DEF PlanetOrders
<1>2. CASE \E b \in Building : CanBuildBuilding(c, b)
                              /\ AddTask(c, "Building", b, HasPrice(NextLevel(c, b)),
                                         BuildPrice[b][NextLevel(c, b)])
  <2> PICK b \in Building : CanBuildBuilding(c, b)
                              /\ AddTask(c, "Building", b, HasPrice(NextLevel(c, b)),
                                         BuildPrice[b][NextLevel(c, b)])
      BY <1>2
  <2> DEFINE t == [type |-> "Building", value |-> b]
  <2>1. NextLevel(c, b) \in 1 .. MaxLevel
      BY DEF CanBuildBuilding, HasPrice
  <2>2. level[c][b] \in 0 .. MaxLevel
      BY DEF IInv, TypeOK, Level
  <2>3. level[c][b] < MaxLevel
      BY <2>1, <2>2, TableAssumption DEF NextLevel
  <2>4. BuildPrice[b][NextLevel(c, b)] \in RessourceSet
      BY <2>1, TableAssumption
  <2>5. AddTask(c, t.type, t.value, TRUE, BuildPrice[b][NextLevel(c, b)])
      BY <2>1 DEF AddTask, HasPrice
  <2>6. t \in PlanetTask /\ t.value = b /\ [type |-> t.type, value |-> t.value] = t
      BY DEF PlanetTask
  <2> HIDE DEF t
  <2> QED BY <1>1, <2>3, <2>4, <2>5, <2>6, OrderSafe DEF CanBuildBuilding
<1>3. ASSUME NEW s \in Ship, NEW type \in {"Ship", "Cannon"},
             CanBuildShip(c, s) \/ CanBuildCannon(c, s), AddTask(c, type, s, TRUE, ShipPrice[s])
      PROVE  IInv'
  <2> DEFINE t == [type |-> type, value |-> s]
  <2>1. /\ t \in PlanetTask /\ t.type # "Building"
        /\ [type |-> t.type, value |-> t.value] = t
        /\ AddTask(c, t.type, t.value, TRUE, ShipPrice[s])
      BY <1>3 DEF PlanetTask
  <2>2. ShipPrice[s] \in RessourceSet /\ CanPay(stock[c], ShipPrice[s]) /\ task[c] = NoTask
      BY <1>3, TableAssumption DEF CanBuildShip, CanBuildCannon
  <2> HIDE DEF t
  <2> QED BY <1>1, <2>1, <2>2, OrderSafe
<1> QED BY <1>2, <1>3, PriceAssumption DEF PlanetOrders

\* A planet that is given no order, or stops its task, keeps its stock.
LEMMA PlanetRestsSafe ==
    ASSUME IInv, NEW c \in Planet, PlanetRests(c) \/ PlanetStops(c)
    PROVE  IInv'
<1> USE DEF IInv
<1>1. /\ phase = "planets" /\ todo' = todo \ {c}
      /\ UNCHANGED <<phase, roundCount, landVars, level, hangar, stock, fleetVars>>
      /\ task' = task \/ task' = [task EXCEPT ![c] = NoTask]
    BY DEF PlanetRests, PlanetStops, Visit, siteVars
<1>2. TypeOK'
    BY <1>1 DEF TypeOK, FleetIDs, Owned, landVars, fleetVars, Rejected
<1>3. FreeBare' /\ Priced'
    BY <1>1 DEF FreeBare, Priced, Owned, landVars, TypeOK
<1>4. Limited' /\ OrdersPaid'
    BY <1>1 DEF Limited, OrdersPaid, Low, Cut, landVars
<1> QED BY <1>2, <1>3, <1>4

\* In the passes of the fleets and between rounds the limit is not at stake.
LEMMA FleetPassSafe ==
    ASSUME IInv, phase \in {"gather", "fleets"},
           UNCHANGED <<phase, roundCount, landVars, level, task, nextFleetID>>,
           fleet' \in [FleetIDs' -> Fleet], FleetIDs' \subseteq FleetIDs, todo' \subseteq FleetIDs',
           hangar' \in [Planet -> BOOLEAN], stock' \in [Planet -> RessourceSet]
    PROVE  IInv'
<1> USE DEF IInv, landVars
<1>1. TypeOK'
    BY DEF TypeOK, Rejected
<1> QED BY <1>1 DEF FreeBare, Priced, Limited, OrdersPaid, Owned

\* A merger keeps the load within 32 bits.
LEMMA FleetGathersSafe ==
    ASSUME IInv, NEW f \in FleetIDs, NEW g \in FleetIDs, FleetGathers(f, g)
    PROVE  IInv'
<1> USE DEF IInv
<1>1. fleet[f] \in Fleet /\ fleet[g] \in Fleet
    BY DEF TypeOK
<1>2. AddArray(fleet[f].cargo, fleet[g].cargo) \in RessourceSet
    BY <1>1, SumFits DEF Fleet
<1>3. [fleet[f] EXCEPT !.cargo = AddArray(@, fleet[g].cargo)] \in Fleet
    BY <1>1, <1>2 DEF Fleet
<1>4. /\ fleet' = [h \in FleetIDs \ {g} |->
                    IF h = f THEN [fleet[f] EXCEPT !.cargo = AddArray(@, fleet[g].cargo)]
                    ELSE fleet[h]]
      /\ phase = "gather" /\ todo' = todo \ {g}
      /\ UNCHANGED <<phase, roundCount, landVars, siteVars, stock, nextFleetID>>
    BY DEF FleetGathers
<1>5. FleetIDs' = FleetIDs \ {g} /\ fleet' \in [FleetIDs' -> Fleet]
    BY <1>3, <1>4 DEF TypeOK, FleetIDs
<1>6. todo' \subseteq FleetIDs'
    BY <1>4, <1>5 DEF TypeOK
<1>7. hangar' \in [Planet -> BOOLEAN] /\ stock' \in [Planet -> RessourceSet]
    BY <1>4 DEF siteVars, TypeOK
<1> QED BY <1>4, <1>5, <1>6, <1>7, FleetPassSafe DEF siteVars

\* A fleet that merges with no other keeps its load.
LEMMA FleetGatheredSafe ==
    ASSUME IInv, NEW f \in FleetIDs, FleetGathered(f)
    PROVE  IInv'
<1> USE DEF IInv
<1>1. /\ phase = "gather" /\ todo' = todo \ {f}
      /\ UNCHANGED <<phase, roundCount, landVars, level, task, stock, fleetVars>>
    BY DEF FleetGathered, Visit
<1>2. hangar' \in [Planet -> BOOLEAN]
    BY DEF FleetGathered, TypeOK
<1>3. fleet' \in [FleetIDs' -> Fleet] /\ FleetIDs' = FleetIDs /\ todo' \subseteq FleetIDs'
      /\ stock' \in [Planet -> RessourceSet]
    BY <1>1 DEF TypeOK, FleetIDs, fleetVars
<1> QED BY <1>1, <1>2, <1>3, FleetPassSafe DEF fleetVars

\* Orders to fleets touch no resources.
LEMMA FleetOrdersSafe ==
    ASSUME IInv, NEW f \in FleetIDs, FleetOrders(f)
    PROVE  IInv'
<1> USE DEF IInv
<1>1. /\ phase = "fleets" /\ todo' = todo \ {f}
      /\ UNCHANGED <<phase, roundCount, landVars, siteVars, stock, nextFleetID>>
    BY DEF FleetOrders, Visit
<1>2. PICK t \in FleetTask \cup {NoTask} :
          fleet' = [fleet EXCEPT ![f].task = IF t = NoTask THEN @ ELSE t]
    BY DEF FleetOrders
<1>3. fleet' \in [FleetIDs' -> Fleet] /\ FleetIDs' = FleetIDs
    BY <1>2 DEF TypeOK, FleetIDs, Fleet
<1>4. /\ todo' \subseteq FleetIDs' /\ hangar' \in [Planet -> BOOLEAN]
      /\ stock' \in [Planet -> RessourceSet]
    BY <1>1, <1>3 DEF TypeOK, siteVars
<1> QED BY <1>1, <1>3, <1>4, FleetPassSafe DEF siteVars

\* A drop keeps the planet's stock within 32 bits.
LEMMA FleetDropsSafe ==
    ASSUME IInv, NEW f \in FleetIDs, FleetDrops(f)
    PROVE  IInv'
<1> USE DEF IInv
<1>1. /\ phase = "fleets" /\ todo' = todo \ {f}
      /\ UNCHANGED <<phase, roundCount, landVars, siteVars, nextFleetID>>
      /\ stock' = [stock EXCEPT ![fleet[f].coord] = AddArray(@, fleet[f].cargo)]
      /\ fleet' = [fleet EXCEPT ![f].cargo = Nothing]
    BY DEF FleetDrops, Visit, Emptied
<1>2. fleet[f] \in Fleet
    BY DEF TypeOK
<1>3. fleet' \in [FleetIDs' -> Fleet] /\ FleetIDs' = FleetIDs
    BY <1>1, NothingFits DEF TypeOK, FleetIDs, Fleet
<1>4. AddArray(stock[fleet[f].coord], fleet[f].cargo) \in RessourceSet
    BY <1>2, SumFits DEF TypeOK, Fleet
<1>5. stock' \in [Planet -> RessourceSet]
    BY <1>1, <1>2, <1>4 DEF TypeOK, Fleet
<1>6. todo' \subseteq FleetIDs' /\ hangar' \in [Planet -> BOOLEAN]
    BY <1>1, <1>3 DEF TypeOK, siteVars
<1> QED BY <1>1, <1>3, <1>5, <1>6, FleetPassSafe DEF siteVars

\* A lost planet has no task and keeps its stock.
LEMMA FightsSafe == IInv /\ Fights => IInv'
<1> SUFFICES ASSUME IInv, Fights PROVE IInv'
    OBVIOUS
<1> USE DEF IInv
<1>1. PICK dead \in SUBSET FleetIDs, lost \in SUBSET Owned : Losses(dead, lost)
    BY DEF Fights
<1>2. phase' = "idle" /\ phase = "fights"
      /\ UNCHANGED <<todo, roundCount, home, firstRound, stock, nextFleetID>>
    BY DEF Fights
<1>3. fleet' \in [FleetIDs' -> Fleet] /\ FleetIDs' \subseteq FleetIDs
    BY <1>1 DEF TypeOK, FleetIDs, Losses
<1>4. level' \in [Planet -> Level]
    BY <1>1, TableAssumption DEF TypeOK, Level, Losses
<1>5. hangar' \in [Planet -> BOOLEAN]
    BY <1>1 DEF TypeOK, Losses
<1>6. TypeOK'
    BY <1>1, <1>2, <1>3, <1>4, <1>5 DEF TypeOK, Rejected, Losses
<1>7. FreeBare'
    BY <1>1 DEF FreeBare, Owned, Losses
<1>8. Priced'
  <2> SUFFICES ASSUME NEW d \in Planet, task'[d] # NoTask, task'[d].type = "Building"
               PROVE  level'[d][task'[d].value] < MaxLevel
      BY DEF Priced
  <2>1. d \notin lost /\ task'[d] = task[d] /\ level'[d] = level[d]
      BY <1>1 DEF Losses
  <2> QED BY <2>1 DEF Priced
<1>9. Limited' /\ OrdersPaid'
    BY <1>2 DEF Limited, OrdersPaid
<1> QED BY <1>6, <1>7, <1>8, <1>9

-----------------------------------------------------------------------------
(* Theorems.                                                               *)

\* The invariant holds in the initial states and every step keeps it.
THEOREM EconomyInductive == Spec => []IInv
<1>1. Init => IInv
    BY StartsWell
<1>2. IInv /\ [Next]_vars => IInv'
  <2> SUFFICES ASSUME IInv, [Next]_vars PROVE IInv'
      OBVIOUS
  <2>1. CASE RoundBegins \/ NextPass \/ Fights
      BY <2>1, RoundBeginsSafe, NextPassSafe, FightsSafe
  <2>2. CASE Stopped \/ UNCHANGED vars
      BY <2>2 DEF Stopped, vars, landVars, siteVars, fleetVars, IInv, TypeOK, FreeBare, Priced,
                  Limited, OrdersPaid, Low, Cut, Owned, FleetIDs, Rejected
  <2>3. CASE \E p \in Player, c \in Planet : CreateMainPlanet(p, c)
      BY <2>3, CreateMainPlanetSafe
  <2>4. CASE \E c \in Planet :
                PlanetRound(c) \/ PlanetOrders(c) \/ PlanetStops(c) \/ PlanetRests(c)
      BY <2>4, PlanetRoundSafe, PlanetOrdersSafe, PlanetRestsSafe
  <2>5. CASE \E f \in FleetIDs : \/ FleetRests(f) \/ FleetMoves(f) \/ FleetHarvests(f)
                                 \/ FleetColonizes(f) \/ FleetGathered(f) \/ FleetOrders(f)
                                 \/ FleetDrops(f) \/ \E g \in FleetIDs : FleetGathers(f, g)
      BY <2>5, FleetRestsSafe, FleetHarvestsSafe, FleetColonizesSafe, FleetGatheredSafe,
         FleetOrdersSafe, FleetDropsSafe, FleetGathersSafe
  <2> QED BY <2>1, <2>2, <2>3, <2>4, <2>5 DEF Next
<1> QED BY <1>1, <1>2, PTL DEF Spec

\* Every variable keeps its type: no resource goes below zero or over 32 bits, and no
\* building beyond the levels that have a price (pay, addArray, execTask).
THEOREM EconomyTypes == Spec => []TypeOK
BY EconomyInductive, PTL DEF IInv

\* No order that canBuild allows gives the round up, but for "Strange ressources value" on
\* a planet settled in the same round (canBuild, addTask, pay).
THEOREM OrdersArePaid == Spec => []OrdersPaid
BY EconomyInductive, PTL DEF IInv

-----------------------------------------------------------------------------
(* Where resources come from.                                              *)

\* What every planet and every fleet has of a resource: the terms of Total.
Holders == Planet \cup FleetIDs
Book(r) == [x \in Holders |-> IF x \in Planet THEN stock[x][r] ELSE fleet[x].cargo[r]]

Balanced(r) ==
    /\ IsFiniteSet(Holders)
    /\ Planet \cap FleetIDs = {}
    /\ Book(r) \in [Holders -> Nat]
    /\ Total(r) = Sum(Book(r))
    /\ Total(r) \in Nat

\* What the holders have of a resource adds up to its total.
LEMMA BooksBalance == TypeOK => \A r \in Res : Balanced(r)
<1> SUFFICES ASSUME TypeOK, NEW r \in Res PROVE Balanced(r)
    OBVIOUS
<1>1. FleetIDs \subseteq Nat /\ IsFiniteSet(1 .. nextFleetID - 1)
    BY FS_Interval DEF TypeOK
<1>2. IsFiniteSet(FleetIDs)
    BY <1>1, FS_Subset DEF TypeOK
<1>3. IsFiniteSet(Holders)
    BY <1>2, NullAssumption, FS_Union DEF Holders
<1>4. Planet \cap FleetIDs = {}
    BY <1>1, NullAssumption
<1>5. ASSUME NEW x \in Holders
      PROVE  (IF x \in Planet THEN stock[x][r] ELSE fleet[x].cargo[r]) \in Nat
  <2>1. CASE x \in Planet
      BY <2>1, WidthAssumption DEF TypeOK, RessourceSet
  <2>2. CASE x \notin Planet
    <3>1. fleet[x] \in Fleet
        BY <2>2 DEF Holders, TypeOK
    <3>2. fleet[x].cargo \in RessourceSet
        BY <3>1 DEF Fleet
    <3> QED BY <2>2, <3>2, WidthAssumption DEF RessourceSet
  <2> QED BY <2>1, <2>2
<1>6. Book(r) \in [Holders -> Nat]
    BY <1>5 DEF Book
<1>7. Total(r) = Sum(Book(r))
    BY DEF Total, Book, Holders, Sum
<1>8. Total(r) \in Nat
    BY <1>3, <1>6, <1>7, SumNat
<1> QED BY <1>3, <1>4, <1>6, <1>7, <1>8 DEF Balanced

\* The same after a step.
LEMMA BooksBalanceAfter == (TypeOK => \A r \in Res : Balanced(r))'
BY BooksBalance, PTL

\* The holders of a resource, what each has of it, and their total.
LEMMA Books ==
    ASSUME TypeOK, NEW r \in Res
    PROVE  /\ IsFiniteSet(Holders)
           /\ Planet \cap FleetIDs = {}
           /\ Book(r) \in [Holders -> Nat]
           /\ Total(r) = Sum(Book(r))
           /\ Total(r) \in Nat
BY BooksBalance DEF Balanced

\* The same of the state that a step leads to.
LEMMA BooksAfter ==
    ASSUME TypeOK', NEW r \in Res
    PROVE  /\ Book(r)' \in [Holders' -> Nat]
           /\ Total(r)' = Sum(Book(r)')
           /\ Total(r)' \in Nat
BY BooksBalanceAfter DEF Balanced

\* What settling grants is a number.
LEMMA GrantType ==
    ASSUME NEW r \in Res
    PROVE  Granted(r) \in Nat
<1> DEFINE n == Cardinality({c \in Planet : owner[c] = NoId /\ owner'[c] # NoId})
           x == IF phase = "create" THEN StartStock[r] ELSE Gift[r]
<1>1. n \in Nat
  <2>1. IsFiniteSet({c \in Planet : owner[c] = NoId /\ owner'[c] # NoId})
      BY NullAssumption, FS_Subset
  <2> QED BY <2>1, FS_CardinalityType
<1>2. x \in Nat
    BY TableAssumption, WidthAssumption DEF RessourceSet
<1> HIDE DEF n, x
<1>3. n * x \in Nat
    BY <1>1, <1>2
<1> QED BY <1>3 DEF Granted, n, x

\* A step that gives nobody anything.
LEMMA NoneGains ==
    ASSUME TypeOK, TypeOK', NEW r \in Res, Holders' \subseteq Holders,
           \A x \in Holders' : Book(r)'[x] <= Book(r)[x]
    PROVE  Total(r)' <= Total(r) + Granted(r)
<1>1. Sum(Book(r)') <= Sum(Book(r))
    BY Books, BooksAfter, SumShrinks
<1> QED BY <1>1, Books, BooksAfter, GrantType

\* A step that takes from y and gives to x.
LEMMA OneGives ==
    ASSUME TypeOK, TypeOK', NEW r \in Res, Holders' \subseteq Holders,
           NEW x \in Holders', NEW y \in Holders \ {x},
           y \in Holders' => Book(r)'[y] = 0,
           Book(r)'[x] <= Book(r)[x] + Book(r)[y],
           \A z \in Holders' \ {x, y} : Book(r)'[z] <= Book(r)[z]
    PROVE  Total(r)' <= Total(r) + Granted(r)
<1>1. Sum(Book(r)') <= Sum(Book(r))
    BY Books, BooksAfter, SumMoves
<1> QED BY <1>1, Books, BooksAfter, GrantType

\* A step that settles one planet.
LEMMA OneSettles ==
    ASSUME TypeOK, TypeOK', NEW r \in Res, Holders' = Holders,
           NEW c \in Planet, owner[c] = NoId, NEW p \in Player,
           owner' = [owner EXCEPT ![c] = p],
           NEW v \in Nat, v = IF phase = "create" THEN StartStock[r] ELSE Gift[r],
           Book(r)'[c] <= Book(r)[c] + v,
           \A z \in Holders \ {c} : Book(r)'[z] <= Book(r)[z]
    PROVE  Total(r)' <= Total(r) + Granted(r)
<1>1. {d \in Planet : owner[d] = NoId /\ owner'[d] # NoId} = {c}
    BY NullAssumption DEF TypeOK
<1>2. Granted(r) = v
  <2> DEFINE settled == {d \in Planet : owner[d] = NoId /\ owner'[d] # NoId}
  <2>1. Cardinality(settled) = 1
      BY <1>1, FS_Singleton
  <2> HIDE DEF settled
  <2>2. Cardinality(settled) * v = v
      BY <2>1
  <2> QED BY <2>2 DEF Granted, settled
<1>3. c \in Holders
    BY DEF Holders
<1>4. Sum(Book(r)') <= Sum(Book(r)) + v
    BY <1>3, Books, BooksAfter, SumGrowsBy
<1> QED BY <1>2, <1>4, Books, BooksAfter

\* What the sums and the limit make of a quantity.
LEMMA Amounts ==
    /\ \A s \in RessourceSet, r \in Res : s[r] \in Nat
    /\ \A s, t \in RessourceSet, r \in Res : AddArray(s, t)[r] <= s[r] + t[r]
    /\ \A s \in RessourceSet, r \in Res : Capped(s)[r] <= s[r]
BY WidthAssumption DEF RessourceSet, AddArray, Capped, AtMost

\* A fleet that has done its task, and what it carries.
LEMMA RestedBook ==
    ASSUME TypeOK, NEW r \in Res, NEW f \in FleetIDs, NEW coord, NEW cargo \in RessourceSet,
           fleet' = Rested(f, coord, cargo)
    PROVE  /\ Holders' = Holders
           /\ Book(r)'[f] <= cargo[r]
           /\ \A g \in FleetIDs \ {f} : Book(r)'[g] = Book(r)[g]
<1> USE DEF FleetIDs
<1>1. fleet \in [FleetIDs -> Fleet] /\ fleet[f] \in Fleet
    BY DEF TypeOK
<1>2. /\ FleetIDs' = FleetIDs /\ fleet'[f].cargo = Capped(cargo)
      /\ \A g \in FleetIDs \ {f} : fleet'[g] = fleet[g]
    BY <1>1 DEF Rested, Fleet
<1>3. Planet \cap FleetIDs = {}
    BY Books
<1>4. Capped(cargo)[r] <= cargo[r]
    BY Amounts
<1> QED BY <1>2, <1>3, <1>4 DEF Book, Holders

\* A new main planet has what it had and no more than the grant.
LEMMA CreateGrants ==
    ASSUME TypeOK, TypeOK', NEW r \in Res, NEW p \in Player, NEW c \in Planet,
           CreateMainPlanet(p, c)
    PROVE  Total(r)' <= Total(r) + Granted(r)
<1>1. /\ phase = "create" /\ owner[c] = NoId
      /\ owner' = [owner EXCEPT ![c] = p]
      /\ stock' = [stock EXCEPT ![c] = StartStock]
      /\ fleet' = fleet
    BY DEF CreateMainPlanet, fleetVars
<1>2. Holders' = Holders /\ c \in Holders
    BY <1>1 DEF Holders, FleetIDs
<1>3. StartStock[r] \in Nat /\ stock[c][r] \in Nat
    BY TableAssumption, Amounts DEF TypeOK
<1>4. Book(r)'[c] = StartStock[r] /\ Book(r)[c] = stock[c][r]
    BY <1>1, <1>2 DEF Book, TypeOK
<1>5. \A z \in Holders \ {c} : Book(r)'[z] = Book(r)[z]
    BY <1>1, <1>2 DEF Book, TypeOK
<1>6. \A z \in Holders : Book(r)[z] \in Nat
    BY Books
<1>7. /\ Book(r)'[c] <= Book(r)[c] + StartStock[r]
      /\ \A z \in Holders \ {c} : Book(r)'[z] <= Book(r)[z]
    BY <1>3, <1>4, <1>5, <1>6
<1> QED BY <1>1, <1>2, <1>3, <1>7, OneSettles

\* What a harvest loads was on the planet.
LEMMA HarvestMoves ==
    ASSUME TypeOK, TypeOK', NEW r \in Res, NEW f \in FleetIDs, FleetHarvests(f)
    PROVE  Total(r)' <= Total(r) + Granted(r)
<1> DEFINE c == fleet[f].task.position
<1>1. /\ stock' = [stock EXCEPT ![c] = Nothing]
      /\ fleet' = Rested(f, fleet[f].coord, AddArray(fleet[f].cargo, stock[c]))
    BY DEF FleetHarvests, Emptied
<1>2. fleet[f] \in Fleet
    BY DEF TypeOK
<1>3. c \in Planet
  <2>1. fleet[f].task \in FleetTask
      BY <1>2 DEF FleetHarvests, Fleet
  <2> QED BY <2>1 DEF FleetTask
<1> HIDE DEF c
<1>4. fleet[f].cargo \in RessourceSet /\ stock[c] \in RessourceSet
    BY <1>2, <1>3 DEF Fleet, TypeOK
<1>5. /\ AddArray(fleet[f].cargo, stock[c]) \in RessourceSet
      /\ AddArray(fleet[f].cargo, stock[c])[r] <= fleet[f].cargo[r] + stock[c][r]
    BY <1>4, SumFits, Amounts
<1>6. /\ Holders' = Holders
      /\ Book(r)'[f] <= AddArray(fleet[f].cargo, stock[c])[r]
      /\ \A g \in FleetIDs \ {f} : Book(r)'[g] = Book(r)[g]
    BY <1>1, <1>5, RestedBook
<1>7. /\ f \in Holders /\ c \in Holders \ {f} /\ f \notin Planet
    BY <1>3, Books DEF Holders
<1>8. Book(r)[f] = fleet[f].cargo[r] /\ Book(r)[c] = stock[c][r]
    BY <1>3, <1>7 DEF Book
<1>9. /\ Book(r)'[c] = 0
      /\ \A d \in Planet \ {c} : Book(r)'[d] = Book(r)[d]
    BY <1>1, <1>3, <1>6 DEF Book, Holders, Nothing, TypeOK
<1>10. \A z \in Holders : Book(r)[z] \in Nat /\ Book(r)'[z] \in Nat
    BY <1>6, Books, BooksAfter
<1>11. AddArray(fleet[f].cargo, stock[c])[r] \in Nat
    BY <1>5, Amounts
<1>12. Book(r)'[f] <= Book(r)[f] + Book(r)[c]
    BY <1>5, <1>6, <1>7, <1>8, <1>10, <1>11
<1>13. \A z \in Holders' \ {f, c} : Book(r)'[z] <= Book(r)[z]
    BY <1>6, <1>9, <1>10 DEF Holders
<1> QED BY <1>6, <1>7, <1>9, <1>12, <1>13, OneGives

\* A new colony has what it had and no more than the grant.
LEMMA ColonyGrants ==
    ASSUME TypeOK, TypeOK', NEW r \in Res, NEW f \in FleetIDs, FleetColonizes(f)
    PROVE  Total(r)' <= Total(r) + Granted(r)
<1> DEFINE c == fleet[f].task.position
<1>1. /\ phase = "fleetTasks" /\ owner[c] = NoId
      /\ owner' = [owner EXCEPT ![c] = fleet[f].player]
      /\ stock' = [stock EXCEPT ![c] = AddArray(@, Gift)]
      /\ fleet' = Rested(f, fleet[f].coord, fleet[f].cargo)
    BY DEF FleetColonizes, Visit
<1>2. fleet[f] \in Fleet
    BY DEF TypeOK
<1>3. c \in Planet
  <2>1. fleet[f].task \in FleetTask
      BY <1>2 DEF FleetColonizes, Fleet
  <2> QED BY <2>1 DEF FleetTask
<1> HIDE DEF c
<1>4. /\ fleet[f].cargo \in RessourceSet /\ stock[c] \in RessourceSet
      /\ Gift \in RessourceSet /\ fleet[f].player \in Player
    BY <1>2, <1>3, TableAssumption DEF Fleet, TypeOK
<1>5. /\ Holders' = Holders
      /\ Book(r)'[f] <= fleet[f].cargo[r]
      /\ \A g \in FleetIDs \ {f} : Book(r)'[g] = Book(r)[g]
    BY <1>1, <1>4, RestedBook
<1>6. f \in Holders /\ c \in Holders /\ f \notin Planet
    BY <1>3, Books DEF Holders
<1>7. Book(r)[f] = fleet[f].cargo[r] /\ Book(r)[c] = stock[c][r]
    BY <1>3, <1>6 DEF Book
<1>8. /\ Book(r)'[c] = AddArray(stock[c], Gift)[r]
      /\ \A d \in Planet \ {c} : Book(r)'[d] = Book(r)[d]
    BY <1>1, <1>3, <1>5 DEF Book, Holders, TypeOK
<1>9. AddArray(stock[c], Gift)[r] <= stock[c][r] + Gift[r] /\ Gift[r] \in Nat
    BY <1>4, Amounts
<1>10. \A z \in Holders : Book(r)[z] \in Nat /\ Book(r)'[z] \in Nat
    BY <1>5, Books, BooksAfter
<1>11. \A z \in Holders \ {c} : Book(r)'[z] <= Book(r)[z]
    BY <1>5, <1>7, <1>8, <1>10 DEF Holders
<1>12. Book(r)'[c] <= Book(r)[c] + Gift[r]
    BY <1>7, <1>8, <1>9
<1>13. Gift[r] = IF phase = "create" THEN StartStock[r] ELSE Gift[r]
    BY <1>1
<1> QED BY <1>1, <1>3, <1>4, <1>5, <1>9, <1>11, <1>12, <1>13, OneSettles

\* What a drop brings was in the fleet.
LEMMA DropMoves ==
    ASSUME TypeOK, TypeOK', NEW r \in Res, NEW f \in FleetIDs, FleetDrops(f)
    PROVE  Total(r)' <= Total(r) + Granted(r)
<1> DEFINE c == fleet[f].coord
<1>1. /\ stock' = [stock EXCEPT ![c] = AddArray(@, fleet[f].cargo)]
      /\ fleet' = [fleet EXCEPT ![f].cargo = Nothing]
    BY DEF FleetDrops, Emptied
<1>2. fleet \in [FleetIDs -> Fleet] /\ fleet[f] \in Fleet
    BY DEF TypeOK
<1>3. c \in Planet
    BY <1>2 DEF Fleet
<1> HIDE DEF c
<1>4. fleet[f].cargo \in RessourceSet /\ stock[c] \in RessourceSet
    BY <1>2, <1>3 DEF Fleet, TypeOK
<1>5. /\ FleetIDs' = FleetIDs /\ fleet'[f].cargo = Nothing
      /\ \A g \in FleetIDs \ {f} : fleet'[g] = fleet[g]
    BY <1>1, <1>2 DEF FleetIDs, Fleet
<1>6. Holders' = Holders /\ c \in Holders /\ f \in Holders \ {c} /\ f \notin Planet
    BY <1>3, <1>5, Books DEF Holders
<1>7. Book(r)[f] = fleet[f].cargo[r] /\ Book(r)[c] = stock[c][r] /\ Book(r)'[f] = 0
    BY <1>3, <1>5, <1>6 DEF Book, Nothing
<1>8. Book(r)'[c] <= Book(r)[c] + Book(r)[f]
  <2>1. Book(r)'[c] = AddArray(stock[c], fleet[f].cargo)[r]
      BY <1>1, <1>3, <1>6 DEF Book, TypeOK
  <2> QED BY <1>4, <1>7, <2>1, Amounts
<1>9. \A z \in Holders \ {c, f} : Book(r)'[z] = Book(r)[z]
    BY <1>1, <1>3, <1>5, <1>6 DEF Book, Holders, TypeOK
<1>10. \A z \in Holders : Book(r)[z] \in Nat
    BY Books
<1> QED BY <1>6, <1>7, <1>8, <1>9, <1>10, OneGives

\* What a merged fleet has was in the two.
LEMMA GatherMoves ==
    ASSUME TypeOK, TypeOK', NEW r \in Res, NEW f \in FleetIDs, NEW g \in FleetIDs,
           FleetGathers(f, g)
    PROVE  Total(r)' <= Total(r) + Granted(r)
<1>1. /\ fleet' = [h \in FleetIDs \ {g} |->
                    IF h = f THEN [fleet[f] EXCEPT !.cargo = AddArray(@, fleet[g].cargo)]
                    ELSE fleet[h]]
      /\ stock' = stock
    BY DEF FleetGathers
<1>2. f # g
    BY DEF FleetGathers, TypeOK
<1>3. fleet[f] \in Fleet /\ fleet[g] \in Fleet
    BY DEF TypeOK
<1>4. /\ FleetIDs' = FleetIDs \ {g}
      /\ fleet'[f].cargo = AddArray(fleet[f].cargo, fleet[g].cargo)
      /\ \A h \in FleetIDs \ {f, g} : fleet'[h] = fleet[h]
    BY <1>1, <1>2, <1>3 DEF FleetIDs, Fleet
<1>5. /\ Planet \cap FleetIDs = {} /\ Holders' = Holders \ {g}
      /\ f \in Holders' /\ g \in Holders \ {f}
    BY <1>2, <1>4, Books DEF Holders
<1>6. /\ Book(r)[f] = fleet[f].cargo[r] /\ Book(r)[g] = fleet[g].cargo[r]
      /\ Book(r)'[f] = AddArray(fleet[f].cargo, fleet[g].cargo)[r]
    BY <1>4, <1>5 DEF Book, Holders
<1>7. Book(r)'[f] <= Book(r)[f] + Book(r)[g]
    BY <1>3, <1>6, Amounts DEF Fleet
<1>8. \A z \in Holders' \ {f, g} : Book(r)'[z] = Book(r)[z]
    BY <1>1, <1>4, <1>5 DEF Book, Holders
<1>9. \A z \in Holders : Book(r)[z] \in Nat
    BY Books
<1> QED BY <1>5, <1>7, <1>8, <1>9, OneGives

\* Orders, arrivals, fights and the passes give nobody anything.
LEMMA OthersSpend ==
    ASSUME TypeOK, TypeOK', NEW r \in Res,
           \/ RoundBegins \/ NextPass \/ Fights \/ UNCHANGED vars
           \/ \E c \in Planet : PlanetOrders(c) \/ PlanetStops(c) \/ PlanetRests(c)
           \/ \E f \in FleetIDs : FleetRests(f) \/ FleetMoves(f) \/ FleetGathered(f)
                                  \/ FleetOrders(f)
    PROVE  Total(r)' <= Total(r) + Granted(r)
<1>0. \A z \in Holders : Book(r)[z] \in Nat
    BY Books
<1>1. ASSUME UNCHANGED <<stock, fleet>> PROVE Total(r)' <= Total(r) + Granted(r)
  <2>1. Holders' = Holders /\ Book(r)' = Book(r)
      BY <1>1 DEF Holders, FleetIDs, Book
  <2> QED BY <1>0, <2>1, NoneGains
<1>2. CASE \/ RoundBegins \/ NextPass \/ UNCHANGED vars
           \/ \E c \in Planet : PlanetStops(c) \/ PlanetRests(c)
           \/ \E f \in FleetIDs : FleetGathered(f)
    BY <1>1, <1>2 DEF RoundBegins, NextPass, Pass, PlanetStops, PlanetRests, FleetGathered,
                      vars, fleetVars
<1>3. CASE Fights
  <2>1. PICK dead \in SUBSET FleetIDs, lost \in SUBSET Owned : Losses(dead, lost)
      BY <1>3 DEF Fights
  <2>2. stock' = stock
      BY <1>3 DEF Fights
  <2>3. FleetIDs' = FleetIDs \ dead /\ \A f \in FleetIDs' : fleet'[f] = fleet[f]
      BY <2>1 DEF FleetIDs, Losses
  <2>4. Holders' \subseteq Holders /\ \A z \in Holders' : Book(r)'[z] = Book(r)[z]
      BY <2>2, <2>3 DEF Holders, Book
  <2> QED BY <1>0, <2>4, NoneGains
<1>4. ASSUME NEW c \in Planet, PlanetOrders(c) PROVE Total(r)' <= Total(r) + Granted(r)
  <2>1. fleet' = fleet
      BY <1>4 DEF PlanetOrders, fleetVars
  <2>2. CASE stock' = stock
      BY <1>1, <2>1, <2>2
  <2>3. CASE stock' # stock
    <3>1. \E price \in RessourceSet : stock' = [stock EXCEPT ![c] = Less(stock[c], price)]
      <4>1. CASE \E b \in Building : CanBuildBuilding(c, b)
                              /\ AddTask(c, "Building", b, HasPrice(NextLevel(c, b)),
                                         BuildPrice[b][NextLevel(c, b)])
        <5>1. PICK b \in Building : CanBuildBuilding(c, b)
                              /\ AddTask(c, "Building", b, HasPrice(NextLevel(c, b)),
                                         BuildPrice[b][NextLevel(c, b)])
            BY <4>1
        <5>2. BuildPrice[b][NextLevel(c, b)] \in RessourceSet
            BY <5>1, TableAssumption DEF CanBuildBuilding, HasPrice
        <5> QED BY <2>3, <5>1, <5>2 DEF AddTask
      <4>2. ASSUME NEW s \in Ship, NEW type, AddTask(c, type, s, TRUE, ShipPrice[s])
            PROVE  \E price \in RessourceSet : stock' = [stock EXCEPT ![c] = Less(stock[c], price)]
          BY <2>3, <4>2, TableAssumption DEF AddTask
      <4> QED BY <1>4, <4>1, <4>2, PriceAssumption DEF PlanetOrders
    <3>2. PICK price \in RessourceSet : stock' = [stock EXCEPT ![c] = Less(stock[c], price)]
        BY <3>1
    <3>3. stock[c] \in RessourceSet /\ stock'[c] = Less(stock[c], price)
        BY <3>2 DEF TypeOK
    <3>4. stock'[c][r] <= stock[c][r]
        BY <3>3, Amounts DEF Less
    <3>5. Holders' = Holders
        BY <2>1 DEF Holders, FleetIDs
    <3>6. \A z \in Holders \ {c} : Book(r)'[z] = Book(r)[z]
        BY <2>1, <3>2, <3>5 DEF Book, Holders, TypeOK
    <3>7. Book(r)'[c] <= Book(r)[c]
        BY <3>4, <3>5 DEF Book, Holders
    <3> QED BY <1>0, <3>5, <3>6, <3>7, NoneGains
  <2> QED BY <2>2, <2>3
<1>5. ASSUME NEW f \in FleetIDs, FleetRests(f) \/ FleetMoves(f)
      PROVE  Total(r)' <= Total(r) + Granted(r)
  <2>1. stock' = stock /\ \E coord : fleet' = Rested(f, coord, fleet[f].cargo)
      BY <1>5 DEF FleetRests, FleetMoves
  <2>2. fleet[f].cargo \in RessourceSet
      BY DEF TypeOK, Fleet
  <2>3. /\ Holders' = Holders
        /\ Book(r)'[f] <= fleet[f].cargo[r]
        /\ \A g \in FleetIDs \ {f} : Book(r)'[g] = Book(r)[g]
      BY <2>1, <2>2, RestedBook
  <2>4. \A d \in Planet : Book(r)'[d] = Book(r)[d]
      BY <2>1, <2>3 DEF Book, Holders
  <2>5. Book(r)[f] = fleet[f].cargo[r]
      BY Books DEF Book, Holders
  <2>6. \A z \in Holders' : Book(r)'[z] <= Book(r)[z]
      BY <1>0, <2>3, <2>4, <2>5 DEF Holders
  <2> QED BY <2>3, <2>6, NoneGains
<1>6. ASSUME NEW f \in FleetIDs, FleetOrders(f) PROVE Total(r)' <= Total(r) + Granted(r)
  <2>1. PICK t : fleet' = [fleet EXCEPT ![f].task = IF t = NoTask THEN @ ELSE t]
      BY <1>6 DEF FleetOrders
  <2>2. stock' = stock
      BY <1>6 DEF FleetOrders
  <2>3. FleetIDs' = FleetIDs /\ \A g \in FleetIDs : fleet'[g].cargo = fleet[g].cargo
      BY <2>1 DEF TypeOK, FleetIDs, Fleet
  <2>4. Holders' = Holders /\ \A z \in Holders' : Book(r)'[z] = Book(r)[z]
      BY <2>2, <2>3 DEF Holders, Book
  <2> QED BY <1>0, <2>4, NoneGains
<1> QED BY <1>2, <1>3, <1>4, <1>5, <1>6

\* Resources come from production and from settling alone: harvests, mergers, drops, orders,
\* cancelled orders and fights move, spend or destroy them, whatever sticks at the largest
\* value or is cut by the limit on the way (execTask, gather, drop, pay, stopTask).
THEOREM NothingFromNowhere == Spec => NoWindfall
<1>1. IInv /\ IInv' /\ [Next]_vars =>
        [phase # "planetTasks" => \A r \in Res : Total(r)' <= Total(r) + Granted(r)]_vars
  <2> SUFFICES ASSUME TypeOK, TypeOK', Next, phase # "planetTasks", NEW r \in Res
               PROVE  Total(r)' <= Total(r) + Granted(r)
      BY DEF IInv
  <2>1. CASE RoundBegins \/ NextPass \/ Fights \/ Stopped
      BY <2>1, OthersSpend DEF Stopped
  <2>2. CASE \E p \in Player, c \in Planet : CreateMainPlanet(p, c)
      BY <2>2, CreateGrants
  <2>3. ASSUME NEW c \in Planet, PlanetRound(c) PROVE FALSE
      BY <2>3 DEF PlanetRound, Visit
  <2>4. CASE \E c \in Planet : PlanetOrders(c) \/ PlanetStops(c) \/ PlanetRests(c)
      BY <2>4, OthersSpend
  <2>5. CASE \E f \in FleetIDs :
               FleetRests(f) \/ FleetMoves(f) \/ FleetGathered(f) \/ FleetOrders(f)
      BY <2>5, OthersSpend
  <2>6. CASE \E f \in FleetIDs : \/ FleetHarvests(f) \/ FleetColonizes(f) \/ FleetDrops(f)
                                 \/ \E g \in FleetIDs : FleetGathers(f, g)
      BY <2>6, HarvestMoves, ColonyGrants, DropMoves, GatherMoves
  <2> QED BY <2>1, <2>2, <2>3, <2>4, <2>5, <2>6 DEF Next
<1> QED BY <1>1, EconomyInductive, PTL DEF Spec, NoWindfall
=============================================================================
