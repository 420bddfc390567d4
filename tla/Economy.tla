------------------------------ MODULE Economy -------------------------------
(***************************************************************************)
(* The resources of the game world: what planets produce, pay and hold,    *)
(* what fleets harvest, carry, merge and drop (UnivManip.cpp; the passes   *)
(* of Simulation.cpp).                                                     *)
(*                                                                         *)
(* A round visits planets and fleets pass by pass, as in module Galaxy,    *)
(* and an exception thrown on the way gives it up.  The order of the       *)
(* passes is what the arithmetic depends on: a planet's stock is cut to    *)
(* Cap when it has produced, BEFORE fleets settle, scripts pay and fleets  *)
(* drop.  Ships are abstracted away: what their number would forbid        *)
(* (a launch, a merger, a colony) this module merely may not choose.       *)
(* Quantities are uint32_t: Top is their maximum.                          *)
(***************************************************************************)
EXTENDS Integers, FiniteSets, Functions

CONSTANTS
    Planet,             \* the coordinates that hold a planet
    Player,             \* Player::ID values other than NoId
    NoId,               \* Player::NoId, the owner of a free planet
    NoPlanet,           \* UndefinedCoord
    NoTask,             \* an empty boost::optional task
    Res,                \* Ressource::Enum
    Metal,              \* the resource pay looks at
    Building,           \* Building::Enum
    CommandCenter, Factory,
    Ship,               \* Ship::Enum and Cannon::Enum, numbered alike
    Top,                \* the largest Ressource::Value
    Cap,                \* one thousand million
    Alarm,              \* two thousand million
    MaxLevel,           \* the last level for which getBuilingPrice has a price
    BuildPrice,         \* getBuilingPrice up to that level
    ShipPrice,          \* Ship::List[].price
    CannonPrice,        \* Cannon::List[].price
    Yield,              \* what buildings of these levels produce in a round
    Crystal,            \* what may crystallise in a round
    Gift,               \* what a new colony receives
    StartStock,         \* what the main planet of a new player holds
    MaxFleetID,         \* bound: fleets launched in a behaviour
    MaxRound            \* bound: rounds simulated

RessourceSet == [Res -> 0 .. Top]
Level        == [Building -> 0 .. MaxLevel]
Rejected     == {"unpayable", "strange"}

ASSUME NullAssumption ==
    /\ NoId \notin Player /\ NoPlanet \notin Planet
    /\ IsFiniteSet(Planet) /\ IsFiniteSet(Res) /\ Planet \cap Nat = {}
ASSUME WidthAssumption ==
    {Top, Cap, Alarm} \subseteq Nat /\ Cap <= Alarm /\ Alarm <= Top
ASSUME TableAssumption ==
    /\ Metal \in Res /\ {CommandCenter, Factory} \subseteq Building
    /\ MaxLevel \in Nat \ {0}
    /\ BuildPrice \in [Building -> [1 .. MaxLevel -> RessourceSet]]
    /\ ShipPrice \in [Ship -> RessourceSet]
    /\ Yield \in [Level -> RessourceSet]
    /\ Crystal \subseteq RessourceSet /\ {Gift, StartStock} \subseteq RessourceSet
\* Ship::List and Cannon::List agree on the prices of the numbers they share: canBuild of a
\* cannon looks its price up in the first and addTask in the second.
ASSUME PriceAssumption == CannonPrice = ShipPrice
ASSUME BoundAssumption == {MaxFleetID, MaxRound} \subseteq Nat

VARIABLES
    phase,              \* the pass of round() that is running, or why it was given up
    todo,               \* what that pass still has to visit
    roundCount,         \* Universe::roundCount
    home,               \* Player::mainPlanet
    owner,              \* Planet::playerId
    firstRound,         \* Planet::firstRound
    level,              \* Planet::buildingList
    task,               \* Planet::task
    hangar,             \* whether Planet::hangar holds ships
    stock,              \* Planet::ressourceSet
    fleet,              \* Universe::fleetMap
    nextFleetID         \* Universe::nextFleetID

landVars  == <<home, owner, firstRound>>
siteVars  == <<level, task, hangar>>
fleetVars == <<fleet, nextFleetID>>
vars == <<phase, todo, roundCount, landVars, siteVars, stock, fleetVars>>

-----------------------------------------------------------------------------
PlanetTask == [type : {"Building"}, value : Building]
                \cup [type : {"Ship", "Cannon"}, value : Ship]
FleetTask  == [type : {"Move", "Harvest", "Colonize"}, position : Planet]
Fleet      == [player : Player, coord : Planet, cargo : RessourceSet,
               task : FleetTask \cup {NoTask}]

FleetIDs   == DOMAIN fleet
Owned      == {c \in Planet : owner[c] # NoId}
Nothing    == [r \in Res |-> 0]

AtMost(n, bound) == IF n <= bound THEN n ELSE bound
\* cappedAdd on every resource: the sum sticks at the largest value.
AddArray(s1, s2) == [r \in Res |-> AtMost(s1[r] + s2[r], Top)]
\* The limit that planetRound and fleetRound end with.
Capped(s)        == [r \in Res |-> AtMost(s[r], Cap)]
CanPay(s, price) == \A r \in Res : price[r] <= s[r]
Less(s, price)   == [r \in Res |-> s[r] - price[r]]
\* The sum of a fleet's resources, in 32 bits.
Load(s)          == FoldFunction(LAMBDA x, y : x + y, 0, s) % (Top + 1)

TypeOK ==
    /\ phase \in {"idle", "create", "planetTasks", "fleetTasks", "planets",
                  "gather", "fleets", "fights"} \cup Rejected
    /\ roundCount \in Nat /\ nextFleetID \in Nat \ {0}
    /\ home \in [Player -> Planet \cup {NoPlanet}]
    /\ owner \in [Planet -> Player \cup {NoId}]
    /\ firstRound \in [Planet -> Nat]
    /\ level \in [Planet -> Level]
    /\ task \in [Planet -> PlanetTask \cup {NoTask}]
    /\ hangar \in [Planet -> BOOLEAN]
    /\ stock \in [Planet -> RessourceSet]
    /\ fleet \in [FleetIDs -> Fleet]
    /\ FleetIDs \subseteq 1 .. nextFleetID - 1
    /\ phase \in {"planetTasks", "planets"} \cup Rejected => todo \subseteq Owned
    /\ phase \in {"fleetTasks", "gather", "fleets"} => todo \subseteq FleetIDs
    /\ phase = "create" => todo \subseteq Player
    /\ phase \in {"idle", "fights"} => todo = {}

\* An upgrade that is under way leads to a level that has a price.
Priced == \A c \in Planet : task[c] # NoTask /\ task[c].type = "Building" =>
              level[c][task[c].value] < MaxLevel

\* A universe between two rounds, fresh from construct() or from a save file.
Init ==
    /\ TypeOK /\ Priced
    /\ phase = "idle"
    /\ \A c \in Planet : firstRound[c] <= roundCount
    /\ \A p \in Player : home[p] # NoPlanet => owner[home[p]] = p
    /\ \A c \in Planet \ Owned :
          level[c] = [b \in Building |-> 0] /\ task[c] = NoTask /\ ~hangar[c]

-----------------------------------------------------------------------------
\* planetToCreate_ holds any players, also one who has a main planet already (module Engine
\* tells how); there is a free planet for each.
RoundBegins ==
    /\ phase = "idle" /\ roundCount < MaxRound
    /\ phase' = "create"
    /\ roundCount' = roundCount + 1
    /\ todo' \in SUBSET Player /\ Cardinality(todo') <= Cardinality(Planet \ Owned)
    /\ UNCHANGED <<landVars, siteVars, stock, fleetVars>>

\* createMainPlanet: a player is put on some free planet, whose own stock is lost.
CreateMainPlanet(p, c) ==
    /\ phase = "create" /\ p \in todo
    /\ owner[c] = NoId
    /\ todo' = todo \ {p}
    /\ home' = [home EXCEPT ![p] = c]
    /\ owner' = [owner EXCEPT ![c] = p]
    /\ level' = [level EXCEPT ![c][CommandCenter] = 1]
    /\ stock' = [stock EXCEPT ![c] = StartStock]
    /\ UNCHANGED <<phase, roundCount, firstRound, task, hangar, fleetVars>>

\* execPlanetTasks visits the owned planets; execFleetTasks and execFleets the fleets.
Pass(from, to, visits) ==
    /\ phase = from /\ todo = {}
    /\ phase' = to /\ todo' = visits
    /\ UNCHANGED <<roundCount, landVars, siteVars, stock, fleetVars>>

NextPass ==
    \/ Pass("create", "planetTasks", Owned)
    \/ Pass("planetTasks", "fleetTasks", FleetIDs)
    \/ Pass("fleetTasks", "planets", Owned)
    \/ Pass("planets", "gather", FleetIDs)
    \/ Pass("gather", "fleets", FleetIDs)
    \/ Pass("fleets", "fights", {})

\* planetMap is gone through in an order of its own and fleetMap by identifier; so are the
\* fleets' orders here, which change the fleet itself and add to a stock, in any order alike.
InTurn(x) == x = IF todo \subseteq Planet THEN CHOOSE c \in todo : TRUE
                 ELSE CHOOSE f \in todo : \A g \in todo : f <= g
Visit(pass, x) ==
    /\ phase = pass /\ x \in todo
    /\ pass # "gather" => InTurn(x)
    /\ todo' = todo \ {x}
    /\ UNCHANGED <<phase, roundCount>>

-----------------------------------------------------------------------------
(* The tasks that fall due (planetRound, fleetRound, execTask).            *)

\* execBuilding for every building, the crystals, and last the limit.
Produce(s, lv, crystals) == Capped(AddArray(AddArray(s, Yield[lv]), crystals))

PlanetRound(c) ==
    /\ Visit("planetTasks", c)
    /\ \E done, launched \in BOOLEAN, crystals \in Crystal :
          LET t    == task[c]
              lv   == IF done /\ t.type = "Building"
                      THEN [level[c] EXCEPT ![t.value] = @ + 1] ELSE level[c]
              made == hangar[c] \/ (done /\ t.type = "Ship")
          IN  /\ done => t # NoTask
              /\ launched => made /\ nextFleetID <= MaxFleetID
              /\ level' = [level EXCEPT ![c] = lv]
              /\ task' = [task EXCEPT ![c] = IF done THEN NoTask ELSE @]
              /\ hangar' = [hangar EXCEPT ![c] = made /\ ~launched]
              /\ stock' = [stock EXCEPT ![c] = Produce(@, lv, crystals)]
              /\ IF launched
                 THEN /\ fleet' = [f \in FleetIDs \cup {nextFleetID} |->
                            IF f # nextFleetID THEN fleet[f]
                            ELSE [player |-> owner[c], coord |-> c,
                                  cargo |-> Nothing, task |-> NoTask]]
                      /\ nextFleetID' = nextFleetID + 1
                 ELSE UNCHANGED fleetVars
    /\ UNCHANGED landVars

\* What fleetRound leaves of a fleet whose task is done.
Rested(f, coord, cargo) ==
    [fleet EXCEPT ![f] = [@ EXCEPT !.coord = coord, !.cargo = Capped(cargo), !.task = NoTask]]

\* A fleet without a task, and one whose task cannot be done any more: the planet to
\* harvest or settle has an owner, the last Queen is gone, or the player may not settle.
FleetRests(f) ==
    /\ Visit("fleetTasks", f)
    /\ fleet[f].task # NoTask => /\ fleet[f].task.type # "Move"
                                 /\ \/ fleet[f].task.type = "Colonize"
                                    \/ owner[fleet[f].task.position] # NoId
    /\ fleet' = Rested(f, fleet[f].coord, fleet[f].cargo)
    /\ UNCHANGED <<landVars, siteVars, stock, nextFleetID>>

FleetMoves(f) ==
    /\ Visit("fleetTasks", f)
    /\ fleet[f].task # NoTask /\ fleet[f].task.type = "Move"
    /\ fleet' = Rested(f, fleet[f].task.position, fleet[f].cargo)
    /\ UNCHANGED <<landVars, siteVars, stock, nextFleetID>>

\* What a planet still holds when its resources have gone to a fleet.
KeepsAll(s) == s
Emptied(s)  == Nothing

FleetHarvests(f) ==
    LET c == fleet[f].task.position IN
    /\ Visit("fleetTasks", f)
    /\ fleet[f].task # NoTask /\ fleet[f].task.type = "Harvest"
    /\ owner[c] = NoId
    /\ fleet' = Rested(f, fleet[f].coord, AddArray(fleet[f].cargo, stock[c]))
    /\ stock' = [stock EXCEPT ![c] = Emptied(@)]
    /\ UNCHANGED <<landVars, siteVars, nextFleetID>>

FleetColonizes(f) ==
    LET c == fleet[f].task.position IN
    /\ Visit("fleetTasks", f)
    /\ fleet[f].task # NoTask /\ fleet[f].task.type = "Colonize"
    /\ owner[c] = NoId
    /\ owner' = [owner EXCEPT ![c] = fleet[f].player]
    /\ firstRound' = [firstRound EXCEPT ![c] = roundCount]
    /\ level' = [level EXCEPT ![c][CommandCenter] = 1]
    /\ stock' = [stock EXCEPT ![c] = AddArray(@, Gift)]
    /\ fleet' = Rested(f, fleet[f].coord, fleet[f].cargo)
    /\ UNCHANGED <<home, task, hangar, nextFleetID>>

-----------------------------------------------------------------------------
(* Scripts give their orders (applyPlanetAction, gatherIfWant,             *)
(* applyFleetScript).                                                      *)

NextLevel(c, b)  == level[c][b] + 1
HasPrice(n)      == n \in 1 .. MaxLevel
CanBuildThisLevel(c, b) ==
    /\ level[c][CommandCenter] # 0
    /\ task[c] = NoTask
    /\ HasPrice(level[c][b])
    /\ CanPay(stock[c], BuildPrice[b][level[c][b]])
CanBuildBuilding(c, b) ==
    /\ level[c][CommandCenter] # 0
    /\ task[c] = NoTask
    /\ HasPrice(NextLevel(c, b))
    /\ CanPay(stock[c], BuildPrice[b][NextLevel(c, b)])
CanBuildShip(c, s) ==
    /\ level[c][Factory] # 0 /\ task[c] = NoTask /\ ~hangar[c]
    /\ CanPay(stock[c], ShipPrice[s])
CanBuildCannon(c, s) ==
    /\ level[c][Factory] # 0 /\ task[c] = NoTask
    /\ CanPay(stock[c], ShipPrice[s])

\* addTask and pay test again what canBuild has tested, and throw: the round is given up.
\* pay also throws when the metal LEFT exceeds Alarm, which canBuild does not test.
AddTask(c, type, value, priced, price) ==
    IF task[c] # NoTask \/ ~priced \/ ~CanPay(stock[c], price)
    THEN phase' = "unpayable" /\ UNCHANGED <<task, stock>>
    ELSE IF stock[c][Metal] - price[Metal] > Alarm
    THEN phase' = "strange" /\ UNCHANGED <<task, stock>>
    ELSE /\ task' = [task EXCEPT ![c] = [type |-> type, value |-> value]]
         /\ stock' = [stock EXCEPT ![c] = Less(@, price)]
         /\ UNCHANGED phase

PlanetOrders(c) ==
    /\ phase = "planets" /\ c \in todo /\ InTurn(c)
    /\ \/ \E b \in Building : CanBuildBuilding(c, b)
                              /\ AddTask(c, "Building", b, HasPrice(NextLevel(c, b)),
                                         BuildPrice[b][NextLevel(c, b)])
       \/ \E s \in Ship : CanBuildShip(c, s) /\ AddTask(c, "Ship", s, TRUE, ShipPrice[s])
       \/ \E s \in Ship : CanBuildCannon(c, s) /\ AddTask(c, "Cannon", s, TRUE, CannonPrice[s])
    /\ todo' = todo \ {c}
    /\ UNCHANGED <<roundCount, landVars, level, hangar, fleetVars>>

\* The script orders nothing, or what canBuild refuses, or to stop what is not under way.
PlanetRests(c) ==
    /\ Visit("planets", c)
    /\ UNCHANGED <<landVars, siteVars, stock, fleetVars>>

\* Nothing is given back of the price.  The case of StopBuilding falls through to the one of
\* Ship, whose type is then out of range, so that canBuild refuses it.
PlanetStops(c) ==
    /\ Visit("planets", c)
    /\ task[c] # NoTask /\ task[c].type = "Building"
    /\ task' = [task EXCEPT ![c] = NoTask]
    /\ UNCHANGED <<landVars, level, hangar, stock, fleetVars>>

\* A fleet takes in one of the same player that stands there too and is younger.
FleetGathers(f, g) ==
    /\ phase = "gather" /\ f \in todo
    /\ g > f /\ fleet[g].player = fleet[f].player /\ fleet[g].coord = fleet[f].coord
    /\ fleet' = [h \in FleetIDs \ {g} |->
                    IF h = f THEN [fleet[f] EXCEPT !.cargo = AddArray(@, fleet[g].cargo)]
                    ELSE fleet[h]]
    /\ todo' = todo \ {g}
    /\ UNCHANGED <<phase, roundCount, landVars, siteVars, stock, nextFleetID>>

\* The fleets of an own planet's hangar may be taken in last; then it is the next one's turn.
FleetGathered(f) ==
    /\ Visit("gather", f)
    /\ hangar' \in {hangar, [hangar EXCEPT ![fleet[f].coord] =
                                @ /\ owner[fleet[f].coord] # fleet[f].player]}
    /\ UNCHANGED <<landVars, level, task, stock, fleetVars>>

FleetOrders(f) ==
    LET here == fleet[f].coord IN
    /\ Visit("fleets", f)
    /\ \E t \in FleetTask \cup {NoTask} :
          /\ t # NoTask => fleet[f].task = NoTask
          /\ t # NoTask /\ t.type # "Move" => t.position = here /\ owner[here] = NoId
          /\ fleet' = [fleet EXCEPT ![f].task = IF t = NoTask THEN @ ELSE t]
    /\ UNCHANGED <<landVars, siteVars, stock, nextFleetID>>

\* drop(), over an own planet, unless the load adds up to 0 in 32 bits.
FleetDrops(f) ==
    LET here == fleet[f].coord IN
    /\ Visit("fleets", f)
    /\ owner[here] = fleet[f].player
    /\ Load(fleet[f].cargo) # 0
    /\ stock' = [stock EXCEPT ![here] = AddArray(@, fleet[f].cargo)]
    /\ fleet' = [fleet EXCEPT ![f].cargo = Emptied(@)]
    /\ UNCHANGED <<landVars, siteVars, nextFleetID>>

Present(c) == ({owner[c]} \ {NoId})
                \cup {fleet[f].player : f \in {g \in FleetIDs : fleet[g].coord = c}}
Contested  == {c \in Planet : Cardinality(Present(c)) > 1}

\* What a lost planet stored stays there, beyond Cap too (onPlanetLose).
Losses(dead, lost) ==
    /\ fleet' = [f \in FleetIDs \ dead |-> fleet[f]]
    /\ owner' = [c \in Planet |-> IF c \in lost THEN NoId ELSE owner[c]]
    /\ level' = [c \in Planet |-> IF c \in lost THEN [b \in Building |-> 0] ELSE level[c]]
    /\ task' = [c \in Planet |-> IF c \in lost THEN NoTask ELSE task[c]]
    /\ hangar' = [c \in Planet |-> hangar[c] /\ c \notin lost]

\* execFights: where two players meet, any fleet may be destroyed, and any planet be lost
\* that is nobody's main planet.
Fights ==
    /\ phase = "fights" /\ phase' = "idle"
    /\ \E dead \in SUBSET {f \in FleetIDs : fleet[f].coord \in Contested},
          lost \in SUBSET {c \in Owned \cap Contested : home[owner[c]] # c} : Losses(dead, lost)
    /\ UNCHANGED <<todo, roundCount, home, firstRound, stock, nextFleetID>>

\* The end of the bounded model: a round given up, or MaxRound.
Stopped ==
    /\ phase = "idle" => roundCount = MaxRound
    /\ phase \in Rejected \cup {"idle"}
    /\ UNCHANGED vars

Next ==
    \/ RoundBegins \/ NextPass \/ Fights \/ Stopped
    \/ \E p \in Player, c \in Planet : CreateMainPlanet(p, c)
    \/ \E c \in Planet : PlanetRound(c) \/ PlanetOrders(c) \/ PlanetStops(c) \/ PlanetRests(c)
    \/ \E f \in FleetIDs : \/ FleetRests(f) \/ FleetMoves(f) \/ FleetHarvests(f)
                           \/ FleetColonizes(f) \/ FleetGathered(f) \/ FleetOrders(f)
                           \/ FleetDrops(f) \/ \E g \in FleetIDs : FleetGathers(f, g)

Spec == Init /\ [][Next]_vars

-----------------------------------------------------------------------------
(* Properties.                                                             *)

\* An order that canBuild allows is never refused by the payment behind it (canBuild and
\* addTask look prices up apart), so that no order of a script gives a round up, with one
\* exception: "Strange ressources value", on a planet settled in this very round, whose
\* stock the limit of planetRound has not cut yet.
OrdersPaid ==
    /\ phase # "unpayable"
    /\ phase = "strange" => \E c \in Owned : firstRound[c] = roundCount

Total(r) == FoldFunction(LAMBDA x, y : x + y, 0,
                [x \in Planet \cup FleetIDs |-> IF x \in Planet THEN stock[x][r]
                                                ELSE fleet[x].cargo[r]])
\* What planets receive as they are settled in this step.
Granted(r) == Cardinality({c \in Planet : owner[c] = NoId /\ owner'[c] # NoId})
                * IF phase = "create" THEN StartStock[r] ELSE Gift[r]

\* Resources come from production and from settling alone: harvests, mergers, drops,
\* orders, cancelled orders and battles only move, spend or destroy them (execTask, gather,
\* drop, pay, stopTask).
NoWindfall ==
    [][phase # "planetTasks" => \A r \in Res : Total(r)' <= Total(r) + Granted(r)]_vars
=============================================================================
