------------------------------- MODULE Galaxy -------------------------------
(***************************************************************************)
(* The rules of the game world: planets, fleets and the players who own    *)
(* them, and the simulated round that moves them.  One behaviour is the    *)
(* life of the universe copy that Simulation::round works on and publishes *)
(* at its end (Simulation.cpp, UnivManip.cpp, Rules.cpp).                  *)
(*                                                                         *)
(* A round is a fixed sequence of passes; `phase' says which one is        *)
(* running and `todo' which planets, fleets or coordinates it has not      *)
(* visited yet.  What a player's script decides is an arbitrary choice.    *)
(* Resources, prices, build times, the buildings other than their slot in  *)
(* the task queue, messages and reports are abstracted away: whatever they *)
(* would forbid, this module merely may not choose.                        *)
(***************************************************************************)
EXTENDS Integers, FiniteSets, Functions, Realm

CONSTANTS
    Player,           \* Player::ID values other than NoId
    Planets,          \* the coordinates that hold a planet: planetMap's keys
    Space,            \* the coordinates of the map that hold none
    Ship,             \* Ship::Enum
    Queen,            \* the ship that founds a colony
    NoId,             \* Player::NoId, the owner of a free planet
    NoCoord,          \* UndefinedCoord, and an absent key of newParentMap
    NoTask,           \* an empty boost::optional task
    Near(_),          \* the coordinates a fleet reaches in one move
    MaxPlanetCount,   \* getMaxPlanetCount, the same for every player
    MaxFleetCount,    \* getMaxFleetCount
    MaxFleetSize,     \* getMaxFleetSize
    MaxCannon,        \* bound: cannons ordered for one planet
    MaxFleetID,       \* bound: fleets launched in a behaviour
    MaxRound          \* bound: rounds simulated

Coord == Planets \cup Space

ASSUME PlanetsAssumption == IsFiniteSet(Planets)
ASSUME PlayerAssumption  == IsFiniteSet(Player)
ASSUME NullAssumption    == NoId \notin Player /\ NoCoord \notin Coord
ASSUME ShipAssumption    == /\ IsFiniteSet(Ship) /\ Queen \in Ship
                            /\ Ship \cap {"Building", "Cannon"} = {}
                            /\ NoTask \notin Ship \cup {"Building", "Cannon"}
ASSUME LimitAssumption   == /\ {MaxPlanetCount, MaxFleetCount} \subseteq Nat
                            /\ MaxFleetSize \in Nat \ {0}
ASSUME BoundAssumption   == {MaxCannon, MaxFleetID, MaxRound} \subseteq Nat

VARIABLES
    phase,            \* the pass of round() that is running
    todo,             \* what that pass still has to visit
    roundCount,       \* Universe::roundCount
    nextFleetID,      \* Universe::nextFleetID
    planetToCreate,   \* Simulation::planetToCreate_, players awaiting a planet
    mainPlanet,       \* Player::mainPlanet, in the database
    planetCount,      \* Player::planetCount, counted as the round begins
    fleetCount,       \* Player::fleetCount, counted as the round begins
    before,           \* history: the owners when the round had served the new players
    owner,            \* Planet::playerId
    parent,           \* Planet::parentCoord
    firstRound,       \* Planet::firstRound
    hangar,           \* Planet::hangar
    cannon,           \* Planet::cannonTab, as a number of cannons
    task,             \* Planet::task
    fleet,            \* Universe::fleetMap
    deadFleets,       \* execFights' local deadFleets
    lostPlanets,      \* execFights' local lostPlanets
    newParentMap      \* execFights' local newParentMap

clockVars  == <<roundCount, planetCount, fleetCount, before>>
playerVars == <<planetToCreate, mainPlanet>>
landVars   == <<owner, parent, firstRound>>
siteVars   == <<hangar, cannon, task>>
fleetVars  == <<nextFleetID, fleet>>
fightVars  == <<deadFleets, lostPlanets, newParentMap>>
vars == <<phase, todo, clockVars, playerVars, landVars, siteVars, fleetVars, fightVars>>

-----------------------------------------------------------------------------
ShipTab    == [Ship -> Nat]
NoShips    == [s \in Ship |-> 0]
IsEmpty(tab)     == \A s \in Ship : tab[s] = 0
AddShips(t1, t2) == [s \in Ship |-> t1[s] + t2[s]]
OneMore(tab, s)  == [tab EXCEPT ![s] = @ + 1]
SizeOf(tab)      == FoldFunction(LAMBDA x, y : x + y, 0, tab)

PlanetTask == {NoTask, "Building", "Cannon"} \cup Ship
FleetTask  == {NoTask} \cup [type : {"Move"}, position : Coord]
                       \cup [type : {"Harvest", "Colonize"}, position : Planets]
Fleet      == [player : Player, coord : Coord, origin : Planets,
               ships : ShipTab, task : FleetTask]

Owned       == {c \in Planets : owner[c] # NoId}
FleetIDs    == DOMAIN fleet
FleetsAt(c) == {f \in FleetIDs : fleet[f].coord = c}
\* The passes over std::map<Fleet::ID, Fleet> go through the fleets by identifier.
IsNext(f)   == f \in todo /\ \A g \in todo : f <= g

TypeOK ==
    /\ phase \in {"idle", "create", "planetTasks", "fleetTasks", "planets",
                  "gather", "fleets", "fights", "reparent"}
    /\ roundCount \in Nat
    /\ nextFleetID \in Nat
    /\ planetToCreate \subseteq Player
    /\ mainPlanet \in [Player -> Planets \cup {NoCoord}]
    /\ planetCount \in [Player -> Nat]
    /\ fleetCount \in [Player -> Nat]
    /\ before \in [Planets -> Player \cup {NoId}]
    /\ owner \in [Planets -> Player \cup {NoId}]
    /\ parent \in [Planets -> Planets]
    /\ firstRound \in [Planets -> Nat]
    /\ hangar \in [Planets -> ShipTab]
    /\ cannon \in [Planets -> Nat]
    /\ task \in [Planets -> PlanetTask]
    /\ fleet \in [FleetIDs -> Fleet]
    /\ FleetIDs \subseteq Nat /\ IsFiniteSet(FleetIDs)
    /\ deadFleets \subseteq FleetIDs
    /\ phase \notin {"fights", "reparent"} => deadFleets = {}
    /\ lostPlanets \subseteq Planets
    /\ newParentMap \in [Planets -> Planets \cup {NoCoord}]
    /\ phase = "planetTasks" => todo \subseteq Owned
    /\ phase \in {"fleetTasks", "gather", "fleets"} => todo \subseteq FleetIDs
    /\ phase = "fights" => todo \subseteq Coord
    /\ phase \in {"idle", "create", "planets", "reparent"} => todo = {}

\* construct(): every planet is free and bare, then each player the database
\* already knows receives a main planet of its own.
Init ==
    /\ \E main \in [Player -> Planets \cup {NoCoord}] :
          /\ \A p, q \in Player : p # q /\ main[p] # NoCoord => main[p] # main[q]
          /\ mainPlanet = main
          /\ owner = [c \in Planets |->
                        IF \E p \in Player : main[p] = c
                        THEN CHOOSE p \in Player : main[p] = c ELSE NoId]
    /\ parent = [c \in Planets |-> c]
    /\ firstRound = [c \in Planets |-> 0]
    /\ hangar = [c \in Planets |-> NoShips]
    /\ cannon = [c \in Planets |-> 0]
    /\ task = [c \in Planets |-> NoTask]
    /\ fleet = [f \in {} |-> NoTask]
    /\ nextFleetID = 1
    /\ roundCount = 0
    /\ phase = "idle" /\ todo = {}
    /\ planetToCreate = {}
    /\ planetCount = [p \in Player |-> 0] /\ fleetCount = [p \in Player |-> 0]
    /\ before = [c \in Planets |-> NoId]
    /\ deadFleets = {} /\ lostPlanets = {}
    /\ newParentMap = [c \in Planets |-> NoCoord]

-----------------------------------------------------------------------------
(* The players: Engine::addPlayer queues a new player at any moment; the   *)
(* round that starts next serves the queue until it finds it empty.        *)

AddPlayer(p) ==
    /\ mainPlanet[p] = NoCoord /\ p \notin planetToCreate
    /\ planetToCreate' = planetToCreate \cup {p}
    /\ UNCHANGED <<phase, todo, clockVars, mainPlanet, landVars, siteVars,
                   fleetVars, fightVars>>

\* planetCount and fleetCount are counted from the published universe, once.
BeginRound ==
    /\ phase = "idle" /\ roundCount < MaxRound
    /\ phase' = "create"
    /\ roundCount' = roundCount + 1
    /\ planetCount' = [p \in Player |-> Cardinality({c \in Planets : owner[c] = p})]
    /\ fleetCount' = [p \in Player |-> Cardinality({f \in FleetIDs : fleet[f].player = p})]
    /\ UNCHANGED <<before, todo, playerVars, landVars, siteVars, fleetVars, fightVars>>

CreateMainPlanet(p, c) ==
    /\ phase = "create" /\ p \in planetToCreate
    /\ owner[c] = NoId
    /\ owner' = [owner EXCEPT ![c] = p]
    /\ mainPlanet' = [mainPlanet EXCEPT ![p] = c]
    /\ planetToCreate' = planetToCreate \ {p}
    /\ UNCHANGED <<phase, todo, clockVars, parent, firstRound, siteVars,
                   fleetVars, fightVars>>

EndCreate ==
    /\ phase = "create" /\ planetToCreate = {}
    /\ phase' = "planetTasks" /\ todo' = Owned /\ before' = owner
    /\ UNCHANGED <<roundCount, planetCount, fleetCount, playerVars, landVars, siteVars,
                   fleetVars, fightVars>>

-----------------------------------------------------------------------------
(* execPlanetTasks: a planet's task may come to its term, and a planet     *)
(* with ships in its hangar launches them as a fleet, while the player is  *)
(* counted below the limit.                                                *)

NewFleet(c, ships) == [player |-> owner[c], coord |-> c, origin |-> c,
                       ships |-> ships, task |-> NoTask]

PlanetRound(c) ==
    /\ phase = "planetTasks" /\ c \in todo
    /\ todo' = todo \ {c}
    /\ \E done \in {task[c]} \cup {NoTask} :
         LET built  == IF done \in Ship THEN OneMore(hangar[c], done) ELSE hangar[c]
             launch == fleetCount[owner[c]] < MaxFleetCount /\ ~IsEmpty(built)
         IN  /\ task' = IF done = NoTask THEN task ELSE [task EXCEPT ![c] = NoTask]
             /\ cannon' = IF done = "Cannon" THEN [cannon EXCEPT ![c] = @ + 1] ELSE cannon
             /\ hangar' = [hangar EXCEPT ![c] = IF launch THEN NoShips ELSE built]
             /\ nextFleetID' = IF launch THEN nextFleetID + 1 ELSE nextFleetID
             /\ fleet' = IF launch
                         THEN [f \in FleetIDs \cup {nextFleetID} |->
                                 IF f = nextFleetID THEN NewFleet(c, built) ELSE fleet[f]]
                         ELSE fleet
    /\ UNCHANGED <<phase, clockVars, playerVars, landVars, fightVars>>

EndPlanetTasks ==
    /\ phase = "planetTasks" /\ todo = {}
    /\ phase' = "fleetTasks" /\ todo' = FleetIDs
    /\ UNCHANGED <<clockVars, playerVars, landVars, siteVars, fleetVars, fightVars>>

-----------------------------------------------------------------------------
(* execFleetTasks: the order given in the last round is carried out, one   *)
(* fleet after the other.  A fleet that finds the planet already taken, or *)
(* its player counted at the limit, drops the order and keeps its queen.   *)

\* Mutant: the planet is not looked at again when the order is carried out.
SettleAnyway(f, c) ==
    /\ fleet[f].ships[Queen] > 0
    /\ planetCount[fleet[f].player] < MaxPlanetCount

CanSettle(f, c) ==
    /\ owner[c] = NoId
    /\ fleet[f].ships[Queen] > 0
    /\ planetCount[fleet[f].player] < MaxPlanetCount

\* Mutants: a colony forgets its parent, or the round it was settled in.
SettleUnparented(f, c) ==
    /\ fleet' = [fleet EXCEPT ![f].ships[Queen] = @ - 1, ![f].task = NoTask]
    /\ owner' = [owner EXCEPT ![c] = fleet[f].player]
    /\ firstRound' = [firstRound EXCEPT ![c] = roundCount]
    /\ UNCHANGED parent
SettleUndated(f, c) ==
    /\ fleet' = [fleet EXCEPT ![f].ships[Queen] = @ - 1, ![f].task = NoTask]
    /\ owner' = [owner EXCEPT ![c] = fleet[f].player]
    /\ parent' = [parent EXCEPT ![c] = fleet[f].origin]
    /\ UNCHANGED firstRound

Settle(f, c) ==
    /\ fleet' = [fleet EXCEPT ![f].ships[Queen] = @ - 1, ![f].task = NoTask]
    /\ owner' = [owner EXCEPT ![c] = fleet[f].player]
    /\ parent' = [parent EXCEPT ![c] = fleet[f].origin]
    /\ firstRound' = [firstRound EXCEPT ![c] = roundCount]

FleetRound(f) ==
    LET order   == fleet[f].task
        settles == /\ order # NoTask
                   /\ order.type = "Colonize"
                   /\ CanSettle(f, order.position)
    IN  /\ phase = "fleetTasks" /\ IsNext(f)
        /\ todo' = todo \ {f}
        /\ \/ settles /\ Settle(f, order.position)
           \/ /\ ~settles
              /\ fleet' = [fleet EXCEPT
                             ![f].coord = IF order # NoTask /\ order.type = "Move"
                                          THEN order.position ELSE @,
                             ![f].task = NoTask]
              /\ UNCHANGED landVars
        /\ UNCHANGED <<phase, clockVars, playerVars, siteVars, nextFleetID, fightVars>>

EndFleetTasks ==
    /\ phase = "fleetTasks" /\ todo = {}
    /\ phase' = "planets" /\ todo' = {}
    /\ UNCHANGED <<clockVars, playerVars, landVars, siteVars, fleetVars, fightVars>>

-----------------------------------------------------------------------------
(* execPlanets: every owned planet's script asks for an action, and the    *)
(* actions are then applied.  Resources, the factory and prices may also   *)
(* refuse an order, which is the choice of "Nothing".                      *)

ShipsToCome == {c \in Planets : task[c] \in Ship \/ ~IsEmpty(hangar[c])}

CanBuild(c, action) ==
    /\ task[c] = NoTask
    /\ action \in Ship => /\ IsEmpty(hangar[c])
                          /\ nextFleetID + Cardinality(ShipsToCome) <= MaxFleetID
    /\ action = "Cannon" => cannon[c] < MaxCannon

ApplyPlanetAction(c, action) ==
    CASE action = "Nothing" -> task[c]
      [] action = "StopBuilding" -> IF task[c] = "Building" THEN NoTask ELSE task[c]
      [] OTHER -> IF CanBuild(c, action) THEN action ELSE task[c]

ExecPlanets ==
    /\ phase = "planets"
    /\ \E action \in [Owned -> {"Nothing", "StopBuilding", "Building", "Cannon"} \cup Ship] :
          task' = [c \in Planets |->
                     IF c \in Owned THEN ApplyPlanetAction(c, action[c]) ELSE task[c]]
    /\ phase' = "gather" /\ todo' = FleetIDs
    /\ UNCHANGED <<clockVars, playerVars, landVars, hangar, cannon, fleetVars, fightVars>>

-----------------------------------------------------------------------------
(* execFleets: fleets of one player at one place merge into the one with   *)
(* the lowest identifier, and take the ships of the player's hangar there, *)
(* if the scripts want it and the size limit allows it; then every fleet's *)
(* script gives it an order.                                               *)

\* Mutant: fleets merge whatever their size.
GatherAnyway(tab1, tab2) == TRUE

CanGather(tab1, tab2) == SizeOf(AddShips(tab1, tab2)) <= MaxFleetSize

GatherFleet(f, g) ==
    /\ phase = "gather" /\ IsNext(f)
    /\ g \in todo /\ g > f
    /\ fleet[g].player = fleet[f].player /\ fleet[g].coord = fleet[f].coord
    /\ CanGather(fleet[f].ships, fleet[g].ships)
    /\ fleet' = [h \in FleetIDs \ {g} |->
                   IF h = f THEN [fleet[f] EXCEPT !.ships = AddShips(@, fleet[g].ships)]
                            ELSE fleet[h]]
    /\ todo' = todo \ {g}
    /\ UNCHANGED <<phase, clockVars, playerVars, landVars, siteVars, nextFleetID, fightVars>>

GatherHangar(f, c) ==
    /\ phase = "gather" /\ IsNext(f)
    /\ fleet[f].coord = c /\ owner[c] = fleet[f].player
    /\ ~IsEmpty(hangar[c]) /\ CanGather(fleet[f].ships, hangar[c])
    /\ fleet' = [fleet EXCEPT ![f].ships = AddShips(@, hangar[c])]
    /\ hangar' = [hangar EXCEPT ![c] = NoShips]
    /\ todo' = todo \ {f}
    /\ UNCHANGED <<phase, clockVars, playerVars, landVars, cannon, task, nextFleetID, fightVars>>

GatherNoMore(f) ==
    /\ phase = "gather" /\ IsNext(f)
    /\ todo' = todo \ {f}
    /\ UNCHANGED <<phase, clockVars, playerVars, landVars, siteVars, fleetVars, fightVars>>

\* Mutant: the scripts of the fleets merged away still run.
EndGatherStale ==
    /\ phase = "gather" /\ todo = {}
    /\ phase' = "fleets" /\ todo' = 1 .. (nextFleetID - 1)
    /\ UNCHANGED <<clockVars, playerVars, landVars, siteVars, fleetVars, fightVars>>

EndGather ==
    /\ phase = "gather" /\ todo = {}
    /\ phase' = "fleets" /\ todo' = FleetIDs
    /\ UNCHANGED <<clockVars, playerVars, landVars, siteVars, fleetVars, fightVars>>

CanDo(f, order) ==
    LET here == fleet[f].coord IN
    /\ fleet[f].task = NoTask
    /\ order.type = "Move" => order.position \in Near(here)
    /\ order.type \in {"Harvest", "Colonize"} =>
          here \in Planets /\ order.position = here /\ owner[here] = NoId
    /\ order.type = "Colonize" => CanSettle(f, here)

\* A script that asks for nothing, or for what is refused, leaves the task alone.
OrderFleet(f) ==
    /\ phase = "fleets" /\ IsNext(f)
    /\ todo' = todo \ {f}
    /\ \E order \in FleetTask :
          \/ order = NoTask /\ fleet' = fleet
          \/ /\ order # NoTask /\ CanDo(f, order)
             /\ fleet' = [fleet EXCEPT ![f].task = order]
    /\ UNCHANGED <<phase, clockVars, playerVars, landVars, siteVars, nextFleetID, fightVars>>

PlayersAt(c, fleets) ==
    {fleet[f].player : f \in fleets} \cup ({owner[d] : d \in Owned \cap {c}})

\* Mutant: fleets without ships are kept.
AllFleets == FleetIDs

Manned == {f \in FleetIDs : ~IsEmpty(fleet[f].ships)}

\* A fleet left without ships (a lone queen settled) does not outlive the pass.
EndFleets ==
    /\ phase = "fleets" /\ todo = {}
    /\ phase' = "fights"
    /\ fleet' = Restrict(fleet, Manned)
    /\ todo' = {c \in Coord : \E p, q \in PlayersAt(c, Manned \cap FleetsAt(c)) : p # q}
    /\ UNCHANGED <<clockVars, playerVars, landVars, siteVars, nextFleetID, fightVars>>

-----------------------------------------------------------------------------
(* execFights: where two players meet, the fleets that do not escape and   *)
(* the planet fight.  What fight() computes is left open here: any of the  *)
(* ships and cannons engaged may be destroyed.  A planet is lost when no   *)
(* cannon is left and no fleet of its owner that fought is alive.          *)

Losses(tab) == {t \in [Ship -> 0 .. MaxFleetSize] : \A s \in Ship : t[s] <= tab[s]}

\* Mutant: cannons alone do not hold a planet.
HoldsByFleet(c, stay, after, guns) ==
    \E f \in stay : fleet[f].player = owner[c] /\ ~IsEmpty(after[f])

Holds(c, stay, after, guns) ==
    \/ guns > 0
    \/ \E f \in stay : fleet[f].player = owner[c] /\ ~IsEmpty(after[f])

Battle(c) ==
    /\ phase = "fights" /\ c \in todo
    /\ todo' = todo \ {c}
    /\ \/ UNCHANGED <<fleet, cannon, deadFleets, lostPlanets>>
       \/ \E stay \in SUBSET FleetsAt(c) :
            /\ stay # {}
            /\ \E p, q \in PlayersAt(c, stay) : p # q
            /\ \E after \in [stay -> [Ship -> 0 .. MaxFleetSize]] :
                 /\ \A f \in stay : after[f] \in Losses(fleet[f].ships)
                 /\ fleet' = [f \in FleetIDs |-> IF f \in stay
                                THEN [fleet[f] EXCEPT !.ships = after[f]] ELSE fleet[f]]
                 /\ deadFleets' = deadFleets \cup {f \in stay : IsEmpty(after[f])}
                 /\ IF c \in Owned
                    THEN \E guns \in 0 .. cannon[c] :
                           /\ cannon' = [cannon EXCEPT ![c] = guns]
                           /\ lostPlanets' = IF Holds(c, stay, after, guns)
                                             THEN lostPlanets ELSE lostPlanets \cup {c}
                    ELSE UNCHANGED <<cannon, lostPlanets>>
    /\ UNCHANGED <<phase, clockVars, playerVars, landVars, hangar, task, nextFleetID, newParentMap>>

\* Mutant: a main planet is taken like any other.
AllTaken == lostPlanets

\* onPlanetLose, on each lost planet: a main planet stays with its player.
Taken == {c \in lostPlanets : mainPlanet[owner[c]] # c}

\* Mutant: the parent is read after it was reset to the planet itself.
SelfParents == [c \in Planets |-> IF c \in Taken THEN c ELSE NoCoord]

NewParents == [c \in Planets |-> IF c \in Taken THEN parent[c] ELSE NoCoord]

OnPlanetLose ==
    /\ phase = "fights" /\ todo = {}
    /\ phase' = "reparent"
    /\ owner' = [c \in Planets |-> IF c \in Taken THEN NoId ELSE owner[c]]
    /\ task' = [c \in Planets |-> IF c \in Taken THEN NoTask ELSE task[c]]
    /\ hangar' = [c \in Planets |-> IF c \in Taken THEN NoShips ELSE hangar[c]]
    /\ newParentMap' = NewParents
    /\ parent' = [c \in Planets |-> IF c \in Taken THEN c ELSE parent[c]]
    /\ UNCHANGED <<todo, clockVars, playerVars, firstRound, cannon, fleetVars,
                   deadFleets, lostPlanets>>

\* The `while(true)' walks: one step up from a lost planet.
\* Mutant: only planets are reassigned.
NoOrphanFleets == {}

OrphanFleets  == {f \in FleetIDs : newParentMap[fleet[f].origin] # NoCoord}
OrphanPlanets == {c \in Owned : newParentMap[parent[c]] # NoCoord}

ReparentFleet(f) ==
    /\ phase = "reparent" /\ f \in OrphanFleets
    /\ fleet' = [fleet EXCEPT ![f].origin = newParentMap[@]]
    /\ UNCHANGED <<phase, todo, clockVars, playerVars, landVars, siteVars,
                   nextFleetID, fightVars>>

ReparentPlanet(c) ==
    /\ phase = "reparent" /\ OrphanFleets = {} /\ c \in OrphanPlanets
    /\ parent' = [parent EXCEPT ![c] = newParentMap[@]]
    /\ UNCHANGED <<phase, todo, clockVars, playerVars, owner, firstRound, siteVars,
                   fleetVars, fightVars>>

\* The dead fleets are erased, the copy is published and round() returns.
EndRound ==
    /\ phase = "reparent" /\ OrphanFleets = {} /\ OrphanPlanets = {}
    /\ phase' = "idle"
    /\ fleet' = Restrict(fleet, FleetIDs \ deadFleets)
    /\ deadFleets' = {} /\ lostPlanets' = {}
    /\ newParentMap' = [c \in Planets |-> NoCoord]
    /\ planetCount' = [p \in Player |-> 0] /\ fleetCount' = [p \in Player |-> 0]
    /\ before' = [c \in Planets |-> NoId]
    /\ UNCHANGED <<todo, roundCount, playerVars, landVars, siteVars, nextFleetID>>

-----------------------------------------------------------------------------
RoundStep ==
    \/ BeginRound
    \/ \E p \in Player, c \in Planets : CreateMainPlanet(p, c)
    \/ EndCreate
    \/ \E c \in Planets : PlanetRound(c)
    \/ EndPlanetTasks
    \/ \E f \in FleetIDs : FleetRound(f)
    \/ EndFleetTasks
    \/ ExecPlanets
    \/ \E f, g \in FleetIDs : GatherFleet(f, g)
    \/ \E f \in FleetIDs, c \in Planets : GatherHangar(f, c)
    \/ \E f \in FleetIDs : GatherNoMore(f)
    \/ EndGather
    \/ \E f \in FleetIDs : OrderFleet(f)
    \/ EndFleets
    \/ \E c \in Coord : Battle(c)
    \/ OnPlanetLose
    \/ \E f \in FleetIDs : ReparentFleet(f)
    \/ \E c \in Planets : ReparentPlanet(c)
    \/ EndRound

\* The simulation never stops; its model stops counting rounds at MaxRound.
AtBound == phase = "idle" /\ roundCount = MaxRound /\ UNCHANGED vars

Next == RoundStep \/ (\E p \in Player : AddPlayer(p)) \/ AtBound

Spec     == Init /\ [][Next]_vars
\* The simulation thread runs on by itself; nothing makes anyone sign up.
FairSpec == Spec /\ WF_vars(RoundStep)
-----------------------------------------------------------------------------
(* Properties.                                                             *)

\* Between rounds every player's planets form a tree below the main planet, and
\* every fleet's origin is a planet of the fleet's own player: colonising,
\* losing planets and the reassignment to grandparents never leave a parent or
\* an origin that was lost, or that somebody else owns.
FamilyTree ==
    phase = "idle" =>
       /\ \A c \in Owned : IF mainPlanet[owner[c]] = c
                           THEN parent[c] = c
                           ELSE parent[c] # c /\ owner[parent[c]] = owner[c]
       /\ \A f \in FleetIDs : owner[fleet[f].origin] = fleet[f].player

\* The `while(true)' walks over newParentMap in execFights come to an end: every
\* entry leads to a planet settled in a strictly earlier round.
WalksEnd ==
    \A c \in Planets : newParentMap[c] # NoCoord =>
                          firstRound[newParentMap[c]] < firstRound[c]

\* Whatever fights take place, a player keeps the main planet the database names.
MainPlanetKept ==
    \A p \in Player : mainPlanet[p] # NoCoord => owner[mainPlanet[p]] = p

\* A planet that changes hands comes bare: no task, no ship in the hangar and no
\* cannon of an earlier owner is left on a free planet.
FreePlanetBare ==
    \A c \in Planets : owner[c] = NoId =>
        task[c] = NoTask /\ IsEmpty(hangar[c]) /\ cannon[c] = 0

\* No fleet exceeds the size limit, although launching a hangar never tests it
\* (only merging does).
FleetsFit == \A f \in FleetIDs : SizeOf(fleet[f].ships) <= MaxFleetSize

\* No fleet without ships is published: neither one whose lone queen settled nor
\* one destroyed in a fight.
NoGhostFleet == phase = "idle" => \A f \in FleetIDs : ~IsEmpty(fleet[f].ships)

\* However many fleets were ordered to settle on it, a planet passes from one player to
\* another only through being free; and all the passes of a round together do to the owners
\* what module Engine expects of a round (Simulation.cpp:1393-1568): whoever settles had a
\* planet before the round, and what was lost was nobody's main planet, also where a race for
\* a planet, the loss of the settlers' origin and that of the new colony come together.
NotStolen    == \A c \in Planets : owner'[c] # owner[c] => NoId \in {owner[c], owner'[c]}
InBounds     == phase = "reparent" => RoundMayLeave(before, owner, mainPlanet, NoId)
RoundOutcome == [][NotStolen /\ InBounds']_vars

\* Every round that begins is published.
RoundEnds == phase = "create" ~> phase = "idle"

\* Rules.h: "Nombre maximum de planetes qu'un joueur peut posseder".  NOT kept by the code,
\* nor checked: two fleets that settle in one round pass the test of the same planetCount.
PlanetLimit == \A p \in Player : Cardinality({c \in Planets : owner[c] = p}) <= MaxPlanetCount

-----------------------------------------------------------------------------
(* The inductive invariant behind FamilyTree, WalksEnd, MainPlanetKept and *)
(* FreePlanetBare.  A planet's rank is the round it was settled in:        *)
(* parents and origins are strictly older.                                 *)

Family ==
    /\ \A c \in Owned : mainPlanet[owner[c]] # c =>
          owner[parent[c]] = owner[c] /\ firstRound[parent[c]] < firstRound[c]
    /\ \A f \in FleetIDs : owner[fleet[f].origin] = fleet[f].player

\* While orphans are being reassigned, a planet counts as a parent if it is owned
\* or leads on to its own parent; `was' is who owned it before the losses.
Rooted(c) == owner[c] # NoId \/ newParentMap[c] # NoCoord

Heirs(was) ==
    /\ \A c \in Owned : was[c] = owner[c]
    /\ \A c \in Planets : newParentMap[c] # NoCoord =>
          /\ owner[c] = NoId /\ Rooted(newParentMap[c])
          /\ was[newParentMap[c]] = was[c]
          /\ firstRound[newParentMap[c]] < firstRound[c]
    /\ \A c \in Owned : mainPlanet[owner[c]] # c =>
          /\ Rooted(parent[c]) /\ was[parent[c]] = owner[c]
          /\ firstRound[parent[c]] < firstRound[c]
    /\ \A f \in FleetIDs :
          Rooted(fleet[f].origin) /\ was[fleet[f].origin] = fleet[f].player

Lineage == IF phase = "reparent"
           THEN \E was \in [Planets -> Player \cup {NoId}] : Heirs(was)
           ELSE Family /\ newParentMap = [c \in Planets |-> NoCoord]

Roots == /\ \A c \in Planets : owner[c] = NoId => parent[c] = c
         /\ \A p \in Player : mainPlanet[p] # NoCoord => parent[mainPlanet[p]] = mainPlanet[p]

Ages == /\ \A c \in Planets : firstRound[c] <= roundCount
        /\ phase \in {"create", "planetTasks"} =>
              \A c \in Planets : firstRound[c] < roundCount
        /\ \A f \in FleetIDs : firstRound[fleet[f].origin] < roundCount

Waiting == \A p \in planetToCreate : mainPlanet[p] = NoCoord

Visits == /\ phase \notin {"fights", "reparent"} => lostPlanets = {}
          /\ phase = "fights" => \A c \in lostPlanets :
                                    owner[c] # NoId /\ cannon[c] = 0 /\ c \notin todo

IInv == /\ TypeOK /\ Lineage /\ Roots /\ Ages /\ Waiting /\ Visits
        /\ MainPlanetKept /\ FreePlanetBare

\* The inductive invariant behind NoGhostFleet: once the pass of the fleets is over, a
\* fleet without ships is one that execFights has marked as dead.
Crews == /\ phase \in {"idle", "create", "planetTasks"} =>
               \A f \in FleetIDs : ~IsEmpty(fleet[f].ships)
         /\ phase \in {"fights", "reparent"} =>
               \A f \in FleetIDs : IsEmpty(fleet[f].ships) => f \in deadFleets

\* The inductive invariant behind FleetsFit: a ship is ordered for an empty hangar only, which
\* stays empty until it is built, so that what PlanetRound launches is a single ship.
Berths == /\ FleetsFit
          /\ \A c \in Planets : SizeOf(hangar[c]) <= 1
          /\ \A c \in Planets : task[c] \in Ship => IsEmpty(hangar[c])

\* The inductive invariant behind RoundOutcome: until the fights are over planets have only
\* been settled, by players who had one.
Settling == {"planetTasks", "fleetTasks", "planets", "gather", "fleets", "fights"}
SoFar == /\ phase \in Settling =>
               \A c \in Planets : \/ owner[c] = before[c]
                                  \/ before[c] = NoId /\ \E d \in Planets : owner[c] = before[d]
         /\ InBounds

-----------------------------------------------------------------------------
(* Why a round comes to its end: the passes follow each other, and within  *)
(* a pass every step leaves less to do.                                    *)

Stage == [create |-> 1, planetTasks |-> 2, fleetTasks |-> 3, planets |-> 4, gather |-> 5,
          fleets |-> 6, fights |-> 7, reparent |-> 8, idle |-> 9]

\* The players who have no planet yet, and how far the origins of the fleets and the
\* parents of the planets are from the first planets.
Homeless  == {p \in Player : mainPlanet[p] = NoCoord}
OriginAge == [f \in FleetIDs |-> firstRound[fleet[f].origin]]
ParentAge == [c \in Planets |-> firstRound[parent[c]]]

Work == CASE phase = "create"   -> Cardinality(Homeless)
          [] phase = "reparent" -> SizeOf(OriginAge) + SizeOf(ParentAge)
          [] OTHER              -> Cardinality(todo)

Onward ==
    \/ Stage[phase'] > Stage[phase]
    \/ phase' = phase /\ Work' \in 0 .. Work - 1
    \/ phase' = phase /\ Work' = Work /\ \E p \in Player : AddPlayer(p)

\* No loop of a round goes on for ever (Simulation.cpp:1066-1089, 1378-1391): a step ends
\* the pass or leaves less work in it, unless somebody signs up meanwhile.
RoundAdvances == [][phase # "idle" => Onward]_vars

-----------------------------------------------------------------------------
(* A battle is a meeting as module Encounter states it, of the fleets at   *)
(* one place and the planet there, if it is somebody's.                    *)

Grounded   == -1   \* the army of the planet, as in module Fight
ArmiesAt(c) == FleetsAt(c) \cup {a \in {Grounded} : c \in Owned}
LeaderAt(c) == [a \in ArmiesAt(c) |-> IF a = Grounded THEN owner[c] ELSE fleet[a].player]
UnitsAt(c)  == [a \in ArmiesAt(c) |-> IF a = Grounded THEN [k \in {"Cannon"} |-> cannon[c]]
                                      ELSE fleet[a].ships]

Met(c) == INSTANCE Encounter WITH
              PlanetIndex <- Grounded,
              player      <- LeaderAt(c),
              tab         <- UnitsAt(c),
              over        <- c \notin todo,
              dead        <- deadFleets \cap FleetsAt(c),
              lost        <- {a \in {Grounded} : c \in lostPlanets}

\* What execFights does at a place with adversaries is an encounter of those who are there,
\* whatever was destroyed elsewhere in the same pass (Simulation.cpp:865-1012).
BattlesAreEncounters ==
    [][phase = "fights" => \A c \in todo \ todo' : Met(c)!Next]_vars

\* The invariant behind it: no fleet was destroyed where nobody has fought yet.
Fought == phase = "fights" => \A f \in deadFleets : fleet[f].coord \notin todo

\* What a battle at c leaves alone.
Elsewhere(c) ==
    /\ todo' = todo \ {c} /\ FleetIDs' = FleetIDs
    /\ \A f \in FleetIDs : fleet'[f] = [fleet[f] EXCEPT !.ships = fleet'[f].ships]
    /\ \A f \in FleetIDs \ FleetsAt(c) : fleet'[f] = fleet[f]
    /\ \A d \in Planets : d # c \/ d \notin Owned => cannon'[d] = cannon[d]
    /\ deadFleets' \ FleetsAt(c) = deadFleets \ FleetsAt(c)
    /\ lostPlanets' \ {c} = lostPlanets \ {c}
    /\ (c \notin Owned => UNCHANGED lostPlanets)
    /\ UNCHANGED <<phase, clockVars, playerVars, landVars, hangar, task, nextFleetID, newParentMap>>
=============================================================================
