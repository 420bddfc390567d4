-------------------------------- MODULE Fight --------------------------------
(***************************************************************************)
(* The meeting of several players at one place in a round: the part of     *)
(* Simulation.cpp's execFights that runs for one coordinate, and fight()   *)
(* of fighting.cpp, shot by shot.  What a player's scripts answer, which   *)
(* escapes succeed and which unit a shot hits are left open.               *)
(*                                                                         *)
(* A unit is known by its army, its type and its number: the units of one  *)
(* army and one type differ in nothing else.  The experience won is left   *)
(* out, and so are the events sent to the players.                         *)
(***************************************************************************)
EXTENDS Integers, FiniteSets, Functions

CONSTANTS
    Player,               \* Player::ID values
    FleetCount,           \* how many fleets are there
    ShipType, CannonType, \* the values of Unit::type
    Life, Power, Shield,  \* Ship::List and Cannon::List
    MaxUnits              \* bound: units that come, all armies together

PlanetIndex == -1
FleetIndex  == 0 .. FleetCount - 1
UnitType    == ShipType \cup CannonType
MaxTurn     == 5          \* "Pour 5 round maximum"

ASSUME TypeAssumption ==
    /\ FleetCount \in Nat /\ MaxUnits \in Nat
    /\ ShipType \subseteq Nat /\ CannonType \subseteq Nat
    /\ IsFiniteSet(ShipType) /\ IsFiniteSet(CannonType)
ASSUME StatAssumption ==
    /\ Life \in [UnitType -> Nat \ {0}]
    /\ Power \in [UnitType -> Nat] /\ Shield \in [UnitType -> Nat]

VARIABLES
    phase,       \* where execFights stands
    player,      \* the player of each army that came
    tab,         \* Fleet::shipList and Planet::cannonTab of each army
    here,        \* fleetVect and planetPtr: the armies that did not escape
    fighting,    \* playerFightingSet: the pairs of players that fight
    allUnits,    \* the units still in the fight
    waiting,     \* those that have not fired in this turn
    roundCount,  \* the turns played
    enemySet,    \* Report::enemySet of each army
    dead,        \* deadFleets
    lost         \* lostPlanets

vars == <<phase, player, tab, here, fighting, allUnits, waiting, roundCount, enemySet, dead, lost>>
meetVars   == <<player, tab>>
reportVars == <<enemySet, dead, lost>>

-----------------------------------------------------------------------------
Army == DOMAIN tab
TypesOf(a) == IF a = PlanetIndex THEN CannonType ELSE ShipType
IsEmpty(t) == \A k \in DOMAIN t : t[k] = 0
PlayersIn(armies) == {player[a] : a \in armies}

\* fillShipList, over the armies given.
UnitsOf(armies) ==
    {u \in armies \X UnitType \X (1 .. MaxUnits) :
        u[2] \in TypesOf(u[1]) /\ u[3] <= tab[u[1]][u[2]]}
NoUnits  == [u \in {} |-> 0]
Fresh(k) == [life |-> Life[k], shield |-> Shield[k]]

Hostile(a, b) == <<player[a], player[b]>> \in fighting
Enemies(a)    == {b \in here : Hostile(a, b)}

\* Mutant: the fight goes on only while every army still has units.
FightAgainAll ==
    /\ \A a \in here : \E u \in DOMAIN allUnits : u[1] = a
    /\ \E u, v \in DOMAIN allUnits : Hostile(u[1], v[1])

FightAgain == \E u, v \in DOMAIN allUnits : Hostile(u[1], v[1])

\* enemyVects: a unit destroyed in this turn can still be hit.
Targets(u) == {v \in DOMAIN allUnits : Hostile(v[1], u[1])}

\* The order of allUnits: fleets, then the planet, and the types of each.
Rank(a) == IF a = PlanetIndex THEN FleetCount ELSE a
Precedes(u, v) ==
    \/ Rank(u[1]) < Rank(v[1])
    \/ u[1] = v[1] /\ u[2] < v[2]
    \/ u[1] = v[1] /\ u[2] = v[2] /\ u[3] < v[3]
IsNext(u) == u \in waiting /\ \A v \in waiting : ~Precedes(v, u)

\* Mutant: the damage is not compared with the life left, which is a uint16_t.
HitUnguarded(target, power) ==
    IF power < target.shield THEN [target EXCEPT !.shield = @ - power]
    ELSE [life |-> (target.life - (power - target.shield)) % 2^16, shield |-> 0]

Hit(target, power) ==
    IF power < target.shield THEN [target EXCEPT !.shield = @ - power]
    ELSE LET rest == power - target.shield IN
         [life |-> IF rest < target.life THEN target.life - rest ELSE 0, shield |-> 0]

-----------------------------------------------------------------------------
TypeOK ==
    /\ phase \in {"meet", "ask", "turn", "fire", "over", "thrown"}
    /\ Army \subseteq FleetIndex \cup {PlanetIndex}
    /\ player \in [Army -> Player]
    /\ \A a \in Army : tab[a] \in [TypesOf(a) -> 0 .. MaxUnits]
    /\ here \subseteq Army
    /\ fighting \subseteq Player \X Player
    /\ DOMAIN allUnits \subseteq UnitsOf(here)
    /\ \A u \in DOMAIN allUnits :
          allUnits[u] \in [life : 0 .. Life[u[2]], shield : 0 .. Shield[u[2]]]
    /\ phase = "turn" => waiting = {} /\ \A u \in DOMAIN allUnits : allUnits[u].life # 0
    /\ waiting \subseteq DOMAIN allUnits
    /\ roundCount \in 0 .. MaxTurn
    /\ phase = "fire" => roundCount < MaxTurn
    /\ enemySet \in [Army -> SUBSET Army]
    /\ dead \subseteq here /\ lost \subseteq here

\* Fleets have ships (execFleets removes the others), a planet may have no cannon, and
\* the armies of one coordinate are of two players at least.
Init ==
    /\ phase = "meet"
    /\ \E ships \in [FleetIndex -> [ShipType -> 0 .. MaxUnits]],
          armies \in {FleetIndex, FleetIndex \cup {PlanetIndex}} :
       \E cannons \in [CannonType -> 0 .. MaxUnits] :
          tab = [a \in armies |-> IF a = PlanetIndex THEN cannons ELSE ships[a]]
    /\ \A f \in FleetIndex : ~IsEmpty(tab[f])
    /\ Cardinality(UnitsOf(Army)) <= MaxUnits
    /\ player \in [Army -> Player]
    /\ \E a, b \in Army : player[a] # player[b]
    /\ here = Army /\ enemySet = [a \in Army |-> {}]
    /\ fighting = {} /\ allUnits = NoUnits /\ waiting = {} /\ roundCount = 0
    /\ dead = {} /\ lost = {}

-----------------------------------------------------------------------------
(* execFights, before the fight.                                           *)

\* removeEscapedFleet: any fleet may want to escape and succeed.
RemoveEscaped ==
    /\ phase = "meet"
    /\ \E escaped \in SUBSET (here \ {PlanetIndex}) : here' = here \ escaped
    /\ phase' = IF \E a, b \in here' : player[a] # player[b] THEN "ask" ELSE "over"
    /\ UNCHANGED <<meetVars, fighting, allUnits, waiting, roundCount, reportVars>>

\* Mutant: only who wants a fight fights.
OneSided(wants) == wants

\* "Si un seul des deux veux se batre, les deux se batrons"
BothFight(wants) == wants \cup {<<pair[2], pair[1]>> : pair \in wants}

\* addIfTheyWantFight asks each player about each other one; then fight() starts.
AddWantFight ==
    /\ phase = "ask"
    /\ \E wants \in SUBSET {pair \in PlayersIn(here) \X PlayersIn(here) : pair[1] # pair[2]} :
          fighting' = BothFight(wants)
    /\ allUnits' = [u \in UnitsOf(here) |-> Fresh(u[2])]
    /\ phase' = "turn"
    /\ UNCHANGED <<meetVars, here, waiting, roundCount, reportVars>>

-----------------------------------------------------------------------------
(* The turns of fight().                                                   *)

TurnsLeft == roundCount < MaxTurn

BeginTurn ==
    /\ phase = "turn" /\ TurnsLeft /\ FightAgain
    /\ allUnits' = [u \in DOMAIN allUnits |-> [allUnits[u] EXCEPT !.shield = Shield[u[2]]]]
    /\ waiting' = DOMAIN allUnits
    /\ phase' = "fire"
    /\ UNCHANGED <<meetVars, here, fighting, roundCount, reportVars>>

\* Each unit fires, those that were destroyed in this turn too.
Fire(u, v) ==
    /\ phase = "fire" /\ IsNext(u) /\ v \in Targets(u)
    /\ allUnits' = [allUnits EXCEPT ![v] = Hit(@, Power[u[2]])]
    /\ waiting' = waiting \ {u}
    /\ UNCHANGED <<phase, meetVars, here, fighting, roundCount, reportVars>>

\* NUMERIC_CAST(int, enemyCount - 1) throws when a unit has nobody to fire at.
FireThrows(u) ==
    /\ phase = "fire" /\ IsNext(u) /\ Targets(u) = {}
    /\ phase' = "thrown"
    /\ UNCHANGED <<meetVars, here, fighting, allUnits, waiting, roundCount, reportVars>>

\* Mutant: the turns are not counted, the fight goes on while there are enemies.
RemoveUncounted ==
    /\ phase = "fire" /\ waiting = {}
    /\ allUnits' = Restrict(allUnits, {u \in DOMAIN allUnits : allUnits[u].life > 0})
    /\ phase' = "turn"
    /\ UNCHANGED <<meetVars, here, fighting, waiting, roundCount, reportVars>>

\* remove_erase_if
RemoveDestroyed ==
    /\ phase = "fire" /\ waiting = {}
    /\ allUnits' = Restrict(allUnits, {u \in DOMAIN allUnits : allUnits[u].life > 0})
    /\ roundCount' = roundCount + 1
    /\ phase' = "turn"
    /\ UNCHANGED <<meetVars, here, fighting, waiting, reportVars>>

-----------------------------------------------------------------------------
(* The end of fight(), its report, and what execFights makes of it.        *)

Survivors(a, k) == {n \in 1 .. tab[a][k] : <<a, k, n>> \in DOMAIN allUnits}

After ==
    [a \in Army |-> IF a \in here THEN [k \in TypesOf(a) |-> Cardinality(Survivors(a, k))]
                                  ELSE tab[a]]

\* fillReport
Reports == [a \in Army |-> IF a \in here THEN Enemies(a) ELSE {}]

DeadFleets(after) == {f \in here \ {PlanetIndex} : IsEmpty(after[f])}

\* Mutant: a fleet that protected the planet does not keep it.
UndefendedPlanets(after) == {c \in here \cap {PlanetIndex} : IsEmpty(after[c])}

LostPlanets(after) ==
    {c \in here \cap {PlanetIndex} :
        /\ IsEmpty(after[c])
        /\ player[c] \notin PlayersIn(here \ ({c} \cup DeadFleets(after)))}

EndFight ==
    /\ phase = "turn" /\ ~(TurnsLeft /\ FightAgain)
    /\ tab' = After
    /\ enemySet' = Reports
    /\ IF \E a \in here : Reports[a] # {}
       THEN dead' = DeadFleets(After) /\ lost' = LostPlanets(After)
       ELSE UNCHANGED <<dead, lost>>
    /\ phase' = "over"
    /\ allUnits' = NoUnits
    /\ UNCHANGED <<player, here, fighting, waiting, roundCount>>

\* The next coordinate, or the end of the round.
Ended == phase \in {"over", "thrown"} /\ UNCHANGED vars

Step == \/ RemoveEscaped \/ AddWantFight \/ BeginTurn \/ RemoveDestroyed \/ EndFight
        \/ \E u \in waiting : FireThrows(u) \/ \E v \in DOMAIN allUnits : Fire(u, v)

Next == Step \/ Ended

Spec == Init /\ [][Next]_vars
\* fight() runs in the simulation thread and waits for nothing.
FairSpec == Spec /\ WF_vars(Step)
-----------------------------------------------------------------------------
(* Properties.                                                             *)

\* Whoever is asked to fire has somebody to fire at ("On trouve un vaisseau enemie" in
\* fire()): otherwise the exception aborts the whole round, and all the next ones.
EveryShotHasTarget == phase # "thrown"

\* Between two players it does hold: whatever was destroyed in earlier turns, a turn that
\* begins has an enemy for each of its units, also for who did not want the fight.
DuelHasTargets == Cardinality(PlayersIn(Army)) = 2 => EveryShotHasTarget

\* A fight that ends before its last turn leaves no two enemies with units at the place:
\* nobody is let go early, whatever happens to third parties (fightAgain).
NobodyLetGo ==
    phase = "over" /\ roundCount < MaxTurn =>
        \A a \in here : \A b \in enemySet[a] : IsEmpty(tab[a]) \/ IsEmpty(tab[b])

\* If one army's report names another as its enemy, the reverse is true, and both were
\* under fire ("Si un seul des deux veux se batre, les deux se batrons").
FightsAreMutual == \A a \in here : \A b \in enemySet[a] : a \in enemySet[b]

\* What holds between the steps: an army without an enemy is untouched, a fight begun has
\* two sides, and nothing is reported before the end.
Bystanders ==
    phase \in {"turn", "fire"} =>
        \A u \in UnitsOf(here) : Enemies(u[1]) = {} =>
            u \in DOMAIN allUnits /\ allUnits[u].life = Life[u[2]]
TwoSides ==
    /\ \A p, q \in Player : <<p, q>> \in fighting => <<q, p>> \in fighting /\ p # q
    /\ phase = "fire" => FightAgain
Unreported ==
    /\ PlanetIndex \in Army => PlanetIndex \in here
    /\ phase \in {"meet", "ask", "over"} => DOMAIN allUnits = {}
    /\ phase # "over" => dead = {} /\ lost = {}
    /\ (\A a \in Army : enemySet[a] = {}) \/ (phase = "over" /\ enemySet = Reports)
IInv == TypeOK /\ Bystanders /\ TwoSides /\ Unreported

\* A planet is lost only after it fought: Report::isDead is "True si l'armee est
\* detruite", Report::hasFight "True si l'armee a combatue" (fillReport, execFights).  NOT
\* kept by the code, nor checked: a bare planet counts as destroyed, whoever fights above it.
LostInFight == \A c \in lost : enemySet[c] # {}

Meeting == INSTANCE Encounter WITH over <- phase = "over"

\* A fight, shot by shot, is an encounter: the losses fall on armies that stayed and had
\* an enemy there, the dead fleets and the lost planet are those the report says.
IsEncounter == Meeting!Spec

\* A fight comes to its end, also between units that cannot hurt each other.
FightEnds == phase = "meet" ~> phase \in {"over", "thrown"}

-----------------------------------------------------------------------------
(* Why a fight comes to its end: the steps that are left at most, when     *)
(* every turn there may still be lets every unit there still is fire.      *)

Turns(k, units) == k * (Cardinality(units) + 3)

Left ==
    CASE phase = "meet" -> 3 + Turns(MaxTurn, UnitsOf(Army))
      [] phase = "ask"  -> 2 + Turns(MaxTurn, UnitsOf(here))
      [] phase = "turn" -> 1 + Turns(MaxTurn - roundCount, DOMAIN allUnits)
      [] phase = "fire" -> 2 + Turns(MaxTurn - roundCount - 1, DOMAIN allUnits)
                             + Cardinality(waiting)
      [] OTHER -> 0

\* No fight goes on for ever (fighting.cpp:414-433): each step leaves fewer.
FightShortens == [][Left' \in 0 .. Left - 1]_vars
=============================================================================
