# DroneWars: a verification project

DroneWars is a browser game: players program their planets and fleets in Lua, and a C++
server simulates the galaxy round after round. This directory holds TLA+ models of the
server, the TLC runs that check them and the TLAPS proofs about them. Paths below are
relative to the repository; `Simulation.cpp:1378` is a file of `src/src/` and a line.

## 1. Inventory of the system

| Component | State it keeps | Operations | What must be right |
|---|---|---|---|
| Round engine (`Simulation::round` and its passes, `UnivManip.cpp`, `Rules.cpp`) | a copy of `Universe`: planets (owner, parent, hangar, cannons, task, age), fleets (player, place, origin, ships, task), counters | `createNewPlayersPlanets`, `execPlanetTasks`, `execFleetTasks`, `execPlanets`, `execFleets` (gather, orders), `execFights`, `onPlanetLose`, reassignment of orphans | the planets of a player stay one tree below the main planet; nothing owned without an owner; limits; the round ends |
| Fight (`fighting.cpp`, `execFights`) | units with life and shield, who fights whom, turns, reports | escape, ask scripts, load shields, fire, remove, report | losses fall on armies at war only; ends; no exception |
| Server (`Engine.cpp`, `Simulation::loop`, `save`, `EngineServerHandler.cpp`) | published universe `univ_`, queues `planetToCreate_` and `playerToReload_`, registered scripts, save files, SQL database | addPlayer, setPlayer*Code, createUniverse, loop, round, save, load | who signs up is served once and keeps the planet; saved scripts run; all of it through exceptions and crashes |
| Accounts (`DataBase.cpp`) | tables Player, FriendshipRequest, Friendship, Alliance | friendship requests, alliances, experience, buying skills, clear | friendship by consent; no dangling alliance; the round's two reads agree; points add up |
| Events and reports (`execFights`, `round`, `DataBase.cpp`) | tables Event, FightReport, Script.lastError; the round's `events`, `tempEvents`, `tempReports` | addFightReports, updateXP, removeOldEvents, addEvents, addCodeErrors | links lead to the right report; the newest events stay; errors reach the script that failed; no battle goes unrewarded |
| Save files (`Simulation::save`, `removeOldSaves`, `Engine::Engine`) | files `*_save.bta2`, `.new`, `.ans` | save, prune, load the newest | the newest and the first complete save survive; pruning ends |
| Economy (`UnivManip.cpp`) | resources of planets and fleets, levels, tasks | canBuild, addTask, pay, execBuilding, harvest, gather, drop, settle | what was allowed can be paid; nothing below zero or over 32 bits; nothing duplicated |
| Messages, tutorials, scores, erasure (`DataBase.cpp`, `Rules.cpp`) | tables Message, TutoDisplayed, Player.score | single statements | – |
| Lua scripting (`LuaUniverse.cpp`, `Polua/`, `PTreeLuaHelper.cpp`) | script environments, memory trees | registerCode, prepareLuaCall, bindings | limits on memory; environment of everything else |
| Thrift service (`thrift.def`, `gen-cpp/`, `gen_py/`, `main.cpp`) | none | marshalling, one call at a time | – |
| Frontend (`frontend/`, `versioned_static/`) | sessions | pages, script editor | – |
| Archives, logging, names, benchmark | none | – | – |

How they interact. The frontend calls the server through a *single-threaded*
`TSimpleServer`, so remote calls exclude each other. A second thread runs
`Simulation::loop`; a third, started by `save`, writes a save file. The two long-lived
threads share the database (each statement or transaction commits by itself), the
published universe (replaced as a whole by `univ_.swap(univCopy)`), the queue of new
players and the list of players whose scripts changed (one mutex each). A round works on
a copy of the universe, commits to the database while it runs, and publishes the copy at
its end; an exception anywhere in it is logged and the copy is dropped.

What is hard: the interleaving of remote calls with the passes of a round, the two
stores of different durability (database at once, universe every 60 seconds), rounds
that abort half-way, counters taken once and used all through a round, the order of
passes, chains of lost planets in one round, and third parties in fights. PROJECT.json
lists each of these at its line under `hazards`.

## 2. Modules

| Module | Models | Proofs / instances |
|---|---|---|
| `Galaxy` | the universe and one round, pass by pass | `GalaxyProofs`, `MCGalaxy` |
| `Fight` | the meeting of several players at one place, shot by shot | `FightProofs`, `MCFight` |
| `Encounter` | what a round may expect of such a meeting (abstract) | refined by `Fight`, matched by `Galaxy!Battle` |
| `Engine` | remote calls, simulation thread, save writer, database, crash | `EngineProofs`, `MCEngine` |
| `Realm` | what one round may do to who owns which planet (contract) | assumed by `Engine`, proved of `Galaxy` |
| `Enrolment` | what the server promises a new player (abstract) | refined by `Engine` |
| `SaveFiles` | the files of `save/`: writing, pruning, loading | `SaveFilesProofs`, `MCSaveFiles` |
| `Accounts` | friends, alliances, experience, skills, and the round's reads of them | `AccountsProofs`, `MCAccounts` |
| `Chronicle` | events, fight reports, script errors, experience at the end of a round | `ChronicleProofs`, `MCChronicle` |
| `Economy` | resources through the passes of a round, in 32 bits | `EconomyProofs`, `MCEconomy` |
| `Sums` | no code: sums over finite functions, as lemmas | used by the proofs of `Galaxy`, `Accounts`, `Economy` |

How they fit together:

* `Encounter` is the contract between `Galaxy` and `Fight`: armies that stayed at a place and
  have an enemy there lose what they lose, and it is known which fleets are destroyed and
  whether the planet is taken. `Fight` is shown to implement it (`ImplementsEncounter`), and
  `Galaxy!Battle` to be just such a meeting of the fleets and the planet at one place
  (`Galaxy!Met`), in both directions: `BattlesMeet` and `EncountersAreBattles`.
* `Realm!RoundMayLeave` is the contract between `Galaxy` and `Engine`: a free planet may be
  settled by somebody who owned one before the round, any planet but its owner's main planet
  may be lost, none changes hands. `Engine!Outcomes` lets a round do anything within it, in
  one step; `Galaxy!RoundOutcome` states that the round computed pass by pass stays within it,
  the run `galaxy_saved` checks that and `GalaxyProofs!RoundsStayInBounds` proves it.
* `Galaxy` starts from at most one main planet per player; `Engine!OneHome` is the statement
  that the server around it keeps that so, and the run `engine_two_homes` shows how it does
  not. It matters for `Galaxy`: the second root can be lost, a root is its own parent, and
  the walk of `execFights` (`Simulation.cpp:1068-1089`), which goes on as long as it finds
  a lost planet, then never leaves that root if a fleet or a colony comes from it.

* `Engine` keeps the newest save as one variable; `SaveFiles` justifies that: whatever is
  pruned, the newest complete save is on the disk. It also shows the one exception: a crash
  between the two `rename` calls of a second save of the same second leaves the earlier one
  under the name `.ans`, which `Engine::Engine` does not load.
* `Accounts` and `Chronicle` are the database of `Engine`, table by table: `Engine!AbortRound`
  is what `Accounts!ReadAlliances` does when an alliance is missing, and what
  `Chronicle!Abort` and `Economy`'s `phase = "strange"` stand for. `Chronicle` takes
  from `Fight` that a battle has winners and losers, `Economy` from `Galaxy` the order of
  the passes and who may own what.

### Galaxy

`phase` is the pass of `Simulation::round` that is running, `todo` what it has still to
visit. Each action is one visit: `CreateMainPlanet` (`createMainPlanet`), `PlanetRound`
(a task comes to its term, the hangar is launched), `FleetRound` (move or colonise),
`ExecPlanets` (the scripts' actions, collected first and applied afterwards),
`GatherFleet`/`GatherHangar`/`GatherNoMore` (`gatherIfWant`), `OrderFleet`
(`applyFleetScript`), `Battle` (one coordinate of `execFights`), `OnPlanetLose`, and
`ReparentFleet`/`ReparentPlanet`, which make one step of the `while` loops in
`Simulation.cpp:1068-1089`, so that termination is a property and not an assumption.
Passes over `std::map<Fleet::ID, Fleet>` visit fleets by identifier (`IsNext`); passes
whose visits are independent visit in any order. Scripts, durations and resources are
choices. `planetCount` and `fleetCount` are the snapshots that `round` takes. `before` is a history
variable: who owned what when the new players had been served, for `RoundOutcome`.

### Fight and Encounter

One behaviour is one coordinate in `execFights`: `RemoveEscaped`, `AddWantFight` (each
player's `do_fight` script answers anything, then the relation is made symmetric), at
most five turns of `BeginTurn` (shields), `Fire` for every unit in the code's order at any
unit of `enemyVects`, `RemoveDestroyed`, then `EndFight`: the survivors are counted back
into fleets and planet, the reports are filled and `execFights` collects dead fleets and
the lost planet. A unit destroyed in a turn still fires in it and can still be hit, as in
the code. `FireThrows` is the `NUMERIC_CAST` of an empty target list.

### Engine and Enrolment

`rpc` is the thread of the remote calls between its commits, `sim` the simulation thread
between its accesses to shared state, `clone` the universe the save thread is writing.
Every transaction of the database is a step. `copy` is `univCopy`. `ReloadUnlocked` is
`reloadPlayerMutex_`, which `updatePlayersCode` holds from its first read to the clear.
`AbortRound` is an exception caught by `CATCH_LOG_EXCEPTION`, `Crash` ends the process at
any point and `Restart` is `Engine::Engine` with the newest save. `clear()` and `construct`
are several steps (`ClearPlayers`, `ClearScripts`, `ClearPlanets`, `ConstructScript`), since
`TRUNCATE` commits each. A player has one script with a version number instead of two
scripts. `era` and `dropped` are history variables: which generation of the rows of `Player` a
universe was made for, and whom a round had popped from the queue when an exception ended it.

### SaveFiles

`sim` is the simulation thread in `loop` and `removeOldSaves`, `writer` the thread that
`save` starts; every system call (open, write, remove, rename, a look through the
directory, the removals of one window) is an action. The clock does not go back, and a write
that is begun and not cut off by a crash succeeds: the code checks neither, and what a full
disk or a clock set back would do is left out. Files are functions from the second in
their name to the universe in them; `first` and `last` remember the saves completed first
and last. `Grown`, `Between` and `Superfluous` are the three expressions that decide which
files go. `Crash` may come anywhere, `Restart` loads the newest name.

### Accounts

A call that reads, decides and writes in separate statements (`quitAlliance`, `buySkill`,
`clear`) is several actions with `call` between them; a call that is one transaction is one
action. The round is `ReadPlayers`, `ReadAlliances` (the lookups by `MAP_FIND`) and
`UpdateXP`. `Listed` is the `INNER JOIN` of `getAlliances`. The guards are those of the
server and of the foreign keys, not of the web pages: any alliance that has a row may be joined,
handed to one of its members or erased, also one left without a master (`Orphaned`) by a
clearing that a crash cut off. `changed` remembers that an alliance was erased, or given to a
newcomer, after the round has read the players, or was orphaned when it read them.

### Chronicle

`phase` is how far the round is with the database; each of `AddFightReports`, `UpdateXP`,
`RemoveOldEvents`, `AddEvents` and `AddCodeErrors` is one transaction. `Begin` and `Fail` are
`registerCode` and `addErrorMessage`; `FailInFight` is a script that fails when it is asked
whether to escape or to fight: what `addErrorMessage` clears is then a copy
(`Simulation.cpp:738`, `808`), and the script goes on and fails again. `SetCode` is a remote call
in the middle of a round. A player has one script instead of two, and a call reports one
error at a time (the checks of memory and log may add theirs to it).
An event keeps, beside the number it links to, the battle it is about, so that a wrong link
shows. `ClearEvents` and `ClearReports` are the two halves of `clear()` that a `TRUNCATE`
commits apart, with the loop stopped.

### Economy

The passes of `Galaxy` again, with what `Galaxy` leaves out: `Produce` (production and then
the limit), `CanBuild…` (what a script may order) apart from `AddTask` (what `addTask` and
`pay` test again, and throw), `FleetHarvests`, `FleetGathers`, `FleetDrops`,
`FleetColonizes` and `Losses` (a lost planet keeps its stock). While main planets are created
`todo` is the queue `planetToCreate_`, in which anybody may wait, also who has a main planet
already (see `engine_two_homes`). `AddArray` is `cappedAdd`, and
`Load` the 32-bit sum of `canDrop`. An exception sets `phase` to what was wrong.

## 3. Runs

Each run answers one question; `PROJECT.json` names properties and mutants.

| Run | Instance | Shows |
|---|---|---|
| `galaxy_rounds` | 2 players, 3 planets, from the first sign-up, 4 rounds | the main planets are kept, and no fleet is without ships at the end of a round |
| `galaxy_saved` | 2 players, 4 planets, from two saved universes, up to round 5: a colony, a race for a free planet and an attack on the colonists' origin; three fleets that meet above a hangar | a planet and its parent fall in the same round and the walk still ends; a whole round does to the owners only what `Realm` allows; a planet that is free is bare; merged fleets fit and are not visited twice; every round that begins is published (liveness) |
| `fight_melee` | 2 or 3 players, 2 fleets and maybe a planet, 4 units, any war relation | `Fight` implements `Encounter`; reports are mutual; nobody is let go; between two players each shot has a target; the fight ends (liveness); the inductive invariant |
| `fight_bystander` | 3 players, 3 fleets | *violated*: a bystander's unit has no target and the round is aborted |
| `engine_faults` | 2 players, 2 planets, 1 crash, 1 aborted round and 1 new universe, in any order | saved scripts are not lost between the threads; who waits is not forgotten, but for the one player in hand when a round is given up; `createUniverse` leaves no owner that the database does not know, and a crash brings one back only from a save made before it |
| `engine_service` | 2 players, 4 planets, no faults | `Engine` implements `Enrolment`; planets are given, and one each |
| `engine_updates` | 1 player, 2 scripts, 1 abort, 1 new universe, fair threads | saved scripts get to run; `createUniverse` returns (liveness) |
| `engine_two_homes` | 1 player, 1 new universe | *violated*: two main planets |
| `saves` | 6 seconds, a save each second, windows of 2 seconds and more, 1 crash | the newest and the first save are never lost; pruning ends (liveness) |
| `society` | 2 players, 2 alliances, 1 skill, 3 points of experience, 1 crash | requests never cross; friends by consent; a round misses an alliance only if one was erased or given away meanwhile, or orphaned by a crash; skill points add up; an alliance is dissolved with its master (liveness) |
| `chronicle` | 2 players, one with a black box, 2 battles, 2 scripts, up to 2 errors in fights before the one that stops a script, 1 exception or crash | links lead to the report of their battle; the newest events are kept; errors reach the script that failed; battles are rewarded |
| `economy` | 2 players, 2 planets, 2 resources, 4 fleets, 3 rounds, from a saved universe | an allowed order is paid for; resources come from production and settling only |

The violated runs check what a comment or an assertion of the code says; each is a finding
in `PROJECT.json` with the quotation.

**Known disagreements without a run.** Found with the same modules, and easy to reproduce
by adding the property to a cfg:

* `Galaxy!PlanetLimit`: two fleets settle in one round against the `planetCount` taken at its
  beginning, and the player ends above the limit that `Rules.h:49-50` gives.
* `Fight!LostInFight`: a planet without cannons that is at peace with everybody counts as
  destroyed when third parties fight above it (`fighting.cpp:308`).
* `Engine!PlanetGiven` with one aborted round (`MaxAbort = 1`) or one crash: a new player's
  planet is lost for good, because queue and database are changed at once and the universe
  at the end of the round (`Simulation.cpp:1385`).
* After `createUniverse` the newest save is of the old universe until the next save is
  complete. A crash in between loads it, its owners are unknown to the database and
  `MAP_FIND` throws in every round (`Simulation.cpp:1416`). `Engine!OwnersKnown` states just
  this: without a crash the universe is always of the present era, a save of the present era has
  known owners only, and so has what is loaded from it.
* A round that is given up drops its events although scripts stay stopped
  (`Simulation.cpp:1691`); the player is not told why. `FaultTold` says so only while no round
  was given up.
* A master who quits, with a crash between the transactions of `quitAlliance`, leaves an
  alliance whose master is no member; `Dissolved` excuses a crash in between, and only that.
* A script that fails in `do_escape` or `do_fight` is not stopped, and its errors are as many
  as its fleets, in every round (`Chronicle!FailInFight`).
* `Economy`, `phase = "strange"`: a full planet is lost, is settled again by a loaded fleet's
  owner, receives a drop, and orders a building before the limit of `planetRound` has
  been applied: `pay` throws, in this round and in those after it that take the same
  course (`UnivManip.cpp:344`). `OrdersPaid` shows that there is no other way to it.
* `DataBase.cpp:631-633` says that reports are deleted after 24 hours and deletes them after
  one; `Chronicle!Keep` is the hour.

**Bounds.** `MaxRound`, `MaxFleetID`, `MaxCannon` (Galaxy), `MaxUnits` (Fight) and
`MaxOwned`, `MaxScript`, `MaxCrash`, `MaxAbort`, `MaxUniverse` (Engine), `MaxTime`,
`MaxRound`, `MaxCrash` (SaveFiles), `MaxPlayer`, `MaxAlliance`, `MaxGain`, `MaxXP`, `MaxCrash`
(Accounts), `MaxTime`, `MaxBattle`, `MaxScript`, `MaxErrors`, `MaxAbort`, `MaxCrash` (Chronicle) and
`MaxFleetID`, `MaxRound` (Economy) are the only ones, each named in its module. Two players are enough for a theft, a race or an attack; the
third is needed in fights, where a third party matters, and only there. Three planets make
a parent, a child and a target. Four rounds are what a launch (1), an order (2), its
execution (3) and the following battle (4) take. A planet and its parent can fall in one
round with two attackers' fleets. Ships are a queen and one other; in fights a Hornet, a
Cargo (no weapon) and a cannon with the figures of `Model.cpp`, so that shots are absorbed
by the shield, wound, kill, and do nothing. Four or five units let one side be destroyed
in the first turn, in a later turn, or not at all. One abort, one crash and one new universe
are enough to separate the queue, the database, the published and the saved universe, and
come in every order; that more of them change nothing is what the theorems of `EngineProofs`
say. A script is saved twice so that an old one can be confused with a new one. Players and
planets are symmetric in `engine_faults`, which checks no liveness; a player has one planet
there at most (`MaxOwned`), colonies are in `engine_service`.

In `saves` six seconds hold three windows of growing length, with several files in the
second and third, and a crash before and after each `rename`. In `society` two players
suffice for each relation of a sender and a recipient, a master and a member, a buyer and a
round; two alliances let a master found a second one after the first is gone. In
`chronicle` the limits (two events and one, two of a type, no second of retention) are all
reached, and two battles fall in one round or in two, with an exception between. In
`economy` quantities are in thousands of millions and rounded, so that the code's three
limits keep their order: `Cap = 2` is what `planetRound` cuts a stock down to, `Alarm = 4`
where `pay` throws and `Top = 7` where a `uint32_t` ends. The second level of a building is
the last that has a price.

Four runs have an action constraint, to keep them small. `NoBuilding` (`galaxy_saved`): the
planets build ships and cannons but no buildings, which `Galaxy` knows only as a busy slot
and `galaxy_rounds` explores. `chronicle`: one player alone writes scripts, has
them fail and wins (`OneAuthor`, `OneWinner`), and a behaviour has one exception or one crash
(`OneFault`). `economy`: the enemy's fleet stays where it is (`BenStays`), no order sends a
fleet to where it is (`FarMoves`), and one fleet or planet is lost in a round (`OneLoss`).
`society` lets one player alone gain experience (`OneFighter`).

**Deadlock** is checked everywhere; where a model has nothing left to do a named stuttering
action says so (`AtBound` in `Galaxy` and `SaveFiles`, `Ended`, `ReadOnly`, `DrawAgain`,
`Stopped`).

**Fairness.** The simulation thread runs by itself: weak fairness of a round's steps
(`Galaxy!FairSpec`, `Fight!FairSpec`, `Engine!SimStep`, `Accounts!RoundStep`,
`SaveFiles!SimStep`), and so does the thread that writes a save (`SaveFiles!WriterStep`). The
remote-call thread completes the call it has begun: weak fairness of `CallStep` in `Engine`
and `Accounts`, none of the calls themselves. `loop` compares the time with `newUpdate` each
time round, so a round falls due again and again, between saves and sleeps: strong fairness
of `BeginRound`. A round holds `reloadPlayerMutex_` for a moment in each round, and the
operating system grants it eventually: strong fairness of `Notify`. No fairness is assumed
of users, crashes, exceptions, the clock or, in `Engine`, the save thread.

## 4. Proofs

TLAPS checks the theorems below for every value of the constants: any number of players,
planets, fleets, units, rounds, alliances and files, any distances, periods and limits, and
any figures of ships, cannons, skills and prices. All of them are about safety; three
(`RoundsAdvance`, `FightsShorten`, `PruningAdvances`) are the part of termination that is.
Every safety property of a passing run, invariant or about steps, is stated by a theorem,
`PlanetGiven` and `OneHome` under the condition the run has, too.

**Assumptions.** They are the named `ASSUME`s of the modules, and TLC evaluates them in the
runs: the null values are not players, planets or universes, bounds and limits are natural numbers,
ships and cannons have a life of at least 1, natural power and shield, and there are finitely
many types of each, of ships, of skills, and finitely many players and planets; coordinates
are not numbers of fleets; windows of save files do not shrink (`LapsAssumption`: `GrowNum >= GrowDen`);
a skill point costs something, and no cost is a fraction (`CostAssumption`); limits of stocks
are in order (`Cap <= Alarm <= Top`). One assumption is about data of the program:
`PriceAssumption` says that `Ship::List` and `Cannon::List` of `Model.cpp` give the same prices
to the numbers they share, which they do. Nothing is assumed of scripts, distances or dice.

**`GalaxyProofs`.** The main statement is `FamilyTree`: between rounds the planets of a
player form a tree below the main planet. By itself it is not inductive, for three reasons,
which are the parts of `IInv`:

* While orphans are reassigned (`phase = "reparent"`) the tree is broken. `Lineage` then
  says `Heirs(was)` for some map `was`, the owners before the losses: whoever is looked at
  on the walk belonged to the same player, and what was lost leads on to a parent.
* A walk could go round. `Ages` says that a planet is settled in a later round than its
  parent and that a fleet's origin is older than the current round, so that a child is
  always younger; `WalksTerminate` is a consequence.
* A new colony could belong to somebody who has no main planet, or a second main planet
  could be given. `Roots` and `Waiting` exclude it; `Visits` says that the lost planets are
  those of the battles already fought in this pass, which have no cannon left.

`Inductive` proves `IInv`, by one lemma for each action; `TypeCorrect`, `FamiliesStay`,
`WalksTerminate`, `MainPlanetsStay` and `FreePlanetsBare` follow from it.
`RoundsStayInBounds` is about a whole round, and is what `Engine` takes for granted of one; its
other half, `NoPlanetStolen`, is about each step of it: an owner is not replaced by another. Its
invariant is `SoFar`: until the battles are over planets have only been settled, by players
who had one in `before`. Two facts of `IInv` bring it from one pass to the next: a fleet's owner
owns the fleet's origin (`SettlersHadPlanets`), so that whoever settles had a planet, and of
the planets lost none is a main planet (`LosersKeepHome`). `FleetsStayFit` needs `Berths`: a
hangar holds one ship at most, and none while another is built, so that what `PlanetRound`
launches without a test is small; a merger is tested, and a battle only takes ships away.
`RoundsAdvance` is the variant of a round: the passes (`Stage`) follow each other, and within a
pass `Work` goes down, the fleets or planets still to visit, the players still to be served,
or, while orphans are reassigned, the sum of the ages of all origins and parents, which each
step of the walks lowers because of `Ages`. `NoGhosts` rests on a small
invariant of its own, `Crews`: from `EndFleets` on, a fleet without ships is one that
`execFights` has put among the dead, and before the first order nobody is without.

The last section of the module is the composition with `Encounter`. `BattleIsMeeting` takes one
battle and gives the encounter its witnesses, those who stayed and the pairs of distinct
players among them; `EncountersAreBattles` goes back: what an encounter at a place leaves of
each fleet is within `Losses`, and `Holds` fails just when the planet is `Taken`. Both need
that nothing was destroyed at a place before its battle, which is the invariant `Fought`, and
the second `FleetsStayFit`, since `Battle` only looks at ships up to the size limit
(`ShipsFit`).

**`EngineProofs`.** The runs of `Engine` bound crashes, exceptions and new universes; the
theorems do not. `SavedScriptsRun` and `NobodyIsForgotten` hold through any number of them, and
of players. Their strengthening, `Scripts`, adds what the round holding the mutex has still to read: an order to
reload that is about to be forgotten is either in `toLoad`, or carried out, or its script is so
new that `Notify` still waits. `Threads` says which states of the two threads go together:
nothing simulates while `createUniverse` clears and constructs. `OwnersAreKnown` holds through all of
them too: `Registered` says of every universe in sight, played, copied, cloned or saved, that
it is of no later era than the database and, if of the same, has known owners (`Current`), and
that only a crash brings an earlier one back. The other three hold until a fault.
`PlanetsAreGiven` and `OneHomeEach`: without crash, exception and
new universe (`Faultless`); the invariant is that the homes of the universe played are just the
main planets of the database (`Homes`) and that nobody waits in two places (`OneTicket`). The
conditions are needed: see the known disagreements above. `PromiseIsKept` is the
safety half of the refinement that the run `engine_service` checks: every step of the threads
is a step of `Enrolment` or a stutter.

**`FightProofs`.** The invariant says what is true between two shots: a unit whose army has
no enemy is there and whole (`Bystanders`), hostility is mutual, never with oneself, and
while units fire there are two enemies with units (`TwoSides`), and nothing is reported
before the end (`Unreported`). From it:

* `DuelsHaveTargets`: with two players on the place the cast in `fire` never throws. The
  argument counts: `TwoSides` names two hostile units, a third player would make three. The
  run `fight_bystander` shows that the restriction to two players is needed.
* `NobodyIsLetGo` and `FightsMutual`: what the report says of survivors and enemies.
* `ImplementsEncounter`: each step maps to the one step of `Encounter` or to a stutter. The
  step that ends a fight is mapped with the armies that stayed and the war relation as its
  witnesses; `Bystanders` is what makes the count of survivors of a bystander the number it
  came with.
* `FightsShorten`: `Left` counts the steps there may still be, as if each turn left all
  units to fire; every step of `fight` and `execFights` lowers it, whatever the shots do.

**`SaveFilesProofs`.** `NewestIsAtHand` says that the save completed last is what a restart
loads, or has been put aside for another of the same second; `OldestIsAtHand` that the first
is kept for ever. What has to be added for the induction: a file is never torn (`Untorn`),
all files lie between the first and the last (`Kept`), a name is never older than the last
one and is free when the file is renamed (`Forward`), no second file is begun under a name
that is only put aside (`Unreplaced`), and the windows of `removeOldSaves` begin at the
newest (`Pruning`). The deletion itself rests on the lemma `Spared`: of the files of a
window the newest is spared. `PruningAdvances` says why the loop ends: a window but the last
begins earlier than the one before and after the time 0. Its invariant, `Widening`, is that a
window does not shrink to nothing when its length is rounded down, which is where the
assumption on `FirstLaps` is needed (`GrownLength`).

**`AccountsProofs`.** `RequestsDoNotCross`: of two players one at most has a request to the
other, and friends have none. `FriendsConsented`, a property of steps: whoever become friends
in a step had asked, one the other. `AlliancesAreKnown`: the alliance of every player has a
row, whatever calls are under way or were cut off. `MissingIsExplained`: a round misses an
alliance or a master only if one was erased, or given to a newcomer, since it read the players,
or was orphaned before.
The induction needs what a call that was begun still relies on (`CallHolds`) and that what
the round has read agrees with the tables (`ReadsAgree`). `SkillsArePaid`: experience is what
is left of it and what the levels cost, a sum of sums (`PaidFor`). A purchase writes the level
it has read and takes its price from what there is by then; that the two agree needs
`CallHolds` (the level and the price are still those of the skill), and the lemma
`OneMoreLevel`, that the costs of the levels up to `l + 1` are those up to `l` and that of `l`.

**`ChronicleProofs`.** All that the run `chronicle` checks. `LinksLead` is the argument of the
module: an event of a battle carries the place of its report until the reports are stored,
and their number from then on (`Links`); a report that is missing was deleted for its age,
which is at least that of the event (`Aged`); and the numbers start again from 1 only when
there is no event left (the clause of `Links` on `phase = "clearing"`). `FaultsTold` needs that
errors are noted before the round is published (`Blames`), `ExperienceIsKept` that battles are
rewarded before (`Rewards`). `NewestAreKept` is about steps, by counting the events that are
not older (`Fewer`).

**`EconomyProofs`.** `OrdersArePaid`: `pay` never refuses what `canBuild` allowed, and throws
"Strange ressources value" only in the round in which a planet was settled. The strengthening
says that a free planet has no task (`FreeBare`), that an upgrade under way leads to a level
with a price (`Priced`), and that the stocks have been cut down to the limit when the scripts
give their orders, but for planets settled in that round (`Limited`). `EconomyTypes` is more than a type: the values stay in
`0..Top` through additions that are cut, subtractions, production and payment (lemmas
`SumFits`, `CutFits`, `PaymentFits`, `ProductionFits`).

`NothingFromNowhere` is about steps. The total of a resource is the sum of its book, which has
a line for each planet and each fleet. An action changes one line or two: what the second
gains the first has lost (harvest, merger, drop), or the line loses (pay, the limit of
`fleetRound`, a battle), or it gains what a new planet is granted; and `cappedAdd` adds at most
what it is given (`NoneGains`, `OneGives`, `OneSettles`).

**`Sums`.** Loads, totals and prices are folds over functions, and the library's induction
theorems cannot be used (see below). These lemmas are proved by induction over *sets*
instead: a set of subsets of `S` that contains a subset whenever it contains all those with
one element less contains them all (`SubsetsClosed`), because the finite subsets are
well-founded by inclusion and a nonempty set of counterexamples has a minimal one. The fold is
first shown to be a function on the subsets of its domain (`SumIsPartial`, `PartialDef`);
then that the order does not matter (`PartialTakes`), that sums add, are monotone, and change
with one argument or two by just that much (`SumAdds`, `SumMonotone`, `SumExcept`, `SumMoves`).

**Only model-checked**: that something *does* happen. `RoundEnds`, `FightEnds` and `PruneEnds`
say that a round, a fight and pruning end under fairness; the variants above show that
none of them can go on for ever, and what is left to TLC is that a step is possible until the
end is reached, and fairness takes it. `ScriptsApplied`, `NewUniverseEnds`, `Dissolved` and the fair
half of `Served` are liveness too. Liveness under fairness and `ENABLED` are out of the prover's
reach. So is an induction theorem with an operator for a parameter, and with it what a
recursive definition computes; where a proof needs an induction it is over a set, as in `Sums`
and in the lemmas on the newest and oldest save (`NewestIn`).

## 5. Not modelled, and why

* Messages, tutorials, scores, erasure of accounts: statements on rows of one player that no
  other part reads, so that a model would have no property worth a run. What was seen:
  `clear` removes the tutorials of the players it keeps, and nothing but `addPlayer` inserts
  the row that `checkTutos` counts in, so that these players stay at its first case; the
  insertions into `TutoDisplayed` are `INSERT IGNORE` on a table without a unique key
  (`DataBase.cpp:250`, `1020`), so that a row is added with each call; `eraseAccount` opens a transaction of its own and calls `addScript`,
  which opens another (`DataBase.cpp:972-989`), so that what is committed when depends on
  the library.
* Events other than those of battles and of faulty scripts: they are one append each. An
  event for a drop is appended twice (`Simulation.cpp:577-581`), which doubles a line in the
  player's list. `resetPlanetEvents` and `addFightReport` are never called.
* Experience won in a fight (`calcExperience`) and scores: arithmetic on figures that nothing
  in a round depends on. Skills of AI players, which a construct sets.
* Emissions and memories of fleets (`FleetEmission`, the memory trees) and Lua: what a script
  computes is the environment, and what it remembers or hears is its input. Scripts that are
  invalid are not run, which is a behaviour of the models too (no order is given).
* The generated Thrift code (`gen-cpp/`, `gen_py/`: 25,000 of the 39,000 lines counted as
  implementation), the frontend, archives, logging, names, the benchmark: no state of the
  game, or pure input and output. This is why the map covers a small share of all lines.

## 6. Plan

Done: `Galaxy`, `Engine` with `Enrolment`, `Fight` with `Encounter`, `SaveFiles`, `Accounts`,
`Chronicle` and `Economy`, each with proofs, and the contract `Realm` between `Galaxy` and
`Engine`. Left: to state what `Economy!Losses` takes from `Galaxy` as such a contract; emissions between fleets, if a property about them can be found.
