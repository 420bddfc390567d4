------------------------------- MODULE Engine -------------------------------
(***************************************************************************)
(* The server around the rounds: the thread that answers remote calls      *)
(* (EngineServerHandler, Engine), the simulation thread (Simulation::loop  *)
(* and round), the thread that writes a save file, the SQL database, and   *)
(* the crash of the process.                                               *)
(*                                                                         *)
(* The world is cut down to who owns which planet; what one round may do   *)
(* to it is what module Galaxy allows.  A player has one script instead of *)
(* two, known by the number of times it was saved.  The computer-run       *)
(* players of a new universe, and most calls that only read, are left out.  *)
(***************************************************************************)
EXTENDS Integers, Sequences, FiniteSets, SequencesExt, Realm

CONSTANTS
    Player,           \* Player::ID values other than NoId
    Planets,          \* the coordinates that hold a planet
    NoId,             \* Player::NoId
    NoCoord,          \* UndefinedCoord
    NoUniverse,       \* no universe: no save file, no copy being worked on
    MaxOwned,         \* bound: planets owned once players settled new ones
    MaxScript,        \* bound: times a player saves a script
    MaxCrash,         \* bound: crashes of the process
    MaxAbort,         \* bound: exceptions that end a round
    MaxUniverse       \* bound: calls of createUniverse

ASSUME NullAssumption  == NoId \notin Player /\ NoCoord \notin Planets
ASSUME BoundAssumption == {MaxOwned, MaxScript, MaxCrash, MaxAbort, MaxUniverse} \subseteq Nat

VARIABLES
    rpc,              \* what the thread of the remote calls is doing
    client,           \* the player its current call is about
    sim,              \* what the simulation thread is doing
    newcomer,         \* the player popped from the queue by createNewPlayersPlanets
    toLoad,           \* the players whose code is still to be read
    copy,             \* round's univCopy
    univ,             \* Engine::univ_, the published universe
    queue,            \* Simulation::planetToCreate_
    reload,           \* Simulation::playerToReload_
    codes,            \* loop's codesMap: the script run for each player
    clone,            \* the universe the saving thread is writing
    known,            \* database: the rows of Player
    mainPlanet,       \* database: Player.planetCoord
    script,           \* database: the last row of Script of each player
    newestSave,       \* the universe in the newest complete save file
    era,              \* history: how many times the rows of Player were truncated
    dropped,          \* history: the players popped by a round that then ended by an exception
    crashes, aborts, universes   \* how much of each bound is used

callVars  == <<rpc, client>>
workVars  == <<newcomer, toLoad, copy>>
sharedVars == <<queue, reload>>
dbVars    == <<known, mainPlanet, script>>
auxVars == <<era, dropped, crashes, aborts, universes>>
vars == <<callVars, sim, workVars, univ, sharedVars, codes, clone, dbVars, newestSave, auxVars>>

-----------------------------------------------------------------------------
\* `home' holds the planets that createMainPlanet gave: those that are their own parent.
\* `era' is history: which generation of players the universe was made for.
Universe == [owner : [Planets -> Player \cup {NoId}], home : SUBSET Planets, era : Nat]
EmptyUniverse(e) == [owner |-> [c \in Planets |-> NoId], home |-> {}, era |-> e]
Owners(u) == {u.owner[c] : c \in Planets} \ {NoId}
Give(u, p, c) == [owner |-> [u.owner EXCEPT ![c] = p], home |-> u.home \cup {c}, era |-> u.era]

InRound == sim \in {"create", "give", "players", "reload", "codes", "play", "publish"}
\* What createUniverse does while no simulation thread runs.
Remaking == {"clearing", "clearScripts", "clearPlanets", "constructing"}
\* The universe whose scripts run next.
Played == IF copy = NoUniverse THEN univ ELSE copy

ASSUME UniverseAssumption == NoUniverse \notin Universe

TypeOK ==
    /\ rpc \in {"down", "ready", "enrol", "notify", "stopping"} \cup Remaking
    /\ client \in Player \cup {NoId}
    /\ sim \in {"off", "start", "load", "top", "awake", "create", "give", "players",
                "reload", "codes", "play", "publish"}
    /\ newcomer \in Player \cup {NoId}
    /\ toLoad \subseteq Player
    /\ copy \in Universe \cup {NoUniverse}
    /\ (copy # NoUniverse) = InRound
    /\ univ \in Universe
    /\ queue \in Seq(Player)
    /\ reload \subseteq Player
    /\ codes \in [Player -> Nat]
    /\ clone \in Universe \cup {NoUniverse}
    /\ known \subseteq Player
    /\ mainPlanet \in [Player -> Planets \cup {NoCoord}]
    /\ script \in [Player -> Nat]
    /\ newestSave \in Universe \cup {NoUniverse}
    /\ era \in Nat /\ dropped \subseteq Player

\* The program starts on an empty database, for the first time or on a universe
\* that was saved before any player came.
Init ==
    /\ \E save \in {NoUniverse, EmptyUniverse(0)} :
          /\ newestSave = save
          /\ sim = IF save = NoUniverse THEN "off" ELSE "start"
    /\ rpc = "ready" /\ client = NoId
    /\ newcomer = NoId /\ toLoad = {} /\ copy = NoUniverse
    /\ univ = EmptyUniverse(0)
    /\ queue = <<>> /\ reload = {}
    /\ codes = [p \in Player |-> 0]
    /\ clone = NoUniverse
    /\ known = {}
    /\ mainPlanet = [p \in Player |-> NoCoord]
    /\ script = [p \in Player |-> 0]
    /\ era = 0 /\ dropped = {}
    /\ crashes = 0 /\ aborts = 0 /\ universes = 0

-----------------------------------------------------------------------------
(* The thread of the remote calls.  It serves one call at a time; each      *)
(* commit to the database is a step.                                       *)

AddPlayer(p) ==
    /\ rpc = "ready" /\ p \notin known
    /\ known' = known \cup {p}
    /\ mainPlanet' = [mainPlanet EXCEPT ![p] = NoCoord]
    /\ script' = [script EXCEPT ![p] = 1]
    /\ rpc' = "enrol" /\ client' = p
    /\ UNCHANGED <<sim, workVars, univ, sharedVars, codes, clone, newestSave, auxVars>>

\* Mutant: the player is not queued.
EnrolNobody ==
    /\ rpc = "enrol"
    /\ rpc' = "ready" /\ client' = NoId
    /\ UNCHANGED <<sim, workVars, univ, sharedVars, codes, clone, dbVars, newestSave, auxVars>>

\* Engine::addPlayer, once the row is committed.
Enrol ==
    /\ rpc = "enrol"
    /\ queue' = Append(queue, client)
    /\ rpc' = "ready" /\ client' = NoId
    /\ UNCHANGED <<sim, workVars, univ, reload, codes, clone, dbVars, newestSave, auxVars>>

SetCode(p) ==
    /\ rpc = "ready" /\ p \in known /\ script[p] < MaxScript
    /\ script' = [script EXCEPT ![p] = @ + 1]
    /\ rpc' = "notify" /\ client' = p
    /\ UNCHANGED <<sim, workVars, univ, sharedVars, codes, clone, known, mainPlanet,
                   newestSave, auxVars>>

\* Mutant: reloadPlayer does not take reloadPlayerMutex_.
NoLock == TRUE

\* updatePlayersCode holds reloadPlayerMutex_ from its first read to the clear.
ReloadUnlocked == sim # "codes"

\* Mutant: the script is committed and nobody is told.
NotifyNobody ==
    /\ rpc = "notify"
    /\ rpc' = "ready" /\ client' = NoId
    /\ UNCHANGED <<sim, workVars, univ, sharedVars, codes, clone, dbVars, newestSave, auxVars>>

\* Engine::reloadPlayer, once the script is committed.
Notify ==
    /\ rpc = "notify" /\ ReloadUnlocked
    /\ reload' = reload \cup {client}
    /\ rpc' = "ready" /\ client' = NoId
    /\ UNCHANGED <<sim, workVars, univ, queue, codes, clone, dbVars, newestSave, auxVars>>

\* Without a universe the server only answers: getPlayerPlanets and the like.
ReadOnly == rpc = "ready" /\ sim = "off" /\ UNCHANGED vars

\* createUniverse interrupts the simulation thread and waits for its end.
CreateUniverse ==
    /\ rpc = "ready" /\ universes < MaxUniverse
    /\ rpc' = "stopping" /\ universes' = universes + 1
    /\ UNCHANGED <<client, sim, workVars, univ, sharedVars, codes, clone, dbVars,
                   newestSave, era, dropped, crashes, aborts>>

\* Mutant: the thread is interrupted and its end is not awaited.
JoinAtOnce ==
    /\ rpc = "stopping"
    /\ rpc' = "clearing"
    /\ UNCHANGED <<client, sim, workVars, univ, sharedVars, codes, clone, dbVars,
                   newestSave, auxVars>>

Join ==
    /\ rpc = "stopping" /\ sim = "off"
    /\ rpc' = "clearing"
    /\ UNCHANGED <<client, sim, workVars, univ, sharedVars, codes, clone, dbVars,
                   newestSave, auxVars>>

\* univ_ = Universe(), then DataBase::clear(keepPlayers): each TRUNCATE commits by itself,
\* so that the players may be gone while their scripts are still there...
ClearPlayers ==
    /\ rpc = "clearing"
    /\ \E keepPlayers \in BOOLEAN :
          /\ known' = IF keepPlayers THEN known ELSE {}
          /\ era' = IF keepPlayers THEN era ELSE era + 1
    /\ mainPlanet' = [p \in Player |-> IF p \in known' THEN mainPlanet[p] ELSE NoCoord]
    /\ univ' = EmptyUniverse(era') /\ dropped' = {}
    /\ rpc' = "clearScripts"
    /\ UNCHANGED <<client, sim, workVars, sharedVars, codes, clone, script, newestSave,
                   crashes, aborts, universes>>

ClearScripts ==
    /\ rpc = "clearScripts"
    /\ script' = [p \in Player |-> 0]
    /\ rpc' = "clearPlanets"
    /\ UNCHANGED <<client, sim, workVars, univ, sharedVars, codes, clone, known, mainPlanet,
                   newestSave, auxVars>>

\* ...and the UPDATE of the players kept comes last.
ClearPlanets ==
    /\ rpc = "clearPlanets"
    /\ mainPlanet' = [p \in Player |-> NoCoord]
    /\ rpc' = "constructing"
    /\ UNCHANGED <<client, sim, workVars, univ, sharedVars, codes, clone, known, script,
                   newestSave, auxVars>>

\* construct gives each player of the database a main planet, one commit each...
ConstructMainPlanet(p, c) ==
    /\ rpc = "constructing"
    /\ p \in known /\ mainPlanet[p] = NoCoord /\ univ.owner[c] = NoId
    /\ univ' = Give(univ, p, c)
    /\ mainPlanet' = [mainPlanet EXCEPT ![p] = c]
    /\ UNCHANGED <<callVars, sim, workVars, sharedVars, codes, clone, known, script,
                   newestSave, auxVars>>

\* ...then, when all have one, a default script...
ConstructScript(p) ==
    /\ rpc = "constructing"
    /\ p \in known /\ script[p] = 0
    /\ \A q \in known : mainPlanet[q] # NoCoord
    /\ script' = [script EXCEPT ![p] = 1]
    /\ UNCHANGED <<callVars, sim, workVars, univ, sharedVars, codes, clone, known, mainPlanet,
                   newestSave, auxVars>>

\* ...and createUniverse starts the simulation thread again.
Start ==
    /\ rpc = "constructing"
    /\ \A p \in known : mainPlanet[p] # NoCoord /\ script[p] # 0
    /\ sim' = "start"
    /\ rpc' = "ready"
    /\ UNCHANGED <<client, workVars, univ, sharedVars, codes, clone, dbVars,
                   newestSave, auxVars>>

-----------------------------------------------------------------------------
(* The simulation thread: the start of loop, and its idle part.            *)

LoadPlayers ==
    /\ sim = "start"
    /\ toLoad' = known /\ codes' = [p \in Player |-> 0]
    /\ sim' = "load"
    /\ UNCHANGED <<callVars, newcomer, copy, univ, sharedVars, clone, dbVars, newestSave, auxVars>>

\* getPlayerCode and registerCode, in loop and in updatePlayersCode.
ReadCode(p) ==
    /\ sim \in {"load", "codes"} /\ p \in toLoad
    /\ codes' = [codes EXCEPT ![p] = script[p]]
    /\ toLoad' = toLoad \ {p}
    /\ UNCHANGED <<callVars, sim, newcomer, copy, univ, sharedVars, clone, dbVars, newestSave, auxVars>>

EndLoad ==
    /\ sim = "load" /\ toLoad = {}
    /\ sim' = "top"
    /\ UNCHANGED <<callVars, workVars, univ, sharedVars, codes, clone, dbVars, newestSave, auxVars>>

\* interruption_requested() in the loop's condition, or the sleep that is interrupted.
LoopEnds ==
    /\ sim \in {"top", "awake"} /\ rpc = "stopping"
    /\ sim' = "off"
    /\ UNCHANGED <<callVars, workVars, univ, sharedVars, codes, clone, dbVars, newestSave, auxVars>>

\* Mutant: the loop's condition does not ask for the interruption.
LoopGoesOnAnyway ==
    /\ sim = "top"
    /\ sim' = "awake"
    /\ UNCHANGED <<callVars, workVars, univ, sharedVars, codes, clone, dbVars, newestSave, auxVars>>

\* When a save is due it is skipped if the saving thread is still writing.
LoopGoesOn ==
    /\ sim = "top" /\ rpc # "stopping"
    /\ sim' = "awake"
    /\ clone' \in {clone, IF clone = NoUniverse THEN univ ELSE clone}
    /\ UNCHANGED <<callVars, workVars, univ, sharedVars, codes, dbVars, newestSave, auxVars>>

Sleep ==
    /\ sim = "awake"
    /\ sim' = "top"
    /\ UNCHANGED <<callVars, workVars, univ, sharedVars, codes, clone, dbVars, newestSave, auxVars>>

\* The saving thread writes a .new file and renames it: the save is there or it is not.
SaveWritten ==
    /\ clone # NoUniverse
    /\ newestSave' = clone /\ clone' = NoUniverse
    /\ UNCHANGED <<callVars, sim, workVars, univ, sharedVars, codes, dbVars, auxVars>>

-----------------------------------------------------------------------------
(* round.                                                                  *)

BeginRound ==
    /\ sim = "awake"
    /\ copy' = univ
    /\ sim' = "create"
    /\ UNCHANGED <<callVars, newcomer, toLoad, univ, sharedVars, codes, clone, dbVars,
                   newestSave, auxVars>>

\* Mutant: the front of the queue is read and stays there.
PeekPlayer ==
    /\ sim = "create" /\ queue # <<>>
    /\ newcomer' = Head(queue)
    /\ sim' = "give"
    /\ UNCHANGED <<callVars, toLoad, copy, univ, sharedVars, codes, clone, dbVars, newestSave, auxVars>>

PopPlayer ==
    /\ sim = "create" /\ queue # <<>>
    /\ newcomer' = Head(queue) /\ queue' = Tail(queue)
    /\ sim' = "give"
    /\ UNCHANGED <<callVars, toLoad, copy, univ, reload, codes, clone, dbVars, newestSave, auxVars>>

\* createMainPlanet in the copy, setPlayerMainPlanet committed, reloadPlayer.
GiveMainPlanet(c) ==
    /\ sim = "give" /\ copy.owner[c] = NoId
    /\ copy' = Give(copy, newcomer, c)
    /\ mainPlanet' = IF newcomer \in known THEN [mainPlanet EXCEPT ![newcomer] = c]
                                           ELSE mainPlanet
    /\ reload' = reload \cup {newcomer}
    /\ newcomer' = NoId /\ sim' = "create"
    /\ UNCHANGED <<callVars, toLoad, univ, queue, codes, clone, known, script, newestSave, auxVars>>

\* createMainPlanet draws planets until one is free, for ever if none is.
DrawAgain == sim = "give" /\ NoId \notin Range(copy.owner) /\ UNCHANGED vars

EndCreate ==
    /\ sim = "create" /\ queue = <<>>
    /\ sim' = "players"
    /\ UNCHANGED <<callVars, workVars, univ, sharedVars, codes, clone, dbVars, newestSave, auxVars>>

\* getPlayerMap, and MAP_FIND of every owner in it, which throws when it is not there.
FindOwners ==
    /\ sim = "players"
    /\ IF Owners(copy) \subseteq known THEN sim' = "reload" /\ copy' = copy
                                       ELSE sim' = "top" /\ copy' = NoUniverse
    /\ UNCHANGED <<callVars, newcomer, toLoad, univ, sharedVars, codes, clone, dbVars,
                   newestSave, auxVars>>

LockReload ==
    /\ sim = "reload"
    /\ toLoad' = reload /\ sim' = "codes"
    /\ UNCHANGED <<callVars, newcomer, copy, univ, sharedVars, codes, clone, dbVars, newestSave, auxVars>>

ClearReload ==
    /\ sim = "codes" /\ toLoad = {}
    /\ reload' = {} /\ sim' = "play"
    /\ UNCHANGED <<callVars, workVars, univ, queue, codes, clone, dbVars, newestSave, auxVars>>

\* Mutant: any planet may be lost.
AnyOutcome(u) ==
    {[owner |-> o, home |-> {c \in u.home : o[c] # NoId}, era |-> u.era] :
        o \in {o \in [Planets -> Owners(u) \cup {NoId}] :
                 \A c \in Planets : o[c] \in {u.owner[c], NoId}}}

\* What a round may leave, by the theorem RoundsStayInBounds on module Galaxy, while the
\* map has room for another colony.
Outcomes(u) ==
    {[owner |-> o, home |-> {c \in u.home : o[c] # NoId}, era |-> u.era] :
        o \in {o \in [Planets -> Owners(u) \cup {NoId}] :
                 /\ RoundMayLeave(u.owner, o, mainPlanet, NoId)
                 /\ \A c \in Planets : u.owner[c] = NoId /\ o[c] # NoId =>
                        Cardinality({d \in Planets : o[d] # NoId}) <= MaxOwned}}

Play ==
    /\ sim = "play"
    /\ copy' \in Outcomes(copy)
    /\ sim' = "publish"
    /\ UNCHANGED <<callVars, newcomer, toLoad, univ, sharedVars, codes, clone, dbVars,
                   newestSave, auxVars>>

\* Mutant: the copy outlives the round.
PublishAndKeep ==
    /\ sim = "publish"
    /\ univ' = copy
    /\ sim' = "top"
    /\ UNCHANGED <<callVars, workVars, sharedVars, codes, clone, dbVars, newestSave, auxVars>>

\* univ_.swap(univCopy)
Publish ==
    /\ sim = "publish"
    /\ univ' = copy /\ copy' = NoUniverse
    /\ sim' = "top"
    /\ UNCHANGED <<callVars, newcomer, toLoad, sharedVars, codes, clone, dbVars, newestSave, auxVars>>

\* An exception anywhere in round, for instance from the database: it is logged, and
\* what the round did to its copy is gone.
AbortRound ==
    /\ InRound /\ aborts < MaxAbort
    /\ aborts' = aborts + 1
    /\ sim' = "top"
    /\ dropped' = IF sim = "give" THEN dropped \cup ({newcomer} \cap known) ELSE dropped
    /\ newcomer' = NoId /\ toLoad' = {} /\ copy' = NoUniverse
    /\ UNCHANGED <<callVars, univ, sharedVars, codes, clone, dbVars, newestSave, era,
                   crashes, universes>>

-----------------------------------------------------------------------------
(* The process ends at any point; what the database committed and the last *)
(* complete save file remain.                                              *)

Crash ==
    /\ rpc # "down" /\ crashes < MaxCrash
    /\ crashes' = crashes + 1
    /\ rpc' = "down" /\ client' = NoId
    /\ sim' = "off" /\ newcomer' = NoId /\ toLoad' = {} /\ copy' = NoUniverse
    /\ univ' = EmptyUniverse(era) /\ queue' = <<>> /\ reload' = {}
    /\ codes' = [p \in Player |-> 0] /\ clone' = NoUniverse
    /\ dropped' = {}
    /\ UNCHANGED <<dbVars, newestSave, era, aborts, universes>>

WithoutPlanet == {p \in known : mainPlanet[p] = NoCoord}

\* Mutant: the constructor queues nobody.
NobodyWaits == {}

WaitAgain == WithoutPlanet

\* Engine::Engine: the newest save is loaded, the players without a planet are queued
\* again, and the simulation starts; without a save nothing starts.
Restart ==
    /\ rpc = "down"
    /\ IF newestSave = NoUniverse THEN UNCHANGED <<univ, queue, sim>>
       ELSE /\ univ' = newestSave
            /\ queue' \in SetToSeqs(WaitAgain)
            /\ sim' = "start"
    /\ rpc' = "ready"
    /\ UNCHANGED <<client, workVars, reload, codes, clone, dbVars, newestSave, auxVars>>

-----------------------------------------------------------------------------
CallStep == \/ Enrol \/ Notify \/ Join
            \/ ClearPlayers \/ ClearScripts \/ ClearPlanets \/ Start
            \/ \E p \in Player : ConstructScript(p)
            \/ \E p \in Player, c \in Planets : ConstructMainPlanet(p, c)

SimStep == \/ LoadPlayers \/ EndLoad \/ LoopEnds \/ LoopGoesOn \/ Sleep
           \/ BeginRound \/ PopPlayer \/ EndCreate \/ FindOwners
           \/ LockReload \/ ClearReload \/ Play \/ Publish
           \/ \E p \in Player : ReadCode(p)
           \/ \E c \in Planets : GiveMainPlanet(c)

Next == \/ \E p \in Player : AddPlayer(p) \/ SetCode(p)
        \/ ReadOnly \/ CreateUniverse
        \/ CallStep \/ SimStep \/ DrawAgain \/ SaveWritten
        \/ AbortRound \/ Crash \/ Restart

Spec == Init /\ [][Next]_vars

\* Both threads run.  The loop does not sleep for ever, since newUpdate falls due; and
\* reloadPlayerMutex_, which a round holds for a moment, is granted to the other thread.
Fairness == WF_vars(CallStep) /\ WF_vars(SimStep) /\ SF_vars(BeginRound) /\ SF_vars(Notify)
-----------------------------------------------------------------------------
(* Properties.                                                             *)

\* A player whose planets are played runs the script saved last, unless the order to
\* reload it is pending: no save of a script is lost between the two threads
\* (setPlayerFleetCode, updatePlayersCode), through aborted rounds, a new universe
\* or a crash.
ScriptsFresh ==
    \A p \in (known \ WithoutPlanet) \cap Owners(Played) :
        \/ sim \in {"off", "start"}
        \/ sim = "load" /\ p \in toLoad
        \/ codes[p] = script[p]
        \/ p \in reload
        \/ rpc = "notify" /\ client = p

\* A player without a planet is never forgotten: the sign-up is still being made, or it
\* waits in the queue, or the round has just popped it (addPlayer, Engine::Engine).  Only the
\* one player in hand when an exception ends the round is lost, and only until the next
\* start or the next universe.
NobodyForgotten ==
    sim # "off" => \A p \in WithoutPlanet \ dropped :
        \/ p \in Range(queue)
        \/ rpc = "enrol" /\ client = p
        \/ sim = "give" /\ newcomer = p

\* Once its main planet is committed to the database a player owns it in the universe
\* that is played ("Ajoute un joueur dans le simulateur (lui donne une planete)").
PlanetGiven ==
    sim # "off" => \A p \in known \ WithoutPlanet : Played.owner[mainPlanet[p]] = p

\* Nobody has two main planets: module Galaxy's families have one root.
OneHome == \A c, d \in Played.home : Played.owner[c] = Played.owner[d] => c = d

\* createUniverse never leaves the game with owners the database does not know, for which
\* MAP_FIND would throw in this round and in all the next ones: no round, sleep or clone
\* that began before it brings the old universe back while the process lives.  A crash after
\* it is harmless as soon as one save of the new universe is complete; before that the save
\* loaded may belong to players of a former era (Engine::createUniverse, Simulation::save).
OwnersKnown ==
    /\ sim # "off" /\ crashes = 0 => univ.era = era
    /\ sim # "off" /\ univ.era = era => Owners(univ) \subseteq known
    /\ newestSave # NoUniverse /\ newestSave.era = era => Owners(newestSave) \subseteq known

\* What createUniverse starts, it ends: it waits for a simulation thread that stops.
NewUniverseEnds == rpc = "stopping" ~> rpc = "ready"

\* A script that is saved gets to be the one that is run, or is replaced in its turn,
\* for as long as the player has a planet (setPlayerFleetCode to updatePlayersCode).
ScriptsApplied ==
    \A p \in Player, n \in 1..MaxScript :
        script[p] = n /\ p \in Owners(univ)
            ~> codes[p] = n \/ script[p] # n \/ p \notin Owners(univ)
-----------------------------------------------------------------------------
(* The abstract specification that Engine implements.                      *)

\* Where a player stands, in the published universe.
Status == [p \in Player |-> IF p \notin known THEN "unknown"
                            ELSE IF p \in Owners(univ) THEN "settled" ELSE "waiting"]

Promise == INSTANCE Enrolment WITH status <- Status

\* The server implements the promise of module Enrolment: a player who signs up gets a
\* planet in some later published universe and keeps it (addPlayer to univ_.swap).
Served == Promise!Spec
=============================================================================
