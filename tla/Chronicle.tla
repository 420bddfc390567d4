----------------------------- MODULE Chronicle ------------------------------
(***************************************************************************)
(* What the players are told of the rounds: events, fight reports and the  *)
(* errors of their scripts, gathered in memory while a round runs, and     *)
(* committed to the database one table after the other at its end          *)
(* (execFights and round in Simulation.cpp, DataBase.cpp).                 *)
(*                                                                         *)
(* A battle is known by its number.  Of its events, "lose" is linked to    *)
(* the report only for players with a black box, "win" (won, or avoided)   *)
(* always; all other events are left out but the errors of scripts.        *)
(***************************************************************************)
EXTENDS Integers, Sequences, FiniteSets, SequencesExt

CONSTANTS Player,
          BlackBox,     \* the players who can see the reports of lost fights
          EventLimit,   \* getMaxEventCount of a player (Rules.cpp:351)
          TypeLimit,    \* events kept of a type
          Keep,         \* seconds that reports are kept
          MaxTime,      \* bound on the clock
          MaxBattle,    \* bound on the battles
          MaxScript,    \* bound on the rows of table Script
          MaxErrors,    \* bound on the events before an error that stops no script
          MaxAbort,     \* bound on the exceptions that end a round
          MaxCrash      \* bound on the crashes

ASSUME ChronicleAssumption ==
  /\ IsFiniteSet(Player) /\ BlackBox \subseteq Player
  /\ EventLimit \in [Player -> Nat]
  /\ {TypeLimit, Keep, MaxTime, MaxBattle, MaxScript, MaxErrors, MaxAbort, MaxCrash} \subseteq Nat

VARIABLES
  clock,       \* time(0)
  report,      \* table FightReport: id -> battle and time
  lastReport,  \*   its AUTO_INCREMENT
  event,       \* table Event: id -> event
  lastEvent,   \*   its AUTO_INCREMENT
  script,      \* table Script: the newest row of each player, NoRow if none
  rows,        \*   its AUTO_INCREMENT
  lastError,   \*   the rows with an error
  experience,  \* table Player: the battles whose experience was credited
  phase,       \* how far the round is
  loaded,      \* codesMap: the row each player's script comes from
  stopped,     \*   the players whose functions are cleared
  reload,      \* playerToReload_
  events,      \* the events of the round
  tempEvents,  \* its events of battles
  tempReports, \* its reports: the battles
  battles,     \* history: the number of battles
  published,   \* history: battles in published rounds
  failed,      \* history: the rows whose script has failed
  aborts, crashes

tables    == <<report, lastReport, event, lastEvent, lastError, experience>>
scriptVars == <<script, rows, reload>>
codeVars  == <<loaded, stopped, failed>>
fightVars == <<tempEvents, tempReports, battles>>
boundVars == <<aborts, crashes>>
vars == <<clock, tables, scriptVars, phase, codeVars, events, fightVars, published, boundVars>>

NoRow  == 0
NoLink == -1
Types  == {"lose", "win", "error"}
Phases == {"off", "idle", "play", "reported", "credited", "pruned", "told", "blamed", "clearing"}
Event  == [player : Player, type : Types, time : Nat, value : Int, battle : Nat]
InRound == phase \in {"play", "reported", "credited", "pruned", "told", "blamed"}
Empty  == [i \in {} |-> 0]

\* A row refers to a battle or to a script, and a link to a report that was stored.
TypeOK ==
  /\ clock \in Nat /\ phase \in Phases
  /\ lastReport \in Nat /\ DOMAIN report \subseteq 1 .. lastReport
  /\ report \in [DOMAIN report -> [battle : 1 .. battles, time : 0 .. clock]]
  /\ lastEvent \in Nat /\ DOMAIN event \subseteq 1 .. lastEvent
  /\ event \in [DOMAIN event -> Event]
  /\ \A i \in DOMAIN event : event[i].type # "error" => event[i].value <= lastReport
  /\ events \in Seq(Event) /\ tempEvents \in Seq(Event)
  /\ tempReports \in Seq(1 .. battles) /\ battles \in Nat
  /\ rows \in Nat /\ script \in [Player -> 0 .. rows] /\ lastError \subseteq 1 .. rows
  /\ loaded \in [Player -> 0 .. rows] /\ stopped \subseteq Player /\ reload \subseteq Player
  /\ failed \subseteq 0 .. rows
  /\ experience \in Nat /\ published \in Nat
  /\ aborts \in 0 .. MaxAbort /\ crashes \in 0 .. MaxCrash

Init ==
  /\ clock = 0 /\ phase = "off"
  /\ report = Empty /\ lastReport = 0 /\ event = Empty /\ lastEvent = 0
  /\ script = [p \in Player |-> NoRow] /\ rows = 0 /\ lastError = {}
  /\ experience = 0
  /\ loaded = [p \in Player |-> NoRow] /\ stopped = {} /\ reload = {} /\ failed = {}
  /\ events = <<>> /\ tempEvents = <<>> /\ tempReports = <<>>
  /\ battles = 0 /\ published = 0 /\ aborts = 0 /\ crashes = 0

Tick ==
  /\ clock < MaxTime /\ clock' = clock + 1
  /\ UNCHANGED <<tables, scriptVars, phase, codeVars, events, fightVars, published, boundVars>>

-----------------------------------------------------------------------------
(* Scripts.                                                                *)

\* A new row, and the order to load it; a round may be running the old one.
SetCode(p) ==
  /\ phase \notin {"off", "clearing"} /\ rows < MaxScript
  /\ rows' = rows + 1
  /\ script' = [script EXCEPT ![p] = rows']
  /\ reload' = reload \cup {p}
  /\ UNCHANGED <<clock, tables, phase, codeVars, events, fightVars, published, boundVars>>

CodeError(p, row) ==
  [player |-> p, type |-> "error", time |-> clock, value |-> row, battle |-> 0]

\* registerCode of the scripts of S; those of faulty are not understood.
Register(S, faulty) ==
  /\ loaded' = [p \in Player |-> IF p \in S THEN script[p] ELSE loaded[p]]
  /\ stopped' = (stopped \ S) \cup faulty
  /\ failed' = failed \cup {script[p] : p \in faulty}
  /\ LET order == SetToSeq(faulty)
     IN  events' = events \o [i \in DOMAIN order |-> CodeError(order[i], script[order[i]])]

\* The loop starts: every script is registered.
Start ==
  /\ phase = "off" /\ phase' = "idle"
  /\ \E faulty \in SUBSET Player : Register(Player, faulty)
  /\ UNCHANGED <<clock, tables, scriptVars, fightVars, published, boundVars>>

\* A round begins: the scripts that were saved are registered.
Begin ==
  /\ phase = "idle" /\ phase' = "play"
  /\ \E faulty \in SUBSET reload : Register(reload, faulty)
  /\ reload' = {}
  /\ UNCHANGED <<clock, tables, script, rows, fightVars, published, boundVars>>

\* A script fails while it runs, and this is reported.
ReportError(p) ==
  /\ phase = "play" /\ p \notin stopped
  /\ events' = Append(events, CodeError(p, loaded[p]))
  /\ failed' = failed \cup {loaded[p]}
  /\ UNCHANGED <<clock, tables, scriptVars, phase, loaded, fightVars, published, boundVars>>

\* Its functions are cleared, ...
Fail(p) == ReportError(p) /\ stopped' = stopped \cup {p}

\* ... but if it fails on being asked whether to escape or to fight, those of a copy are:
\* it goes on, and may fail again.
FailInFight(p) ==
  /\ lastEvent + Len(events) < MaxErrors
  /\ ReportError(p) /\ UNCHANGED stopped

-----------------------------------------------------------------------------
(* Battles.                                                                *)

\* The events of a battle refer to the report that is added after them.
Linked(p, fate) ==
  [player |-> p, type |-> fate, time |-> clock, battle |-> battles + 1,
   value |-> IF fate = "win" \/ p \in BlackBox THEN Len(tempReports) ELSE NoLink]

\* A battle that was fought; one that was not leaves no event and no report.
Battle(fate) ==
  /\ phase = "play" /\ battles < MaxBattle
  /\ LET order == SetToSeq(DOMAIN fate)
     IN  tempEvents' = tempEvents \o [i \in DOMAIN order |-> Linked(order[i], fate[order[i]])]
  /\ tempReports' = Append(tempReports, battles + 1)
  /\ battles' = battles + 1
  /\ UNCHANGED <<clock, tables, scriptVars, phase, codeVars, events, published, boundVars>>

\* Mutant: the number of the last report is taken for the first.
LastReportID(last) == last

\* The number of the round's first report, given that of its last.
FirstReportID(last) == 1 + last - Len(tempReports)

Numbered(first) ==
  events \o [i \in DOMAIN tempEvents |->
               IF tempEvents[i].value = NoLink THEN tempEvents[i]
               ELSE [tempEvents[i] EXCEPT !.value = @ + first]]

\* addFightReports: one transaction.  Then the events get the numbers of their reports.
AddFightReports ==
  /\ phase = "play" /\ phase' = "reported"
  /\ lastReport' = lastReport + Len(tempReports)
  /\ report' = [i \in DOMAIN report \cup (lastReport + 1 .. lastReport') |->
                  IF i <= lastReport THEN report[i]
                  ELSE [battle |-> tempReports[i - lastReport], time |-> clock]]
  /\ events' = Numbered(FirstReportID(lastReport'))
  /\ UNCHANGED <<clock, event, lastEvent, lastError, experience, scriptVars, codeVars, fightVars,
                 published, boundVars>>

UpdateXP ==
  /\ phase = "reported" /\ phase' = "credited"
  /\ experience' = experience + Len(tempReports)
  /\ UNCHANGED <<clock, report, lastReport, event, lastEvent, lastError, scriptVars, codeVars,
                 events, fightVars, published, boundVars>>

-----------------------------------------------------------------------------
(* The end of the round.                                                   *)

SamePlayer(e, f) == e.player = f.player
SameType(e, f)   == e.type = f.type

\* Mutant: the newest events are deleted (ORDER BY id DESC).
KeepOldest(table) ==
  Restrict(table, {i \in DOMAIN table :
     Cardinality({j \in DOMAIN table : j <= i /\ SamePlayer(table[i], table[j])})
       <= EventLimit[table[i].player]})

\* All but the newest events of a player are deleted, then all but the newest of a type,
\* whoever they belong to.
KeepByPlayer(table) ==
  Restrict(table, {i \in DOMAIN table :
     Cardinality({j \in DOMAIN table : j >= i /\ SamePlayer(table[i], table[j])})
       <= EventLimit[table[i].player]})
KeepByType(table) ==
  Restrict(table, {i \in DOMAIN table :
     Cardinality({j \in DOMAIN table : j >= i /\ SameType(table[i], table[j])}) <= TypeLimit})

KeptReports == {i \in DOMAIN report : report[i].time >= clock - Keep}

\* removeOldEvents: the events of each player, then of each type, then the reports.
RemoveOldEvents ==
  /\ phase = "credited" /\ phase' = "pruned"
  /\ event' = KeepByType(KeepByPlayer(event))
  /\ report' = Restrict(report, KeptReports)
  /\ UNCHANGED <<clock, lastReport, lastEvent, lastError, experience, scriptVars, codeVars,
                 events, fightVars, published, boundVars>>

AddEvents ==
  /\ phase = "pruned" /\ phase' = "told"
  /\ lastEvent' = lastEvent + Len(events)
  /\ event' = [i \in DOMAIN event \cup (lastEvent + 1 .. lastEvent') |->
                 IF i <= lastEvent THEN event[i] ELSE events[i - lastEvent]]
  /\ UNCHANGED <<clock, report, lastReport, lastError, experience, scriptVars, codeVars, events,
                 fightVars, published, boundVars>>

\* Mutant: the newest script of the player is blamed.
BlameNewest == {script[events[i].player] : i \in {i \in DOMAIN events : events[i].type = "error"}}

\* The rows that the errors of the round blame.
Blamed == {events[i].value : i \in {i \in DOMAIN events : events[i].type = "error"}}

\* addCodeErrors; there may be no such row.
AddCodeErrors ==
  /\ phase = "told" /\ phase' = "blamed"
  /\ lastError' = lastError \cup (Blamed \cap 1 .. rows)
  /\ UNCHANGED <<clock, report, lastReport, event, lastEvent, experience, scriptVars, codeVars,
                 events, fightVars, published, boundVars>>

EndRound ==
  /\ phase' = "idle"
  /\ events' = <<>> /\ tempEvents' = <<>> /\ tempReports' = <<>>
  /\ UNCHANGED <<clock, tables, scriptVars, codeVars, battles>>

\* The universe is swapped in, and the loop drops the events.
Publish ==
  /\ phase = "blamed"
  /\ EndRound
  /\ published' = published + Len(tempReports)
  /\ UNCHANGED boundVars

\* Mutant: the universe is swapped in although the round has failed.
AbortAndPublish ==
  /\ InRound /\ aborts < MaxAbort
  /\ EndRound
  /\ published' = published + Len(tempReports)
  /\ aborts' = aborts + 1 /\ UNCHANGED crashes

\* An exception, for instance of the database, ends the round: it is logged, and the
\* loop drops the events all the same.
Abort ==
  /\ InRound /\ aborts < MaxAbort
  /\ EndRound
  /\ aborts' = aborts + 1 /\ UNCHANGED <<published, crashes>>

Forget ==
  /\ phase' = "off"
  /\ events' = <<>> /\ tempEvents' = <<>> /\ tempReports' = <<>>
  /\ loaded' = [p \in Player |-> NoRow] /\ stopped' = {} /\ reload' = {}

\* The process ends; the save it starts from may be older than the last round.
Crash ==
  /\ crashes < MaxCrash /\ phase # "off"
  /\ Forget
  /\ published' \in 0 .. published
  /\ crashes' = crashes + 1
  /\ UNCHANGED <<clock, tables, script, rows, failed, battles, aborts>>

\* Mutant: the reports go first.
ReportsFirst ==
  /\ phase = "idle"
  /\ phase' = "clearing"
  /\ report' = Empty /\ lastReport' = 0
  /\ UNCHANGED <<clock, event, lastEvent, lastError, experience, scriptVars, codeVars, events,
                 fightVars, published, boundVars>>

\* A new universe: the loop has ended, and tables Event and Script are cleared, which
\* commits, ...
ClearEvents ==
  /\ phase = "idle"
  /\ phase' = "clearing"
  /\ event' = Empty /\ lastEvent' = 0
  /\ script' = [p \in Player |-> NoRow] /\ rows' = 0 /\ lastError' = {}
  /\ loaded' = [p \in Player |-> NoRow] /\ stopped' = {} /\ failed' = {}
  /\ events' = <<>>
  /\ UNCHANGED <<clock, report, lastReport, experience, reload, fightVars, published, boundVars>>

\* ... then FightReport and the experience; each player gets a script, and the loop starts.
ClearReports ==
  /\ phase = "clearing" /\ Cardinality(Player) <= MaxScript
  /\ phase' = "off"
  /\ report' = Empty /\ lastReport' = 0
  /\ experience' = 0 /\ published' = 0
  /\ LET order == SetToSeq(Player)
     IN  script' = [p \in Player |-> CHOOSE i \in DOMAIN order : order[i] = p]
  /\ rows' = Cardinality(Player)
  /\ UNCHANGED <<clock, event, lastEvent, lastError, codeVars, reload, events, fightVars,
                 boundVars>>

\* Whoever fights loses a fleet or the planet, or has won.
Fates == UNION {[S -> {"lose", "win"}] : S \in {S \in SUBSET Player : Cardinality(S) >= 2}}

RoundStep ==
  \/ Begin \/ AddFightReports \/ UpdateXP \/ RemoveOldEvents \/ AddEvents \/ AddCodeErrors
  \/ Publish

Next ==
  \/ Tick \/ Start \/ RoundStep \/ Abort \/ Crash \/ ClearEvents \/ ClearReports
  \/ \E p \in Player : SetCode(p) \/ Fail(p) \/ FailInFight(p)
  \/ \E fate \in Fates : Battle(fate)

Spec == Init /\ [][Next]_vars

-----------------------------------------------------------------------------
(* Properties                                                              *)

\* A link in a player's events leads to the report of that very battle, whatever rounds
\* were given up in between, and is good for as long as reports are kept
\* (Simulation.cpp:986-1048, DataBase.cpp:557-665, 776-823).
LinksRead ==
  \A i \in DOMAIN event : LET e == event[i] IN
    e.type # "error" /\ e.value # NoLink =>
      /\ e.value \in DOMAIN report => report[e.value].battle = e.battle
      /\ clock - e.time <= Keep => e.value \in DOMAIN report

\* Of the events of a player and a type the oldest are deleted (DataBase.cpp:594-636).
NewestKept ==
  [][lastEvent' >= lastEvent =>
       \A i \in DOMAIN event \ DOMAIN event' : \A j \in DOMAIN event' :
          SamePlayer(event[i], event'[j]) /\ SameType(event[i], event'[j]) => i < j]_vars

\* A player whose script was stopped can read why at that script, unless a round was given
\* up, and no other script is blamed, even when a new one was saved in the meantime
\* (fighting.h:32-49, Simulation.cpp:1496-1512, DataBase.cpp:917-931).
FaultTold ==
  /\ lastError \subseteq failed
  /\ aborts = 0 => \A p \in stopped : loaded[p] # NoRow =>
       loaded[p] \in lastError \/ \E i \in DOMAIN events :
                                    events[i].type = "error" /\ events[i].value = loaded[p]

\* The battles of a published round have brought their experience; it is counted again
\* only for the battles of rounds given up or forgotten (Simulation.cpp:1057-1060, 1691-1707).
ExperienceKept ==
  /\ published <= experience
  /\ crashes = 0 /\ aborts = 0 =>
       experience = published + IF phase \in {"credited", "pruned", "told", "blamed"}
                                  THEN Len(tempReports) ELSE 0
=============================================================================
