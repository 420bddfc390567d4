----------------------------- MODULE SaveFiles -----------------------------
(***************************************************************************)
(* The save files of the server: Simulation::save and removeOldSaves, the  *)
(* loop that calls them, and the choice Engine::Engine makes at a start.   *)
(*                                                                         *)
(* A save file is named after the second in which it was begun; `files'    *)
(* and `ans' are the directory save/ without and with the suffix ".ans".   *)
(* A universe is known by the number of the round that published it.  The  *)
(* simulation thread, the thread that writes a save and the end of the     *)
(* process interleave between two system calls.                            *)
(***************************************************************************)
EXTENDS Integers, FiniteSets, Functions

CONSTANTS SavePeriod,   \* SaveSecond, 60
          FirstLaps,    \* timeLaps before the first window, 30
          GrowNum,      \* a window is GrowNum / GrowDen times the one
          GrowDen,      \*   before it, 11 / 10
          MaxTime,      \* bound on the clock
          MaxRound,     \* bound on the number of universes
          MaxCrash,     \* bound on the number of crashes
          NoSave,       \* "no save yet"
          Partial       \* what is in a file that is being written

ASSUME PeriodAssumption == SavePeriod \in Nat \ {0}
ASSUME LapsAssumption ==
  /\ FirstLaps \in Nat /\ GrowNum \in Nat /\ GrowDen \in Nat \ {0}
  /\ GrowNum >= GrowDen
  /\ FirstLaps * GrowNum >= GrowDen
ASSUME SaveBoundsAssumption ==
  MaxTime \in Nat /\ MaxRound \in Nat /\ MaxCrash \in Nat
ASSUME SaveNullAssumption == NoSave \notin [name : Nat, of : Nat] /\ Partial \notin Nat

VARIABLES
  clock,     \* time(0)
  sim,       \* where the simulation thread is
  newSave,   \* the second in which the next save is due
  listed,    \* timeSet: the saves removeOldSaves has found
  laps,      \* timeLaps
  begin,     \* beginTime: where the last window begins
  writer,    \* where the saving thread is
  name,      \* the name it writes to
  clone,     \* the universe it writes
  new,       \* what is in the file with the suffix ".new"
  univ,      \* the published universe
  count,     \* how many universes there have been
  files,     \* the saves and what is in them
  ans,       \* the saves that were put aside
  first,     \* history: the first save that was completed
  last,      \* history: the save completed last
  crashes

simVars    == <<newSave, listed, laps, begin>>
writerVars == <<writer, name, clone, new>>
disk       == <<files, ans>>
history    == <<first, last>>
vars == <<clock, sim, simVars, writerVars, univ, count, disk, history, crashes>>

Time     == 0 .. MaxTime
Universe == 0 .. MaxRound
Content  == Universe \cup {Partial}
Record   == [name : Time, of : Universe] \cup {NoSave}

Newest(times) == CHOOSE t \in times : \A u \in times : u <= t
Oldest(times) == CHOOSE t \in times : \A u \in times : t <= u

Without(f, gone) == [t \in DOMAIN f \ gone |-> f[t]]
With(f, t, x)    == [u \in DOMAIN f \cup {t} |-> IF u = t THEN x ELSE f[u]]

TypeOK ==
  /\ clock \in Time /\ newSave \in Nat /\ laps \in Nat /\ begin \in Int
  /\ sim \in {"off", "loop", "list", "prune", "down"}
  /\ writer \in {"none", "open", "write", "forget", "aside", "publish", "copy", "done"}
  /\ listed \in SUBSET Time
  /\ name \in Time /\ clone \in Universe /\ new \in Content /\ univ \in Universe
  /\ count \in Universe /\ crashes \in 0 .. MaxCrash
  /\ files \in [DOMAIN files -> Content] /\ DOMAIN files \subseteq Time
  /\ ans \in [DOMAIN ans -> Content] /\ DOMAIN ans \subseteq Time
  /\ first \in Record /\ last \in Record

\* A new installation: the directory is empty and nothing is simulated.
Init ==
  /\ clock = 0 /\ sim = "off"
  /\ newSave = 0 /\ listed = {} /\ laps = 0 /\ begin = 0
  /\ writer = "none" /\ name = 0 /\ clone = 0 /\ new = 0
  /\ univ = 0 /\ count = 0
  /\ files = [t \in {} |-> 0] /\ ans = [t \in {} |-> 0]
  /\ first = NoSave /\ last = NoSave
  /\ crashes = 0

-----------------------------------------------------------------------------
(* The surroundings: time passes, rounds and new universes are published.  *)

Tick ==
  /\ clock < MaxTime
  /\ clock' = clock + 1
  /\ UNCHANGED <<sim, simVars, writerVars, univ, count, disk, history, crashes>>

\* A round is published; it can take any time.
Round ==
  /\ sim = "loop" /\ count < MaxRound
  /\ count' = count + 1 /\ univ' = count'
  /\ UNCHANGED <<clock, sim, simVars, writerVars, disk, history, crashes>>

\* createUniverse: the loop is stopped where it can be interrupted and
\* begins anew; a save that is being written goes on.
CreateUniverse ==
  /\ sim \in {"off", "loop"} /\ count < MaxRound
  /\ count' = count + 1 /\ univ' = count'
  /\ sim' = "loop"
  /\ newSave' = clock + SavePeriod
  /\ UNCHANGED <<clock, listed, laps, begin, writerVars, disk, history, crashes>>

-----------------------------------------------------------------------------
(* The simulation thread.                                                  *)

\* newSave <= now: save() hands a copy of the universe to a new thread,
\* unless the last one is still at work.
BeginSave ==
  /\ sim = "loop" /\ newSave <= clock
  /\ IF writer \in {"none", "done"}
       THEN writer' = "open" /\ name' = clock /\ clone' = univ /\ UNCHANGED new
       ELSE UNCHANGED writerVars
  /\ sim' = "list"
  /\ UNCHANGED <<clock, simVars, univ, count, disk, history, crashes>>

\* Back to the loop, for the next save.
Scheduled == sim' = "loop" /\ newSave' = newSave + SavePeriod

\* removeOldSaves looks through the directory.
ListSaves ==
  /\ sim = "list"
  /\ IF Cardinality(DOMAIN files) < 2
       THEN Scheduled /\ UNCHANGED <<listed, laps, begin>>
       ELSE /\ sim' = "prune" /\ UNCHANGED newSave
            /\ listed' = DOMAIN files
            /\ begin' = Newest(DOMAIN files)
            /\ laps' = FirstLaps
  /\ UNCHANGED <<clock, writerVars, univ, count, disk, history, crashes>>

\* Mutant: a window is a part of the one before it.
Shrunk(l) == l \div GrowNum

Grown(l) == (l * GrowNum) \div GrowDen

\* Mutant: the later end belongs to the window.
BetweenUpTo(b, e) == {t \in listed : b <= t /\ t <= e}

\* The saves found between two times.
Between(b, e) == {t \in listed : b <= t /\ t < e}

\* Mutant: the newest of the window is kept.
AllButNewest(b, e) == {t \in Between(b, e) : t # Newest(Between(b, e))}

\* In one window all saves but the oldest go.
Superfluous(b, e) == {t \in Between(b, e) : t # Oldest(Between(b, e))}

\* One iteration: the window before the last one, a little larger.  It is
\* the last iteration when no save is older.
PruneWindow ==
  /\ sim = "prune"
  /\ laps' = Grown(laps)
  /\ begin' = begin - laps'
  /\ files' = Without(files, Superfluous(begin', begin))
  /\ IF \E t \in listed : t < begin
       THEN UNCHANGED <<sim, newSave, listed>>
       ELSE Scheduled /\ listed' = {}
  /\ UNCHANGED <<clock, writerVars, univ, count, ans, history, crashes>>

-----------------------------------------------------------------------------
(* The thread that writes a save.                                          *)

Step(from, to) == writer = from /\ writer' = to /\ UNCHANGED <<name, clone>>

\* The universe is written to a file of another name, ".new".
OpenNew ==
  /\ Step("open", "write")
  /\ new' = Partial
  /\ UNCHANGED <<clock, sim, simVars, univ, count, disk, history, crashes>>

WriteNew ==
  /\ Step("write", "forget")
  /\ new' = clone
  /\ UNCHANGED <<clock, sim, simVars, univ, count, disk, history, crashes>>

ForgetAns ==
  /\ Step("forget", "aside") /\ UNCHANGED new
  /\ ans' = Without(ans, {name})
  /\ UNCHANGED <<clock, sim, simVars, univ, count, files, history, crashes>>

\* A save of the same second is put aside first.
PutAside ==
  /\ Step("aside", "publish") /\ UNCHANGED new
  /\ IF name \in DOMAIN files
       THEN ans' = With(ans, name, files[name]) /\ files' = Without(files, {name})
       ELSE UNCHANGED disk
  /\ UNCHANGED <<clock, sim, simVars, univ, count, history, crashes>>

\* rename: now the save is complete.
Publish ==
  /\ Step("publish", "copy") /\ UNCHANGED new
  /\ files' = With(files, name, new)
  /\ last' = [name |-> name, of |-> clone]
  /\ first' = IF first # NoSave /\ first.name # name THEN first ELSE last'
  /\ UNCHANGED <<clock, sim, simVars, univ, count, ans, crashes>>

\* The copy last_save.bta2, which no code reads.
Copy ==
  /\ Step("copy", "done") /\ UNCHANGED new
  /\ UNCHANGED <<clock, sim, simVars, univ, count, disk, history, crashes>>

-----------------------------------------------------------------------------
(* The process ends at any point, also by an exception in the saving       *)
(* thread, and is started again.                                           *)

Crash ==
  /\ sim # "down" /\ crashes < MaxCrash
  /\ crashes' = crashes + 1
  /\ sim' = "down"
  /\ listed' = {} /\ laps' = 0 /\ begin' = 0 /\ newSave' = 0
  /\ writer' = "none" /\ name' = 0 /\ clone' = 0 /\ new' = 0 /\ univ' = 0
  /\ UNCHANGED <<clock, count, disk, history>>

\* Engine::Engine loads the newest save; without any it waits for
\* createUniverse.
Restart ==
  /\ sim = "down"
  /\ IF DOMAIN files = {}
       THEN sim' = "off" /\ UNCHANGED <<univ, newSave>>
       ELSE /\ sim' = "loop"
            /\ univ' = files[Newest(DOMAIN files)]
            /\ newSave' = clock + SavePeriod
  /\ UNCHANGED <<clock, listed, laps, begin, writerVars, count, disk, history, crashes>>

SimStep    == BeginSave \/ ListSaves \/ PruneWindow
WriterStep == OpenNew \/ WriteNew \/ ForgetAns \/ PutAside \/ Publish \/ Copy

\* The clock has reached its bound: waiting for a save that is not due.
AtBound ==
  /\ clock = MaxTime
  /\ UNCHANGED vars

Next == \/ Tick \/ Round \/ CreateUniverse \/ SimStep \/ WriterStep
        \/ Crash \/ Restart \/ AtBound

Spec == Init /\ [][Next]_vars

\* Both threads run whenever they can.
FairSpec == Spec /\ WF_vars(SimStep) /\ WF_vars(WriterStep)

-----------------------------------------------------------------------------
(* Properties                                                              *)

\* What is at hand: as a save, or put aside under its name.
AtHand(r) ==
  \/ r.name \in DOMAIN files /\ files[r.name] = r.of
  \/ r.name \notin DOMAIN files /\ r.name \in DOMAIN ans /\ ans[r.name] = r.of

\* The save completed last is never lost, whatever is pruned, replaced or
\* interrupted: it is the one a restart would load, or it has been put aside
\* for another of the same second (Simulation.cpp:1721-1774, 1777-1832).
NewestAtHand ==
  last # NoSave =>
    /\ AtHand(last)
    /\ \A t \in DOMAIN files : t <= last.name

\* Pruning thins the past out and does not cut it off: the first save is
\* kept for ever (Simulation.cpp:1777-1832).
OldestAtHand ==
  first # NoSave =>
    /\ AtHand(first)
    /\ \A t \in DOMAIN files : first.name <= t

\* Pruning comes to its end, so that rounds go on (Simulation.cpp:1809-1832).
PruneEnds == (sim = "prune") ~> (sim # "prune")

\* A window that is not the last one begins earlier than the one before, and
\* after the time 0, so that there are finitely many of them
\* (Simulation.cpp:1809-1832).
PruneAdvances ==
  [][sim = "prune" /\ sim' = "prune" =>
       IF PruneWindow THEN 0 < begin /\ begin' < begin ELSE begin' = begin]_vars
=============================================================================
