--------------------------- MODULE SaveFilesProofs ---------------------------
(* Theorems about module SaveFiles, for any period, windows and bounds. *)
EXTENDS SaveFiles, FiniteSetTheorems, WellFoundedInduction, TLAPS

-----------------------------------------------------------------------------
(* The inductive invariant, in parts.                                      *)

Running == sim \in {"loop", "list", "prune"}
Working == writer \in {"open", "write", "forget", "aside", "publish"}

\* Files with a whole universe in each.
Whole(f) == f \in [DOMAIN f -> Universe] /\ DOMAIN f \subseteq Time

\* No file is torn, neither a save nor one put aside; a file with the suffix ".new"
\* is complete once its stream was closed.
Untorn ==
  /\ Whole(files) /\ Whole(ans)
  /\ writer \in {"forget", "aside", "publish"} => new = clone

\* Before the first save was completed there is no file.
Fresh ==
  /\ last = NoSave <=> first = NoSave
  /\ first = NoSave => DOMAIN files = {}

\* The first and the last save are there, and all others lie between them.
Kept ==
  first # NoSave =>
    /\ first.name <= last.name
    /\ first.name = last.name => first = last
    /\ AtHand(first) /\ AtHand(last)
    /\ \A t \in DOMAIN files : first.name <= t /\ t <= last.name
    /\ last.name <= clock

\* A save is never written under an older name, and the name is free before the rename.
Forward ==
  /\ Working => name <= clock /\ (last # NoSave => last.name <= name)
  /\ writer = "publish" => name \notin DOMAIN files

\* While the last save is only put aside no other file of its name is begun.
Unreplaced ==
  last # NoSave /\ last.name \notin DOMAIN files =>
    \/ writer = "publish" /\ name = last.name
    \/ /\ Working => last.name < name
       /\ Running => last.name < newSave

\* What removeOldSaves works on: nothing is older than the first save, and the windows
\* begin at the newest.
Pruning ==
  sim = "prune" =>
    /\ first # NoSave
    /\ begin <= last.name
    /\ \A t \in listed : first.name <= t

IInv == TypeOK /\ Untorn /\ Fresh /\ Kept /\ Forward /\ Unreplaced /\ Pruning

-----------------------------------------------------------------------------
(* Newest and Oldest.                                                      *)

\* A set of times that is not empty has a newest one (max_element, prior(end())).
LEMMA NewestIn ==
  ASSUME NEW n \in Nat, NEW times \in SUBSET (0 .. n), times # {}
  PROVE  Newest(times) \in times /\ \A u \in times : u <= Newest(times)
  <1> DEFINE B == {x \in Nat : n - x \in times}
             R == OpToRel(<, Nat)
  <1>1. B \subseteq Nat /\ B # {}
    <2>1. PICK t \in times : TRUE
      OBVIOUS
    <2>2. n - t \in Nat /\ n - (n - t) = t
      BY <2>1
    <2> QED
      BY <2>1, <2>2
  <1>2. IsWellFoundedOn(R, Nat)
    BY NatLessThanWellFounded
  <1>3. \A x, y \in Nat : <<x, y>> \in R <=> x < y
    BY DEF OpToRel
  <1> HIDE DEF B, R
  <1>4. PICK b \in B : \A y \in B : ~ (<<y, b>> \in R)
    BY <1>1, <1>2, WFMin
  <1>5. \A y \in B : b <= y
    <2> TAKE y \in B
    <2>1. b \in Nat /\ y \in Nat
      BY <1>1
    <2>2. ~ (y < b)
      BY <2>1, <1>3, <1>4
    <2> QED
      BY <2>1, <2>2
  <1>6. \A u \in times : n - u \in B
    <2> TAKE u \in times
    <2>1. n - u \in Nat /\ n - (n - u) = u
      OBVIOUS
    <2> QED
      BY <2>1 DEF B
  <1>7. n - b \in times
    BY DEF B
  <1>8. \A u \in times : u <= n - b
    BY <1>1, <1>5, <1>6
  <1> QED
    BY <1>7, <1>8 DEF Newest

\* A time that is a lower bound of the times it belongs to is the oldest.
LEMMA OldestIs ==
  ASSUME NEW times \in SUBSET Int, NEW t \in times, \A u \in times : t <= u
  PROVE  Oldest(times) = t
  <1>1. \A x \in times : (\A u \in times : x <= u) => x = t
    OBVIOUS
  <1> QED
    BY <1>1 DEF Oldest

\* The length of a window is a number of seconds.
LEMMA GrownType ==
  ASSUME NEW l \in Nat
  PROVE  Grown(l) \in Nat
  <1> DEFINE x == l * GrowNum
  <1>1. x \in Nat
    BY LapsAssumption
  <1> HIDE DEF x
  <1>2. \A d \in Nat \ {0} : x \div d \in Nat
    BY <1>1
  <1>3. GrowDen \in Nat \ {0}
    BY LapsAssumption
  <1>4. x \div GrowDen \in Nat
    BY <1>2, <1>3
  <1> QED
    BY <1>4 DEF Grown, x

\* Without as a function, and what it and With do to files.
LEMMA WithoutType ==
  ASSUME NEW f, NEW gone
  PROVE  /\ DOMAIN Without(f, gone) = DOMAIN f \ gone
         /\ \A t \in DOMAIN f \ gone : Without(f, gone)[t] = f[t]
         /\ Whole(f) => Whole(Without(f, gone))
  BY DEF Without, Whole

\* A directory of whole universes stays one when a whole one is added.
LEMMA WithWhole ==
  ASSUME NEW f, NEW t \in Time, NEW x \in Universe, Whole(f)
  PROVE  Whole(With(f, t, x))
  BY DEF With, Whole

\* A whole universe is a content.
LEMMA WholeType ==
  ASSUME NEW f, Whole(f)
  PROVE  /\ f \in [DOMAIN f -> Content] /\ DOMAIN f \subseteq Time
         /\ \A t \in DOMAIN f : f[t] \in Universe
  BY DEF Whole, Content

-----------------------------------------------------------------------------
(* The invariant holds and is kept.                                        *)

\* The empty directory satisfies the invariant.
LEMMA InitInv == Init => IInv
  <1> SUFFICES ASSUME Init PROVE IInv
    OBVIOUS
  <1>1. DOMAIN files = {} /\ DOMAIN ans = {}
    BY DEF Init
  <1>2. Whole(files) /\ Whole(ans)
    BY <1>1 DEF Init, Whole
  <1>3. TypeOK
    BY <1>1, <1>2, WholeType, SaveBoundsAssumption
    DEF Init, TypeOK, Time, Universe, Content, Record
  <1>4. Untorn /\ Fresh /\ Kept /\ Forward /\ Unreplaced /\ Pruning
    BY <1>1, <1>2 DEF Init, Untorn, Fresh, Kept, Forward, Unreplaced, Pruning, Working
  <1> QED
    BY <1>3, <1>4 DEF IInv

\* No step tears a file: a save is renamed after its stream was closed (save).
LEMMA UntornStep == IInv /\ [Next]_vars => Untorn'
  <1> SUFFICES ASSUME IInv, [Next]_vars PROVE Untorn'
    OBVIOUS
  <1>0. /\ Whole(files) /\ Whole(ans)
        /\ writer \in {"forget", "aside", "publish"} => new = clone
        /\ name \in Time /\ clone \in Universe
        /\ \A t \in DOMAIN files : files[t] \in Universe
    BY WholeType DEF IInv, TypeOK, Untorn
  <1>1. CASE Tick \/ Round \/ CreateUniverse \/ ListSaves \/ Copy \/ UNCHANGED vars
    BY <1>0, <1>1 DEF Tick, Round, CreateUniverse, ListSaves, Copy, Step,
                      vars, simVars, writerVars, disk, Untorn
  <1>2. CASE BeginSave \/ OpenNew \/ WriteNew \/ Crash \/ Restart
    BY <1>0, <1>2 DEF BeginSave, OpenNew, WriteNew, Crash, Restart, Step,
                      simVars, writerVars, disk, Untorn
  <1>3. CASE PruneWindow
    BY <1>0, <1>3, WithoutType DEF PruneWindow, writerVars, Untorn
  <1>4. CASE ForgetAns
    BY <1>0, <1>4, WithoutType DEF ForgetAns, Step, Untorn
  <1>5. CASE PutAside
    <2>1. CASE name \in DOMAIN files
      <3>a. /\ Whole(Without(files, {name}))
            /\ Whole(With(ans, name, files[name]))
        BY <1>0, <2>1, WithoutType, WithWhole
      <3>b. files' = Without(files, {name}) /\ ans' = With(ans, name, files[name])
        BY <1>5, <2>1 DEF PutAside
      <3>1. Whole(files)'
        BY <3>a, <3>b
      <3>2. Whole(ans)'
        BY <3>a, <3>b
      <3> QED
        BY <1>0, <1>5, <3>1, <3>2 DEF PutAside, Step, Untorn
    <2>2. CASE name \notin DOMAIN files
      BY <1>0, <1>5, <2>2 DEF PutAside, Step, disk, Untorn
    <2> QED
      BY <2>1, <2>2
  <1>6. CASE Publish
    BY <1>0, <1>6, WithWhole DEF Publish, Step, Untorn
  <1> QED
    BY <1>1, <1>2, <1>3, <1>4, <1>5, <1>6 DEF Next, SimStep, WriterStep, AtBound

\* Every variable keeps its type; a restart loads what was written to the end
\* (Engine::Engine).
LEMMA TypeStep == IInv /\ [Next]_vars => TypeOK'
  <1> SUFFICES ASSUME IInv, [Next]_vars PROVE TypeOK'
    OBVIOUS
  <1>0. TypeOK /\ Whole(files) /\ (\A t \in DOMAIN files : files[t] \in Universe)
    BY WholeType DEF IInv, Untorn
  <1>a. /\ files' \in [DOMAIN files' -> Content] /\ DOMAIN files' \subseteq Time
        /\ ans' \in [DOMAIN ans' -> Content] /\ DOMAIN ans' \subseteq Time
    <2>1. Whole(files)' /\ Whole(ans)'
      BY UntornStep DEF Untorn
    <2> QED
      BY <2>1, WholeType DEF Whole, Content
  <1>b. DOMAIN files # {} => Newest(DOMAIN files) \in DOMAIN files
    BY <1>0, NewestIn, SaveBoundsAssumption DEF TypeOK, Time
  <1> DEFINE Plain == /\ clock' \in Time /\ newSave' \in Nat /\ laps' \in Nat
                      /\ begin' \in Int /\ listed' \in SUBSET Time
                      /\ sim' \in {"off", "loop", "list", "prune", "down"}
                      /\ writer' \in {"none", "open", "write", "forget", "aside",
                                       "publish", "copy", "done"}
                      /\ name' \in Time /\ clone' \in Universe /\ new' \in Content
                      /\ univ' \in Universe /\ count' \in Universe
                      /\ crashes' \in 0 .. MaxCrash
                      /\ first' \in Record /\ last' \in Record
  <1> SUFFICES Plain
    BY <1>a DEF TypeOK
  <1> USE SaveBoundsAssumption, PeriodAssumption DEF TypeOK, Time, Universe, Content
  <1>1. CASE Tick
    BY <1>0, <1>1 DEF Tick, simVars, writerVars, history
  <1>2. CASE Round
    BY <1>0, <1>2 DEF Round, simVars, writerVars, history
  <1>3. CASE CreateUniverse
    BY <1>0, <1>3 DEF CreateUniverse, writerVars, history
  <1>4. CASE BeginSave
    BY <1>0, <1>4 DEF BeginSave, simVars, writerVars, history
  <1>5. CASE ListSaves
    <2>1. ~ (Cardinality(DOMAIN files) < 2) => DOMAIN files # {}
      BY FS_EmptySet
    <2> QED
      BY <1>0, <1>b, <1>5, <2>1, LapsAssumption
      DEF ListSaves, Scheduled, writerVars, history
  <1>6. CASE PruneWindow
    <2>1. Grown(laps) \in Nat
      BY <1>0, GrownType
    <2> QED
      BY <1>0, <1>6, <2>1 DEF PruneWindow, Scheduled, writerVars, history
  <1>7. CASE OpenNew \/ WriteNew \/ ForgetAns \/ PutAside \/ Copy
    BY <1>0, <1>7 DEF OpenNew, WriteNew, ForgetAns, PutAside, Copy, Step, simVars, history
  <1>8. CASE Publish
    BY <1>0, <1>8 DEF Publish, Step, simVars, Record
  <1>9. CASE Crash
    BY <1>0, <1>9 DEF Crash, history
  <1>10. CASE Restart
    <2>1. CASE DOMAIN files = {}
      BY <1>0, <1>10, <2>1 DEF Restart, simVars, writerVars, history
    <2>2. CASE DOMAIN files # {}
      <3>1. univ' \in Universe
        BY <1>0, <1>b, <1>10, <2>2 DEF Restart
      <3> QED
        BY <1>0, <1>10, <2>2, <3>1 DEF Restart, simVars, writerVars, history
    <2> QED
      BY <2>1, <2>2
  <1>11. CASE UNCHANGED vars
    BY <1>0, <1>11 DEF vars, simVars, writerVars, history
  <1> QED
    BY <1>1, <1>2, <1>3, <1>4, <1>5, <1>6, <1>7, <1>8, <1>9, <1>10, <1>11
    DEF Next, SimStep, WriterStep, AtBound

\* What the rest of the invariant is about is there, in its order, after each step.
Rest == Fresh /\ Kept /\ Forward /\ Unreplaced /\ Pruning

\* removeOldSaves deletes neither the newest save nor the first one.
LEMMA Spared ==
  ASSUME IInv, PruneWindow
  PROVE  /\ first # NoSave
         /\ \A t \in {first.name, last.name} :
              /\ t \in DOMAIN files' <=> t \in DOMAIN files
              /\ t \in DOMAIN files' => files'[t] = files[t]
         /\ DOMAIN files' \subseteq DOMAIN files
         /\ begin' <= begin
  <1> DEFINE b == begin - Grown(laps)
             gone == Superfluous(b, begin)
  <1>1. /\ begin \in Int /\ laps \in Nat /\ listed \in SUBSET Time
        /\ first # NoSave /\ begin <= last.name /\ \A t \in listed : first.name <= t
        /\ first \in Record /\ last \in Record /\ last # NoSave
    BY DEF IInv, TypeOK, Pruning, PruneWindow, Fresh
  <1>2. first.name \in Time /\ last.name \in Time
    BY <1>1 DEF Record
  <1>3. files' = Without(files, gone) /\ begin' = b
    BY DEF PruneWindow
  <1>4. b \in Int /\ b <= begin
    BY <1>1, GrownType
  <1>5. last.name \notin gone
    BY <1>1, <1>2 DEF Superfluous, Between, Time
  <1>6. first.name \notin gone
    <2> SUFFICES ASSUME first.name \in Between(b, begin) PROVE first.name \notin gone
      BY DEF Superfluous
    <2>0. Between(b, begin) \subseteq listed /\ listed \subseteq Int
      BY <1>1 DEF Between, Time
    <2>1. Between(b, begin) \in SUBSET Int
      BY <2>0
    <2>2. \A t \in Between(b, begin) : first.name <= t
      BY <1>1 DEF Between
    <2>3. Oldest(Between(b, begin)) = first.name
      BY <2>1, <2>2, OldestIs
    <2> QED
      BY <2>3 DEF Superfluous
  <1> HIDE DEF gone, b
  <1>a. /\ DOMAIN Without(files, gone) = DOMAIN files \ gone
        /\ \A t \in DOMAIN files \ gone : Without(files, gone)[t] = files[t]
    BY WithoutType
  <1>7. \A t \in {first.name, last.name} :
           /\ t \in DOMAIN files' <=> t \in DOMAIN files
           /\ t \in DOMAIN files' => files'[t] = files[t]
    BY <1>3, <1>5, <1>6, <1>a
  <1>8. DOMAIN files' \subseteq DOMAIN files
    BY <1>3, <1>a
  <1> QED
    BY <1>1, <1>3, <1>4, <1>7, <1>8

\* The steps that touch no save keep the rest.
LEMMA RestElsewhere ==
  ASSUME IInv,
         \/ Tick \/ Round \/ CreateUniverse \/ BeginSave \/ ListSaves
         \/ OpenNew \/ WriteNew \/ Copy \/ Crash \/ Restart \/ UNCHANGED vars
  PROVE  Rest'
  <1>1. /\ Fresh /\ Kept /\ Forward /\ Unreplaced /\ Pruning
        /\ UNCHANGED <<files, ans, first, last>>
        /\ clock \in Nat /\ newSave \in Nat /\ name \in Nat /\ begin \in Int
        /\ SavePeriod \in Nat \ {0}
    BY SaveBoundsAssumption, PeriodAssumption
    DEF IInv, TypeOK, disk, history, Time, Tick, Round, CreateUniverse, BeginSave,
        ListSaves, OpenNew, WriteNew, Copy, Crash, Restart, vars
  <1>2. /\ Fresh' /\ (first' # NoSave => AtHand(first)' /\ AtHand(last)')
        /\ DOMAIN files' = DOMAIN files
    BY <1>1 DEF Fresh, AtHand, Kept
  <1>3. /\ first = NoSave <=> last = NoSave
        /\ last # NoSave => last.name \in Nat
        /\ DOMAIN files # {} => last # NoSave
    BY <1>1, SaveBoundsAssumption DEF Fresh, IInv, TypeOK, Record, Time
  <1>4. clock' \in Nat /\ clock <= clock'
    BY <1>1 DEF Tick, Round, CreateUniverse, BeginSave, ListSaves, OpenNew, WriteNew, Copy,
                Crash, Restart, vars
  <1>5. Kept'
    BY <1>1, <1>2, <1>3, <1>4 DEF Kept
  <1>6. Forward'
    <2>1. CASE Tick \/ Round \/ CreateUniverse \/ ListSaves \/ Restart \/ UNCHANGED vars
      BY <1>1, <1>3, <1>4, <2>1
      DEF Forward, Working, Tick, Round, CreateUniverse, ListSaves, Restart, writerVars, vars
    <2>2. CASE BeginSave \/ OpenNew \/ WriteNew \/ Copy \/ Crash
      BY <1>1, <1>3, <2>2
      DEF Forward, Working, BeginSave, OpenNew, WriteNew, Copy, Crash, Step, writerVars, Kept
    <2> QED
      BY <2>1, <2>2
  <1>7. Unreplaced'
    <2>1. CASE CreateUniverse \/ Restart
      BY <1>1, <1>3, <2>1
      DEF Unreplaced, Working, Running, CreateUniverse, Restart, writerVars, Kept
    <2>2. CASE BeginSave
      BY <1>1, <1>3, <2>2
      DEF Unreplaced, Working, Running, BeginSave, simVars, writerVars
    <2>3. CASE ListSaves
      BY <1>1, <1>3, <2>3
      DEF Unreplaced, Working, Running, ListSaves, Scheduled, writerVars
    <2>4. CASE Tick \/ Round \/ OpenNew \/ WriteNew \/ Copy \/ UNCHANGED vars
      BY <1>1, <1>3, <2>4
      DEF Unreplaced, Working, Running, Tick, Round, OpenNew, WriteNew, Copy, Step, vars,
          simVars, writerVars
    <2>5. CASE Crash
      BY <1>1, <1>3, <2>5 DEF Unreplaced, Working, Running, Crash
    <2> QED
      BY <2>1, <2>2, <2>3, <2>4, <2>5
  <1>8. Pruning'
    <2>1. CASE ListSaves
      <3>1. CASE Cardinality(DOMAIN files) < 2
        BY <2>1, <3>1 DEF ListSaves, Scheduled, Pruning
      <3>2. CASE ~ (Cardinality(DOMAIN files) < 2)
        <4>1. DOMAIN files # {}
          BY <3>2, FS_EmptySet
        <4>2. Newest(DOMAIN files) \in DOMAIN files
          BY <4>1, NewestIn, SaveBoundsAssumption DEF IInv, TypeOK, Time
        <4> QED
          BY <1>1, <1>3, <2>1, <3>2, <4>1, <4>2 DEF ListSaves, Pruning, Kept
      <3> QED
        BY <3>1, <3>2
    <2>2. CASE ~ ListSaves
      BY <1>1, <2>2
      DEF Pruning, Tick, Round, CreateUniverse, BeginSave, OpenNew, WriteNew, Copy, Step,
          Crash, Restart, vars, simVars
    <2> QED
      BY <2>1, <2>2
  <1> QED
    BY <1>2, <1>5, <1>6, <1>7, <1>8 DEF Rest

\* Pruning keeps the rest: it deletes neither the newest save nor the first one.
LEMMA RestPrune == IInv /\ PruneWindow => Rest'
  <1> SUFFICES ASSUME IInv, PruneWindow PROVE Rest'
    OBVIOUS
  <1>1. /\ Fresh /\ Kept /\ Forward /\ Unreplaced /\ Pruning
        /\ newSave \in Nat /\ begin \in Int /\ begin' \in Int /\ SavePeriod \in Nat \ {0}
        /\ first # NoSave /\ last # NoSave /\ last.name \in Nat
    BY TypeStep, PeriodAssumption, SaveBoundsAssumption
    DEF IInv, TypeOK, Time, Spared, Fresh, Pruning, PruneWindow, Record, Next, SimStep
  <1>2. UNCHANGED <<clock, writer, name, clone, ans, first, last>>
    BY DEF PruneWindow, writerVars, history
  <1>3. /\ \A t \in {first.name, last.name} :
              /\ t \in DOMAIN files' <=> t \in DOMAIN files
              /\ t \in DOMAIN files' => files'[t] = files[t]
        /\ DOMAIN files' \subseteq DOMAIN files
        /\ begin' <= begin
    BY Spared
  <1>4. Fresh' /\ Kept'
    BY <1>1, <1>2, <1>3 DEF Fresh, Kept, AtHand
  <1>5. Forward'
    BY <1>1, <1>2, <1>3 DEF Forward, Working
  <1>6. Unreplaced'
    BY <1>1, <1>2, <1>3 DEF Unreplaced, Working, Running, PruneWindow, Scheduled
  <1>7. Pruning'
    BY <1>1, <1>2, <1>3 DEF Pruning, PruneWindow, Scheduled
  <1> QED
    BY <1>4, <1>5, <1>6, <1>7 DEF Rest

\* A save that was put aside is forgotten only when its name is on a newer file.
LEMMA RestForget == IInv /\ ForgetAns => Rest'
  <1> SUFFICES ASSUME IInv, ForgetAns PROVE Rest'
    OBVIOUS
  <1>1. /\ Fresh /\ Kept /\ Forward /\ Unreplaced /\ Pruning
        /\ writer = "forget" /\ writer' = "aside"
        /\ UNCHANGED <<clock, sim, newSave, listed, laps, begin, name, files, first, last>>
        /\ ans' = Without(ans, {name})
    BY DEF IInv, ForgetAns, Step, simVars, history
  <1>2. /\ DOMAIN ans' = DOMAIN ans \ {name}
        /\ \A t \in DOMAIN ans \ {name} : ans'[t] = ans[t]
    BY <1>1, WithoutType
  <1>3. /\ last # NoSave => last.name \in Nat /\ last.name <= name /\ name \in Nat
        /\ first # NoSave => first.name \in Nat
        /\ first # NoSave <=> last # NoSave
    BY <1>1, SaveBoundsAssumption DEF IInv, TypeOK, Record, Time, Forward, Working, Fresh
  <1>4. last # NoSave /\ last.name = name => last.name \in DOMAIN files
    BY <1>1, <1>3 DEF Unreplaced, Working
  <1>5. last # NoSave => AtHand(last)'
    BY <1>1, <1>2, <1>3, <1>4 DEF Kept, AtHand
  <1>6. first # NoSave => AtHand(first)'
    <2> SUFFICES ASSUME first # NoSave PROVE AtHand(first)'
      OBVIOUS
    <2>1. CASE first.name = last.name
      BY <1>1, <1>3, <1>5, <2>1 DEF Kept
    <2>2. CASE first.name # last.name
      <3>1. first.name # name
        BY <1>1, <1>3, <2>2 DEF Kept
      <3> QED
        BY <1>1, <1>2, <3>1 DEF Kept, AtHand
    <2> QED
      BY <2>1, <2>2
  <1>7. Fresh' /\ Kept'
    BY <1>1, <1>3, <1>5, <1>6 DEF Fresh, Kept
  <1>8. Forward' /\ Unreplaced' /\ Pruning'
    BY <1>1 DEF Forward, Unreplaced, Pruning, Working, Running
  <1> QED
    BY <1>7, <1>8 DEF Rest

\* A save of the same second is put aside before it is replaced.
LEMMA RestAside == IInv /\ PutAside => Rest'
  <1> SUFFICES ASSUME IInv, PutAside PROVE Rest'
    OBVIOUS
  <1>1. /\ Fresh /\ Kept /\ Forward /\ Unreplaced /\ Pruning
        /\ writer = "aside" /\ writer' = "publish"
        /\ UNCHANGED <<clock, sim, newSave, listed, laps, begin, name, first, last>>
    BY DEF IInv, PutAside, Step, simVars, history
  <1>2. /\ last # NoSave => last.name \in Nat /\ last.name <= name /\ name \in Nat
        /\ first # NoSave => first.name \in Nat
        /\ first # NoSave <=> last # NoSave
    BY <1>1, SaveBoundsAssumption DEF IInv, TypeOK, Record, Time, Forward, Working, Fresh
  <1>3. /\ DOMAIN files' = DOMAIN files \ {name}
        /\ \A t \in DOMAIN files \ {name} : files'[t] = files[t]
        /\ name \in DOMAIN files => name \in DOMAIN ans' /\ ans'[name] = files[name]
        /\ name \notin DOMAIN files => ans' = ans
        /\ \A t \in DOMAIN ans \ {name} : t \in DOMAIN ans' /\ ans'[t] = ans[t]
    <2>1. CASE name \in DOMAIN files
      <3>1. files' = Without(files, {name}) /\ ans' = With(ans, name, files[name])
        BY <2>1 DEF PutAside
      <3>2. /\ DOMAIN With(ans, name, files[name]) = DOMAIN ans \cup {name}
            /\ With(ans, name, files[name])[name] = files[name]
            /\ \A u \in DOMAIN ans : u # name => With(ans, name, files[name])[u] = ans[u]
        BY DEF With
      <3>3. /\ DOMAIN Without(files, {name}) = DOMAIN files \ {name}
            /\ \A t \in DOMAIN files \ {name} : Without(files, {name})[t] = files[t]
        BY WithoutType
      <3> QED
        BY <2>1, <3>1, <3>2, <3>3
    <2>2. CASE name \notin DOMAIN files
      BY <2>2 DEF PutAside, disk
    <2> QED
      BY <2>1, <2>2
  <1>5. last # NoSave => AtHand(last)'
    <2> SUFFICES ASSUME last # NoSave PROVE AtHand(last)'
      OBVIOUS
    <2>1. CASE last.name = name
      <3>1. last.name \in DOMAIN files
        BY <1>1, <1>2, <2>1 DEF Unreplaced, Working
      <3> QED
        BY <1>1, <1>2, <1>3, <2>1, <3>1 DEF Kept, AtHand
    <2>2. CASE last.name # name
      BY <1>1, <1>2, <1>3, <2>2 DEF Kept, AtHand
    <2> QED
      BY <2>1, <2>2
  <1>6. first # NoSave => AtHand(first)'
    <2> SUFFICES ASSUME first # NoSave PROVE AtHand(first)'
      OBVIOUS
    <2>1. CASE first.name = last.name
      BY <1>1, <1>2, <1>5, <2>1 DEF Kept
    <2>2. CASE first.name # last.name
      <3>1. first.name # name
        BY <1>1, <1>2, <2>2 DEF Kept
      <3> QED
        BY <1>1, <1>3, <3>1 DEF Kept, AtHand
    <2> QED
      BY <2>1, <2>2
  <1>7. Fresh' /\ Kept'
    BY <1>1, <1>2, <1>3, <1>5, <1>6 DEF Fresh, Kept
  <1>8. Forward' /\ Pruning'
    BY <1>1, <1>3 DEF Forward, Pruning, Working
  <1>9. Unreplaced'
    BY <1>1, <1>2, <1>3 DEF Unreplaced, Working, Running
  <1> QED
    BY <1>7, <1>8, <1>9 DEF Rest

\* The rename makes the new save the last one; its name is the newest.
LEMMA RestPublish == IInv /\ Publish => Rest'
  <1> SUFFICES ASSUME IInv, Publish PROVE Rest'
    OBVIOUS
  <1>1. /\ Fresh /\ Kept /\ Forward /\ Unreplaced /\ Pruning
        /\ writer = "publish" /\ writer' = "copy" /\ new = clone /\ name \notin DOMAIN files
        /\ name <= clock /\ (last # NoSave => last.name <= name)
        /\ UNCHANGED <<clock, sim, newSave, listed, laps, begin, name, ans>>
        /\ files' = With(files, name, new)
        /\ last' = [name |-> name, of |-> clone]
        /\ first' = IF first # NoSave /\ first.name # name THEN first ELSE last'
    BY DEF IInv, Publish, Step, simVars, Untorn, Forward, Working
  <1>2. /\ name \in Nat /\ clone \in Universe
        /\ first # NoSave => first.name \in Nat /\ last.name \in Nat /\ last # NoSave
        /\ begin \in Int /\ (sim = "prune" => begin <= last.name /\ first # NoSave)
    BY <1>1, SaveBoundsAssumption
    DEF IInv, TypeOK, Record, Time, Fresh, Pruning
  <1>3. /\ DOMAIN files' = DOMAIN files \cup {name}
        /\ files'[name] = clone
        /\ \A u \in DOMAIN files : u # name => files'[u] = files[u]
    BY <1>1 DEF With
  <1>4. last' # NoSave /\ first' # NoSave /\ last'.name = name /\ last'.of = clone
    <2>1. last' # NoSave
      BY <1>1, <1>2, SaveNullAssumption, SaveBoundsAssumption DEF Universe
    <2> QED
      BY <1>1, <2>1
  <1>5. AtHand(last)'
    BY <1>3, <1>4 DEF AtHand
  <1>6. AtHand(first)'
    <2>1. CASE first # NoSave /\ first.name # name
      BY <1>1, <1>3, <2>1 DEF Kept, AtHand
    <2>2. CASE ~ (first # NoSave /\ first.name # name)
      BY <1>1, <1>5, <2>2
    <2> QED
      BY <2>1, <2>2
  <1>7. first'.name <= name /\ (first'.name = name => first' = last')
    BY <1>1, <1>2, <1>4 DEF Kept
  <1>8. \A t \in DOMAIN files' : first'.name <= t /\ t <= name
    <2> SUFFICES ASSUME NEW t \in DOMAIN files PROVE first'.name <= t /\ t <= name
      BY <1>2, <1>3, <1>7
    <2>1. first # NoSave /\ first.name <= t /\ t <= last.name /\ t \in Nat
      BY <1>1, SaveBoundsAssumption DEF Fresh, Kept, IInv, TypeOK, Time
    <2>2. t <= name /\ first.name # name
      BY <1>1, <1>2, <2>1 DEF Kept
    <2> QED
      BY <1>1, <2>1, <2>2
  <1>9. Fresh' /\ Kept'
    BY <1>1, <1>4, <1>5, <1>6, <1>7, <1>8 DEF Fresh, Kept
  <1>10. Forward' /\ Unreplaced'
    BY <1>1, <1>3, <1>4 DEF Forward, Unreplaced, Working
  <1>11. Pruning'
    <2> SUFFICES ASSUME sim = "prune" PROVE Pruning'
      BY <1>1 DEF Pruning
    <2>1. first # NoSave /\ begin <= last.name /\ \A t \in listed : first.name <= t
      BY <1>1 DEF Pruning
    <2>2. begin <= name
      BY <1>1, <1>2, <2>1
    <2>3. first'.name = first.name
      BY <1>1, <1>4, <2>1
    <2> QED
      BY <1>1, <1>4, <2>1, <2>2, <2>3 DEF Pruning
  <1> QED
    BY <1>9, <1>10, <1>11 DEF Rest

-----------------------------------------------------------------------------
(* The theorems.                                                           *)

\* The inductive invariant: every file is whole, the first and the last save are at
\* hand with all others between them, names only grow, a save that is only put aside is
\* not replaced, and pruning begins at the newest (save, removeOldSaves, Engine::Engine).
THEOREM SaveInductive == Spec => []IInv
  <1>1. Init => IInv
    BY InitInv
  <1>2. IInv /\ [Next]_vars => IInv'
    <2> SUFFICES ASSUME IInv, [Next]_vars PROVE IInv'
      OBVIOUS
    <2>1. TypeOK' /\ Untorn'
      BY TypeStep, UntornStep
    <2>2. Rest'
      BY RestElsewhere, RestPrune, RestForget, RestAside, RestPublish
      DEF Next, SimStep, WriterStep, AtBound
    <2> QED
      BY <2>1, <2>2 DEF IInv, Rest
  <1> QED
    BY <1>1, <1>2, PTL DEF Spec

\* Every variable has its type; in particular a restart never loads a file that was
\* being written (Engine::Engine, load).
THEOREM SaveTypes == Spec => []TypeOK
  <1>1. IInv => TypeOK
    BY DEF IInv
  <1> QED
    BY <1>1, SaveInductive, PTL

\* The save completed last is never lost (save, removeOldSaves).
THEOREM NewestIsAtHand == Spec => []NewestAtHand
  <1>1. IInv => NewestAtHand
    BY DEF IInv, Fresh, Kept, NewestAtHand
  <1> QED
    BY <1>1, SaveInductive, PTL

\* The first save is kept for ever (removeOldSaves).
THEOREM OldestIsAtHand == Spec => []OldestAtHand
  <1>1. IInv => OldestAtHand
    BY DEF IInv, Kept, OldestAtHand
  <1> QED
    BY <1>1, SaveInductive, PTL

-----------------------------------------------------------------------------
(* Pruning advances.                                                       *)

\* The window that is removed next has a length.
Widening == sim = "prune" => laps * GrowNum >= GrowDen

\* A window after one with a length has a length too: rounding down, the
\* factor of growth does not end in windows of no seconds.
LEMMA GrownLength ==
  ASSUME NEW l \in Nat, l * GrowNum >= GrowDen
  PROVE  Grown(l) >= 1 /\ Grown(l) * GrowNum >= GrowDen
  <1> DEFINE x == l * GrowNum
  <1>1. x \in Nat /\ x >= GrowDen /\ GrowDen \in Nat \ {0}
    BY LapsAssumption
  <1> HIDE DEF x
  <1>2. \A d \in Nat \ {0} : x >= d => x \div d >= 1
    BY <1>1
  <1>3. Grown(l) >= 1 /\ Grown(l) \in Nat
    BY <1>1, <1>2, GrownType DEF Grown, x
  <1>4. \A g, n \in Nat : g >= 1 => g * n >= n
    OBVIOUS
  <1>5. Grown(l) * GrowNum >= GrowNum
    BY <1>3, <1>4, LapsAssumption
  <1>6. \A a, b, c \in Int : a >= b /\ b >= c => a >= c
    OBVIOUS
  <1>7. Grown(l) * GrowNum \in Int
    BY <1>3, LapsAssumption
  <1> QED
    BY <1>3, <1>5, <1>6, <1>7, LapsAssumption

\* Windows get no shorter than a second, while they are removed.
LEMMA WideningStep == IInv /\ Widening /\ [Next]_vars => Widening'
  <1> SUFFICES ASSUME IInv, Widening, [Next]_vars, sim' = "prune"
               PROVE  (laps * GrowNum >= GrowDen)'
    BY DEF Widening
  <1>1. CASE ListSaves
    BY <1>1, LapsAssumption DEF ListSaves, Scheduled
  <1>2. CASE PruneWindow
    <2>1. laps \in Nat /\ laps * GrowNum >= GrowDen
      BY <1>2 DEF IInv, TypeOK, PruneWindow, Widening
    <2> QED
      BY <1>2, <2>1, GrownLength DEF PruneWindow
  <1>3. CASE Round \/ CreateUniverse \/ BeginSave \/ Crash \/ Restart
    BY <1>3 DEF Round, CreateUniverse, BeginSave, Crash, Restart
  <1>4. CASE Tick \/ WriterStep \/ UNCHANGED vars
    BY <1>4 DEF Tick, WriterStep, OpenNew, WriteNew, ForgetAns, PutAside, Publish, Copy,
                simVars, vars, Widening
  <1> QED
    BY <1>1, <1>2, <1>3, <1>4 DEF Next, SimStep, AtBound

\* Each window but the last begins earlier than the one before, and after 0.
LEMMA AdvanceStep ==
  ASSUME IInv, Widening, [Next]_vars, sim = "prune", sim' = "prune"
  PROVE  IF PruneWindow THEN 0 < begin /\ begin' < begin ELSE begin' = begin
  <1>1. CASE PruneWindow
    <2>1. laps \in Nat /\ begin \in Int /\ laps * GrowNum >= GrowDen
      BY DEF IInv, TypeOK, Widening
    <2>2. Grown(laps) \in Nat /\ Grown(laps) >= 1
      BY <2>1, GrownType, GrownLength
    <2>3. begin' = begin - Grown(laps)
      BY <1>1 DEF PruneWindow
    <2>4. PICK t \in listed : t < begin
      BY <1>1 DEF PruneWindow, Scheduled
    <2>5. t \in Nat
      BY <2>4 DEF IInv, TypeOK, Time
    <2> QED
      BY <1>1, <2>1, <2>2, <2>3, <2>4, <2>5
  <1>2. CASE ~ PruneWindow
    <2>1. CASE Tick \/ WriterStep \/ UNCHANGED vars
      BY <1>2, <2>1 DEF Tick, WriterStep, OpenNew, WriteNew, ForgetAns, PutAside, Publish,
                        Copy, simVars, vars
    <2>2. CASE Round \/ CreateUniverse \/ BeginSave \/ ListSaves \/ Crash \/ Restart
      BY <2>2 DEF Round, CreateUniverse, BeginSave, ListSaves, Crash, Restart
    <2> QED
      BY <1>2, <2>1, <2>2 DEF Next, SimStep, AtBound
  <1> QED
    BY <1>1, <1>2

\* removeOldSaves has finitely many windows to go through, for any growth that
\* the constants of the code may be given.
THEOREM PruningAdvances == Spec => PruneAdvances
  <1>1. Init => Widening
    BY DEF Init, Widening
  <1>2. IInv /\ Widening /\ [Next]_vars =>
          [sim = "prune" /\ sim' = "prune" =>
             IF PruneWindow THEN 0 < begin /\ begin' < begin ELSE begin' = begin]_vars
    BY AdvanceStep
  <1> QED
    BY <1>1, <1>2, WideningStep, SaveInductive, PTL DEF Spec, PruneAdvances
=============================================================================
