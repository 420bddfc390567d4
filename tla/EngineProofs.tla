---------------------------- MODULE EngineProofs ----------------------------
(* Theorems of Engine, for any players, planets and bounds on faults. *)
EXTENDS Engine, FiniteSetTheorems, FunctionTheorems, SequenceTheorems, TLAPS

-----------------------------------------------------------------------------
(* The inductive invariant, in parts.                                      *)

\* Which states of the two threads go together, and what they carry.
Threads ==
  /\ {crashes, aborts, universes} \subseteq Nat
  /\ IsFiniteSet(known)
  /\ rpc \in {"enrol", "notify"} => client \in Player
  /\ sim = "give" => newcomer \in Player
  /\ rpc \in Remaking \cup {"down"} => sim = "off"
  /\ rpc = "down" => crashes > 0
  /\ rpc \in Remaking \cup {"stopping"} => universes > 0

\* The player runs the script saved last, or the order to reload it is on its way.
Fresh(p) == codes[p] = script[p] \/ (rpc = "notify" /\ client = p)

\* ScriptsFresh for every player that was given a planet once, and what the round that
\* has locked the orders to reload has still to read.
Scripts ==
  /\ \A p \in known \ WithoutPlanet :
        sim \in {"off", "start"} \/ (sim = "load" /\ p \in toLoad) \/ p \in reload \/ Fresh(p)
  /\ sim = "codes" => \A p \in reload \cap (known \ WithoutPlanet) : p \in toLoad \/ Fresh(p)

\* A universe made for the present generation of players has no stranger as an owner.
Current(u) == u # NoUniverse => u.era <= era /\ (u.era = era => Owners(u) \subseteq known)

\* No universe is of a later era than the database, and only a crash brings back an earlier one.
Registered ==
  /\ Current(univ) /\ Current(clone) /\ Current(newestSave)
  /\ copy # NoUniverse => copy.era = univ.era
  /\ sim \in {"reload", "codes", "play", "publish"} => Current(copy)
  /\ crashes = 0 => univ.era = era

\* The homes of a universe are the main planets the database names.
Homes(u) ==
  /\ \A c \in Planets : u.owner[c] # NoId => u.owner[c] \in known \ WithoutPlanet
  /\ \A p \in known \ WithoutPlanet : u.owner[mainPlanet[p]] = p
  /\ \A c \in u.home : u.owner[c] # NoId /\ mainPlanet[u.owner[c]] = c

\* Nobody waits in two places.
OneTicket ==
  /\ Range(queue) \subseteq WithoutPlanet
  /\ IsInjective(queue)
  /\ rpc = "enrol" => client \in WithoutPlanet /\ client \notin Range(queue)
  /\ sim = "give" => newcomer \in WithoutPlanet /\ newcomer \notin Range(queue)
  /\ rpc = "enrol" /\ sim = "give" => client # newcomer

Faultless == crashes = 0 /\ aborts = 0 /\ universes = 0
Settled == Faultless => Homes(Played) /\ OneTicket

\* Who owns a planet in the published universe has been given one, and so has a main planet.
Published == Faultless => Owners(univ) \subseteq known \ WithoutPlanet

IInv == TypeOK /\ Threads /\ Scripts /\ NobodyForgotten /\ Registered /\ Settled /\ Published
-----------------------------------------------------------------------------
(* The queue of players, and universes.                                    *)

\* A player put into the queue stands in it, besides those that were there.
LEMMA Queued ==
  ASSUME NEW q \in Seq(Player), NEW p \in Player
  PROVE  /\ Append(q, p) \in Seq(Player)
         /\ Range(Append(q, p)) = Range(q) \cup {p}
         /\ IsInjective(q) /\ p \notin Range(q) => IsInjective(Append(q, p))
  <1>1. /\ Append(q, p) \in Seq(Player)
        /\ DOMAIN q = 1 .. Len(q) /\ Len(q) \in Nat
        /\ DOMAIN Append(q, p) = 1 .. Len(q) + 1
        /\ \A i \in 1 .. Len(q) : Append(q, p)[i] = q[i]
        /\ Append(q, p)[Len(q) + 1] = p
    BY AppendProperties, LenProperties
  <1>2. Range(Append(q, p)) = Range(q) \cup {p}
    BY <1>1 DEF Range
  <1>3. ASSUME IsInjective(q), p \notin Range(q),
               NEW i \in 1 .. Len(q) + 1, NEW j \in 1 .. Len(q) + 1,
               Append(q, p)[i] = Append(q, p)[j]
        PROVE  i = j
    <2>1. \A k \in 1 .. Len(q) : q[k] # p
      BY <1>1, <1>3 DEF Range
    <2> QED
      BY <1>1, <1>3, <2>1 DEF IsInjective
  <1> QED
    BY <1>1, <1>2, <1>3 DEF IsInjective

\* The player popped is the head; the others wait on.
LEMMA Popped ==
  ASSUME NEW q \in Seq(Player), q # <<>>
  PROVE  /\ Head(q) \in Player /\ Tail(q) \in Seq(Player)
         /\ Range(q) = {Head(q)} \cup Range(Tail(q))
         /\ IsInjective(q) => Head(q) \notin Range(Tail(q)) /\ IsInjective(Tail(q))
  <1>1. /\ Head(q) \in Player /\ Tail(q) \in Seq(Player)
        /\ DOMAIN q = 1 .. Len(q) /\ Len(q) \in Nat \ {0}
        /\ DOMAIN Tail(q) = 1 .. Len(q) - 1
        /\ \A i \in 1 .. Len(q) - 1 : Tail(q)[i] = q[i + 1]
        /\ Head(q) = q[1]
    BY HeadTailProperties, LenProperties, EmptySeq
  <1>2. Range(q) = {Head(q)} \cup Range(Tail(q))
    <2>1. ASSUME NEW i \in 1 .. Len(q) PROVE q[i] \in {Head(q)} \cup Range(Tail(q))
      <3>1. CASE i = 1
        BY <1>1, <3>1
      <3>2. CASE i # 1
        <4>1. i - 1 \in 1 .. Len(q) - 1 /\ Tail(q)[i - 1] = q[i]
          BY <1>1, <3>2
        <4> QED
          BY <1>1, <4>1 DEF Range
      <3> QED
        BY <3>1, <3>2
    <2> QED
      BY <1>1, <2>1 DEF Range
  <1>3. ASSUME IsInjective(q) PROVE Head(q) \notin Range(Tail(q)) /\ IsInjective(Tail(q))
    BY <1>1, <1>3 DEF Range, IsInjective
  <1> QED
    BY <1>1, <1>2, <1>3

\* The players queued again at a start are just those without a planet, each once.
LEMMA Requeued ==
  ASSUME NEW S \in SUBSET Player, IsFiniteSet(S), NEW q \in SetToSeqs(S)
  PROVE  q \in Seq(Player) /\ Range(q) = S /\ IsInjective(q)
  <1> DEFINE n == Cardinality(S)
  <1>1. n \in Nat /\ IsFiniteSet(1 .. n) /\ Cardinality(1 .. n) = n
    BY FS_CardinalityType, FS_Interval
  <1>2. q \in [1 .. n -> S] /\ IsInjective(q)
    BY DEF SetToSeqs, IsInjective
  <1> HIDE DEF n
  <1>3. q \in Injection(1 .. n, S)
    BY <1>2 DEF Injection
  <1>4. q \in Surjection(1 .. n, S)
    BY <1>1, <1>3, FS_Injection DEF n
  <1>5. q \in [1 .. n -> Player]
    BY <1>2
  <1>6. q \in Seq(Player)
    BY <1>1, <1>5, SeqDef
  <1> QED
    BY <1>2, <1>4, <1>6 DEF Surjection, Range

\* What a round may publish is a universe, with no new owner and no main planet lost.
LEMMA Outcome ==
  ASSUME NEW u \in Universe, NEW v \in Outcomes(u)
  PROVE  /\ v \in Universe /\ Owners(v) \subseteq Owners(u) /\ v.era = u.era
         /\ v.home = {c \in u.home : v.owner[c] # NoId}
         /\ \A c \in Planets : u.owner[c] # NoId =>
              v.owner[c] = u.owner[c] \/ (v.owner[c] = NoId /\ mainPlanet[u.owner[c]] # c)
  <1>1. PICK o \in [Planets -> Owners(u) \cup {NoId}] :
          /\ v = [owner |-> o, home |-> {c \in u.home : o[c] # NoId}, era |-> u.era]
          /\ \A c \in Planets : \/ o[c] = u.owner[c]
                                \/ u.owner[c] = NoId
                                \/ o[c] = NoId /\ mainPlanet[u.owner[c]] # c
    <2>1. DOMAIN u.owner = Planets
      BY DEF Universe
    <2> QED
      BY <2>1 DEF Outcomes, RoundMayLeave, MayBecome
  <1>2. Owners(u) \subseteq Player
    BY DEF Owners, Universe
  <1>3. v.owner = o /\ v.home = {c \in u.home : o[c] # NoId} /\ v.era = u.era
    BY <1>1
  <1>4. v \in Universe
    BY <1>1, <1>2 DEF Universe
  <1>5. Owners(v) \subseteq Owners(u)
    BY <1>3 DEF Owners
  <1> QED
    BY <1>1, <1>3, <1>4, <1>5

\* A universe with one planet given to a player.
LEMMA Given ==
  ASSUME NEW u \in Universe, NEW p \in Player, NEW c \in Planets
  PROVE  /\ Give(u, p, c) \in Universe
         /\ Give(u, p, c).owner = [u.owner EXCEPT ![c] = p]
         /\ Give(u, p, c).home = u.home \cup {c}
         /\ Owners(Give(u, p, c)) \subseteq Owners(u) \cup {p}
  BY DEF Give, Universe, Owners

\* A universe just made has no owner.
LEMMA Empty ==
  ASSUME NEW e \in Nat
  PROVE  EmptyUniverse(e) \in Universe /\ Owners(EmptyUniverse(e)) = {} /\ EmptyUniverse(e).era = e
  BY DEF EmptyUniverse, Universe, Owners

-----------------------------------------------------------------------------
(* Types.                                                                  *)

\* Every variable keeps its type, and the threads stay in states that go together: no world
\* is copied outside a round, and nothing simulates while a universe is made.
LEMMA TypeStep == TypeOK /\ Threads /\ [Next]_vars => TypeOK' /\ Threads'
  <1> SUFFICES ASSUME TypeOK, Threads, [Next]_vars PROVE TypeOK' /\ Threads'
    OBVIOUS
  <1> USE DEF TypeOK, Threads, InRound, Remaking, callVars, workVars, sharedVars, dbVars, auxVars
  <1>1. ASSUME NEW p \in Player, AddPlayer(p) PROVE TypeOK' /\ Threads'
    <2>1. IsFiniteSet(known')
      BY <1>1, FS_AddElement DEF AddPlayer
    <2> QED
      BY <1>1, <2>1 DEF AddPlayer
  <1>2. CASE Enrol
    BY <1>2, Queued DEF Enrol
  <1>3. ASSUME NEW p \in Player, SetCode(p) PROVE TypeOK' /\ Threads'
    BY <1>3 DEF SetCode
  <1>4. CASE Notify
    BY <1>4 DEF Notify
  <1>5. CASE CreateUniverse
    BY <1>5 DEF CreateUniverse
  <1>6. CASE Join
    BY <1>6 DEF Join
  <1>7. CASE ClearPlayers
    <2>1. known' \in {known, {}} /\ IsFiniteSet({}) /\ era' \in Nat
      BY <1>7, FS_EmptySet DEF ClearPlayers
    <2> QED
      BY <1>7, <2>1, Empty DEF ClearPlayers
  <1>8. ASSUME NEW p \in Player, NEW c \in Planets, ConstructMainPlanet(p, c)
        PROVE  TypeOK' /\ Threads'
    BY <1>8, Given DEF ConstructMainPlanet
  <1>9. CASE ClearScripts \/ ClearPlanets \/ Start
    BY <1>9 DEF ClearScripts, ClearPlanets, Start
  <1>10. CASE LoadPlayers
    BY <1>10 DEF LoadPlayers
  <1>11. ASSUME NEW p \in Player, ReadCode(p) PROVE TypeOK' /\ Threads'
    BY <1>11 DEF ReadCode
  <1>12. CASE EndLoad \/ LoopEnds \/ Sleep \/ EndCreate
    BY <1>12 DEF EndLoad, LoopEnds, Sleep, EndCreate
  <1>13. CASE LoopGoesOn
    BY <1>13 DEF LoopGoesOn
  <1>14. CASE SaveWritten
    BY <1>14 DEF SaveWritten
  <1>15. CASE BeginRound
    BY <1>15, UniverseAssumption DEF BeginRound
  <1>16. CASE PopPlayer
    BY <1>16, Popped DEF PopPlayer
  <1>17. ASSUME NEW c \in Planets, GiveMainPlanet(c) PROVE TypeOK' /\ Threads'
    <2>1. Give(copy, newcomer, c) \in Universe
      BY <1>17, Given DEF GiveMainPlanet
    <2> QED
      BY <1>17, <2>1, UniverseAssumption DEF GiveMainPlanet
  <1>18. CASE FindOwners
    BY <1>18 DEF FindOwners
  <1>19. CASE LockReload \/ ClearReload
    BY <1>19 DEF LockReload, ClearReload
  <1>20. CASE Play
    <2>1. copy' \in Universe
      BY <1>20, Outcome DEF Play
    <2> QED
      BY <1>20, <2>1, UniverseAssumption DEF Play
  <1>21. CASE Publish
    BY <1>21 DEF Publish
  <1>22. CASE AbortRound
    BY <1>22 DEF AbortRound
  <1>23. CASE Crash
    <2>1. <<>> \in Seq(Player)
      BY EmptySeq
    <2> QED
      BY <1>23, <2>1, Empty DEF Crash
  <1>24. CASE Restart
    <2>1. WithoutPlanet \subseteq known /\ IsFiniteSet(WithoutPlanet)
      BY FS_Subset DEF WithoutPlanet
    <2>2. queue' \in Seq(Player)
      BY <1>24, <2>1, Requeued DEF Restart, WaitAgain
    <2> QED
      BY <1>24, <2>2 DEF Restart
  <1>25. ASSUME NEW p \in Player, ConstructScript(p) PROVE TypeOK' /\ Threads'
    BY <1>25 DEF ConstructScript
  <1>26. CASE UNCHANGED vars
    BY <1>26 DEF vars
  <1> QED
    BY <1>1, <1>2, <1>3, <1>4, <1>5, <1>6, <1>7, <1>8, <1>9, <1>10, <1>11, <1>12, <1>13, <1>14,
       <1>15, <1>16, <1>17, <1>18, <1>19, <1>20, <1>21, <1>22, <1>23, <1>24, <1>25, <1>26
       DEF Next, CallStep, SimStep, ReadOnly, DrawAgain

-----------------------------------------------------------------------------
(* Scripts.                                                                *)

\* A script saved while the other thread reads or forgets its orders is still to be read:
\* reloadPlayer waits for the mutex that updatePlayersCode holds.
LEMMA ScriptsStep == TypeOK /\ Threads /\ Scripts /\ [Next]_vars => Scripts'
  <1> SUFFICES ASSUME TypeOK, Threads, Scripts, [Next]_vars PROVE Scripts'
    OBVIOUS
  <1> USE DEF WithoutPlanet, Fresh, callVars, workVars, sharedVars, dbVars, auxVars
  \* The steps that neither save, nor order, nor read a script.
  <1>1. ASSUME UNCHANGED <<known, mainPlanet, script, reload, codes>>,
               \/ UNCHANGED <<rpc, client>>
               \/ rpc # "notify"
               \/ sim' = "off",
               \/ sim' = sim /\ toLoad' = toLoad
               \/ sim' \in {"off", "start"}
               \/ sim = "load" /\ toLoad = {} /\ sim' # "codes"
               \/ sim' = "codes" /\ sim \notin {"off", "start", "load"} /\ toLoad' = reload
               \/ sim' \notin {"load", "codes"} /\ sim \notin {"off", "start", "load"}
        PROVE  Scripts'
    BY <1>1 DEF Scripts, TypeOK
  <1>2. ASSUME NEW p \in Player, AddPlayer(p) PROVE Scripts'
    BY <1>2 DEF AddPlayer, Scripts, TypeOK
  <1>3. ASSUME NEW p \in Player, SetCode(p) PROVE Scripts'
    BY <1>3 DEF SetCode, Scripts, TypeOK
  <1>4. CASE Notify
    BY <1>4 DEF Notify, ReloadUnlocked, Scripts, TypeOK
  <1>5. CASE \/ ClearPlayers \/ ClearScripts \/ ClearPlanets \/ Start
            \/ \E p \in Player : ConstructScript(p)
    <2>1. sim = "off" /\ sim' \in {"off", "start"}
      BY <1>5 DEF ClearPlayers, ClearScripts, ClearPlanets, Start, ConstructScript, Threads, Remaking
    <2> QED
      BY <2>1 DEF Scripts
  <1>6. ASSUME NEW p \in Player, NEW c \in Planets, ConstructMainPlanet(p, c) PROVE Scripts'
    BY <1>6 DEF ConstructMainPlanet, Threads, Remaking, Scripts
  <1>7. CASE LoadPlayers
    BY <1>7 DEF LoadPlayers, Scripts
  <1>8. ASSUME NEW p \in Player, ReadCode(p) PROVE Scripts'
    BY <1>8 DEF ReadCode, Scripts, TypeOK
  <1>9. ASSUME NEW c \in Planets, GiveMainPlanet(c) PROVE Scripts'
    BY <1>9 DEF GiveMainPlanet, Scripts, TypeOK, Threads
  <1>10. CASE ClearReload
    BY <1>10 DEF ClearReload, Scripts
  <1>11. CASE Crash \/ Restart
    BY <1>11 DEF Crash, Restart, Scripts, Threads
  <1>12. CASE Enrol \/ CreateUniverse \/ Join
    BY <1>1, <1>12 DEF Enrol, CreateUniverse, Join
  <1>13. CASE EndLoad \/ LoopEnds \/ LoopGoesOn \/ Sleep \/ SaveWritten
    BY <1>1, <1>13 DEF EndLoad, LoopEnds, LoopGoesOn, Sleep, SaveWritten
  <1>14. CASE BeginRound \/ PopPlayer \/ EndCreate \/ FindOwners \/ LockReload \/ Play
              \/ Publish \/ AbortRound
    BY <1>1, <1>14 DEF BeginRound, PopPlayer, EndCreate, FindOwners, LockReload, Play, Publish,
                       AbortRound, InRound
  <1>15. CASE UNCHANGED vars
    BY <1>1, <1>15 DEF vars
  <1> QED
    BY <1>2, <1>3, <1>4, <1>5, <1>6, <1>7, <1>8, <1>9, <1>10, <1>11, <1>12, <1>13, <1>14, <1>15
       DEF Next, CallStep, SimStep, ReadOnly, DrawAgain

-----------------------------------------------------------------------------
(* Players who wait.                                                       *)

\* A player without a planet passes from the sign-up to the queue, and from the queue to
\* the round that serves it; a start queues again all who wait.
LEMMA WaitStep == TypeOK /\ Threads /\ NobodyForgotten /\ [Next]_vars => NobodyForgotten'
  <1> SUFFICES ASSUME TypeOK, Threads, NobodyForgotten, [Next]_vars PROVE NobodyForgotten'
    OBVIOUS
  <1> USE DEF WithoutPlanet, callVars, workVars, sharedVars, dbVars, auxVars
  \* The steps that leave the queue and the players alone.
  <1>1. ASSUME UNCHANGED <<known, mainPlanet, queue, dropped>>,
               UNCHANGED <<rpc, client>> \/ rpc # "enrol",
               (sim' = sim /\ newcomer' = newcomer) \/ sim \notin {"off", "give"} \/ sim' = "off"
        PROVE  NobodyForgotten'
    BY <1>1 DEF NobodyForgotten
  <1>2. ASSUME NEW p \in Player, AddPlayer(p) PROVE NobodyForgotten'
    BY <1>2 DEF AddPlayer, NobodyForgotten, TypeOK
  <1>3. CASE Enrol
    <2>1. Range(queue') = Range(queue) \cup {client}
      BY <1>3, Queued DEF Enrol, TypeOK, Threads
    <2> QED
      BY <1>3, <2>1 DEF Enrol, NobodyForgotten
  <1>4. CASE PopPlayer
    <2>1. Range(queue) = {newcomer'} \cup Range(queue')
      BY <1>4, Popped DEF PopPlayer, TypeOK
    <2> QED
      BY <1>4, <2>1 DEF PopPlayer, NobodyForgotten
  <1>5. ASSUME NEW c \in Planets, GiveMainPlanet(c) PROVE NobodyForgotten'
    BY <1>5, NullAssumption DEF GiveMainPlanet, NobodyForgotten, TypeOK
  <1>6. CASE ClearPlayers \/ ClearScripts \/ ClearPlanets \/ (\E p \in Player : ConstructScript(p))
    <2>1. sim' = "off"
      BY <1>6 DEF ClearPlayers, ClearScripts, ClearPlanets, ConstructScript, Threads, Remaking
    <2> QED
      BY <2>1 DEF NobodyForgotten
  <1>7. ASSUME NEW p \in Player, NEW c \in Planets, ConstructMainPlanet(p, c)
        PROVE  NobodyForgotten'
    BY <1>7 DEF ConstructMainPlanet, Threads, Remaking, NobodyForgotten
  <1>8. CASE Start
    <2>1. \A p \in known' : mainPlanet'[p] # NoCoord
      BY <1>8 DEF Start
    <2> QED
      BY <2>1 DEF NobodyForgotten
  <1>9. CASE AbortRound
    <2>1. \A p \in WithoutPlanet' \ dropped' : p \in WithoutPlanet \ dropped
      BY <1>9 DEF AbortRound
    <2>2. sim = "give" => newcomer \notin WithoutPlanet' \ dropped'
      BY <1>9 DEF AbortRound
    <2> QED
      BY <1>9, <2>1, <2>2 DEF AbortRound, InRound, NobodyForgotten
  <1>10. CASE Crash
    BY <1>10 DEF Crash, NobodyForgotten
  <1>11. CASE Restart
    <2>1. WithoutPlanet \in SUBSET Player /\ IsFiniteSet(WithoutPlanet)
      BY FS_Subset DEF TypeOK, Threads
    <2>2. (queue' = queue /\ sim' = sim) \/ Range(queue') = WithoutPlanet
      BY <1>11, <2>1, Requeued DEF Restart, WaitAgain
    <2> QED
      BY <1>11, <2>2 DEF Restart, Threads, NobodyForgotten
  <1>12. ASSUME NEW p \in Player, SetCode(p) \/ ReadCode(p) PROVE NobodyForgotten'
    BY <1>1, <1>12 DEF SetCode, ReadCode
  <1>13. CASE Notify \/ CreateUniverse \/ Join
    BY <1>1, <1>13 DEF Notify, CreateUniverse, Join
  <1>14. CASE LoadPlayers \/ EndLoad \/ LoopEnds \/ LoopGoesOn \/ Sleep \/ SaveWritten
    BY <1>1, <1>14 DEF LoadPlayers, EndLoad, LoopEnds, LoopGoesOn, Sleep, SaveWritten
  <1>15. CASE BeginRound \/ EndCreate \/ FindOwners \/ LockReload \/ ClearReload \/ Play \/ Publish
    BY <1>1, <1>15 DEF BeginRound, EndCreate, FindOwners, LockReload, ClearReload, Play, Publish
  <1>16. CASE UNCHANGED vars
    BY <1>1, <1>16 DEF vars
  <1> QED
    BY <1>2, <1>3, <1>4, <1>5, <1>6, <1>7, <1>8, <1>9, <1>10, <1>11, <1>12, <1>13, <1>14, <1>15,
       <1>16 DEF Next, CallStep, SimStep, ReadOnly, DrawAgain

-----------------------------------------------------------------------------
(* Owners.                                                                 *)

\* A round whose owners are not all in the database does not come to publish them, and
\* nobody is erased while there is a universe, unless an older one is loaded again.
LEMMA OwnersStep == TypeOK /\ Threads /\ Registered /\ [Next]_vars => Registered'
  <1> SUFFICES ASSUME TypeOK, Threads, Registered, [Next]_vars PROVE Registered'
    OBVIOUS
  <1> USE DEF Current, callVars, workVars, sharedVars, dbVars, auxVars
  <1> DEFINE Checked == {"reload", "codes", "play", "publish"}
  <1>0. /\ {crashes, era} \subseteq Nat /\ univ # NoUniverse /\ univ \in Universe
        /\ copy # NoUniverse <=> InRound
    BY UniverseAssumption DEF Threads, TypeOK
  \* The steps that leave all universes alone and forget no player.
  <1>1. ASSUME UNCHANGED <<univ, clone, newestSave, era>>, known \subseteq known',
               crashes' = 0 => crashes = 0,
               copy' = copy \/ copy' = NoUniverse,
               sim' \in Checked => sim \in Checked /\ copy' = copy
        PROVE  Registered'
    BY <1>1 DEF Registered, Owners
  <1>2. CASE ClearPlayers
    <2>1. /\ sim' = sim /\ sim = "off" /\ copy' = copy /\ copy = NoUniverse
          /\ UNCHANGED <<clone, newestSave, crashes>>
          /\ univ' = EmptyUniverse(era')
          /\ (known' = known /\ era' = era) \/ era' = era + 1
      BY <1>0, <1>2 DEF ClearPlayers, Threads, Remaking, InRound
    <2>2. era' \in Nat /\ Owners(univ') = {} /\ univ'.era = era'
      BY <1>0, <2>1, Empty
    <2>3. Current(univ)'
      BY <2>2
    <2>4. /\ clone \in Universe \cup {NoUniverse} /\ newestSave \in Universe \cup {NoUniverse}
          /\ \A u \in Universe : u.era \in Nat
      BY DEF TypeOK, Universe
    <2>5. Current(clone)' /\ Current(newestSave)'
      BY <1>0, <2>1, <2>4 DEF Registered
    <2> QED
      BY <2>1, <2>2, <2>3, <2>5 DEF Registered
  <1>3. ASSUME NEW p \in Player, NEW c \in Planets, ConstructMainPlanet(p, c) PROVE Registered'
    <2>1. /\ rpc = "constructing" /\ p \in known /\ univ' = Give(univ, p, c)
          /\ UNCHANGED <<sim, known, copy, clone, newestSave, crashes, era>>
      BY <1>3 DEF ConstructMainPlanet
    <2>2. Owners(univ') \subseteq Owners(univ) \cup {p}
      BY <1>0, <2>1, Given
    <2>3. univ'.era = univ.era
      BY <2>1 DEF Give
    <2>4. sim \notin Checked /\ copy = NoUniverse
      BY <1>0, <2>1 DEF Threads, Remaking, InRound
    <2> QED
      BY <1>0, <2>1, <2>2, <2>3, <2>4 DEF Registered
  <1>4. CASE LoopGoesOn
    BY <1>0, <1>4 DEF LoopGoesOn, Registered
  <1>5. CASE SaveWritten
    BY <1>5 DEF SaveWritten, Registered
  <1>6. CASE FindOwners
    BY <1>0, <1>6 DEF FindOwners, Registered, InRound
  <1>7. CASE Play
    <2>1. copy \in Universe /\ copy' \in Universe /\ copy'.era = copy.era
          /\ Owners(copy') \subseteq Owners(copy)
      BY <1>7, Outcome DEF Play, TypeOK, InRound
    <2> QED
      BY <1>0, <1>7, <2>1, UniverseAssumption DEF Play, Registered
  <1>8. CASE Publish
    BY <1>0, <1>8 DEF Publish, Registered, InRound
  <1>9. CASE Crash
    <2>1. Owners(univ') = {} /\ univ'.era = era /\ crashes' # 0
      BY <1>0, <1>9, Empty DEF Crash
    <2> QED
      BY <1>0, <1>9, <2>1 DEF Crash, Registered
  <1>10. CASE Restart
    <2>1. crashes # 0 /\ sim' \notin Checked /\ copy = NoUniverse
          /\ UNCHANGED <<crashes, era, known, clone, newestSave, copy>>
      BY <1>0, <1>10 DEF Restart, Threads, InRound
    <2>2. univ' \in {univ, newestSave}
      BY <1>10 DEF Restart
    <2> QED
      BY <2>1, <2>2 DEF Registered
  <1>11. CASE BeginRound
    BY <1>0, <1>11 DEF BeginRound, Registered
  <1>12. ASSUME NEW c \in Planets, GiveMainPlanet(c) PROVE Registered'
    <2>1. /\ copy \in Universe /\ newcomer \in Player /\ copy' = Give(copy, newcomer, c)
          /\ sim' = "create" /\ UNCHANGED <<univ, clone, newestSave, era, known, crashes>>
      BY <1>0, <1>12 DEF GiveMainPlanet, TypeOK, InRound, Threads
    <2>2. copy'.era = copy.era /\ copy # NoUniverse
      BY <2>1, UniverseAssumption DEF Give
    <2> QED
      BY <2>1, <2>2 DEF Registered
  <1>13. ASSUME NEW p \in Player, AddPlayer(p) \/ SetCode(p) \/ ReadCode(p) \/ ConstructScript(p)
         PROVE  Registered'
    BY <1>1, <1>13 DEF AddPlayer, SetCode, ReadCode, ConstructScript
  <1>14. CASE Enrol \/ Notify \/ CreateUniverse \/ Join \/ ClearScripts \/ ClearPlanets \/ Start
    BY <1>1, <1>14 DEF Enrol, Notify, CreateUniverse, Join, ClearScripts, ClearPlanets, Start
  <1>15. CASE LoadPlayers \/ EndLoad \/ LoopEnds \/ Sleep \/ PopPlayer \/ EndCreate
    BY <1>1, <1>15 DEF LoadPlayers, EndLoad, LoopEnds, Sleep, PopPlayer, EndCreate
  <1>16. CASE LockReload \/ ClearReload \/ AbortRound
    BY <1>1, <1>16 DEF LockReload, ClearReload, AbortRound
  <1>17. CASE UNCHANGED vars
    BY <1>1, <1>17 DEF vars
  <1> QED
    BY <1>2, <1>3, <1>4, <1>5, <1>6, <1>7, <1>8, <1>9, <1>10, <1>11, <1>12, <1>13, <1>14, <1>15,
       <1>16, <1>17 DEF Next, CallStep, SimStep, ReadOnly, DrawAgain

-----------------------------------------------------------------------------
(* Main planets.                                                           *)

\* Where no fault has happened, none happened before, and no new universe is being made.
LEMMA NoFault ==
  ASSUME TypeOK, Threads, [Next]_vars, Faultless'
  PROVE  /\ Faultless
         /\ rpc \notin Remaking \cup {"down", "stopping"}
         /\ ~Crash /\ ~AbortRound /\ ~CreateUniverse
  <1> USE DEF callVars, workVars, sharedVars, dbVars, auxVars
  <1>1. {crashes, aborts, universes} \subseteq Nat
    BY DEF Threads
  <1>2. ~Crash /\ ~AbortRound /\ ~CreateUniverse
    BY <1>1 DEF Crash, AbortRound, CreateUniverse, Faultless
  <1>3. UNCHANGED <<crashes, aborts, universes>>
    BY <1>2 DEF Next, CallStep, SimStep, ReadOnly, DrawAgain, AddPlayer, Enrol, SetCode, Notify,
                Join, ClearPlayers, ClearScripts, ClearPlanets, ConstructMainPlanet,
                ConstructScript, Start, LoadPlayers, ReadCode, EndLoad, LoopEnds,
                LoopGoesOn, Sleep, SaveWritten, BeginRound, PopPlayer, GiveMainPlanet, EndCreate,
                FindOwners, LockReload, ClearReload, Play, Publish, Restart, vars
  <1>4. Faultless
    BY <1>3 DEF Faultless
  <1> QED
    BY <1>2, <1>4 DEF Threads, Faultless

\* Without a crash, an aborted round or a new universe, only these steps touch what Settled
\* speaks about; the others leave the homes and the tickets alone.
LEMMA HomesStep == TypeOK /\ Threads /\ Settled /\ [Next]_vars => Settled'
  <1> SUFFICES ASSUME TypeOK, Threads, Settled, [Next]_vars, Faultless'
      PROVE  Homes(Played)' /\ OneTicket'
    BY DEF Settled
  <1> USE DEF callVars, workVars, sharedVars, dbVars, auxVars
  <1>1. /\ Faultless
        /\ rpc \notin Remaking \cup {"down", "stopping"}
        /\ ~Crash /\ ~AbortRound /\ ~CreateUniverse
    BY NoFault
  <1>2. Homes(Played) /\ OneTicket /\ Played \in Universe
    BY <1>1 DEF Settled, Played, TypeOK
  \* The steps that leave the universe played, the players and the queue alone.
  <1>3. ASSUME UNCHANGED <<known, mainPlanet, queue>>, Played' = Played,
               rpc' = "enrol" => rpc = "enrol" /\ client' = client,
               sim' = "give" => sim = "give" /\ newcomer' = newcomer
        PROVE  Homes(Played)' /\ OneTicket'
    BY <1>2, <1>3 DEF Homes, OneTicket, WithoutPlanet
  <1>4. ASSUME NEW p \in Player, AddPlayer(p) PROVE Homes(Played)' /\ OneTicket'
    <2>1. /\ p \notin known /\ known' = known \cup {p} /\ client' = p /\ rpc = "ready"
          /\ mainPlanet' = [mainPlanet EXCEPT ![p] = NoCoord]
          /\ UNCHANGED <<univ, copy, queue, sim, newcomer>>
      BY <1>4 DEF AddPlayer
    <2>2. Played' = Played
      BY <2>1 DEF Played
    <2>3. /\ WithoutPlanet' = WithoutPlanet \cup {p} /\ p \notin WithoutPlanet
          /\ known' \ WithoutPlanet' = known \ WithoutPlanet
          /\ \A q \in known : mainPlanet'[q] = mainPlanet[q]
      BY <2>1 DEF WithoutPlanet, TypeOK
    <2>4. Homes(Played)'
      <3>1. \A c \in Played.home : c \in Planets /\ Played.owner[c] \in known
        BY <1>2 DEF Homes, Universe
      <3> QED
        BY <1>2, <2>2, <2>3, <3>1 DEF Homes
    <2>5. OneTicket'
      BY <1>2, <2>1, <2>3 DEF OneTicket
    <2> QED
      BY <2>4, <2>5
  <1>5. CASE Enrol
    <2>1. /\ Played' = Played /\ UNCHANGED <<known, mainPlanet, sim, newcomer>>
          /\ rpc = "enrol" /\ rpc' = "ready" /\ queue' = Append(queue, client)
      BY <1>5 DEF Enrol, Played
    <2>2. /\ Range(queue') = Range(queue) \cup {client}
          /\ IsInjective(queue')
      BY <1>2, <2>1, Queued DEF OneTicket, TypeOK, Threads
    <2> QED
      BY <1>2, <2>1, <2>2 DEF Homes, OneTicket, WithoutPlanet
  <1>6. CASE PopPlayer
    <2>1. /\ Played' = Played /\ UNCHANGED <<known, mainPlanet, rpc, client>>
          /\ queue # <<>> /\ newcomer' = Head(queue) /\ queue' = Tail(queue)
      BY <1>6 DEF PopPlayer, Played
    <2>2. /\ Range(queue) = {newcomer'} \cup Range(queue')
          /\ IsInjective(queue') /\ newcomer' \notin Range(queue')
      BY <1>2, <2>1, Popped DEF OneTicket, TypeOK
    <2> QED
      BY <1>2, <2>1, <2>2 DEF Homes, OneTicket, WithoutPlanet
  <1>7. ASSUME NEW c \in Planets, GiveMainPlanet(c) PROVE Homes(Played)' /\ OneTicket'
    <2>1. /\ sim = "give" /\ sim' = "create" /\ copy \in Universe /\ copy # NoUniverse
          /\ newcomer \in known /\ newcomer \in WithoutPlanet
          /\ copy.owner[c] = NoId
          /\ copy' = Give(copy, newcomer, c)
          /\ mainPlanet' = [mainPlanet EXCEPT ![newcomer] = c]
          /\ UNCHANGED <<known, queue, rpc, client>>
      BY <1>2, <1>7, UniverseAssumption
         DEF GiveMainPlanet, OneTicket, WithoutPlanet, TypeOK, InRound
    <2>2. /\ Played = copy /\ Played' = copy' /\ copy' \in Universe
          /\ copy'.owner = [copy.owner EXCEPT ![c] = newcomer]
          /\ copy'.home = copy.home \cup {c}
      <3>1. newcomer \in Player
        BY <2>1 DEF TypeOK
      <3>2. /\ copy' \in Universe
            /\ copy'.owner = [copy.owner EXCEPT ![c] = newcomer]
            /\ copy'.home = copy.home \cup {c}
        BY <2>1, <3>1, Given
      <3> QED
        BY <2>1, <3>2, UniverseAssumption DEF Played
    <2>3. WithoutPlanet' = WithoutPlanet \ {newcomer}
      BY <2>1, NullAssumption DEF WithoutPlanet, TypeOK
    <2>4. OneTicket'
      BY <1>2, <2>1, <2>3 DEF OneTicket
    <2>5. Homes(copy)
      BY <1>2, <2>2
    <2>6. Homes(copy)'
      <3>0. newcomer # NoId /\ newcomer \in Player
        BY <2>1, NullAssumption DEF TypeOK
      <3>1. ASSUME NEW d \in Planets, copy'.owner[d] # NoId
            PROVE  copy'.owner[d] \in known' \ WithoutPlanet'
        BY <2>1, <2>2, <2>3, <2>5, <3>1 DEF Homes, Universe
      <3>2. ASSUME NEW p \in known' \ WithoutPlanet' PROVE copy'.owner[mainPlanet'[p]] = p
        <4>1. CASE p = newcomer
          BY <2>1, <2>2, <4>1 DEF TypeOK, Universe
        <4>2. CASE p # newcomer
          <5>1. p \in known \ WithoutPlanet /\ mainPlanet'[p] = mainPlanet[p]
            BY <2>1, <2>3, <3>2, <4>2 DEF TypeOK
          <5>2. mainPlanet[p] \in Planets /\ copy.owner[mainPlanet[p]] = p /\ p # NoId
            BY <2>5, <5>1, NullAssumption DEF Homes, WithoutPlanet, TypeOK
          <5> QED
            BY <2>1, <2>2, <5>1, <5>2 DEF Universe
        <4> QED
          BY <4>1, <4>2
      <3>3. ASSUME NEW d \in copy'.home
            PROVE  copy'.owner[d] # NoId /\ mainPlanet'[copy'.owner[d]] = d
        <4>1. CASE d = c
          BY <2>1, <2>2, <3>0, <4>1 DEF TypeOK, Universe
        <4>2. CASE d # c
          <5>1. /\ d \in copy.home /\ d \in Planets /\ copy'.owner[d] = copy.owner[d]
                /\ copy.owner[d] # NoId /\ mainPlanet[copy.owner[d]] = d
            BY <2>1, <2>2, <2>5, <3>3, <4>2 DEF Homes, Universe
          <5>2. copy.owner[d] \in known \ WithoutPlanet
            BY <2>5, <5>1 DEF Homes
          <5> QED
            BY <2>1, <5>1, <5>2 DEF TypeOK
        <4> QED
          BY <4>1, <4>2
      <3> QED
        BY <3>1, <3>2, <3>3 DEF Homes
    <2> QED
      BY <2>2, <2>4, <2>6
  <1>8. CASE FindOwners
    <2>1. copy \in Universe /\ Played = copy
      BY <1>8 DEF FindOwners, TypeOK, InRound, Played
    <2>2. Owners(copy) \subseteq known
      BY <1>2, <2>1 DEF Homes, Owners
    <2>3. sim' = "reload" /\ UNCHANGED <<known, mainPlanet, queue, rpc, client, univ, copy>>
      BY <1>8, <2>2 DEF FindOwners
    <2> QED
      BY <1>3, <2>3 DEF Played
  <1>9. CASE Play
    <2>1. /\ copy \in Universe /\ copy # NoUniverse /\ copy' \in Outcomes(copy)
          /\ sim' = "publish" /\ UNCHANGED <<known, mainPlanet, queue, rpc, client, univ>>
      BY <1>9, UniverseAssumption DEF Play, TypeOK, InRound
    <2>2. /\ copy' \in Universe /\ Owners(copy') \subseteq Owners(copy)
          /\ copy'.home = {c \in copy.home : copy'.owner[c] # NoId}
          /\ \A c \in Planets : copy.owner[c] # NoId =>
               \/ copy'.owner[c] = copy.owner[c]
               \/ copy'.owner[c] = NoId /\ mainPlanet[copy.owner[c]] # c
      BY <2>1, Outcome
    <2>3. /\ Played = copy /\ Played' = copy' /\ WithoutPlanet' = WithoutPlanet
      BY <2>1, <2>2, UniverseAssumption DEF Played, WithoutPlanet
    <2>4. Homes(copy)
      BY <1>2, <2>3
    <2>5. \A c \in Planets : copy'.owner[c] # NoId => copy'.owner[c] \in known \ WithoutPlanet
      BY <2>2, <2>4 DEF Homes, Owners
    <2>6. \A p \in known \ WithoutPlanet : copy'.owner[mainPlanet[p]] = p
      <3> SUFFICES ASSUME NEW p \in known \ WithoutPlanet
                   PROVE  copy'.owner[mainPlanet[p]] = p
        OBVIOUS
      <3>1. /\ mainPlanet[p] \in Planets /\ p # NoId
            /\ copy.owner[mainPlanet[p]] = p
        BY <2>4, NullAssumption DEF Homes, WithoutPlanet, TypeOK
      <3> QED
        BY <2>2, <3>1
    <2>7. \A c \in copy'.home : copy'.owner[c] # NoId /\ mainPlanet[copy'.owner[c]] = c
      BY <2>1, <2>2, <2>4 DEF Homes, Universe
    <2>8. OneTicket'
      BY <1>2, <2>1, <2>3 DEF OneTicket
    <2> QED
      BY <2>1, <2>3, <2>5, <2>6, <2>7, <2>8 DEF Homes
  <1>10. CASE BeginRound
    <2>1. Played' = Played
      BY <1>10, UniverseAssumption DEF BeginRound, Played, TypeOK, InRound
    <2> QED
      BY <1>3, <1>10, <2>1 DEF BeginRound
  <1>11. CASE Publish
    <2>1. Played' = Played
      BY <1>11 DEF Publish, Played, TypeOK, InRound
    <2> QED
      BY <1>3, <1>11, <2>1 DEF Publish
  <1>12. ASSUME NEW p \in Player, SetCode(p) \/ ReadCode(p) PROVE Homes(Played)' /\ OneTicket'
    BY <1>3, <1>12 DEF SetCode, ReadCode, Played
  <1>13. CASE Notify \/ LoadPlayers \/ EndLoad \/ LoopEnds \/ LoopGoesOn \/ Sleep \/ SaveWritten
    BY <1>3, <1>13 DEF Notify, LoadPlayers, EndLoad, LoopEnds, LoopGoesOn, Sleep, SaveWritten, Played
  <1>14. CASE EndCreate \/ LockReload \/ ClearReload \/ UNCHANGED vars
    BY <1>3, <1>14 DEF EndCreate, LockReload, ClearReload, Played, vars
  <1>15. ~Join /\ ~ClearPlayers /\ ~ClearScripts /\ ~ClearPlanets /\ ~Start /\ ~Restart
         /\ \A q \in Player : ~ConstructScript(q)
         /\ \A p \in Player, c \in Planets : ~ConstructMainPlanet(p, c)
    BY <1>1 DEF Join, ClearPlayers, ClearScripts, ClearPlanets, Start, Restart, ConstructScript,
           ConstructMainPlanet, Remaking
  <1> QED
    BY <1>1, <1>4, <1>5, <1>6, <1>7, <1>8, <1>9, <1>10, <1>11, <1>12, <1>13, <1>14, <1>15
       DEF Next, CallStep, SimStep, ReadOnly, DrawAgain

\* What a round publishes has owners who were given planets, and nobody is erased.
LEMMA PublishedStep ==
  TypeOK /\ Threads /\ Settled /\ Published /\ [Next]_vars => Published'
  <1> SUFFICES ASSUME TypeOK, Threads, Settled, Published, [Next]_vars, Faultless'
      PROVE  Owners(univ)' \subseteq (known \ WithoutPlanet)'
    BY DEF Published
  <1> USE DEF callVars, workVars, sharedVars, dbVars, auxVars, WithoutPlanet
  <1>1. /\ Faultless
        /\ rpc \notin Remaking \cup {"down", "stopping"}
        /\ ~Crash /\ ~AbortRound /\ ~CreateUniverse
    BY NoFault
  <1>2. Owners(univ) \subseteq known \ WithoutPlanet
    BY <1>1 DEF Published
  <1>3. ASSUME univ' = univ, known' = known /\ mainPlanet' = mainPlanet
        PROVE  Owners(univ)' \subseteq (known \ WithoutPlanet)'
    BY <1>2, <1>3 DEF Owners
  <1>4. ASSUME NEW p \in Player, AddPlayer(p)
        PROVE  Owners(univ)' \subseteq (known \ WithoutPlanet)'
    <2>1. \A q \in known \ WithoutPlanet : q \in (known \ WithoutPlanet)'
      BY <1>4 DEF AddPlayer, TypeOK
    <2> QED
      BY <1>2, <1>4, <2>1 DEF AddPlayer, Owners
  <1>5. ASSUME NEW c \in Planets, GiveMainPlanet(c)
        PROVE  Owners(univ)' \subseteq (known \ WithoutPlanet)'
    <2>1. \A q \in known \ WithoutPlanet : q \in (known \ WithoutPlanet)'
      BY <1>5, NullAssumption DEF GiveMainPlanet, TypeOK
    <2> QED
      BY <1>2, <1>5, <2>1 DEF GiveMainPlanet, Owners
  <1>6. CASE Publish
    <2>1. copy \in Universe /\ Played = copy
      BY <1>6 DEF Publish, TypeOK, InRound, Played
    <2>2. Owners(copy) \subseteq known \ WithoutPlanet
      BY <1>1, <2>1 DEF Settled, Homes, Owners
    <2> QED
      BY <1>6, <2>2 DEF Publish, Owners
  <1>7. ~Join /\ ~ClearPlayers /\ ~ClearScripts /\ ~ClearPlanets /\ ~Start /\ ~Restart
        /\ \A q \in Player : ~ConstructScript(q)
        /\ \A p \in Player, c \in Planets : ~ConstructMainPlanet(p, c)
    BY <1>1 DEF Join, ClearPlayers, ClearScripts, ClearPlanets, Start, Restart, ConstructScript,
           ConstructMainPlanet, Remaking
  <1> QED
    BY <1>1, <1>3, <1>4, <1>5, <1>6, <1>7
       DEF Next, CallStep, SimStep, ReadOnly, DrawAgain, Enrol, SetCode, Notify, LoadPlayers,
           ReadCode, EndLoad, LoopEnds, LoopGoesOn, Sleep, SaveWritten, BeginRound, PopPlayer,
           EndCreate, FindOwners, LockReload, ClearReload, Play, vars

-----------------------------------------------------------------------------
(* The theorems.                                                           *)

\* The inductive invariant holds, from the first start or a saved empty universe on.
THEOREM EngineInductive == Spec => []IInv
  <1>1. Init => IInv
    <2> SUFFICES ASSUME Init PROVE IInv
      OBVIOUS
    <2>1. <<>> \in Seq(Player) /\ Range(<<>>) = {} /\ IsInjective(<<>>)
      BY EmptySeq DEF Range, IsInjective
    <2>2. IsFiniteSet({})
      BY FS_EmptySet
    <2>3. TypeOK /\ Threads /\ Scripts
      BY <2>1, <2>2, Empty, UniverseAssumption
         DEF Init, TypeOK, Threads, Scripts, InRound, WithoutPlanet, Remaking
    <2>4. NobodyForgotten
      BY DEF Init, NobodyForgotten, WithoutPlanet
    <2>5. Registered
      BY Empty DEF Init, Registered, Current
    <2>6. Settled
      <3>1. Played = EmptyUniverse(0) /\ known = {} /\ WithoutPlanet = {}
        BY DEF Init, Played, WithoutPlanet
      <3>2. Homes(Played)
        BY <3>1 DEF Homes, EmptyUniverse
      <3>3. OneTicket
        BY <2>1, <3>1 DEF Init, OneTicket
      <3> QED
        BY <3>2, <3>3 DEF Settled
    <2>7. Published
      BY Empty DEF Init, Published, WithoutPlanet
    <2> QED
      BY <2>3, <2>4, <2>5, <2>6, <2>7 DEF IInv
  <1>2. IInv /\ [Next]_vars => IInv'
    BY TypeStep, ScriptsStep, WaitStep, OwnersStep, HomesStep, PublishedStep DEF IInv
  <1> QED
    BY <1>1, <1>2, PTL DEF Spec

\* Every variable keeps its type; in particular a round works on a copy, and nothing else does.
THEOREM EngineTypes == Spec => []TypeOK
  <1>1. IInv => TypeOK
    BY DEF IInv
  <1> QED
    BY <1>1, EngineInductive, PTL

\* No script saved is lost between setPlayerFleetCode and updatePlayersCode, however many
\* players, rounds, exceptions, crashes and new universes there are.
THEOREM SavedScriptsRun == Spec => []ScriptsFresh
  <1>1. IInv => ScriptsFresh
    BY DEF IInv, Scripts, Fresh, ScriptsFresh
  <1> QED
    BY <1>1, EngineInductive, PTL

\* A player without a planet is signing up, or queued, or being served, through any number of
\* crashes and new universes, unless an exception ended the round that had just popped it.
THEOREM NobodyIsForgotten == Spec => []NobodyForgotten
  <1>1. IInv => NobodyForgotten
    BY DEF IInv
  <1> QED
    BY <1>1, EngineInductive, PTL

\* MAP_FIND finds the owners of all planets of the published universe, unless a crash made the
\* server load a save older than the rows of Player; and the newest save, once it was made
\* after them, is one that a crash may load.
THEOREM OwnersAreKnown == Spec => []OwnersKnown
  <1>1. IInv => OwnersKnown
    BY UniverseAssumption DEF IInv, TypeOK, Registered, Current, OwnersKnown
  <1> QED
    BY <1>1, EngineInductive, PTL

\* Until a fault or a new universe, a player owns the main planet the database names.
THEOREM PlanetsAreGiven == Spec => [](Faultless => PlanetGiven)
  <1>1. IInv => (Faultless => PlanetGiven)
    BY DEF IInv, Settled, Homes, PlanetGiven
  <1> QED
    BY <1>1, EngineInductive, PTL

\* Until a fault or a new universe, nobody is given two main planets.
THEOREM OneHomeEach == Spec => [](Faultless => OneHome)
  <1>1. IInv => (Faultless => OneHome)
    BY DEF IInv, Settled, Homes, OneHome
  <1> QED
    BY <1>1, EngineInductive, PTL

\* The server keeps its promise to a player, step by step: until a fault or a new universe,
\* every step of its threads is a sign-up or a publication of module Enrolment, or changes
\* nothing a player sees; nobody who has a planet goes back to having none.
THEOREM PromiseIsKept ==
  Spec => Promise!Init /\ [][Faultless' => [Promise!Next]_Status]_vars
  <1>1. Init => Promise!Init
    BY Empty DEF Init, Promise!Init, Status
  <1>2. IInv /\ IInv' /\ [Next]_vars => [Faultless' => [Promise!Next]_Status]_vars
    <2> SUFFICES ASSUME IInv, IInv', Next, Faultless' PROVE Promise!Next \/ UNCHANGED Status
      BY DEF vars, callVars, workVars, sharedVars, dbVars, auxVars
    <2> USE DEF callVars, workVars, sharedVars, dbVars, auxVars
    <2>1. /\ Faultless
          /\ rpc \notin Remaking \cup {"down", "stopping"}
          /\ ~Crash /\ ~AbortRound /\ ~CreateUniverse
      BY NoFault DEF IInv
    <2>2. Owners(univ) \subseteq known /\ Owners(univ) \subseteq known \ WithoutPlanet
      BY <2>1 DEF IInv, Published
    <2>3. ASSUME univ' = univ, known' = known PROVE UNCHANGED Status
      BY <2>3 DEF Status, Owners
    <2>4. ASSUME NEW p \in Player, AddPlayer(p) PROVE Promise!Next
      <3>1. p \notin known /\ known' = known \cup {p} /\ univ' = univ
        BY <2>4 DEF AddPlayer
      <3>2. Status[p] = "unknown" /\ Status' = [Status EXCEPT ![p] = "waiting"]
        BY <2>2, <3>1 DEF Status, Owners
      <3> QED
        BY <3>2 DEF Promise!Next, Promise!SignUp
    <2>5. CASE Publish
      <3> DEFINE S == Owners(copy) \ Owners(univ)
      <3>1. /\ copy \in Universe /\ Played = copy /\ univ' = copy
            /\ UNCHANGED <<known, mainPlanet>>
        BY <2>5 DEF Publish, IInv, TypeOK, InRound, Played
      <3>2. Homes(copy)
        BY <2>1, <3>1 DEF IInv, Settled
      <3>3. Owners(copy) \subseteq known
        BY <3>2 DEF Homes, Owners
      <3>4. Owners(univ) \subseteq Owners(copy)
        <4> SUFFICES ASSUME NEW p \in Owners(univ) PROVE p \in Owners(copy)
          OBVIOUS
        <4>1. p \in known \ WithoutPlanet /\ p \in Player /\ p # NoId
          BY <2>2, NullAssumption DEF IInv, TypeOK
        <4>2. mainPlanet[p] \in Planets /\ copy.owner[mainPlanet[p]] = p
          BY <3>2, <4>1 DEF Homes, WithoutPlanet, IInv, TypeOK
        <4> QED
          BY <4>1, <4>2 DEF Owners
      <3>5. Owners(univ)' = Owners(copy)
        BY <3>1 DEF Owners
      <3>6. \A p \in S : p \in Player /\ Status[p] = "waiting"
        BY <3>3 DEF Status, IInv, TypeOK
      <3>7. Status' = [p \in Player |-> IF p \in S THEN "settled" ELSE Status[p]]
        <4>1. ASSUME NEW p \in Player
              PROVE  Status'[p] = IF p \in S THEN "settled" ELSE Status[p]
          BY <3>1, <3>3, <3>4, <3>5 DEF Status
        <4> QED
          BY <4>1 DEF Status
      <3>8. CASE S = {}
        BY <3>7, <3>8 DEF Status
      <3>9. CASE S # {}
        <4>1. Promise!Settle(S) /\ S \in SUBSET Player
          BY <3>6, <3>7, <3>9 DEF Promise!Settle
        <4> QED
          BY <4>1 DEF Promise!Next
      <3> QED
        BY <3>8, <3>9
    <2>6. ~Join /\ ~ClearPlayers /\ ~ClearScripts /\ ~ClearPlanets /\ ~Start /\ ~Restart
          /\ \A q \in Player : ~ConstructScript(q)
          /\ \A p \in Player, c \in Planets : ~ConstructMainPlanet(p, c)
      BY <2>1 DEF Join, ClearPlayers, ClearScripts, ClearPlanets, Start, Restart, ConstructScript,
           ConstructMainPlanet, Remaking
    <2> QED
      BY <2>1, <2>3, <2>4, <2>5, <2>6
         DEF Next, CallStep, SimStep, ReadOnly, DrawAgain, Enrol, SetCode, Notify, LoadPlayers,
             ReadCode, EndLoad, LoopEnds, LoopGoesOn, Sleep, SaveWritten, BeginRound, PopPlayer,
             GiveMainPlanet, EndCreate, FindOwners, LockReload, ClearReload, Play, vars
  <1> QED
    BY <1>1, <1>2, EngineInductive, PTL DEF Spec
=============================================================================
