------------------------------ MODULE Accounts ------------------------------
(***************************************************************************)
(* What the database keeps of the players beside their scripts: friends,   *)
(* alliances, experience and skills (DataBase.cpp), as the remote calls    *)
(* and the rounds of the simulation thread change and read it.             *)
(*                                                                         *)
(* Remote calls are served one at a time; a call that commits more than    *)
(* once, or reads what it changes later, is one action per statement, and  *)
(* the simulation thread and a crash come between.  Players and alliances  *)
(* are known by their AUTO_INCREMENT numbers.                              *)
(***************************************************************************)
EXTENDS Integers, FiniteSets, Functions

CONSTANTS MaxPlayer,     \* bound on the number of players
          MaxAlliance,   \* bound on the number of alliances
          Skill,         \* the skills (Skill::Enum)
          SkillBase,     \* a level costs SkillBase ^ (level + SkillFirst)
          SkillFirst,    \*   skill points
          SkillTop,      \* the level that cannot be upgraded (canUpgrade), or a
                         \*   bound on the level
          XPPerSkillPoints,
          MaxGain,       \* bound on the experience of one round
          MaxXP,         \* bound on the experience of a player
          MaxCrash       \* bound on the number of crashes

ASSUME AccountBoundsAssumption ==
  /\ MaxPlayer \in Nat /\ MaxAlliance \in Nat /\ MaxGain \in Nat /\ MaxXP \in Nat
  /\ MaxCrash \in Nat
ASSUME SkillAssumption ==
  /\ IsFiniteSet(Skill)
  /\ SkillBase \in [Skill -> Nat \ {0}]
  /\ SkillFirst \in [Skill -> Nat] /\ SkillTop \in [Skill -> Nat]
  /\ XPPerSkillPoints \in Nat \ {0}

SkillCost(s, level) == SkillBase[s] ^ (level + SkillFirst[s])

ASSUME CostAssumption ==
  \A s \in Skill : \A level \in 0 .. SkillTop[s] : SkillCost(s, level) \in Nat

VARIABLES
  players,      \* table Player: the players are 1 .. players
  allianceOf,   \*   Player.allianceID
  experience,   \*   Player.experience
  skillpoints,  \*   Player.skillpoints
  skilltab,     \*   Player.skilltab
  requests,     \* table FriendshipRequest: pairs of a sender and a recipient
  friends,      \* table Friendship: pairs in order
  master,       \* table Alliance: id -> masterID
  lastId,       \*   its AUTO_INCREMENT
  call,         \* the remote call that has begun
  round,        \* where the round is: "none", "players", "looked"
  seen,         \*   allianceID of the players it has read
  outcome,      \*   what the lookups of the last round found
  changed,      \* history: since the round read the players an alliance was
                \*   erased, or given to a player it has not read; or it read
                \*   a member of an alliance without master
  crashes

playerTable == <<players, allianceOf, experience, skillpoints, skilltab>>
friendTable == <<requests, friends>>
allyTable   == <<master, lastId>>
roundVars   == <<round, seen, outcome>>
vars == <<playerTable, friendTable, allyTable, call, roundVars, changed, crashes>>

Player    == 1 .. players
Alliance  == 1 .. MaxAlliance
NoId      == 0
Idle      == [op |-> "none"]

TypeOK ==
  /\ players \in 0 .. MaxPlayer
  /\ allianceOf \in [Player -> Alliance \cup {NoId}]
  /\ experience \in [Player -> Nat] /\ skillpoints \in [Player -> Nat]
  /\ skilltab \in [Player -> [Skill -> Nat]]
  /\ \A p \in Player, s \in Skill : skilltab[p][s] <= SkillTop[s]
  /\ requests \subseteq (1 .. MaxPlayer) \X (1 .. MaxPlayer)
  /\ friends \subseteq {f \in (1 .. MaxPlayer) \X (1 .. MaxPlayer) : f[1] < f[2]}
  /\ master \in [DOMAIN master -> 1 .. MaxPlayer] /\ DOMAIN master \subseteq 1 .. lastId
  /\ lastId \in 0 .. MaxAlliance
  /\ round \in {"none", "players", "looked"}
  /\ DOMAIN seen \subseteq Player /\ seen \in [DOMAIN seen -> Alliance \cup {NoId}]
  /\ outcome \in {"none", "found", "missing"}
  /\ changed \in BOOLEAN /\ crashes \in 0 .. MaxCrash

Nobody == [p \in {} |-> NoId]

Init ==
  /\ players = 0 /\ allianceOf = Nobody
  /\ experience = Nobody /\ skillpoints = Nobody /\ skilltab = Nobody
  /\ requests = {} /\ friends = {}
  /\ master = Nobody /\ lastId = 0
  /\ call = Idle
  /\ round = "none" /\ seen = Nobody /\ outcome = "none"
  /\ changed = FALSE /\ crashes = 0

Append1(f, x) == [p \in 1 .. players + 1 |-> IF p = players + 1 THEN x ELSE f[p]]

\* An alliance is given to p, in the middle of a round that may not know p.
Given(p) == changed' = (changed \/ (round = "players" /\ p \notin DOMAIN seen))

\* A new player has no alliance, no experience and no skill.  He becomes the master of
\* an alliance that a clearing cut off by a crash has left to his number.
AddPlayer ==
  /\ call = Idle /\ players < MaxPlayer
  /\ players' = players + 1
  /\ allianceOf' = Append1(allianceOf, NoId)
  /\ experience' = Append1(experience, 0) /\ skillpoints' = Append1(skillpoints, 0)
  /\ skilltab' = Append1(skilltab, [s \in Skill |-> 0])
  /\ IF \E a \in DOMAIN master : master[a] = players' THEN Given(players')
                                                      ELSE UNCHANGED changed
  /\ UNCHANGED <<friendTable, allyTable, call, roundVars, crashes>>

-----------------------------------------------------------------------------
(* Friends.                                                                *)

\* Mutant: a friendship is stored as it was asked for.
AsAsked(p, q) == <<p, q>>

\* The order in which a friendship is stored.
Ordered(p, q) == IF p > q THEN <<q, p>> ELSE <<p, q>>

OnlyFriends == UNCHANGED <<playerTable, allyTable, call, roundVars, changed, crashes>>

\* Mutant: a request the other way is not looked for.
AddRequestBlind(p, q) ==
  /\ call = Idle
  /\ requests' = IF p = q THEN requests ELSE requests \cup {<<p, q>>}
  /\ UNCHANGED friends
  /\ OnlyFriends

\* A request the other way is accepted; otherwise the request is kept once.
AddFriendshipRequest(p, q) ==
  /\ call = Idle /\ p # q
  /\ IF <<q, p>> \in requests
       THEN /\ friends' = friends \cup {Ordered(p, q)}
            /\ requests' = requests \ {<<q, p>>}
       ELSE requests' = requests \cup {<<p, q>>} /\ UNCHANGED friends
  /\ OnlyFriends

\* Mutant: the request is not looked for; it may have been withdrawn.
AcceptUnasked(sender, p, accept) ==
  /\ call = Idle
  /\ friends' = IF accept /\ sender # p THEN friends \cup {Ordered(sender, p)} ELSE friends
  /\ requests' = requests \ {<<sender, p>>}
  /\ OnlyFriends

\* The recipient accepts or refuses; the sender withdraws by a refusal.  The page the
\* call comes from may be old: the request need not be there any more.
AcceptFriendshipRequest(sender, p, accept) ==
  /\ call = Idle
  /\ friends' = IF accept /\ sender # p /\ <<sender, p>> \in requests
                  THEN friends \cup {Ordered(sender, p)} ELSE friends
  /\ requests' = requests \ {<<sender, p>>}
  /\ OnlyFriends

CloseFriendship(p, q) ==
  /\ call = Idle
  /\ friends' = friends \ {Ordered(p, q)}
  /\ UNCHANGED requests
  /\ OnlyFriends

-----------------------------------------------------------------------------
(* Alliances.                                                              *)

\* The master is unique: a player who still owns an alliance founds none, and nothing
\* changes either when the name is taken.
AddAlliance(p) ==
  /\ call = Idle /\ lastId < MaxAlliance
  /\ \A a \in DOMAIN master : master[a] # p
  /\ lastId' = lastId + 1
  /\ master' = [a \in DOMAIN master \cup {lastId'} |->
                  IF a = lastId' THEN p ELSE master[a]]
  /\ allianceOf' = [allianceOf EXCEPT ![p] = lastId']
  /\ Given(p)
  /\ UNCHANGED <<players, experience, skillpoints, skilltab, friendTable, call, roundVars,
                 crashes>>

\* Only alliances with a master who exists are read (INNER JOIN); a clearing cut off by a
\* crash leaves others.
Listed == {a \in DOMAIN master : master[a] \in Player}

\* The foreign key refuses an alliance that was erased.
JoinAlliance(p, a) ==
  /\ call = Idle /\ a \in DOMAIN master
  /\ allianceOf' = [allianceOf EXCEPT ![p] = a]
  /\ UNCHANGED <<players, experience, skillpoints, skilltab, friendTable, allyTable, call,
                 roundVars, changed, crashes>>

\* A member becomes the master, unless he owns another alliance; who asks is not tested.
TransfertAlliance(a, p) ==
  /\ call = Idle
  /\ a \in DOMAIN master /\ allianceOf[p] = a
  /\ \A b \in DOMAIN master : master[b] = p => b = a
  /\ master' = [master EXCEPT ![a] = p]
  /\ Given(p)
  /\ UNCHANGED <<playerTable, friendTable, lastId, call, roundVars, crashes>>

\* Mutant: the player leaves first and is asked for his alliance afterwards.
QuitForgets(p) ==
  /\ call = Idle /\ allianceOf[p] # NoId
  /\ call' = [op |-> "quit", pid |-> p, alliance |-> allianceOf[p], master |-> NoId]
  /\ UNCHANGED <<playerTable, friendTable, allyTable, roundVars, changed, crashes>>

\* quitAlliance reads the player and the alliance ...
QuitAlliance(p) ==
  /\ call = Idle /\ allianceOf[p] # NoId
  /\ call' = [op |-> "quit", pid |-> p, alliance |-> allianceOf[p],
              master |-> IF allianceOf[p] \in Listed THEN master[allianceOf[p]] ELSE NoId]
  /\ UNCHANGED <<playerTable, friendTable, allyTable, roundVars, changed, crashes>>

\* ... lets the player go ...
LeaveAlliance ==
  /\ call.op = "quit"
  /\ allianceOf' = [allianceOf EXCEPT ![call.pid] = NoId]
  /\ call' = IF call.master = call.pid THEN [call EXCEPT !.op = "erase"] ELSE Idle
  /\ UNCHANGED <<players, experience, skillpoints, skilltab, friendTable, allyTable,
                 roundVars, changed, crashes>>

\* eraseAlliance as a call of its own, which no page makes but the service offers: the
\* alliance need not be there.
DissolveAlliance(a) ==
  /\ call = Idle
  /\ call' = [op |-> "erase", pid |-> NoId, alliance |-> a, master |-> NoId]
  /\ UNCHANGED <<playerTable, friendTable, allyTable, roundVars, changed, crashes>>

\* Mutant: the members are left in the alliance (no ON DELETE SET NULL).
EraseAlone ==
  /\ call.op = "erase"
  /\ master' = [a \in DOMAIN master \ {call.alliance} |-> master[a]]
  /\ changed' = (changed \/ (round = "players" /\ call.alliance \in DOMAIN master))
  /\ call' = Idle
  /\ UNCHANGED <<playerTable, lastId, friendTable, roundVars, crashes>>

\* ... and dissolves the alliance when he was its master; its members have none then.
EraseAlliance ==
  /\ call.op = "erase"
  /\ master' = [a \in DOMAIN master \ {call.alliance} |-> master[a]]
  /\ allianceOf' = [p \in Player |->
                      IF allianceOf[p] = call.alliance THEN NoId ELSE allianceOf[p]]
  /\ changed' = (changed \/ (round = "players" /\ call.alliance \in DOMAIN master))
  /\ call' = Idle
  /\ UNCHANGED <<players, experience, skillpoints, skilltab, lastId, friendTable, roundVars,
                 crashes>>

-----------------------------------------------------------------------------
(* Experience and skills.                                                  *)

\* buySkill reads the player ...
BuySkill(p, s) ==
  /\ call = Idle
  /\ skilltab[p][s] < SkillTop[s]
  /\ skillpoints[p] >= SkillCost(s, skilltab[p][s]) * XPPerSkillPoints
  /\ call' = [op |-> "buy", pid |-> p, skill |-> s, tab |-> skilltab[p],
              points |-> skillpoints[p]]
  /\ UNCHANGED <<playerTable, friendTable, allyTable, roundVars, changed, crashes>>

\* Mutant: the points are written as they were read, less the price.
PayAbsolute ==
  /\ call.op = "buy"
  /\ skillpoints' = [skillpoints EXCEPT ![call.pid] =
       call.points - SkillCost(call.skill, call.tab[call.skill]) * XPPerSkillPoints]
  /\ skilltab' = [skilltab EXCEPT ![call.pid] = [call.tab EXCEPT ![call.skill] = @ + 1]]
  /\ call' = Idle
  /\ UNCHANGED <<players, allianceOf, experience, friendTable, allyTable, roundVars, changed,
                 crashes>>

\* ... and writes the levels it has read, one raised, and the points less the price.
PaySkill ==
  /\ call.op = "buy"
  /\ skillpoints' = [skillpoints EXCEPT ![call.pid] =
       @ - SkillCost(call.skill, call.tab[call.skill]) * XPPerSkillPoints]
  /\ skilltab' = [skilltab EXCEPT ![call.pid] = [call.tab EXCEPT ![call.skill] = @ + 1]]
  /\ call' = Idle
  /\ UNCHANGED <<players, allianceOf, experience, friendTable, allyTable, roundVars, changed,
                 crashes>>

-----------------------------------------------------------------------------
(* A new universe: the tables are cleared one by one while no round runs;  *)
(* TRUNCATE commits.                                                       *)

Clear(keepPlayers) ==
  /\ call = Idle /\ round = "none" /\ outcome' = "none"
  /\ call' = [op |-> "clear", next |-> IF keepPlayers THEN "scores" ELSE "players"]
  /\ UNCHANGED <<playerTable, friendTable, allyTable, round, seen, changed, crashes>>

Clearing(table, next) ==
  /\ call.op = "clear" /\ call.next = table
  /\ call' = [call EXCEPT !.next = next]
  /\ UNCHANGED <<roundVars, changed, crashes>>

ClearPlayers ==
  /\ Clearing("players", "requests")
  /\ players' = 0 /\ allianceOf' = Nobody
  /\ experience' = Nobody /\ skillpoints' = Nobody /\ skilltab' = Nobody
  /\ UNCHANGED <<friendTable, allyTable>>

ClearRequests ==
  /\ Clearing("requests", "friends")
  /\ requests' = {}
  /\ UNCHANGED <<playerTable, friends, allyTable>>

ClearFriends ==
  /\ Clearing("friends", "alliances")
  /\ friends' = {}
  /\ UNCHANGED <<playerTable, requests, allyTable>>

ClearAlliances ==
  /\ Clearing("alliances", "scores")
  /\ master' = Nobody /\ lastId' = 0
  /\ UNCHANGED <<playerTable, friendTable>>

\* The players who stay begin anew; their friends and alliances stay with them.
ClearScores ==
  /\ call.op = "clear" /\ call.next = "scores"
  /\ experience' = [p \in Player |-> 0] /\ skillpoints' = [p \in Player |-> 0]
  /\ skilltab' = [p \in Player |-> [s \in Skill |-> 0]]
  /\ call' = Idle
  /\ UNCHANGED <<players, allianceOf, friendTable, allyTable, roundVars, changed, crashes>>

-----------------------------------------------------------------------------
(* The round.                                                              *)

\* A player has joined an alliance whose master a clearing has erased.
Orphaned == \E p \in Player : allianceOf[p] \in DOMAIN master \ Listed

ReadPlayers ==
  /\ round = "none" /\ call.op # "clear"
  /\ round' = "players" /\ seen' = allianceOf /\ outcome' = "none" /\ changed' = Orphaned
  /\ UNCHANGED <<playerTable, friendTable, allyTable, call, crashes>>

\* The alliance of a player, or the master of an alliance, that is not among those read.
Missing(alliances) ==
  \/ \E p \in DOMAIN seen : seen[p] # NoId /\ seen[p] \notin alliances
  \/ \E a \in alliances : master[a] \notin DOMAIN seen

\* Every alliance and every master is looked up; when one is missing the round is given
\* up (MAP_FIND).
ReadAlliances ==
  /\ round = "players"
  /\ IF Missing(Listed)
       THEN round' = "none" /\ outcome' = "missing"
       ELSE round' = "looked" /\ outcome' = "found"
  /\ seen' = Nobody
  /\ UNCHANGED <<playerTable, friendTable, allyTable, call, changed, crashes>>

\* The battles of the round bring experience.
UpdateXP(gain) ==
  /\ round = "looked"
  /\ \A p \in Player : experience[p] + gain[p] <= MaxXP
  /\ experience' = [p \in Player |-> experience[p] + gain[p]]
  /\ skillpoints' = [p \in Player |-> skillpoints[p] + gain[p]]
  /\ round' = "none"
  /\ UNCHANGED <<players, allianceOf, skilltab, friendTable, allyTable, call, seen, outcome,
                 changed, crashes>>

\* The process ends and is started again: what was committed stays.
Crash ==
  /\ crashes < MaxCrash
  /\ crashes' = crashes + 1
  /\ call' = Idle /\ round' = "none" /\ seen' = Nobody /\ outcome' = "none"
  /\ changed' = FALSE
  /\ UNCHANGED <<playerTable, friendTable, allyTable>>

FriendCall ==
  \E p, q \in Player :
    \/ AddFriendshipRequest(p, q)
    \/ \E accept \in BOOLEAN : AcceptFriendshipRequest(p, q, accept)
    \/ CloseFriendship(p, q)

AllianceCall ==
  \/ \E p \in Player :
       \/ AddAlliance(p) \/ QuitAlliance(p)
       \/ \E a \in Alliance : JoinAlliance(p, a) \/ TransfertAlliance(a, p)
  \/ \E a \in Alliance : DissolveAlliance(a)

SkillCall == \E p \in Player, s \in Skill : BuySkill(p, s)
ClearCall == \E keepPlayers \in BOOLEAN : Clear(keepPlayers)

CallStep ==
  \/ LeaveAlliance \/ EraseAlliance \/ PaySkill
  \/ ClearPlayers \/ ClearRequests \/ ClearFriends \/ ClearAlliances \/ ClearScores

RoundStep ==
  \/ ReadPlayers \/ ReadAlliances
  \/ \E gain \in [Player -> 0 .. MaxGain] : UpdateXP(gain)

Next ==
  \/ AddPlayer \/ FriendCall \/ AllianceCall \/ SkillCall \/ ClearCall \/ CallStep
  \/ RoundStep \/ Crash

Spec == Init /\ [][Next]_vars

\* A call that has begun is served to its end, and rounds follow each other.
FairSpec == Spec /\ WF_vars(CallStep) /\ WF_vars(RoundStep)

-----------------------------------------------------------------------------
(* Properties                                                              *)

\* Two players never ask each other: the second request is an acceptance
\* (DataBase.cpp:1252-1292).
NoCrossedRequests == \A r \in requests : <<r[2], r[1]>> \notin requests

\* Nobody becomes a friend without having asked or having been asked, and the request is
\* used up: also a click on an old page makes no friends (DataBase.cpp:1295-1333).
FriendsByConsent ==
  [][\A f \in friends' \ friends :
        \E r \in {f, <<f[2], f[1]>>} : r \in requests /\ r \notin requests']_vars

\* The alliances of the players are there: a member of one that is erased has none, at
\* whatever statement a call or a clearing is cut off (DataBase.cpp:308-320, 1411-1589).
AlliancesKnown == \A p \in Player : allianceOf[p] # NoId => allianceOf[p] \in DOMAIN master

\* A round is given up for a missing alliance or master only when an alliance was erased,
\* or given to a newcomer, between the two reads, or when a player has joined what a
\* clearing cut off by a crash has left without a master (Simulation.cpp:1408-1424).
MissingOnlyIfChanged == outcome = "missing" => changed

\* A master who quits dissolves his alliance, unless the process ends just then: a crash
\* before, or after a restart, is no excuse (DataBase.cpp:1537-1551).
Dissolved ==
  \A a \in Alliance, n \in 0 .. MaxCrash :
    ( /\ call.op = "quit" /\ crashes = n
      /\ allianceOf[call.pid] = a /\ a \in DOMAIN master /\ master[a] = call.pid )
      ~> (a \notin DOMAIN master \/ crashes > n)

\* The skill points that the levels of a player have cost.
PaidFor(tab) ==
  FoldFunction(LAMBDA x, y : x + y, 0,
    [s \in Skill |->
       FoldFunction(LAMBDA x, y : x + y, 0, [l \in 0 .. tab[s] - 1 |-> SkillCost(s, l)])])

\* Every point of experience is a skill point that is left or was paid for a level: none
\* is lost or won between a round and a purchase (DataBase.cpp:1089-1156).
SkillsPaid ==
  \A p \in Player :
    experience[p] = skillpoints[p] + XPPerSkillPoints * PaidFor(skilltab[p])
=============================================================================
