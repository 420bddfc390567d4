--------------------------- MODULE AccountsProofs ---------------------------
(* Theorems about module Accounts, for any number of players, alliances and crashes. *)
EXTENDS Accounts, Sums, TLAPS

-----------------------------------------------------------------------------
(* The inductive invariant, in parts.                                      *)

Calls ==
  [op : {"none"}]
    \cup [op : {"quit", "erase"}, pid : Nat, alliance : Nat, master : Nat]
    \cup [op : {"buy"}, pid : Nat, skill : Skill, tab : [Skill -> Nat], points : Nat]
    \cup [op : {"clear"}, next : {"players", "requests", "friends", "alliances", "scores"}]

\* What a call that has begun has read is still so when it writes.
CallHolds ==
  /\ call \in Calls
  /\ call.op = "buy" =>
       /\ call.pid \in Player /\ call.tab = skilltab[call.pid]
       /\ call.tab[call.skill] < SkillTop[call.skill]
       /\ skillpoints[call.pid] >= SkillCost(call.skill, call.tab[call.skill]) * XPPerSkillPoints
  /\ call.op = "clear" =>
       /\ round = "none"
       /\ call.next \in {"requests", "friends", "alliances"} => players = 0

\* Unless an alliance was erased or given away, what the round has read of the players
\* agrees with the alliances there are.
ReadsAgree ==
  /\ round = "players" /\ ~ changed => ~ Missing(Listed)
  /\ round # "players" => DOMAIN seen = {}

IInv == TypeOK /\ CallHolds /\ NoCrossedRequests /\ AlliancesKnown /\ ReadsAgree
             /\ MissingOnlyIfChanged

-----------------------------------------------------------------------------
(* Friends.                                                                *)

\* Whatever is done keeps requests and friendships apart, and friends had asked.
LEMMA FriendStep ==
  ASSUME TypeOK, NoCrossedRequests, [Next]_vars
  PROVE  /\ requests' \subseteq (1 .. MaxPlayer) \X (1 .. MaxPlayer)
         /\ friends' \subseteq {f \in (1 .. MaxPlayer) \X (1 .. MaxPlayer) : f[1] < f[2]}
         /\ NoCrossedRequests'
         /\ \A f \in friends' \ friends :
              \E r \in {f, <<f[2], f[1]>>} : r \in requests /\ r \notin requests'
  <1> DEFINE Ids == 1 .. MaxPlayer
             Goal == /\ requests' \subseteq Ids \X Ids
                     /\ friends' \subseteq {f \in Ids \X Ids : f[1] < f[2]}
                     /\ NoCrossedRequests'
                     /\ \A f \in friends' \ friends :
                          \E r \in {f, <<f[2], f[1]>>} : r \in requests /\ r \notin requests'
  <1>1. /\ requests \subseteq Ids \X Ids
        /\ friends \subseteq {f \in Ids \X Ids : f[1] < f[2]}
        /\ Player \subseteq Ids /\ MaxPlayer \in Nat
    BY AccountBoundsAssumption DEF TypeOK, Player
  <1>2. CASE UNCHANGED friendTable
    BY <1>1, <1>2 DEF friendTable, NoCrossedRequests
  <1>3. CASE FriendCall
    <2>1. PICK p \in Player, q \in Player :
            \/ AddFriendshipRequest(p, q)
            \/ \E accept \in BOOLEAN : AcceptFriendshipRequest(p, q, accept)
            \/ CloseFriendship(p, q)
      BY <1>3 DEF FriendCall
    <2>2. p \in Ids /\ q \in Ids
      BY <1>1
    <2>3. p # q => /\ Ordered(p, q) \in {f \in Ids \X Ids : f[1] < f[2]}
                   /\ Ordered(p, q) \in {<<p, q>>, <<q, p>>}
      BY <1>1, <2>2 DEF Ordered
    <2>4. \A f \in {<<p, q>>, <<q, p>>} : <<q, p>> \in {f, <<f[2], f[1]>>}
                                        /\ <<p, q>> \in {f, <<f[2], f[1]>>}
      OBVIOUS
    <2>5. CASE AddFriendshipRequest(p, q)
      <3>1. p # q
        BY <2>5 DEF AddFriendshipRequest
      <3>2. CASE <<q, p>> \in requests
        <4>1. friends' = friends \cup {Ordered(p, q)} /\ requests' = requests \ {<<q, p>>}
          BY <2>5, <3>2 DEF AddFriendshipRequest
        <4>2. \A f \in friends' \ friends : f = Ordered(p, q)
          BY <4>1
        <4> QED
          BY <1>1, <2>3, <2>4, <3>1, <3>2, <4>1, <4>2 DEF NoCrossedRequests
      <3>3. CASE <<q, p>> \notin requests
        <4>1. friends' = friends /\ requests' = requests \cup {<<p, q>>}
          BY <2>5, <3>3 DEF AddFriendshipRequest
        <4>2. NoCrossedRequests'
          <5> SUFFICES ASSUME NEW r \in requests' PROVE <<r[2], r[1]>> \notin requests'
            BY DEF NoCrossedRequests
          <5>1. CASE r = <<p, q>>
            BY <3>1, <3>3, <4>1, <5>1
          <5>2. CASE r # <<p, q>>
            <6>1. r \in requests /\ <<r[2], r[1]>> \notin requests /\ r = <<r[1], r[2]>>
              BY <1>1, <4>1, <5>2 DEF NoCrossedRequests
            <6>2. r # <<q, p>>
              BY <3>3, <6>1
            <6> QED
              BY <4>1, <6>1, <6>2
          <5> QED
            BY <5>1, <5>2
        <4> QED
          BY <1>1, <2>2, <4>1, <4>2
      <3> QED
        BY <3>2, <3>3
    <2>6. CASE \E accept \in BOOLEAN : AcceptFriendshipRequest(p, q, accept)
      <3>1. PICK accept \in BOOLEAN : AcceptFriendshipRequest(p, q, accept)
        BY <2>6
      <3>2. requests' = requests \ {<<p, q>>}
        BY <3>1 DEF AcceptFriendshipRequest
      <3>3. friends' = friends \/ (p # q /\ <<p, q>> \in requests
                                    /\ friends' = friends \cup {Ordered(p, q)})
        BY <3>1 DEF AcceptFriendshipRequest
      <3>4. NoCrossedRequests'
        BY <3>2 DEF NoCrossedRequests
      <3> QED
        BY <1>1, <2>3, <2>4, <3>2, <3>3, <3>4
    <2>7. CASE CloseFriendship(p, q)
      BY <1>1, <2>7 DEF CloseFriendship, NoCrossedRequests
    <2> QED
      BY <2>1, <2>5, <2>6, <2>7
  <1>4. CASE ClearRequests \/ ClearFriends
    BY <1>1, <1>4 DEF ClearRequests, ClearFriends, NoCrossedRequests
  <1>5. \/ UNCHANGED friendTable \/ FriendCall \/ ClearRequests \/ ClearFriends
    BY DEF Next, AddPlayer, AllianceCall, AddAlliance, DissolveAlliance, QuitAlliance, JoinAlliance,
           TransfertAlliance, SkillCall, BuySkill, ClearCall, Clear, CallStep, LeaveAlliance,
           EraseAlliance, PaySkill, ClearPlayers, ClearAlliances, ClearScores, RoundStep,
           ReadPlayers, ReadAlliances, UpdateXP, Crash, vars
  <1> QED
    BY <1>2, <1>3, <1>4, <1>5

-----------------------------------------------------------------------------
(* Types, and the calls.                                                   *)

\* The empty tables satisfy the invariant.
LEMMA InitInv == Init => IInv
  <1> SUFFICES ASSUME Init PROVE IInv
    OBVIOUS
  <1>1. /\ Player = {} /\ DOMAIN Nobody = {}
        /\ Nobody \in [{} -> Nat] /\ Nobody \in [{} -> Alliance \cup {NoId}]
        /\ Nobody \in [{} -> [Skill -> Nat]] /\ Nobody \in [{} -> 1 .. MaxPlayer]
    BY DEF Init, Player, Nobody
  <1>2. TypeOK
    <2>a. players \in 0 .. MaxPlayer /\ lastId \in 0 .. MaxAlliance /\ crashes \in 0 .. MaxCrash
      BY AccountBoundsAssumption DEF Init
    <2>b. DOMAIN master = {} /\ DOMAIN seen = {} /\ DOMAIN master \subseteq 1 .. lastId
      BY <1>1 DEF Init
    <2>1. /\ requests = {} /\ friends = {}
          /\ round = "none" /\ outcome = "none" /\ changed \in BOOLEAN
      BY DEF Init
    <2>2. /\ allianceOf \in [Player -> Alliance \cup {NoId}]
          /\ experience \in [Player -> Nat] /\ skillpoints \in [Player -> Nat]
          /\ skilltab \in [Player -> [Skill -> Nat]]
          /\ \A p \in Player, s \in Skill : skilltab[p][s] <= SkillTop[s]
      BY <1>1 DEF Init
    <2>3. /\ master \in [DOMAIN master -> 1 .. MaxPlayer]
          /\ seen \in [DOMAIN seen -> Alliance \cup {NoId}]
      BY <1>1, <2>b DEF Init
    <2> QED
      BY <2>a, <2>b, <2>1, <2>2, <2>3 DEF TypeOK
  <1>3. CallHolds /\ NoCrossedRequests /\ AlliancesKnown /\ ReadsAgree /\ MissingOnlyIfChanged
    BY <1>1 DEF Init, CallHolds, Calls, Idle, NoCrossedRequests, AlliancesKnown, ReadsAgree,
                MissingOnlyIfChanged
  <1> QED
    BY <1>2, <1>3 DEF IInv

\* Experience, skill points and levels keep their types, and what a call has read of
\* them is still so when it writes (buySkill, updateXP, clear).
LEMMA SkillStep ==
  ASSUME TypeOK, CallHolds, [Next]_vars
  PROVE  /\ experience' \in [Player' -> Nat] /\ skillpoints' \in [Player' -> Nat]
         /\ skilltab' \in [Player' -> [Skill -> Nat]]
         /\ \A p \in Player', s \in Skill : skilltab'[p][s] <= SkillTop[s]
         /\ CallHolds'
  <1> DEFINE Levels(t) == t \in [Skill -> Nat] /\ \A s \in Skill : t[s] <= SkillTop[s]
             Skills == /\ experience \in [Player -> Nat] /\ skillpoints \in [Player -> Nat]
                       /\ skilltab \in [Player -> [Skill -> Nat]]
                       /\ \A p \in Player, s \in Skill : skilltab[p][s] <= SkillTop[s]
  <1>1. Skills /\ players \in Nat
    BY AccountBoundsAssumption DEF TypeOK
  <1>a. XPPerSkillPoints \in Nat /\ SkillTop \in [Skill -> Nat]
    BY SkillAssumption
  <1>2. CASE AddPlayer
    <2>1. /\ players' = players + 1 /\ call = Idle /\ call' = Idle
          /\ experience' = Append1(experience, 0) /\ skillpoints' = Append1(skillpoints, 0)
          /\ skilltab' = Append1(skilltab, [s \in Skill |-> 0])
      BY <1>2 DEF AddPlayer
    <2>2. [s \in Skill |-> 0] \in [Skill -> Nat]
      OBVIOUS
    <2>a. Player = 1 .. players /\ Player' = 1 .. players + 1 /\ 0 \in Nat
      BY <2>1 DEF Player
    <2>b. experience' \in [Player' -> Nat] /\ skillpoints' \in [Player' -> Nat]
      BY <1>1, <2>1, <2>a DEF Append1
    <2>c. /\ Append1(skilltab, [s \in Skill |-> 0]) \in [1 .. players + 1 -> [Skill -> Nat]]
          /\ Append1(skilltab, [s \in Skill |-> 0])[players + 1] = [s \in Skill |-> 0]
          /\ \A p \in 1 .. players : Append1(skilltab, [s \in Skill |-> 0])[p] = skilltab[p]
      BY <1>1, <2>2, <2>a DEF Append1
    <2>3. /\ experience' \in [Player' -> Nat] /\ skillpoints' \in [Player' -> Nat]
          /\ skilltab' \in [Player' -> [Skill -> Nat]]
          /\ skilltab'[players + 1] = [s \in Skill |-> 0]
          /\ \A p \in Player : skilltab'[p] = skilltab[p]
      BY <2>1, <2>a, <2>b, <2>c
    <2>4. \A p \in Player' : p \in Player \/ p = players + 1
      BY <1>1, <2>1 DEF Player
    <2>5. \A p \in Player', s \in Skill : skilltab'[p][s] <= SkillTop[s]
      BY <1>1, <1>a, <2>3, <2>4
    <2>6. CallHolds'
      BY <2>1 DEF CallHolds, Calls, Idle
    <2> QED
      BY <2>3, <2>5, <2>6
  <1>3. CASE FriendCall
    BY <1>1, <1>3 DEF FriendCall, AddFriendshipRequest, AcceptFriendshipRequest,
                      CloseFriendship, OnlyFriends, playerTable, roundVars, CallHolds, Calls,
                      Idle, Player
  <1>4. CASE \E p \in Player :
               \/ AddAlliance(p) \/ QuitAlliance(p)
               \/ \E a \in Alliance : JoinAlliance(p, a) \/ TransfertAlliance(a, p)
    <2>1. PICK p \in Player :
            \/ AddAlliance(p) \/ QuitAlliance(p)
            \/ \E a \in Alliance : JoinAlliance(p, a) \/ TransfertAlliance(a, p)
      BY <1>4
    <2>2. UNCHANGED <<players, experience, skillpoints, skilltab>>
      BY <2>1 DEF AddAlliance, QuitAlliance, JoinAlliance, TransfertAlliance, playerTable
    <2>3. CallHolds'
      <3>1. CASE QuitAlliance(p)
        <4>1. allianceOf[p] \in Nat /\ p \in Nat
          BY <1>1, AccountBoundsAssumption DEF TypeOK, Alliance, NoId, Player
        <4>2. (IF allianceOf[p] \in Listed THEN master[allianceOf[p]] ELSE NoId) \in Nat
          BY AccountBoundsAssumption DEF TypeOK, Listed, NoId
        <4> QED
          BY <3>1, <4>1, <4>2 DEF QuitAlliance, CallHolds, Calls
      <3>2. CASE call = Idle /\ call' = Idle
        BY <3>2 DEF CallHolds, Calls, Idle
      <3> QED
        BY <2>1, <3>1, <3>2 DEF AddAlliance, JoinAlliance, TransfertAlliance
    <2> QED
      BY <1>1, <2>2, <2>3 DEF Player
  <1>5. CASE \E a \in Alliance : DissolveAlliance(a)
    <2>1. UNCHANGED <<players, experience, skillpoints, skilltab>>
      BY <1>5 DEF DissolveAlliance, playerTable
    <2>2. PICK a \in Alliance : DissolveAlliance(a)
      BY <1>5
    <2>3. CallHolds'
      BY <2>2, AccountBoundsAssumption DEF DissolveAlliance, CallHolds, Calls, Alliance, NoId
    <2> QED
      BY <1>1, <2>1, <2>3 DEF Player
  <1>6. CASE SkillCall
    <2>1. PICK p \in Player, s \in Skill : BuySkill(p, s)
      BY <1>6 DEF SkillCall
    <2>2. /\ skilltab[p] \in [Skill -> Nat] /\ skillpoints[p] \in Nat /\ p \in Nat
      BY <1>1 DEF Player
    <2>3. CallHolds'
      BY <2>1, <2>2 DEF BuySkill, CallHolds, Calls, playerTable, Player
    <2> QED
      BY <1>1, <2>1, <2>3 DEF BuySkill, playerTable, Player
  <1>7. CASE ClearCall
    <2>1. PICK keepPlayers \in BOOLEAN : Clear(keepPlayers)
      BY <1>7 DEF ClearCall
    <2>2. CallHolds'
      BY <2>1 DEF Clear, CallHolds, Calls
    <2> QED
      BY <1>1, <2>1, <2>2 DEF Clear, playerTable, Player
  <1>8. CASE LeaveAlliance
    <2>1. call \in [op : {"quit", "erase"}, pid : Nat, alliance : Nat, master : Nat]
      BY <1>8 DEF LeaveAlliance, CallHolds, Calls
    <2>2. call' \in Calls /\ call'.op \in {"none", "erase"}
      BY <1>8, <2>1 DEF LeaveAlliance, Calls, Idle
    <2> QED
      BY <1>1, <1>8, <2>2 DEF LeaveAlliance, CallHolds, Player
  <1>9. CASE EraseAlliance
    BY <1>1, <1>9 DEF EraseAlliance, CallHolds, Calls, Idle, Player
  <1>10. CASE PaySkill
    <2> DEFINE price == SkillCost(call.skill, call.tab[call.skill]) * XPPerSkillPoints
    <2>1. /\ call.pid \in Player /\ call.skill \in Skill /\ call.tab \in [Skill -> Nat]
          /\ call.tab = skilltab[call.pid] /\ call.tab[call.skill] < SkillTop[call.skill]
          /\ skillpoints[call.pid] >= price
      BY <1>10 DEF PaySkill, CallHolds, Calls
    <2>2. price \in Nat
      <3>1. call.tab[call.skill] \in 0 .. SkillTop[call.skill]
        BY <1>a, <2>1
      <3>2. SkillCost(call.skill, call.tab[call.skill]) \in Nat
        BY <2>1, <3>1, CostAssumption
      <3> QED
        BY <1>a, <3>2
    <2> HIDE DEF price
    <2>3. /\ skillpoints' = [skillpoints EXCEPT ![call.pid] = @ - price]
          /\ skilltab' = [skilltab EXCEPT ![call.pid] = [call.tab EXCEPT ![call.skill] = @ + 1]]
          /\ call' = Idle /\ UNCHANGED <<players, experience>>
      BY <1>10 DEF PaySkill, price
    <2>4. skillpoints' \in [Player -> Nat]
      BY <1>1, <2>1, <2>2, <2>3
    <2>5. [call.tab EXCEPT ![call.skill] = @ + 1] \in [Skill -> Nat]
      BY <2>1
    <2>6. skilltab' \in [Player -> [Skill -> Nat]]
      BY <1>1, <2>1, <2>3, <2>5
    <2>7. \A p \in Player, s \in Skill : skilltab'[p][s] <= SkillTop[s]
      <3> SUFFICES ASSUME NEW p \in Player, NEW s \in Skill PROVE skilltab'[p][s] <= SkillTop[s]
        OBVIOUS
      <3>1. CASE p = call.pid
        <4>1. skilltab'[p] = [call.tab EXCEPT ![call.skill] = @ + 1]
          BY <1>1, <2>3, <3>1
        <4>2. CASE s = call.skill
          BY <1>a, <2>1, <4>1, <4>2
        <4>3. CASE s # call.skill
          BY <1>1, <2>1, <3>1, <4>1, <4>3
        <4> QED
          BY <4>2, <4>3
      <3>2. CASE p # call.pid
        BY <1>1, <2>3, <3>2
      <3> QED
        BY <3>1, <3>2
    <2>8. CallHolds'
      BY <2>3 DEF CallHolds, Calls, Idle
    <2> QED
      BY <1>1, <2>3, <2>4, <2>6, <2>7, <2>8 DEF Player
  <1>11. CASE ClearPlayers
    <2>1. call \in [op : {"clear"}, next : {"players", "requests", "friends", "alliances", "scores"}]
      BY <1>11 DEF ClearPlayers, Clearing, CallHolds, Calls
    <2>2. /\ call' = [call EXCEPT !.next = "requests"] /\ players' = 0 /\ round' = round
          /\ experience' = Nobody /\ skillpoints' = Nobody /\ skilltab' = Nobody
      BY <1>11 DEF ClearPlayers, Clearing, roundVars
    <2>3. call' \in Calls /\ call'.op = "clear" /\ round = "none"
      BY <2>1, <2>2 DEF Calls, CallHolds
    <2>4. Player' = {}
      BY <2>2 DEF Player
    <2> QED
      BY <2>2, <2>3, <2>4 DEF CallHolds, Nobody
  <1>12. CASE ClearRequests \/ ClearFriends \/ ClearAlliances
    <2>1. call \in [op : {"clear"}, next : {"players", "requests", "friends", "alliances", "scores"}]
      BY <1>12 DEF ClearRequests, ClearFriends, ClearAlliances, Clearing, CallHolds, Calls
    <2>2. PICK next \in {"friends", "alliances", "scores"} :
            call' = [call EXCEPT !.next = next]
      BY <1>12 DEF ClearRequests, ClearFriends, ClearAlliances, Clearing
    <2>3. /\ call.next \in {"requests", "friends", "alliances"}
          /\ UNCHANGED <<players, experience, skillpoints, skilltab, round>>
      BY <1>12 DEF ClearRequests, ClearFriends, ClearAlliances, Clearing, playerTable, roundVars
    <2>4. call' \in Calls /\ call'.op = "clear"
      BY <2>1, <2>2 DEF Calls
    <2>5. round = "none" /\ players = 0
      BY <2>1, <2>3 DEF CallHolds
    <2> QED
      BY <1>1, <2>3, <2>4, <2>5 DEF CallHolds, Player
  <1>13. CASE ClearScores
    BY <1>1, <1>13, <1>a DEF ClearScores, CallHolds, Calls, Idle, Player
  <1>14. CASE ReadPlayers \/ ReadAlliances
    BY <1>1, <1>14 DEF ReadPlayers, ReadAlliances, playerTable, CallHolds, Player
  <1>15. CASE \E gain \in [Player -> 0 .. MaxGain] : UpdateXP(gain)
    <2>1. PICK gain \in [Player -> 0 .. MaxGain] : UpdateXP(gain)
      BY <1>15
    <2>2. \A p \in Player : gain[p] \in Nat
      BY AccountBoundsAssumption
    <2>3. /\ experience' = [p \in Player |-> experience[p] + gain[p]]
          /\ skillpoints' = [p \in Player |-> skillpoints[p] + gain[p]]
          /\ round = "looked" /\ UNCHANGED <<players, skilltab, call>>
      BY <2>1 DEF UpdateXP
    <2>4. experience' \in [Player -> Nat] /\ skillpoints' \in [Player -> Nat]
      BY <1>1, <2>2, <2>3
    <2>5. call.op # "clear"
      BY <2>3 DEF CallHolds
    <2>6. ASSUME call.op = "buy"
          PROVE  skillpoints'[call.pid] >= skillpoints[call.pid] /\ skillpoints'[call.pid] \in Nat
      <3>1. call.pid \in Player
        BY <2>6 DEF CallHolds
      <3> QED
        BY <1>1, <2>2, <2>3, <3>1
    <2>7. ASSUME call.op = "buy"
          PROVE  SkillCost(call.skill, call.tab[call.skill]) * XPPerSkillPoints \in Nat
      <3>1. call.skill \in Skill /\ call.tab[call.skill] \in 0 .. SkillTop[call.skill]
        BY <1>a, <2>7 DEF CallHolds, Calls
      <3>2. SkillCost(call.skill, call.tab[call.skill]) \in Nat
        BY <3>1, CostAssumption
      <3> QED
        BY <1>a, <3>2
    <2>8. ASSUME call.op = "buy"
          PROVE  skillpoints'[call.pid] >=
                   SkillCost(call.skill, call.tab[call.skill]) * XPPerSkillPoints
      <3>1. call.pid \in Player /\ skillpoints[call.pid] \in Nat
        BY <1>1, <2>8 DEF CallHolds
      <3> QED
        BY <2>6, <2>7, <2>8, <3>1 DEF CallHolds
    <2>9. CallHolds'
      BY <2>3, <2>5, <2>8 DEF CallHolds, Player
    <2> QED
      BY <1>1, <2>3, <2>4, <2>9 DEF Player
  <1>16. CASE Crash
    BY <1>1, <1>16 DEF Crash, playerTable, CallHolds, Calls, Idle, Player
  <1>17. CASE UNCHANGED vars
    BY <1>1, <1>17 DEF vars, playerTable, roundVars, CallHolds, Player
  <1> QED
    BY <1>2, <1>3, <1>4, <1>6, <1>7, <1>8, <1>9, <1>10, <1>11, <1>12, <1>13, <1>14, <1>15,
       <1>16, <1>17, <1>5 DEF Next, AllianceCall, CallStep, RoundStep

-----------------------------------------------------------------------------
(* Alliances, and what the round has read of them.                         *)

AllyTypes ==
  /\ players \in 0 .. MaxPlayer
  /\ allianceOf \in [Player -> Alliance \cup {NoId}]
  /\ master \in [DOMAIN master -> 1 .. MaxPlayer] /\ DOMAIN master \subseteq 1 .. lastId
  /\ lastId \in 0 .. MaxAlliance
  /\ round \in {"none", "players", "looked"}
  /\ DOMAIN seen \subseteq Player /\ seen \in [DOMAIN seen -> Alliance \cup {NoId}]
  /\ outcome \in {"none", "found", "missing"}
  /\ changed \in BOOLEAN

\* Alliances that stay listed, and new ones whose masters have been read, leave the round
\* in agreement.
LEMMA StillAgree ==
  ASSUME ReadsAgree, round' = round, seen' = seen,
         ~ changed' => /\ ~ changed
                       /\ Listed \subseteq Listed'
                       /\ \A a \in Listed' : round = "players" =>
                            (a \in Listed /\ master'[a] = master[a]) \/ master'[a] \in DOMAIN seen
  PROVE  ReadsAgree'
  BY DEF ReadsAgree, Missing

\* Whatever is done, alliances have masters and members have alliances.
LEMMA AllyStep ==
  ASSUME TypeOK, CallHolds, AlliancesKnown, ReadsAgree, MissingOnlyIfChanged, [Next]_vars
  PROVE  AllyTypes' /\ AlliancesKnown' /\ ReadsAgree' /\ MissingOnlyIfChanged'
  <1> DEFINE Goal == AllyTypes' /\ AlliancesKnown' /\ ReadsAgree' /\ MissingOnlyIfChanged'
  <1> USE DEF Player, Alliance, NoId
  <1>1. AllyTypes /\ players \in Nat /\ lastId \in Nat /\ MaxPlayer \in Nat /\ MaxAlliance \in Nat
    BY AccountBoundsAssumption DEF TypeOK, AllyTypes
  <1>2. ASSUME UNCHANGED <<players, allianceOf, master, lastId, round, seen, changed>>,
               outcome' \in {outcome, "none"}
        PROVE  Goal
    BY <1>1, <1>2 DEF AllyTypes, AlliancesKnown, ReadsAgree, Missing, Listed,
                      MissingOnlyIfChanged
  <1>3. CASE AddPlayer
    <2>1. /\ players < MaxPlayer /\ players' = players + 1
          /\ allianceOf' = Append1(allianceOf, NoId)
          /\ UNCHANGED <<master, lastId, round, seen, outcome>>
      BY <1>3 DEF AddPlayer, allyTable, roundVars
    <2>2. changed' = (changed \/ (/\ \E a \in DOMAIN master : master[a] = players'
                                  /\ round = "players" /\ players' \notin DOMAIN seen))
          /\ changed' \in BOOLEAN
      BY <1>1, <1>3 DEF AddPlayer, Given, AllyTypes
    <2>3. /\ allianceOf' \in [Player' -> Alliance' \cup {NoId}]
          /\ allianceOf'[players + 1] = NoId
          /\ \A p \in Player : allianceOf'[p] = allianceOf[p]
      BY <1>1, <2>1 DEF Append1, AllyTypes
    <2>4. AllyTypes'
      BY <1>1, <2>1, <2>2, <2>3 DEF AllyTypes
    <2>5. Listed \subseteq Listed'
      BY <1>1, <2>1 DEF Listed, AllyTypes
    <2>6. AlliancesKnown'
      BY <1>1, <2>1, <2>3 DEF AlliancesKnown
    <2>7. players' \notin DOMAIN seen
      BY <1>1, <2>1 DEF AllyTypes
    <2>8. ASSUME ~ changed', round = "players", NEW a \in Listed' PROVE a \in Listed
      <3>1. a \in DOMAIN master /\ master[a] \in Player' /\ master[a] # players + 1
        BY <2>1, <2>2, <2>7, <2>8 DEF Listed
      <3> QED
        BY <1>1, <2>1, <3>1 DEF Listed
    <2>9. ReadsAgree'
      BY <2>1, <2>2, <2>5, <2>8, StillAgree
    <2> QED
      BY <2>1, <2>2, <2>4, <2>6, <2>9 DEF MissingOnlyIfChanged
  <1>4. CASE AllianceCall
    <2>1. CASE \E a \in Alliance : DissolveAlliance(a)
      BY <1>2, <2>1 DEF DissolveAlliance, playerTable, allyTable, roundVars
    <2>2. ASSUME NEW p \in Player, QuitAlliance(p) PROVE Goal
      BY <1>2, <2>2 DEF QuitAlliance, playerTable, allyTable, roundVars
    <2>3. ASSUME NEW p \in Player, AddAlliance(p) PROVE Goal
      <3>1. /\ lastId < MaxAlliance /\ lastId' = lastId + 1
            /\ master' = [a \in DOMAIN master \cup {lastId'} |-> IF a = lastId' THEN p ELSE master[a]]
            /\ allianceOf' = [allianceOf EXCEPT ![p] = lastId']
            /\ changed' = (changed \/ (round = "players" /\ p \notin DOMAIN seen))
            /\ UNCHANGED <<players, round, seen, outcome>>
        BY <2>3 DEF AddAlliance, Given, roundVars
      <3>2. /\ DOMAIN master' = DOMAIN master \cup {lastId + 1}
            /\ lastId + 1 \notin DOMAIN master /\ master'[lastId + 1] = p
            /\ \A a \in DOMAIN master : master'[a] = master[a]
        BY <1>1, <3>1 DEF AllyTypes
      <3>3. AllyTypes'
        <4>1. master' \in [DOMAIN master' -> 1 .. MaxPlayer]
          BY <1>1, <3>1, <3>2 DEF AllyTypes
        <4>2. DOMAIN master' \subseteq 1 .. lastId' /\ lastId' \in 0 .. MaxAlliance
          BY <1>1, <3>1, <3>2 DEF AllyTypes
        <4>3. allianceOf' \in [Player' -> Alliance' \cup {NoId}]
          BY <1>1, <3>1 DEF AllyTypes
        <4> QED
          BY <1>1, <3>1, <4>1, <4>2, <4>3 DEF AllyTypes
      <3>4. Listed' = Listed \cup {lastId + 1}
        BY <3>1, <3>2 DEF Listed
      <3>5. AlliancesKnown'
        BY <1>1, <3>1, <3>2 DEF AlliancesKnown, AllyTypes
      <3>6. ReadsAgree'
        <4>1. \A a \in Listed : a \in DOMAIN master
          BY DEF Listed
        <4> QED
          BY <3>1, <3>2, <3>4, <4>1, StillAgree
      <3> QED
        BY <3>1, <3>3, <3>5, <3>6 DEF MissingOnlyIfChanged
    <2>4. ASSUME NEW p \in Player, NEW a \in Alliance, JoinAlliance(p, a) PROVE Goal
      <3>1. /\ a \in DOMAIN master /\ allianceOf' = [allianceOf EXCEPT ![p] = a]
            /\ UNCHANGED <<players, master, lastId, round, seen, outcome, changed>>
        BY <2>4 DEF JoinAlliance, allyTable, roundVars
      <3>2. AllyTypes'
        BY <1>1, <3>1 DEF AllyTypes
      <3>3. Listed' = Listed
        BY <3>1 DEF Listed
      <3>4. AlliancesKnown'
        BY <1>1, <3>1 DEF AlliancesKnown, AllyTypes
      <3> QED
        BY <3>1, <3>2, <3>3, <3>4 DEF ReadsAgree, Missing, MissingOnlyIfChanged
    <2>5. ASSUME NEW p \in Player, NEW a \in Alliance, TransfertAlliance(a, p) PROVE Goal
      <3>1. /\ a \in DOMAIN master /\ master' = [master EXCEPT ![a] = p]
            /\ changed' = (changed \/ (round = "players" /\ p \notin DOMAIN seen))
            /\ UNCHANGED <<players, allianceOf, lastId, round, seen, outcome>>
        BY <2>5 DEF TransfertAlliance, Given, playerTable, roundVars
      <3>2. /\ DOMAIN master' = DOMAIN master /\ master'[a] = p
            /\ \A b \in DOMAIN master : b # a => master'[b] = master[b]
        BY <1>1, <3>1 DEF AllyTypes
      <3>a. changed' \in BOOLEAN
        BY <1>1, <3>1 DEF AllyTypes
      <3>b. master' \in [DOMAIN master' -> 1 .. MaxPlayer]
        <4>1. p \in 1 .. MaxPlayer /\ master \in [DOMAIN master -> 1 .. MaxPlayer]
          BY <1>1 DEF AllyTypes
        <4> QED
          BY <3>1, <4>1
      <3>3. AllyTypes'
        BY <1>1, <3>1, <3>2, <3>a, <3>b DEF AllyTypes
      <3>4. Listed' = Listed \cup {a}
        BY <3>1, <3>2 DEF Listed
      <3>5. ReadsAgree'
        <4>1. \A b \in Listed : b \in DOMAIN master
          BY DEF Listed
        <4> QED
          BY <3>1, <3>2, <3>4, <4>1, StillAgree
      <3> QED
        BY <3>1, <3>2, <3>3, <3>5 DEF AlliancesKnown, MissingOnlyIfChanged
    <2> QED
      BY <1>4, <2>1, <2>2, <2>3, <2>4, <2>5 DEF AllianceCall
  <1>5. CASE LeaveAlliance
    <2>1. /\ allianceOf' = [allianceOf EXCEPT ![call.pid] = NoId]
          /\ UNCHANGED <<players, master, lastId, round, seen, outcome, changed>>
      BY <1>5 DEF LeaveAlliance, allyTable, roundVars
    <2>2. AllyTypes' /\ Listed' = Listed
      BY <1>1, <2>1 DEF AllyTypes, Listed
    <2>3. AlliancesKnown'
      BY <1>1, <2>1, <2>2 DEF AlliancesKnown, AllyTypes
    <2> QED
      BY <2>1, <2>2, <2>3 DEF ReadsAgree, Missing, MissingOnlyIfChanged
  <1>6. CASE EraseAlliance
    <2>1. /\ master' = [a \in DOMAIN master \ {call.alliance} |-> master[a]]
          /\ allianceOf' = [p \in Player |->
                              IF allianceOf[p] = call.alliance THEN NoId ELSE allianceOf[p]]
          /\ changed' = (changed \/ (round = "players" /\ call.alliance \in DOMAIN master))
          /\ UNCHANGED <<players, lastId, round, seen, outcome>>
      BY <1>6 DEF EraseAlliance, roundVars
    <2>2. AllyTypes'
      BY <1>1, <2>1 DEF AllyTypes
    <2>3. Listed' = Listed \ {call.alliance}
      BY <2>1 DEF Listed
    <2>4. AlliancesKnown'
      BY <2>1 DEF AlliancesKnown
    <2>5. ReadsAgree'
      <3>1. CASE round # "players" \/ changed'
        BY <2>1, <3>1 DEF ReadsAgree
      <3>2. CASE round = "players" /\ ~ changed'
        <4>1. ~ changed /\ call.alliance \notin DOMAIN master /\ DOMAIN master' = DOMAIN master
              /\ Listed' = Listed /\ \A a \in Listed : master'[a] = master[a]
          BY <2>1, <2>3, <3>2 DEF Listed
        <4> QED
          BY <2>1, <4>1, StillAgree
      <3> QED
        BY <3>1, <3>2
    <2> QED
      BY <2>1, <2>2, <2>4, <2>5 DEF MissingOnlyIfChanged
  <1>7. CASE ClearPlayers
    <2>1. /\ call.op = "clear" /\ players' = 0 /\ allianceOf' = Nobody
          /\ UNCHANGED <<master, lastId, round, seen, outcome, changed>>
      BY <1>7 DEF ClearPlayers, Clearing, allyTable, roundVars
    <2>2. round = "none" /\ DOMAIN seen = {}
      BY <2>1 DEF CallHolds, ReadsAgree
    <2>3. Player' = {} /\ allianceOf' \in [Player' -> Alliance' \cup {NoId}]
      BY <2>1 DEF Nobody
    <2>4. AllyTypes'
      BY <1>1, <2>1, <2>2, <2>3 DEF AllyTypes
    <2> QED
      BY <2>1, <2>2, <2>3, <2>4 DEF AlliancesKnown, ReadsAgree, MissingOnlyIfChanged
  <1>8. CASE ClearAlliances
    <2>1. /\ call.op = "clear" /\ call.next = "alliances" /\ master' = Nobody /\ lastId' = 0
          /\ UNCHANGED <<players, allianceOf, round, seen, outcome, changed>>
      BY <1>8 DEF ClearAlliances, Clearing, playerTable, roundVars
    <2>2. round = "none" /\ Player = {} /\ DOMAIN seen = {}
      BY <2>1 DEF CallHolds, ReadsAgree
    <2>3. DOMAIN master' = {} /\ master' \in [DOMAIN master' -> 1 .. MaxPlayer]
      BY <2>1 DEF Nobody
    <2>4. AllyTypes'
      BY <1>1, <2>1, <2>2, <2>3 DEF AllyTypes
    <2> QED
      BY <2>1, <2>2, <2>4 DEF AlliancesKnown, ReadsAgree, MissingOnlyIfChanged
  <1>9. CASE ReadPlayers
    <2>1. /\ round' = "players" /\ seen' = allianceOf /\ outcome' = "none" /\ changed' = Orphaned
          /\ UNCHANGED <<players, allianceOf, master, lastId>>
      BY <1>9 DEF ReadPlayers, playerTable, allyTable
    <2>a. changed' \in BOOLEAN
      BY <2>1, Zenon DEF Orphaned
    <2>2. AllyTypes' /\ Listed' = Listed
      BY <1>1, <2>1, <2>a DEF AllyTypes, Listed
    <2>3. DOMAIN allianceOf = Player
      BY <1>1 DEF AllyTypes
    <2>4. ~ changed' => ~ Missing(Listed)'
      BY <2>1, <2>2, <2>3 DEF Missing, AlliancesKnown, Listed, Orphaned
    <2> QED
      BY <2>1, <2>2, <2>4 DEF AlliancesKnown, ReadsAgree, MissingOnlyIfChanged
  <1>10. CASE ReadAlliances
    <2>1. /\ round = "players" /\ round' \in {"none", "looked"} /\ seen' = Nobody
          /\ outcome' \in {"found", "missing"} /\ (outcome' = "missing" => Missing(Listed))
          /\ UNCHANGED <<players, allianceOf, master, lastId, changed>>
      BY <1>10 DEF ReadAlliances, playerTable, allyTable
    <2>2. DOMAIN seen' = {} /\ seen' \in [DOMAIN seen' -> Alliance' \cup {NoId}]
      BY <2>1 DEF Nobody
    <2>3. AllyTypes'
      BY <1>1, <2>1, <2>2 DEF AllyTypes
    <2>4. MissingOnlyIfChanged'
      BY <2>1 DEF MissingOnlyIfChanged, ReadsAgree
    <2> QED
      BY <2>1, <2>2, <2>3, <2>4 DEF AlliancesKnown, Listed, ReadsAgree
  <1>11. CASE \E gain \in [Player -> 0 .. MaxGain] : UpdateXP(gain)
    <2>1. /\ round = "looked" /\ round' = "none"
          /\ UNCHANGED <<players, allianceOf, master, lastId, seen, outcome, changed>>
      BY <1>11 DEF UpdateXP, allyTable
    <2>2. AllyTypes'
      BY <1>1, <2>1 DEF AllyTypes
    <2> QED
      BY <2>1, <2>2 DEF AlliancesKnown, Listed, ReadsAgree, MissingOnlyIfChanged
  <1>12. CASE Crash
    <2>1. /\ round' = "none" /\ seen' = Nobody /\ outcome' = "none" /\ changed' = FALSE
          /\ UNCHANGED <<players, allianceOf, master, lastId>>
      BY <1>12 DEF Crash, playerTable, allyTable
    <2>2. DOMAIN seen' = {} /\ seen' \in [DOMAIN seen' -> Alliance' \cup {NoId}]
      BY <2>1 DEF Nobody
    <2>3. AllyTypes'
      BY <1>1, <2>1, <2>2 DEF AllyTypes
    <2> QED
      BY <2>1, <2>2, <2>3 DEF AlliancesKnown, Listed, ReadsAgree, MissingOnlyIfChanged
  <1>13. ASSUME FriendCall \/ SkillCall \/ ClearCall \/ PaySkill \/ ClearRequests \/ ClearFriends
                  \/ ClearScores \/ UNCHANGED vars
         PROVE  Goal
    BY <1>2, <1>13 DEF FriendCall, AddFriendshipRequest, AcceptFriendshipRequest, OnlyFriends,
         CloseFriendship, SkillCall, BuySkill, ClearCall, Clear, PaySkill, ClearRequests,
         ClearFriends, Clearing, ClearScores, playerTable, allyTable, roundVars, vars
  <1> QED
    BY <1>3, <1>4, <1>5, <1>6, <1>7, <1>8, <1>9, <1>10, <1>11, <1>12, <1>13
    DEF Next, CallStep, RoundStep

-----------------------------------------------------------------------------
(* The theorems.                                                           *)

\* Every call and every statement of a round keeps the invariant.
LEMMA StepInv == IInv /\ [Next]_vars => IInv'
  <1> SUFFICES ASSUME IInv, [Next]_vars PROVE IInv'
    OBVIOUS
  <1>1. /\ TypeOK /\ CallHolds /\ NoCrossedRequests /\ AlliancesKnown /\ ReadsAgree
        /\ MissingOnlyIfChanged
    BY DEF IInv
  <1>2. /\ requests' \subseteq (1 .. MaxPlayer) \X (1 .. MaxPlayer)
        /\ friends' \subseteq {f \in (1 .. MaxPlayer) \X (1 .. MaxPlayer) : f[1] < f[2]}
        /\ NoCrossedRequests'
    BY <1>1, FriendStep
  <1>3. /\ experience' \in [Player' -> Nat] /\ skillpoints' \in [Player' -> Nat]
        /\ skilltab' \in [Player' -> [Skill -> Nat]]
        /\ \A p \in Player', s \in Skill : skilltab'[p][s] <= SkillTop[s]
        /\ CallHolds'
    BY <1>1, SkillStep
  <1>4. AllyTypes' /\ AlliancesKnown' /\ ReadsAgree' /\ MissingOnlyIfChanged'
    BY <1>1, AllyStep
  <1>5. crashes' \in 0 .. MaxCrash
    <2>1. crashes \in 0 .. MaxCrash /\ MaxCrash \in Nat
      BY <1>1, AccountBoundsAssumption DEF TypeOK
    <2>2. crashes' = crashes \/ (crashes < MaxCrash /\ crashes' = crashes + 1)
      BY DEF Next, AddPlayer, FriendCall, AddFriendshipRequest, AcceptFriendshipRequest,
             CloseFriendship, OnlyFriends, AllianceCall, AddAlliance, DissolveAlliance, QuitAlliance,
             JoinAlliance, TransfertAlliance, SkillCall, BuySkill, ClearCall, Clear, CallStep,
             LeaveAlliance, EraseAlliance, PaySkill, Clearing, ClearPlayers, ClearRequests,
             ClearFriends, ClearAlliances, ClearScores, RoundStep, ReadPlayers, ReadAlliances,
             UpdateXP, Crash, vars
    <2> QED
      BY <2>1, <2>2
  <1> QED
    BY <1>2, <1>3, <1>4, <1>5 DEF IInv, TypeOK, AllyTypes

\* The invariant holds of every reachable state.
THEOREM AccountsInductive == Spec => []IInv
  <1>1. Init => IInv
    BY InitInv
  <1>2. IInv /\ [Next]_vars => IInv'
    BY StepInv
  <1> QED
    BY <1>1, <1>2, PTL DEF Spec

\* The tables keep their types and a level is never raised past its top
\* (DataBase.cpp:165-320, 1124-1156).
THEOREM AccountsTypes == Spec => []TypeOK
  <1>1. IInv => TypeOK
    BY DEF IInv
  <1> QED
    BY <1>1, AccountsInductive, PTL

\* Two players never ask each other for their friendship (DataBase.cpp:1252-1292).
THEOREM RequestsDoNotCross == Spec => []NoCrossedRequests
  <1>1. IInv => NoCrossedRequests
    BY DEF IInv
  <1> QED
    BY <1>1, AccountsInductive, PTL

\* The alliance of every player exists, whatever crashes come between the statements of a
\* call (DataBase.cpp:1411-1589).
THEOREM AlliancesAreKnown == Spec => []AlliancesKnown
  <1>1. IInv => AlliancesKnown
    BY DEF IInv
  <1> QED
    BY <1>1, AccountsInductive, PTL

\* A round misses an alliance or a master only when one was erased or given away between
\* its two reads, or was joined without a master (Simulation.cpp:1408-1424).
THEOREM MissingIsExplained == Spec => []MissingOnlyIfChanged
  <1>1. IInv => MissingOnlyIfChanged
    BY DEF IInv
  <1> QED
    BY <1>1, AccountsInductive, PTL

\* A friendship is made only of a request, which is used up (DataBase.cpp:1295-1333).
THEOREM FriendsConsented == Spec => FriendsByConsent
  <1> DEFINE Consent == \A f \in friends' \ friends :
               \E r \in {f, <<f[2], f[1]>>} : r \in requests /\ r \notin requests'
  <1>1. IInv /\ [Next]_vars => [Consent]_vars
    BY FriendStep DEF IInv
  <1> QED
    BY <1>1, AccountsInductive, PTL DEF Spec, FriendsByConsent

-----------------------------------------------------------------------------
(* What the levels of a player have cost.                                  *)

\* The skill points that the first n levels of a skill cost.
PaidLevels(s, n) == Sum([l \in 0 .. n - 1 |-> SkillCost(s, l)])

\* The levels up to the highest have prices; a level more costs its price more.
LEMMA LevelCosts ==
  ASSUME NEW s \in Skill, NEW n \in 0 .. SkillTop[s]
  PROVE  /\ PaidLevels(s, n) \in Nat
         /\ SkillCost(s, n) \in Nat
         /\ PaidLevels(s, n + 1) = PaidLevels(s, n) + SkillCost(s, n)
  <1> DEFINE f == [l \in 0 .. n - 1 |-> SkillCost(s, l)]
             h == [l \in 0 .. n |-> SkillCost(s, l)]
  <1>1. SkillTop[s] \in Nat /\ n \in Nat
    BY SkillAssumption
  <1>2. \A l \in 0 .. n : SkillCost(s, l) \in Nat
    BY <1>1, CostAssumption
  <1>3. IsFiniteSet(0 .. n - 1) /\ IsFiniteSet(0 .. n)
    BY <1>1, FS_Interval
  <1>4. f \in [0 .. n - 1 -> Nat] /\ h \in [0 .. n -> Nat]
    BY <1>1, <1>2
  <1>5. (0 .. n) \ {n} = 0 .. n - 1 /\ n \in 0 .. n /\ (n + 1) - 1 = n
    BY <1>1
  <1>6. [l \in (0 .. n) \ {n} |-> h[l]] = f /\ h[n] = SkillCost(s, n)
    BY <1>1, <1>5
  <1>7. PaidLevels(s, n) = Sum(f) /\ PaidLevels(s, n + 1) = Sum(h)
    BY <1>5 DEF PaidLevels
  <1> DEFINE S == 0 .. n
  <1>8. IsFiniteSet(S) /\ h \in [S -> Nat] /\ n \in S
    BY <1>3, <1>4, <1>5
  <1> HIDE DEF f, h, S
  <1>9. Sum(h) = h[n] + Sum([l \in S \ {n} |-> h[l]])
    BY <1>8, SumTakes
  <1>10. Sum(f) \in Nat
    BY <1>3, <1>4, SumNat
  <1> QED
    BY <1>1, <1>2, <1>5, <1>6, <1>7, <1>9, <1>10 DEF S

\* Levels that the tables of the players hold.
Levels == {t \in [Skill -> Nat] : \A s \in Skill : t[s] <= SkillTop[s]}

\* PaidFor is the sum over the skills.
LEMMA PaidForSums ==
  ASSUME NEW tab \in Levels
  PROVE  /\ PaidFor(tab) = Sum([s \in Skill |-> PaidLevels(s, tab[s])])
         /\ [s \in Skill |-> PaidLevels(s, tab[s])] \in [Skill -> Nat]
         /\ PaidFor(tab) \in Nat
  <1> DEFINE f == [s \in Skill |-> PaidLevels(s, tab[s])]
  <1>1. PaidFor(tab) = Sum(f)
    BY DEF PaidFor, Sum, PaidLevels
  <1>2. \A s \in Skill : PaidLevels(s, tab[s]) \in Nat
    <2> SUFFICES ASSUME NEW s \in Skill PROVE PaidLevels(s, tab[s]) \in Nat
      OBVIOUS
    <2>1. SkillTop[s] \in Nat
      BY SkillAssumption
    <2>2. tab[s] \in 0 .. SkillTop[s]
      BY <2>1 DEF Levels
    <2> QED
      BY <2>2, LevelCosts
  <1>3. f \in [Skill -> Nat]
    BY <1>2
  <1> HIDE DEF f
  <1>4. Sum(f) \in Nat
    BY <1>3, SkillAssumption, SumNat
  <1> QED
    BY <1>1, <1>3, <1>4 DEF f

\* A player without skills has paid nothing (addPlayer, clear).
LEMMA NoSkillsPaid ==
  /\ [s \in Skill |-> 0] \in Levels
  /\ PaidFor([s \in Skill |-> 0]) = 0
  <1> DEFINE tab == [s \in Skill |-> 0]
             f   == [s \in Skill |-> PaidLevels(s, tab[s])]
  <1>1. tab \in Levels
    BY SkillAssumption DEF Levels
  <1>2. \A s \in Skill : PaidLevels(s, 0) = 0
    <2> SUFFICES ASSUME NEW s \in Skill PROVE PaidLevels(s, 0) = 0
      OBVIOUS
    <2> DEFINE g == [l \in 0 .. 0 - 1 |-> SkillCost(s, l)]
    <2>1. 0 .. 0 - 1 = {}
      OBVIOUS
    <2>2. g \in [{} -> Nat] /\ PaidLevels(s, 0) = Sum(g)
      BY <2>1 DEF PaidLevels
    <2> HIDE DEF g
    <2> QED
      BY <2>2, FS_EmptySet, SumZero
  <1>3. \A s \in Skill : f[s] = 0
    BY <1>2
  <1>4. PaidFor(tab) = Sum(f) /\ f \in [Skill -> Nat]
    BY <1>1, PaidForSums
  <1> HIDE DEF f
  <1>5. Sum(f) = 0
    BY <1>3, <1>4, SkillAssumption, SumZero
  <1> QED
    BY <1>1, <1>4, <1>5

\* A level bought adds its price to what the player has paid (buySkill).
LEMMA OneMoreLevel ==
  ASSUME NEW tab \in Levels, NEW k \in Skill, tab[k] < SkillTop[k]
  PROVE  /\ [tab EXCEPT ![k] = @ + 1] \in Levels
         /\ SkillCost(k, tab[k]) \in Nat
         /\ PaidFor([tab EXCEPT ![k] = @ + 1]) = PaidFor(tab) + SkillCost(k, tab[k])
  <1> DEFINE next == [tab EXCEPT ![k] = @ + 1]
             f    == [s \in Skill |-> PaidLevels(s, tab[s])]
             g    == [s \in Skill |-> PaidLevels(s, next[s])]
             v    == PaidLevels(k, tab[k] + 1)
  <1>1. SkillTop[k] \in Nat /\ tab \in [Skill -> Nat]
    BY SkillAssumption DEF Levels
  <1>2. tab[k] \in 0 .. SkillTop[k]
    BY <1>1
  <1>3. next \in Levels /\ next[k] = tab[k] + 1 /\ \A s \in Skill \ {k} : next[s] = tab[s]
    BY <1>1 DEF Levels
  <1> HIDE DEF next
  <1>4. PaidFor(tab) = Sum(f) /\ f \in [Skill -> Nat] /\ Sum(f) \in Nat
    BY PaidForSums
  <1>5. PaidFor(next) = Sum(g) /\ g \in [Skill -> Nat]
    BY <1>3, PaidForSums
  <1>6. /\ v = f[k] + SkillCost(k, tab[k]) /\ f[k] \in Nat /\ v \in Nat
        /\ SkillCost(k, tab[k]) \in Nat
    BY <1>2, LevelCosts
  <1>7. g = [f EXCEPT ![k] = v]
    BY <1>3
  <1> HIDE DEF f, g, v
  <1>8. ASSUME NEW F \in [Skill -> Nat], NEW w \in Nat
        PROVE  Sum([F EXCEPT ![k] = w]) = Sum(F) - F[k] + w
    BY SkillAssumption, SumExcept
  <1>9. Sum(g) = Sum(f) - f[k] + v
    BY <1>4, <1>6, <1>7, <1>8
  <1>10. Sum(g) = Sum(f) + SkillCost(k, tab[k])
    BY <1>4, <1>6, <1>9
  <1> QED
    BY <1>3, <1>4, <1>5, <1>6, <1>10 DEF next

-----------------------------------------------------------------------------
(* Every point of experience is left or was paid.                          *)

\* A round gives as many points as experience (updateXP).
LEMMA GainIsBalanced ==
  ASSUME NEW gain \in [Player -> 0 .. MaxGain], UpdateXP(gain), TypeOK, SkillsPaid
  PROVE  SkillsPaid'
  <1> SUFFICES ASSUME NEW p \in Player
               PROVE  experience'[p] = skillpoints'[p] + XPPerSkillPoints * PaidFor(skilltab'[p])
    BY DEF UpdateXP, SkillsPaid, Player
  <1> DEFINE paid == XPPerSkillPoints * PaidFor(skilltab[p])
  <1>1. /\ experience'[p] = experience[p] + gain[p]
        /\ skillpoints'[p] = skillpoints[p] + gain[p]
        /\ skilltab' = skilltab
    BY DEF UpdateXP
  <1>2. gain[p] \in Int /\ skillpoints[p] \in Int
    BY DEF TypeOK
  <1>3. paid \in Int
    <2>1. skilltab[p] \in Levels
      BY DEF TypeOK, Levels
    <2>2. PaidFor(skilltab[p]) \in Nat
      BY <2>1, PaidForSums
    <2> QED
      BY <2>2, SkillAssumption
  <1>4. experience[p] = skillpoints[p] + paid
    BY DEF SkillsPaid
  <1> HIDE DEF paid
  <1>5. experience'[p] = skillpoints'[p] + paid
    BY <1>1, <1>2, <1>3, <1>4
  <1> QED
    BY <1>1, <1>5 DEF paid

\* The price of a level is taken as the level is written (buySkill).
LEMMA PriceIsBalanced ==
  ASSUME PaySkill, TypeOK, CallHolds, SkillsPaid
  PROVE  SkillsPaid'
  <1> DEFINE b == call.pid
             k == call.skill
             c == SkillCost(k, call.tab[k])
             X == XPPerSkillPoints
  <1>1. /\ b \in Player /\ k \in Skill /\ call.tab = skilltab[b]
        /\ call.tab[k] < SkillTop[k]
    BY DEF PaySkill, CallHolds, Calls
  <1>2. skilltab[b] \in Levels
    BY <1>1 DEF TypeOK, Levels
  <1>3. /\ c \in Nat
        /\ PaidFor([call.tab EXCEPT ![k] = @ + 1]) = PaidFor(skilltab[b]) + c
        /\ PaidFor(skilltab[b]) \in Nat
    BY <1>1, <1>2, OneMoreLevel, PaidForSums
  <1>4. /\ skillpoints' = [skillpoints EXCEPT ![b] = @ - c * X]
        /\ skilltab' = [skilltab EXCEPT ![b] = [call.tab EXCEPT ![k] = @ + 1]]
        /\ experience' = experience /\ players' = players
    BY DEF PaySkill
  <1>5. skillpoints \in [Player -> Nat] /\ skilltab \in [Player -> [Skill -> Nat]] /\ X \in Nat
    BY SkillAssumption DEF TypeOK
  <1> HIDE DEF b, k, c, X
  <1> SUFFICES ASSUME NEW p \in Player
               PROVE  experience[p] = skillpoints'[p] + X * PaidFor(skilltab'[p])
    BY <1>4 DEF SkillsPaid, Player, X
  <1>6. experience[p] = skillpoints[p] + X * PaidFor(skilltab[p])
    BY DEF SkillsPaid, X
  <1>7. CASE p = b
    <2>1. /\ skillpoints'[p] = skillpoints[p] - c * X
          /\ PaidFor(skilltab'[p]) = PaidFor(skilltab[p]) + c
      BY <1>1, <1>3, <1>4, <1>5, <1>7
    <2> DEFINE y == PaidFor(skilltab[p])
    <2>2. y \in Nat /\ skillpoints[p] \in Nat
      BY <1>3, <1>5, <1>7
    <2> HIDE DEF y
    <2>3. X * (y + c) = X * y + c * X /\ X * y \in Int /\ c * X \in Int
      BY <1>3, <1>5, <2>2
    <2>4. PaidFor(skilltab'[p]) = y + c /\ experience[p] = skillpoints[p] + X * y
      BY <1>6, <2>1 DEF y
    <2> QED
      BY <2>1, <2>2, <2>3, <2>4
  <1>8. CASE p # b
    BY <1>4, <1>5, <1>6, <1>8
  <1> QED
    BY <1>7, <1>8

\* Every step keeps the books of the players (addPlayer, clear and the calls above).
LEMMA PaidStep ==
  ASSUME TypeOK, CallHolds, SkillsPaid, [Next]_vars
  PROVE  SkillsPaid'
  <1>1. CASE UNCHANGED <<players, experience, skillpoints, skilltab>>
    BY <1>1 DEF SkillsPaid, Player
  <1>2. CASE AddPlayer
    <2>1. /\ players' = players + 1 /\ players \in Nat
          /\ experience' = Append1(experience, 0) /\ skillpoints' = Append1(skillpoints, 0)
          /\ skilltab' = Append1(skilltab, [s \in Skill |-> 0])
      BY <1>2, AccountBoundsAssumption DEF AddPlayer, TypeOK
    <2> SUFFICES ASSUME NEW p \in 1 .. players + 1
                 PROVE  experience'[p] = skillpoints'[p]
                                           + XPPerSkillPoints * PaidFor(skilltab'[p])
      BY <2>1 DEF SkillsPaid, Player
    <2>2. CASE p = players + 1
      <3>1. /\ experience'[p] = 0 /\ skillpoints'[p] = 0
            /\ skilltab'[p] = [s \in Skill |-> 0]
        BY <2>1, <2>2 DEF Append1
      <3> QED
        BY <3>1, NoSkillsPaid, SkillAssumption
    <2>3. CASE p # players + 1
      <3>1. /\ experience'[p] = experience[p] /\ skillpoints'[p] = skillpoints[p]
            /\ skilltab'[p] = skilltab[p] /\ p \in Player
        BY <2>1, <2>3 DEF Append1, Player
      <3> QED
        BY <3>1 DEF SkillsPaid
    <2> QED
      BY <2>2, <2>3
  <1>3. CASE PaySkill
    BY <1>3, PriceIsBalanced
  <1>4. CASE ClearPlayers
    BY <1>4 DEF ClearPlayers, SkillsPaid, Player
  <1>5. CASE ClearScores
    <2>1. /\ players' = players
          /\ experience' = [p \in Player |-> 0] /\ skillpoints' = [p \in Player |-> 0]
          /\ skilltab' = [p \in Player |-> [s \in Skill |-> 0]]
      BY <1>5 DEF ClearScores
    <2>2. \A p \in Player : /\ experience'[p] = 0 /\ skillpoints'[p] = 0
                            /\ skilltab'[p] = [s \in Skill |-> 0]
      BY <2>1
    <2>3. 0 = 0 + XPPerSkillPoints * PaidFor([s \in Skill |-> 0])
      BY NoSkillsPaid, SkillAssumption
    <2>4. Player' = Player
      BY <2>1 DEF Player
    <2> QED
      BY <2>2, <2>3, <2>4 DEF SkillsPaid
  <1>6. CASE \E gain \in [Player -> 0 .. MaxGain] : UpdateXP(gain)
    BY <1>6, GainIsBalanced
  <1>7. \/ UNCHANGED <<players, experience, skillpoints, skilltab>>
        \/ AddPlayer \/ PaySkill \/ ClearPlayers \/ ClearScores
        \/ \E gain \in [Player -> 0 .. MaxGain] : UpdateXP(gain)
    BY DEF Next, FriendCall, AddFriendshipRequest, AcceptFriendshipRequest, CloseFriendship,
           OnlyFriends, AllianceCall, AddAlliance, DissolveAlliance, QuitAlliance,
           JoinAlliance, TransfertAlliance, SkillCall, BuySkill, ClearCall, Clear, CallStep,
           LeaveAlliance, EraseAlliance, ClearRequests, ClearFriends, ClearAlliances,
           Clearing, RoundStep, ReadPlayers, ReadAlliances, Crash, vars, playerTable
  <1> QED
    BY <1>1, <1>2, <1>3, <1>4, <1>5, <1>6, <1>7

\* No point of experience is lost or won between a round and a purchase: what a purchase
\* has read of the levels still holds when it writes (CallHolds), and the points are
\* written as a difference (DataBase.cpp:1089-1156).
THEOREM SkillsArePaid == Spec => []SkillsPaid
  <1>1. Init => SkillsPaid
    BY DEF Init, SkillsPaid, Player
  <1>2. IInv => TypeOK /\ CallHolds
    BY DEF IInv
  <1>3. IInv /\ SkillsPaid /\ [Next]_vars => SkillsPaid'
    BY <1>2, PaidStep
  <1> QED
    BY <1>1, <1>3, AccountsInductive, PTL DEF Spec
=============================================================================
