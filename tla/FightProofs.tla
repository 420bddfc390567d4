----------------------------- MODULE FightProofs -----------------------------
(* Theorems about module Fight, for any players, fleets, units and figures. *)
EXTENDS Fight, FiniteSetTheorems, TLAPS

-----------------------------------------------------------------------------
(* Types.                                                                  *)

\* A shot leaves life and shield within the figures of the unit's type (fire).
LEMMA HitType ==
    ASSUME NEW l \in Nat, NEW s \in Nat, NEW power \in Nat,
           NEW target \in [life : 0 .. l, shield : 0 .. s]
    PROVE  Hit(target, power) \in [life : 0 .. l, shield : 0 .. s]
  <1>1. target.life \in 0 .. l /\ target.shield \in 0 .. s
    OBVIOUS
  <1>2. target = [life |-> target.life, shield |-> target.shield]
    OBVIOUS
  <1>3. CASE power < target.shield
    <2>1. Hit(target, power) = [life |-> target.life, shield |-> target.shield - power]
      BY <1>2, <1>3 DEF Hit
    <2> QED
      BY <2>1, <1>1, <1>3
  <1>4. CASE ~(power < target.shield)
    <2> DEFINE rest == power - target.shield
    <2>1. rest \in Nat
      BY <1>1, <1>4
    <2>2. Hit(target, power) =
             [life |-> IF rest < target.life THEN target.life - rest ELSE 0, shield |-> 0]
      BY <1>4 DEF Hit
    <2> HIDE DEF rest
    <2>3. (IF rest < target.life THEN target.life - rest ELSE 0) \in 0 .. l
      BY <2>1, <1>1
    <2> QED
      BY <2>2, <2>3
  <1> QED
    BY <1>3, <1>4

\* The units an army brings: triples of the army, a type of its own and a number.
LEMMA UnitsType ==
    ASSUME NEW armies, NEW u \in UnitsOf(armies)
    PROVE  /\ u = <<u[1], u[2], u[3]>>
           /\ u[1] \in armies /\ u[2] \in UnitType /\ u[3] \in 1 .. MaxUnits
           /\ u[2] \in TypesOf(u[1]) /\ u[3] <= tab[u[1]][u[2]]
  BY DEF UnitsOf

-----------------------------------------------------------------------------
\* Before anything happened the invariant holds (execFights).
LEMMA InitInv == Init => IInv
  <1> SUFFICES ASSUME Init PROVE IInv
    OBVIOUS
  <1>1. PICK armies \in {FleetIndex, FleetIndex \cup {PlanetIndex}},
             ships \in [FleetIndex -> [ShipType -> 0 .. MaxUnits]],
             cannons \in [CannonType -> 0 .. MaxUnits] :
          tab = [a \in armies |-> IF a = PlanetIndex THEN cannons ELSE ships[a]]
    BY DEF Init
  <1>2. Army = armies /\ armies \subseteq FleetIndex \cup {PlanetIndex}
    BY <1>1 DEF Army
  <1>3. \A a \in Army : tab[a] \in [TypesOf(a) -> 0 .. MaxUnits]
    BY <1>1, <1>2 DEF TypesOf
  <1>4. DOMAIN allUnits = {}
    BY DEF Init, NoUnits
  <1>5. TypeOK
    <2>1. enemySet \in [Army -> SUBSET Army]
      BY DEF Init
    <2>2. /\ phase = "meet" /\ player \in [Army -> Player] /\ here = Army /\ fighting = {}
          /\ waiting = {} /\ roundCount = 0 /\ dead = {} /\ lost = {}
      BY DEF Init
    <2> QED
      BY <1>2, <1>3, <1>4, <2>1, <2>2 DEF TypeOK, MaxTurn
  <1>6. Unreported
    BY <1>4 DEF Unreported, Init
  <1> QED
    BY <1>5, <1>6 DEF IInv, Bystanders, TwoSides, Init

\* Escapes: the armies that leave take no unit with them, since none is in a list yet.
LEMMA RemoveEscapedInv == IInv /\ RemoveEscaped => IInv'
  <1> SUFFICES ASSUME IInv, RemoveEscaped PROVE IInv'
    OBVIOUS
  <1> USE DEF IInv, RemoveEscaped, meetVars, reportVars
  <1>1. PICK escaped \in SUBSET (here \ {PlanetIndex}) : here' = here \ escaped
    OBVIOUS
  <1>2. DOMAIN allUnits = {} /\ dead = {} /\ lost = {}
    BY DEF Unreported
  <1>3. Army' = Army /\ \A a : TypesOf(a)' = TypesOf(a)
    BY DEF Army, TypesOf
  <1>4. phase = "meet" /\ phase' \in {"ask", "over"}
    OBVIOUS
  <1>5. TypeOK'
    BY <1>1, <1>2, <1>3, <1>4 DEF TypeOK
  <1>6. Bystanders' /\ TwoSides'
    BY <1>4 DEF Bystanders, TwoSides
  <1>7. \A a \in Army : enemySet[a] = {}
    BY <1>4 DEF Unreported
  <1>8. Unreported'
    BY <1>1, <1>2, <1>3, <1>4, <1>7 DEF Unreported
  <1> QED
    BY <1>5, <1>6, <1>8

\* Hostility becomes mutual, and every unit starts whole.
LEMMA AddWantFightInv == IInv /\ AddWantFight => IInv'
  <1> SUFFICES ASSUME IInv, AddWantFight PROVE IInv'
    OBVIOUS
  <1>0. TypeOK /\ Bystanders /\ TwoSides /\ Unreported
    BY DEF IInv
  <1>1. PICK wants \in SUBSET {pair \in PlayersIn(here) \X PlayersIn(here) : pair[1] # pair[2]} :
          fighting' = BothFight(wants)
    BY DEF AddWantFight
  <1>2. PlayersIn(here) \subseteq Player
    BY <1>0 DEF PlayersIn, TypeOK
  <1>3. \A pair \in wants : pair = <<pair[1], pair[2]>> /\ pair \in Player \X Player
                            /\ pair[1] # pair[2]
    BY <1>1, <1>2
  <1>4. /\ fighting' \subseteq Player \X Player
        /\ \A p, q \in Player : <<p, q>> \in fighting' => <<q, p>> \in fighting' /\ p # q
    BY <1>1, <1>3 DEF BothFight
  <1>5. /\ phase = "ask" /\ phase' = "turn"
        /\ UNCHANGED <<player, tab, here, waiting, roundCount, enemySet, dead, lost>>
    BY DEF AddWantFight, meetVars, reportVars
  <1>6. UnitsOf(here)' = UnitsOf(here) /\ Army' = Army /\ \A a : TypesOf(a)' = TypesOf(a)
    BY <1>5 DEF UnitsOf, Army, TypesOf
  <1>7. /\ DOMAIN allUnits' = UnitsOf(here)
        /\ \A u \in UnitsOf(here) : allUnits'[u] = [life |-> Life[u[2]], shield |-> Shield[u[2]]]
    BY DEF Fresh, AddWantFight
  <1>8. \A u \in UnitsOf(here) : Life[u[2]] \in Nat \ {0} /\ Shield[u[2]] \in Nat
    BY UnitsType, StatAssumption
  <1>9. \A u \in UnitsOf(here) :
          /\ allUnits'[u] \in [life : 0 .. Life[u[2]], shield : 0 .. Shield[u[2]]]
          /\ allUnits'[u].life # 0
    BY <1>7, <1>8
  <1>10. TypeOK'
    <2>1. waiting \subseteq {}
      BY <1>0, <1>5 DEF TypeOK, Unreported
    <2> QED
      BY <1>0, <1>4, <1>5, <1>6, <1>7, <1>9, <2>1 DEF TypeOK
  <1>11. Bystanders'
    BY <1>6, <1>7 DEF Bystanders
  <1>12. TwoSides'
    BY <1>4, <1>5 DEF TwoSides
  <1>13. Unreported'
    BY <1>0, <1>5, <1>6 DEF Unreported
  <1> QED
    BY <1>10, <1>11, <1>12, <1>13 DEF IInv

\* A turn begins with full shields and the lives that are left (loadShield).
LEMMA BeginTurnInv == IInv /\ BeginTurn => IInv'
  <1> SUFFICES ASSUME IInv, BeginTurn PROVE IInv'
    OBVIOUS
  <1>0. TypeOK /\ Bystanders /\ TwoSides /\ Unreported
    BY DEF IInv
  <1>1. /\ phase = "turn" /\ phase' = "fire" /\ roundCount < MaxTurn /\ FightAgain
        /\ waiting' = DOMAIN allUnits
        /\ UNCHANGED <<player, tab, here, fighting, roundCount, enemySet, dead, lost>>
    BY DEF BeginTurn, TurnsLeft, meetVars, reportVars
  <1>2. UnitsOf(here)' = UnitsOf(here) /\ Army' = Army /\ \A a : TypesOf(a)' = TypesOf(a)
    BY <1>1 DEF UnitsOf, Army, TypesOf
  <1>3. DOMAIN allUnits' = DOMAIN allUnits
    BY DEF BeginTurn
  <1>4. \A u \in DOMAIN allUnits :
          allUnits'[u] = [life |-> allUnits[u].life, shield |-> Shield[u[2]]]
    <2> TAKE u \in DOMAIN allUnits
    <2>1. allUnits'[u] = [allUnits[u] EXCEPT !.shield = Shield[u[2]]]
      BY DEF BeginTurn
    <2>2. allUnits[u] \in [life : 0 .. Life[u[2]], shield : 0 .. Shield[u[2]]]
      BY <1>0 DEF TypeOK
    <2> QED
      BY <2>1, <2>2
  <1>5. \A u \in DOMAIN allUnits :
          allUnits'[u] \in [life : 0 .. Life[u[2]], shield : 0 .. Shield[u[2]]]
    <2> TAKE u \in DOMAIN allUnits
    <2>0. u \in UnitsOf(here)
      BY <1>0 DEF TypeOK
    <2>1. Shield[u[2]] \in Nat
      BY <2>0, UnitsType, StatAssumption
    <2>2. allUnits[u].life \in 0 .. Life[u[2]]
      BY <1>0 DEF TypeOK
    <2>3. allUnits'[u] = [life |-> allUnits[u].life, shield |-> Shield[u[2]]]
      BY <1>4
    <2> QED
      BY <2>1, <2>2, <2>3
  <1>6. TypeOK'
    BY <1>0, <1>1, <1>2, <1>3, <1>5 DEF TypeOK
  <1>7. Bystanders'
    BY <1>0, <1>1, <1>2, <1>3, <1>4 DEF Bystanders, Enemies, Hostile
  <1>8. TwoSides'
    BY <1>0, <1>1, <1>3 DEF TwoSides, FightAgain, Hostile
  <1>9. Unreported'
    BY <1>0, <1>1, <1>2 DEF Unreported
  <1> QED
    BY <1>6, <1>7, <1>8, <1>9 DEF IInv

\* A shot only touches a unit that has an enemy here (fire).
LEMMA FireInv ==
    ASSUME NEW u \in waiting, NEW v \in DOMAIN allUnits, IInv, Fire(u, v)
    PROVE  IInv'
  <1>0. TypeOK /\ Bystanders /\ TwoSides /\ Unreported
    BY DEF IInv
  <1>1. /\ phase = "fire" /\ phase' = "fire" /\ waiting' = waiting \ {u}
        /\ UNCHANGED <<player, tab, here, fighting, roundCount, enemySet, dead, lost>>
    BY DEF Fire, meetVars, reportVars
  <1>2. UnitsOf(here)' = UnitsOf(here) /\ Army' = Army /\ \A a : TypesOf(a)' = TypesOf(a)
    BY <1>1 DEF UnitsOf, Army, TypesOf
  <1>3. /\ DOMAIN allUnits' = DOMAIN allUnits
        /\ \A w \in DOMAIN allUnits : w # v => allUnits'[w] = allUnits[w]
        /\ allUnits'[v] = Hit(allUnits[v], Power[u[2]])
    BY DEF Fire
  <1>4. u \in UnitsOf(here) /\ v \in UnitsOf(here)
    BY <1>0 DEF TypeOK
  <1>5. Power[u[2]] \in Nat /\ Life[v[2]] \in Nat /\ Shield[v[2]] \in Nat
    BY <1>4, UnitsType, StatAssumption
  <1>6. allUnits'[v] \in [life : 0 .. Life[v[2]], shield : 0 .. Shield[v[2]]]
    BY <1>0, <1>3, <1>5, HitType DEF TypeOK
  <1>7. TypeOK'
    BY <1>0, <1>1, <1>2, <1>3, <1>6 DEF TypeOK
  <1>8. Bystanders'
    <2>1. u[1] \in Enemies(v[1])
      BY <1>4, UnitsType DEF Fire, Targets, Enemies
    <2>2. \A w \in UnitsOf(here) : Enemies(w[1]) = {} => w # v
      BY <2>1
    <2> QED
      BY <1>0, <1>1, <1>2, <1>3, <2>2 DEF Bystanders, Enemies, Hostile
  <1>9. TwoSides'
    BY <1>0, <1>1, <1>3 DEF TwoSides, FightAgain, Hostile
  <1>10. Unreported'
    BY <1>0, <1>1, <1>2 DEF Unreported
  <1> QED
    BY <1>7, <1>8, <1>9, <1>10 DEF IInv

\* The exception changes nothing (fire).
LEMMA FireThrowsInv ==
    ASSUME NEW u \in waiting, IInv, FireThrows(u) PROVE IInv'
  <1>0. TypeOK /\ Bystanders /\ TwoSides /\ Unreported
    BY DEF IInv
  <1>1. /\ phase = "fire" /\ phase' = "thrown"
        /\ UNCHANGED <<player, tab, here, fighting, allUnits, waiting, roundCount, enemySet, dead, lost>>
    BY DEF FireThrows, meetVars, reportVars
  <1>2. UnitsOf(here)' = UnitsOf(here) /\ Army' = Army /\ \A a : TypesOf(a)' = TypesOf(a)
    BY <1>1 DEF UnitsOf, Army, TypesOf
  <1>3. TypeOK'
    BY <1>0, <1>1, <1>2 DEF TypeOK
  <1>4. Bystanders' /\ TwoSides' /\ Unreported'
    BY <1>0, <1>1, <1>2 DEF Bystanders, TwoSides, Unreported
  <1> QED
    BY <1>3, <1>4 DEF IInv

\* Only units without life are removed (remove_erase_if in fight).
LEMMA RemoveDestroyedInv == IInv /\ RemoveDestroyed => IInv'
  <1> SUFFICES ASSUME IInv, RemoveDestroyed PROVE IInv'
    OBVIOUS
  <1>0. TypeOK /\ Bystanders /\ TwoSides /\ Unreported
    BY DEF IInv
  <1>1. /\ phase = "fire" /\ phase' = "turn" /\ waiting = {} /\ roundCount' = roundCount + 1
        /\ UNCHANGED <<player, tab, here, fighting, waiting, enemySet, dead, lost>>
    BY DEF RemoveDestroyed, meetVars, reportVars
  <1>2. UnitsOf(here)' = UnitsOf(here) /\ Army' = Army /\ \A a : TypesOf(a)' = TypesOf(a)
    BY <1>1 DEF UnitsOf, Army, TypesOf
  <1>3. /\ DOMAIN allUnits' = {u \in DOMAIN allUnits : allUnits[u].life > 0}
        /\ \A u \in DOMAIN allUnits' : allUnits'[u] = allUnits[u]
    BY DEF RemoveDestroyed, Restrict
  <1>4. \A u \in DOMAIN allUnits' : allUnits'[u].life # 0
    BY <1>0, <1>3 DEF TypeOK
  <1>5. roundCount' \in 0 .. MaxTurn
    BY <1>0, <1>1 DEF TypeOK, MaxTurn
  <1>6. TypeOK'
    BY <1>0, <1>1, <1>2, <1>3, <1>4, <1>5 DEF TypeOK
  <1>7. Bystanders'
    <2>1. \A u \in UnitsOf(here) : Life[u[2]] > 0
      BY UnitsType, StatAssumption
    <2> QED
      BY <1>0, <1>1, <1>2, <1>3, <2>1 DEF Bystanders, Enemies, Hostile
  <1>8. TwoSides' /\ Unreported'
    BY <1>0, <1>1, <1>2 DEF TwoSides, Unreported
  <1> QED
    BY <1>6, <1>7, <1>8 DEF IInv

-----------------------------------------------------------------------------
(* The end of the fight.                                                   *)

\* An army keeps at most the units it came with (the counts of fight's report).
LEMMA SurvivorsCount ==
    ASSUME TypeOK, NEW a \in here, NEW k \in TypesOf(a)
    PROVE  Cardinality(Survivors(a, k)) \in 0 .. tab[a][k]
  <1>1. tab[a][k] \in 0 .. MaxUnits
    BY DEF TypeOK
  <1>2. tab[a][k] \in Nat
    BY <1>1, TypeAssumption
  <1>3. IsFiniteSet(1 .. tab[a][k]) /\ Cardinality(1 .. tab[a][k]) = tab[a][k]
    <2> DEFINE n == tab[a][k]
    <2>1. n \in Nat /\ 1 \in Int /\ n \in Int
      BY <1>2
    <2> HIDE DEF n
    <2>2. IsFiniteSet(1 .. n) /\ Cardinality(1 .. n) = IF 1 > n THEN 0 ELSE n - 1 + 1
      BY <2>1, FS_Interval
    <2>3. IsFiniteSet(1 .. n) /\ Cardinality(1 .. n) = n
      BY <2>1, <2>2
    <2> QED
      BY <2>3 DEF n
  <1>4. Survivors(a, k) \subseteq 1 .. tab[a][k]
    BY DEF Survivors
  <1>5. IsFiniteSet(Survivors(a, k)) /\ Cardinality(Survivors(a, k)) <= tab[a][k]
    BY <1>3, <1>4, FS_Subset
  <1>6. Cardinality(Survivors(a, k)) \in Nat
    BY <1>5, FS_CardinalityType
  <1> QED
    BY <1>2, <1>5, <1>6

\* What the fight leaves is a table of units for each army, no larger than before.
LEMMA AfterType ==
    ASSUME TypeOK
    PROVE  /\ DOMAIN After = Army
           /\ \A a \in Army : /\ After[a] \in [TypesOf(a) -> 0 .. MaxUnits]
                              /\ \A k \in TypesOf(a) : After[a][k] <= tab[a][k]
  <1>1. DOMAIN After = Army
    BY DEF After
  <1> SUFFICES ASSUME NEW a \in Army
               PROVE  /\ After[a] \in [TypesOf(a) -> 0 .. MaxUnits]
                      /\ \A k \in TypesOf(a) : After[a][k] <= tab[a][k]
    BY <1>1
  <1>2. tab[a] \in [TypesOf(a) -> 0 .. MaxUnits] /\ MaxUnits \in Nat
    BY TypeAssumption DEF TypeOK
  <1>3. CASE a \in here
    <2>1. After[a] = [k \in TypesOf(a) |-> Cardinality(Survivors(a, k))]
      BY <1>3 DEF After
    <2>2. \A k \in TypesOf(a) : tab[a][k] \in 0 .. MaxUnits
      BY <1>2
    <2>3. \A k \in TypesOf(a) : Cardinality(Survivors(a, k)) \in 0 .. tab[a][k]
      BY <1>3, SurvivorsCount
    <2>4. \A k \in TypesOf(a) :
             /\ Cardinality(Survivors(a, k)) \in 0 .. MaxUnits
             /\ Cardinality(Survivors(a, k)) <= tab[a][k]
      BY <1>2, <2>2, <2>3
    <2> QED
      BY <2>1, <2>4
  <1>4. CASE a \notin here
    <2>1. After[a] = tab[a]
      BY <1>4 DEF After
    <2>2. \A k \in TypesOf(a) : tab[a][k] <= tab[a][k]
      BY <1>2
    <2> QED
      BY <1>2, <2>1, <2>2
  <1> QED
    BY <1>3, <1>4

\* The report names the enemies that were there, and the lists of units are dropped.
LEMMA EndFightInv == IInv /\ EndFight => IInv'
  <1> SUFFICES ASSUME IInv, EndFight PROVE IInv'
    OBVIOUS
  <1>0. TypeOK /\ Bystanders /\ TwoSides /\ Unreported
    BY DEF IInv
  <1>1. /\ phase = "turn" /\ phase' = "over" /\ tab' = After /\ enemySet' = Reports
        /\ UNCHANGED <<player, here, fighting, waiting, roundCount>>
    BY DEF EndFight
  <1>2. dead' \subseteq here /\ lost' \subseteq here
    BY <1>0 DEF EndFight, DeadFleets, LostPlanets, TypeOK
  <1>3. DOMAIN allUnits' = {}
    BY DEF EndFight, NoUnits
  <1>4. Army' = Army /\ \A a : TypesOf(a)' = TypesOf(a)
    BY <1>0, <1>1, AfterType DEF Army, TypesOf
  <1>5. \A a \in Army : tab'[a] \in [TypesOf(a) -> 0 .. MaxUnits]
    BY <1>0, <1>1, AfterType
  <1>6. \A a : Enemies(a)' = Enemies(a) /\ Enemies(a) \subseteq here
    BY <1>1 DEF Enemies, Hostile
  <1>7. enemySet' = Reports'
    BY <1>1, <1>4, <1>6 DEF Reports
  <1>8. enemySet' \in [Army -> SUBSET Army]
    BY <1>0, <1>1, <1>6 DEF Reports, TypeOK
  <1>9. waiting' = {}
    BY <1>0, <1>1 DEF TypeOK
  <1>10. TypeOK'
    BY <1>0, <1>1, <1>2, <1>3, <1>4, <1>5, <1>8, <1>9 DEF TypeOK
  <1>11. Bystanders' /\ TwoSides'
    BY <1>0, <1>1 DEF Bystanders, TwoSides
  <1>12. Unreported'
    BY <1>0, <1>1, <1>3, <1>4, <1>6, <1>7 DEF Unreported
  <1> QED
    BY <1>10, <1>11, <1>12 DEF IInv

\* Every step of a meeting keeps the invariant.
LEMMA StepInv == IInv /\ [Next]_vars => IInv'
  <1> SUFFICES ASSUME IInv, [Next]_vars PROVE IInv'
    OBVIOUS
  <1>1. CASE UNCHANGED vars
    <2>1. UNCHANGED <<phase, player, tab, here, fighting, allUnits, waiting, roundCount,
                      enemySet, dead, lost>>
      BY <1>1 DEF vars
    <2>2. UnitsOf(here)' = UnitsOf(here) /\ Army' = Army /\ \A a : TypesOf(a)' = TypesOf(a)
      BY <2>1 DEF UnitsOf, Army, TypesOf
    <2>3. (\A a : Enemies(a)' = Enemies(a)) /\ Reports' = Reports
      BY <2>1, <2>2 DEF Enemies, Hostile, Reports
    <2>4. FightAgain' = FightAgain
      BY <2>1 DEF FightAgain, Hostile
    <2>5. TypeOK'
      BY <2>1, <2>2 DEF IInv, TypeOK
    <2>6. Bystanders' /\ TwoSides' /\ Unreported'
      BY <2>1, <2>2, <2>3, <2>4 DEF IInv, Bystanders, TwoSides, Unreported
    <2> QED
      BY <2>5, <2>6 DEF IInv
  <1>2. CASE Step
    BY <1>2, RemoveEscapedInv, AddWantFightInv, BeginTurnInv, FireInv, FireThrowsInv,
       RemoveDestroyedInv, EndFightInv DEF Step
  <1> QED
    BY <1>1, <1>2 DEF Next, Ended

\* The parts of the invariant hold in every state of every meeting.
THEOREM Inductive == Spec => []IInv
  BY InitInv, StepInv, PTL DEF Spec

-----------------------------------------------------------------------------
(* What the players may rely on.                                           *)

\* Who is named as an enemy names the other as well (fillReport's enemySet).
THEOREM FightsMutual == Spec => []FightsAreMutual
  <1>1. IInv => FightsAreMutual
    <2> SUFFICES ASSUME IInv, NEW a \in here, NEW b \in enemySet[a] PROVE a \in enemySet[b]
      BY DEF FightsAreMutual
    <2>0. TypeOK /\ TwoSides /\ Unreported
      BY DEF IInv
    <2>1. a \in Army /\ here \subseteq Army /\ phase = "over" /\ enemySet = Reports
      BY <2>0 DEF TypeOK, Unreported
    <2>2. b \in here /\ b \in Army /\ Hostile(a, b)
      BY <2>1 DEF Enemies, Reports
    <2>3. player[a] \in Player /\ player[b] \in Player
      BY <2>0, <2>1, <2>2 DEF TypeOK
    <2>4. a \in Enemies(b)
      BY <2>0, <2>2, <2>3 DEF Enemies, Hostile, TwoSides
    <2> QED
      BY <2>1, <2>2, <2>4 DEF Reports
  <1> QED
    BY <1>1, Inductive, PTL

\* A fight stops before its last turn only when no two enemies have units (fightAgain).
LEMMA EndFightLetsNobodyGo == IInv /\ EndFight => NobodyLetGo'
  <1> SUFFICES ASSUME IInv, EndFight, roundCount' < MaxTurn,
                      NEW a \in here', NEW b \in enemySet'[a],
                      ~IsEmpty(tab'[a]), ~IsEmpty(tab'[b])
               PROVE  FALSE
    BY DEF NobodyLetGo, IsEmpty
  <1>0. TypeOK
    BY DEF IInv
  <1>1. /\ tab' = After /\ enemySet' = Reports /\ here' = here /\ roundCount' = roundCount
        /\ ~(TurnsLeft /\ FightAgain)
    BY DEF EndFight
  <1>2. a \in here /\ a \in Army
    BY <1>0, <1>1 DEF TypeOK
  <1>3. b \in here /\ Hostile(a, b)
    BY <1>1, <1>2 DEF Reports, Enemies
  <1>4. ~FightAgain
    BY <1>1 DEF TurnsLeft
  <1>5. ASSUME NEW c \in here, ~IsEmpty(tab'[c])
        PROVE  \E u \in DOMAIN allUnits : u[1] = c
    <2>1. c \in Army
      BY <1>0 DEF TypeOK
    <2>2. tab'[c] = [k \in TypesOf(c) |-> Cardinality(Survivors(c, k))]
      BY <1>1, <2>1 DEF After
    <2>3. PICK k \in TypesOf(c) : Cardinality(Survivors(c, k)) # 0
      BY <1>5, <2>2 DEF IsEmpty
    <2>4. Survivors(c, k) # {}
      BY <2>3, FS_EmptySet
    <2>5. PICK n \in 1 .. tab[c][k] : <<c, k, n>> \in DOMAIN allUnits
      BY <2>4 DEF Survivors
    <2> QED
      BY <2>5
  <1>6. PICK u \in DOMAIN allUnits : u[1] = a
    BY <1>2, <1>5
  <1>7. PICK v \in DOMAIN allUnits : v[1] = b
    BY <1>3, <1>5
  <1> QED
    BY <1>3, <1>4, <1>6, <1>7 DEF FightAgain

\* No two enemies leave a fight alive before its last turn, whatever third parties do.
THEOREM NobodyIsLetGo == Spec => []NobodyLetGo
  <1>1. Init => NobodyLetGo
    BY DEF Init, NobodyLetGo
  <1>2. IInv /\ NobodyLetGo /\ [Next]_vars => NobodyLetGo'
    <2> SUFFICES ASSUME IInv, NobodyLetGo, [Next]_vars PROVE NobodyLetGo'
      OBVIOUS
    <2>1. CASE UNCHANGED vars
      <3>1. UNCHANGED <<phase, roundCount, here, enemySet, tab>>
        BY <2>1 DEF vars
      <3> QED
        BY <3>1 DEF NobodyLetGo, IsEmpty
    <2>2. CASE EndFight
      BY <2>2, EndFightLetsNobodyGo
    <2>3. CASE RemoveEscaped
      <3>1. phase = "meet" /\ enemySet' = enemySet /\ here' \subseteq here
        BY <2>3 DEF RemoveEscaped, reportVars
      <3>2. \A a \in here' : enemySet'[a] = {}
        BY <3>1 DEF IInv, TypeOK, Unreported
      <3> QED
        BY <3>2 DEF NobodyLetGo
    <2>4. CASE phase' # "over"
      BY <2>4 DEF NobodyLetGo
    <2>5. AddWantFight \/ BeginTurn \/ RemoveDestroyed => phase' # "over"
      BY DEF AddWantFight, BeginTurn, RemoveDestroyed
    <2>6. ASSUME NEW u \in waiting PROVE FireThrows(u) => phase' # "over"
      BY DEF FireThrows
    <2>7. ASSUME NEW u \in waiting, NEW v \in DOMAIN allUnits
          PROVE  Fire(u, v) => phase' # "over"
      BY DEF Fire
    <2> QED
      BY <2>1, <2>2, <2>3, <2>4, <2>5, <2>6, <2>7 DEF Next, Step, Ended
  <1> QED
    BY <1>1, <1>2, Inductive, PTL DEF Spec

\* Three players are more than two.
LEMMA TwoPlayers ==
    ASSUME TypeOK, Cardinality(PlayersIn(Army)) = 2,
           NEW p \in PlayersIn(Army), NEW q \in PlayersIn(Army), NEW r \in PlayersIn(Army),
           p # q
    PROVE  r = p \/ r = q
  <1> SUFFICES ASSUME r # p, r # q PROVE FALSE
    OBVIOUS
  <1>1. IsFiniteSet(FleetIndex \cup {PlanetIndex})
    <2>1. FleetCount \in Int /\ FleetCount - 1 \in Int /\ 0 \in Int
      BY TypeAssumption
    <2>2. IsFiniteSet(FleetIndex)
      BY <2>1, FS_Interval DEF FleetIndex
    <2> QED
      BY <2>2, FS_AddElement
  <1>2. IsFiniteSet(Army)
    BY <1>1, FS_Subset DEF TypeOK
  <1>3. player \in Surjection(Army, PlayersIn(Army))
    BY DEF Surjection, PlayersIn, TypeOK
  <1>4. IsFiniteSet(PlayersIn(Army))
    BY <1>2, <1>3, FS_Surjection
  <1>5. IsFiniteSet({p}) /\ Cardinality({p}) = 1
    BY FS_Singleton
  <1>6. IsFiniteSet({p} \cup {q}) /\ Cardinality({p} \cup {q}) = 2
    BY <1>5, FS_AddElement
  <1>7. Cardinality(({p} \cup {q}) \cup {r}) = 3
    BY <1>6, FS_AddElement
  <1>8. ({p} \cup {q}) \cup {r} \in SUBSET PlayersIn(Army)
    OBVIOUS
  <1>9. Cardinality(({p} \cup {q}) \cup {r}) <= Cardinality(PlayersIn(Army))
    BY <1>4, <1>8, FS_Subset
  <1> QED
    BY <1>7, <1>9

\* Of two players at war, each unit that fires finds an enemy (the cast of fire).
LEMMA NoThrowInDuel ==
    ASSUME IInv, Cardinality(PlayersIn(Army)) = 2, NEW u \in waiting, FireThrows(u)
    PROVE  FALSE
  <1>0. TypeOK /\ TwoSides
    BY DEF IInv
  <1>1. PICK v \in DOMAIN allUnits, w \in DOMAIN allUnits : Hostile(v[1], w[1])
    BY <1>0 DEF TwoSides, FightAgain, FireThrows
  <1>2. u \in DOMAIN allUnits /\ DOMAIN allUnits \subseteq UnitsOf(here) /\ here \subseteq Army
    BY <1>0 DEF TypeOK
  <1>3. u[1] \in Army /\ v[1] \in Army /\ w[1] \in Army
    BY <1>2, UnitsType
  <1>4. \A a \in Army : player[a] \in PlayersIn(Army) /\ player[a] \in Player
    BY <1>0 DEF PlayersIn, TypeOK
  <1>5. /\ <<player[v[1]], player[w[1]]>> \in fighting
        /\ <<player[w[1]], player[v[1]]>> \in fighting /\ player[v[1]] # player[w[1]]
    BY <1>0, <1>1, <1>3, <1>4 DEF TwoSides, Hostile
  <1>6. player[u[1]] = player[v[1]] \/ player[u[1]] = player[w[1]]
    BY <1>0, <1>3, <1>4, <1>5, TwoPlayers
  <1>7. v \in Targets(u) \/ w \in Targets(u)
    BY <1>5, <1>6 DEF Targets, Hostile
  <1> QED
    BY <1>7 DEF FireThrows

\* A meeting of two players never throws.
THEOREM DuelsHaveTargets == Spec => []DuelHasTargets
  <1>1. Init => DuelHasTargets
    BY DEF Init, DuelHasTargets, EveryShotHasTarget
  <1>2. IInv /\ DuelHasTargets /\ [Next]_vars => DuelHasTargets'
    <2> SUFFICES ASSUME IInv, DuelHasTargets, [Next]_vars PROVE DuelHasTargets'
      OBVIOUS
    <2>1. player' = player /\ Army' = Army
      <3>1. CASE EndFight
        BY <3>1, AfterType DEF EndFight, Army, IInv
      <3>2. CASE ~EndFight
        BY <3>2 DEF Next, Step, Ended, vars, meetVars, RemoveEscaped, AddWantFight, BeginTurn,
                    Fire, FireThrows, RemoveDestroyed, Army
      <3> QED
        BY <3>1, <3>2
    <2>2. PlayersIn(Army)' = PlayersIn(Army)
      BY <2>1 DEF PlayersIn
    <2>3. SUFFICES ASSUME Cardinality(PlayersIn(Army)) = 2, phase # "thrown", phase' = "thrown"
                   PROVE  FALSE
      BY <2>2 DEF DuelHasTargets, EveryShotHasTarget
    <2>4. \E u \in waiting : FireThrows(u)
      BY <2>3 DEF Next, Step, Ended, vars, RemoveEscaped, AddWantFight, BeginTurn, Fire,
                  RemoveDestroyed, EndFight
    <2> QED
      BY <2>3, <2>4, NoThrowInDuel
  <1> QED
    BY <1>1, <1>2, Inductive, PTL DEF Spec

-----------------------------------------------------------------------------
(* A fight, shot by shot, is an encounter.                                 *)

\* An army without an enemy leaves as it came (the else branch of enemyVects).
LEMMA BystanderUntouched ==
    ASSUME IInv, phase = "turn", NEW a \in here, Enemies(a) = {}
    PROVE  After[a] = tab[a]
  <1>0. TypeOK /\ Bystanders
    BY DEF IInv
  <1>1. a \in Army /\ tab[a] \in [TypesOf(a) -> 0 .. MaxUnits] /\ MaxUnits \in Nat
    BY <1>0, TypeAssumption DEF TypeOK
  <1>2. After[a] = [k \in TypesOf(a) |-> Cardinality(Survivors(a, k))]
    BY <1>1 DEF After
  <1>3. ASSUME NEW k \in TypesOf(a) PROVE Cardinality(Survivors(a, k)) = tab[a][k]
    <2> DEFINE n == tab[a][k]
    <2>1. n \in 0 .. MaxUnits
      BY <1>1
    <2>2. k \in UnitType
      BY DEF TypesOf, UnitType
    <2>3. \A i \in 1 .. n : i \in 1 .. MaxUnits /\ i <= n
      BY <1>1, <2>1
    <2>4. \A i \in 1 .. n : <<a, k, i>> \in UnitsOf(here)
      BY <2>2, <2>3 DEF UnitsOf
    <2>5. \A i \in 1 .. n : <<a, k, i>> \in DOMAIN allUnits
      BY <1>0, <2>4 DEF Bystanders
    <2>6. Survivors(a, k) = 1 .. n
      BY <2>5 DEF Survivors
    <2> HIDE DEF n
    <2>7. n \in Int /\ 1 \in Int /\ n >= 0
      BY <1>1, <2>1
    <2>8. Cardinality(1 .. n) = n
      BY <2>7, FS_Interval
    <2> QED
      BY <2>6, <2>8 DEF n
  <1> QED
    BY <1>1, <1>2, <1>3

\* The planet falls when no fleet of its owner is left (execFights' loop over lostPlanets).
LEMMA PlanetFalls ==
    ASSUME TypeOK, NEW c \in here, c = PlanetIndex, IsEmpty(After[c])
    PROVE  player[c] \notin PlayersIn(here \ ({c} \cup DeadFleets(After)))
             <=> \A f \in here \ {c} : player[f] = player[c] => IsEmpty(After[f])
  BY DEF PlayersIn, DeadFleets

\* The end of a fight is the encounter of those that stayed.
LEMMA EndFightIsNext == IInv /\ EndFight => Meeting!Next
  <1> SUFFICES ASSUME IInv, EndFight PROVE Meeting!Next
    OBVIOUS
  <1>0. TypeOK /\ Bystanders /\ TwoSides /\ Unreported
    BY DEF IInv
  <1>1. /\ phase = "turn" /\ phase' = "over" /\ tab' = After /\ player' = player
        /\ IF \E a \in here : Reports[a] # {}
           THEN dead' = DeadFleets(After) /\ lost' = LostPlanets(After)
           ELSE UNCHANGED <<dead, lost>>
    BY DEF EndFight
  <1>2. DOMAIN tab' = Meeting!Army
    BY <1>0, <1>1, AfterType DEF Meeting!Army, Army
  <1>3. here \in SUBSET Meeting!Army /\ fighting \in SUBSET (Player \X Player)
    BY <1>0 DEF TypeOK, Meeting!Army, Army
  <1>4. here \subseteq Army
    BY <1>0 DEF TypeOK
  <1>5. \A a : Meeting!Enemies(a, here, fighting) = Enemies(a)
    BY DEF Meeting!Enemies, Enemies, Hostile
  <1>6. Meeting!Engaged(here, fighting) = {a \in here : Enemies(a) # {}}
    BY <1>5 DEF Meeting!Engaged
  <1> DEFINE engaged == Meeting!Engaged(here, fighting)
  <1>7. (engaged = {}) <=> ~(\E a \in here : Reports[a] # {})
    BY <1>4, <1>6 DEF Reports
  <1>8. ASSUME NEW a \in Army PROVE Meeting!Suffers(a, engaged)
    <2>1. CASE a \in engaged
      <3>1. DOMAIN tab[a] = TypesOf(a)
        BY <1>0 DEF TypeOK
      <3>2. DOMAIN tab'[a] = TypesOf(a) /\ \A k \in TypesOf(a) : tab'[a][k] <= tab[a][k]
        BY <1>0, <1>1, AfterType
      <3> QED
        BY <2>1, <3>1, <3>2 DEF Meeting!Suffers
    <2>2. CASE a \in here /\ a \notin engaged
      <3>1. Enemies(a) = {}
        BY <1>6, <2>2
      <3>2. tab'[a] = tab[a]
        BY <1>1, <2>2, <3>1, BystanderUntouched
      <3> QED
        BY <2>2, <3>2 DEF Meeting!Suffers
    <2>3. CASE a \notin here
      <3>1. tab'[a] = tab[a]
        BY <1>1, <2>3 DEF After
      <3>2. a \notin engaged
        BY <1>6, <2>3
      <3> QED
        BY <3>1, <3>2 DEF Meeting!Suffers
    <2> QED
      BY <2>1, <2>2, <2>3
  <1>9. Meeting!Destroyed(here) = DeadFleets(After)
    BY <1>1 DEF Meeting!Destroyed, DeadFleets, Meeting!IsEmpty, IsEmpty
  <1>10. Meeting!Taken(here) = LostPlanets(After)
    <2>1. \A t : Meeting!IsEmpty(t) <=> IsEmpty(t)
      BY DEF Meeting!IsEmpty, IsEmpty
    <2>2. \A c \in here \cap {PlanetIndex} :
             /\ IsEmpty(After[c])
             /\ player[c] \notin PlayersIn(here \ ({c} \cup DeadFleets(After)))
             <=> /\ Meeting!IsEmpty(tab'[c])
                 /\ \A f \in here \ {c} : player[f] = player[c] => Meeting!IsEmpty(tab'[f])
      BY <1>0, <1>1, <2>1, PlanetFalls
    <2> QED
      BY <2>2 DEF Meeting!Taken, LostPlanets
  <1>11. Meeting!Outcome(here, fighting)
    <2>1. PlanetIndex \in Meeting!Army => PlanetIndex \in here
      BY <1>0 DEF Unreported, Meeting!Army, Army
    <2>2. \A p, q \in Player : <<p, q>> \in fighting => <<q, p>> \in fighting /\ p # q
      BY <1>0 DEF TwoSides
    <2>3. \A a \in Meeting!Army : Meeting!Suffers(a, engaged)
      BY <1>8 DEF Meeting!Army, Army
    <2>4. IF engaged = {} THEN UNCHANGED <<dead, lost>>
          ELSE dead' = Meeting!Destroyed(here) /\ lost' = Meeting!Taken(here)
      BY <1>1, <1>7, <1>9, <1>10
    <2> QED
      BY <2>1, <2>2, <2>3, <2>4 DEF Meeting!Outcome
  <1> QED
    BY <1>1, <1>2, <1>3, <1>11 DEF Meeting!Next

\* Where all adversaries escaped, the encounter is one without enemies.
LEMMA EscapeIsNext == IInv /\ RemoveEscaped /\ phase' = "over" => Meeting!Next
  <1> SUFFICES ASSUME IInv, RemoveEscaped, phase' = "over" PROVE Meeting!Next
    OBVIOUS
  <1>1. /\ phase = "meet" /\ UNCHANGED <<player, tab, dead, lost>>
        /\ here' \subseteq here /\ (PlanetIndex \in here => PlanetIndex \in here')
    BY DEF RemoveEscaped, meetVars, reportVars
  <1>2. here' \in SUBSET Meeting!Army /\ {} \in SUBSET (Player \X Player)
    BY <1>1 DEF IInv, TypeOK, Meeting!Army, Army
  <1>3. Meeting!Engaged(here', {}) = {}
    BY DEF Meeting!Engaged, Meeting!Enemies
  <1>4. \A a \in Meeting!Army : Meeting!Suffers(a, {})
    BY <1>1 DEF Meeting!Suffers
  <1>5. PlanetIndex \in Meeting!Army => PlanetIndex \in here'
    BY <1>1 DEF IInv, Unreported, Meeting!Army, Army
  <1>6. Meeting!Outcome(here', {})
    BY <1>1, <1>3, <1>4, <1>5 DEF Meeting!Outcome
  <1>7. DOMAIN tab' = Meeting!Army
    BY <1>1 DEF Meeting!Army
  <1> QED
    BY <1>1, <1>2, <1>6, <1>7 DEF Meeting!Next

\* Every meeting that execFights and fight() compute is one that module Encounter allows.
THEOREM ImplementsEncounter == Spec => IsEncounter
  <1>1. Init => Meeting!Init
    BY DEF Init, Meeting!Init
  <1>2. IInv /\ [Next]_vars => [Meeting!Next]_(Meeting!vars)
    <2> SUFFICES ASSUME IInv, [Next]_vars, ~(UNCHANGED Meeting!vars) PROVE Meeting!Next
      OBVIOUS
    <2>1. CASE EndFight
      BY <2>1, EndFightIsNext
    <2>2. CASE RemoveEscaped
      <3>1. phase = "meet" /\ UNCHANGED <<player, tab, dead, lost>>
        BY <2>2 DEF RemoveEscaped, meetVars, reportVars
      <3>2. phase' = "over"
        BY <3>1 DEF Meeting!vars
      <3> QED
        BY <2>2, <3>2, EscapeIsNext
    <2>3. CASE UNCHANGED vars
      BY <2>3 DEF vars, Meeting!vars
    <2>4. UNCHANGED <<player, tab, dead, lost>> /\ phase # "over" /\ phase' # "over" => FALSE
      BY DEF Meeting!vars
    <2>5. AddWantFight \/ BeginTurn \/ RemoveDestroyed => FALSE
      BY <2>4 DEF AddWantFight, BeginTurn, RemoveDestroyed, meetVars, reportVars
    <2>6. ASSUME NEW u \in waiting PROVE FireThrows(u) => FALSE
      BY <2>4 DEF FireThrows, meetVars, reportVars
    <2>7. ASSUME NEW u \in waiting, NEW v \in DOMAIN allUnits PROVE Fire(u, v) => FALSE
      BY <2>4 DEF Fire, meetVars, reportVars
    <2> QED
      BY <2>1, <2>2, <2>3, <2>5, <2>6, <2>7 DEF Next, Step, Ended
  <1> QED
    BY <1>1, <1>2, Inductive, PTL DEF Spec, IsEncounter, Meeting!Spec

-----------------------------------------------------------------------------
(* Every step brings the end of the fight nearer.                          *)

\* There are finitely many units.
LEMMA UnitsFinite ==
  ASSUME TypeOK, NEW armies \in SUBSET Army
  PROVE  IsFiniteSet(UnitsOf(armies)) /\ Cardinality(UnitsOf(armies)) \in Nat
  <1>1. IsFiniteSet(Army)
    <2>1. 0 \in Int /\ FleetCount - 1 \in Int
      BY TypeAssumption DEF TypeAssumption
    <2>3. IsFiniteSet(FleetIndex)
      BY <2>1, FS_Interval DEF FleetIndex
    <2>4. IsFiniteSet({PlanetIndex})
      BY FS_Singleton
    <2>2. IsFiniteSet(FleetIndex \cup {PlanetIndex})
      BY <2>3, <2>4, FS_Union
    <2> QED
      BY <2>2, FS_Subset DEF TypeOK
  <1>2. IsFiniteSet(armies)
    BY <1>1, FS_Subset
  <1>3. IsFiniteSet(UnitType)
    BY TypeAssumption, FS_Union DEF UnitType
  <1>4. IsFiniteSet(1 .. MaxUnits)
    BY TypeAssumption, FS_Interval
  <1>5. IsFiniteSet(UnitType \X (1 .. MaxUnits))
    BY <1>3, <1>4, FS_Product
  <1>6. IsFiniteSet(armies \X (UnitType \X (1 .. MaxUnits)))
    BY <1>2, <1>5, FS_Product
  <1> DEFINE f == [w \in armies \X (UnitType \X (1 .. MaxUnits)) |-> <<w[1], w[2][1], w[2][2]>>]
             T == armies \X UnitType \X (1 .. MaxUnits)
  <1>7. f \in Surjection(armies \X (UnitType \X (1 .. MaxUnits)), T)
    <2>1. ASSUME NEW w \in armies \X (UnitType \X (1 .. MaxUnits))
          PROVE  <<w[1], w[2][1], w[2][2]>> \in T
      <3>1. w[1] \in armies /\ w[2] \in UnitType \X (1 .. MaxUnits)
        BY <2>1
      <3>2. w[2][1] \in UnitType /\ w[2][2] \in 1 .. MaxUnits
        BY <3>1
      <3> QED
        BY <3>1, <3>2
    <2>3. f \in [armies \X (UnitType \X (1 .. MaxUnits)) -> T]
      BY <2>1
    <2>2. ASSUME NEW u \in T
          PROVE  \E w \in armies \X (UnitType \X (1 .. MaxUnits)) : f[w] = u
      <3> DEFINE w == <<u[1], <<u[2], u[3]>>>>
      <3>1. w \in armies \X (UnitType \X (1 .. MaxUnits)) /\ f[w] = u
        OBVIOUS
      <3> QED
        BY <3>1
    <2> QED
      BY <2>2, <2>3 DEF Surjection
  <1> HIDE DEF f, T
  <1>8. IsFiniteSet(T)
    BY <1>6, <1>7, FS_Surjection
  <1>9. UnitsOf(armies) \subseteq T
    BY DEF UnitsOf, T
  <1> QED
    BY <1>8, <1>9, FS_Subset, FS_CardinalityType

\* More turns, or more units, take more steps.
LEMMA TurnsGrow ==
  ASSUME NEW j \in 0 .. MaxTurn, NEW k \in 0 .. j,
         NEW U, IsFiniteSet(U), NEW V \in SUBSET U
  PROVE  Turns(k, V) \in Nat /\ Turns(j, U) \in Nat /\ Turns(k, V) <= Turns(j, U)
  <1> DEFINE m == Cardinality(V) + 3
             n == Cardinality(U) + 3
  <1>1. m \in Nat /\ n \in Nat /\ m <= n
    BY FS_Subset, FS_CardinalityType
  <1> HIDE DEF m, n
  <1>2. j \in {0, 1, 2, 3, 4, 5} /\ k \in {0, 1, 2, 3, 4, 5} /\ k <= j
    BY DEF MaxTurn
  <1>3. k * m \in Nat /\ j * n \in Nat /\ k * m <= k * n
    BY <1>1, <1>2
  <1>4. k * n <= j * n
    BY <1>1, <1>2
  <1>5. k * m <= j * n
    BY <1>1, <1>2, <1>3, <1>4
  <1>6. Turns(k, V) = k * m /\ Turns(j, U) = j * n
    BY DEF Turns, m, n
  <1> QED
    BY <1>3, <1>5, <1>6

\* A turn more takes a step for each unit, and three others.
LEMMA OneTurnMore ==
  ASSUME NEW k \in 1 .. MaxTurn, NEW U, IsFiniteSet(U)
  PROVE  Turns(k, U) = Turns(k - 1, U) + Cardinality(U) + 3 /\ Turns(k - 1, U) \in Nat
  <1> DEFINE n == Cardinality(U)
  <1>1. n \in Nat
    BY FS_CardinalityType
  <1>2. Turns(k, U) = k * (n + 3) /\ Turns(k - 1, U) = (k - 1) * (n + 3)
    BY DEF Turns
  <1> HIDE DEF n
  <1>3. k \in {1, 2, 3, 4, 5}
    BY DEF MaxTurn
  <1>4. k * (n + 3) = (k - 1) * (n + 3) + n + 3 /\ (k - 1) * (n + 3) \in Nat
    BY <1>1, <1>3
  <1> QED
    BY <1>2, <1>4 DEF n

\* Each step of fight() and execFights leaves fewer to be taken.
LEMMA StepShortens == IInv /\ Step => Left' \in 0 .. Left - 1
  <1> SUFFICES ASSUME IInv, Step PROVE Left' \in 0 .. Left - 1
    OBVIOUS
  <1>0. TypeOK
    BY DEF IInv
  <1>1. /\ here \subseteq Army /\ IsFiniteSet(UnitsOf(Army)) /\ IsFiniteSet(UnitsOf(here))
        /\ Cardinality(UnitsOf(Army)) \in Nat /\ Cardinality(UnitsOf(here)) \in Nat
    BY <1>0, UnitsFinite DEF TypeOK
  <1>2. /\ IsFiniteSet(DOMAIN allUnits) /\ Cardinality(DOMAIN allUnits) \in Nat
        /\ IsFiniteSet(waiting) /\ Cardinality(waiting) \in Nat
        /\ roundCount \in 0 .. MaxTurn
    BY <1>0, <1>1, FS_Subset, FS_CardinalityType DEF TypeOK
  <1>3. CASE RemoveEscaped
    <2>1. /\ phase = "meet" /\ here' \subseteq Army /\ UNCHANGED <<player, tab>>
          /\ phase' \in {"ask", "over"}
      BY <1>1, <1>3 DEF RemoveEscaped, meetVars
    <2>2. UnitsOf(here)' \subseteq UnitsOf(Army)
      BY <2>1 DEF UnitsOf, TypesOf
    <2>3. /\ Turns(MaxTurn, UnitsOf(here)') \in Nat /\ Turns(MaxTurn, UnitsOf(Army)) \in Nat
          /\ Turns(MaxTurn, UnitsOf(here)') <= Turns(MaxTurn, UnitsOf(Army))
      BY <1>1, <2>2, TurnsGrow DEF MaxTurn
    <2>4. Left = 3 + Turns(MaxTurn, UnitsOf(Army))
      BY <2>1 DEF Left
    <2>5. Left' = 2 + Turns(MaxTurn, UnitsOf(here)') \/ Left' = 0
      BY <2>1 DEF Left, Turns
    <2> QED
      BY <2>3, <2>4, <2>5
  <1>4. CASE AddWantFight
    <2>1. /\ phase = "ask" /\ phase' = "turn" /\ DOMAIN allUnits' = UnitsOf(here)
          /\ roundCount' = roundCount
      BY <1>4 DEF AddWantFight
    <2>2. MaxTurn - roundCount \in 0 .. MaxTurn
      BY <1>2 DEF MaxTurn
    <2>3. /\ Turns(MaxTurn - roundCount, UnitsOf(here)) \in Nat
          /\ Turns(MaxTurn, UnitsOf(here)) \in Nat
          /\ Turns(MaxTurn - roundCount, UnitsOf(here)) <= Turns(MaxTurn, UnitsOf(here))
      BY <1>1, <2>2, TurnsGrow DEF MaxTurn
    <2>4. /\ Left = 2 + Turns(MaxTurn, UnitsOf(here))
          /\ Left' = 1 + Turns(MaxTurn - roundCount, UnitsOf(here))
      BY <2>1 DEF Left, Turns
    <2> QED
      BY <2>3, <2>4
  <1>5. CASE BeginTurn
    <2> DEFINE k == MaxTurn - roundCount
    <2>1. /\ phase = "turn" /\ phase' = "fire" /\ roundCount < MaxTurn
          /\ DOMAIN allUnits' = DOMAIN allUnits /\ waiting' = DOMAIN allUnits
          /\ roundCount' = roundCount
      BY <1>5 DEF BeginTurn, TurnsLeft
    <2>2. k \in 1 .. MaxTurn
      BY <1>2, <2>1 DEF MaxTurn
    <2>3. /\ Left = 1 + Turns(k, DOMAIN allUnits)
          /\ Left' = 2 + Turns(k - 1, DOMAIN allUnits) + Cardinality(DOMAIN allUnits)
      BY <2>1 DEF Left, Turns
    <2>4. /\ Turns(k, DOMAIN allUnits)
               = Turns(k - 1, DOMAIN allUnits) + Cardinality(DOMAIN allUnits) + 3
          /\ Turns(k - 1, DOMAIN allUnits) \in Nat
      BY <1>2, <2>2, OneTurnMore
    <2> QED
      BY <1>2, <2>3, <2>4
  <1>6. ASSUME NEW u \in waiting, FireThrows(u) \/ \E v \in DOMAIN allUnits : Fire(u, v)
        PROVE  Left' \in 0 .. Left - 1
    <2> DEFINE k == MaxTurn - roundCount
    <2>1. phase = "fire" /\ k \in 1 .. MaxTurn
      BY <1>0, <1>2, <1>6 DEF FireThrows, Fire, TypeOK, MaxTurn
    <2>2. /\ Left = 2 + Turns(k - 1, DOMAIN allUnits) + Cardinality(waiting)
          /\ Turns(k - 1, DOMAIN allUnits) \in Nat
      BY <1>2, <2>1, OneTurnMore DEF Left
    <2>3. CASE FireThrows(u)
      <3>1. Left' = 0
        BY <2>3 DEF FireThrows, Left
      <3> QED
        BY <1>2, <2>2, <3>1
    <2>4. CASE \E v \in DOMAIN allUnits : Fire(u, v)
      <3>1. /\ phase' = "fire" /\ roundCount' = roundCount
            /\ DOMAIN allUnits' = DOMAIN allUnits /\ waiting' = waiting \ {u}
        BY <2>1, <2>4 DEF Fire
      <3>2. Left' = 2 + Turns(k - 1, DOMAIN allUnits) + Cardinality(waiting')
        BY <3>1 DEF Left, Turns
      <3>3. Cardinality(waiting') = Cardinality(waiting) - 1 /\ Cardinality(waiting') \in Nat
        BY <1>2, <3>1, FS_RemoveElement, FS_CardinalityType
      <3> QED
        BY <1>2, <2>2, <3>2, <3>3
    <2> QED
      BY <1>6, <2>3, <2>4
  <1>7. CASE RemoveDestroyed
    <2> DEFINE k == MaxTurn - roundCount
    <2>1. /\ phase = "fire" /\ phase' = "turn" /\ waiting = {} /\ roundCount' = roundCount + 1
          /\ DOMAIN allUnits' \subseteq DOMAIN allUnits
      BY <1>7 DEF RemoveDestroyed, Restrict
    <2>2. k - 1 \in 0 .. MaxTurn /\ MaxTurn - (roundCount + 1) = k - 1
      BY <1>0, <1>2, <2>1 DEF TypeOK, MaxTurn
    <2>3. /\ Left = 2 + Turns(k - 1, DOMAIN allUnits)
          /\ Left' = 1 + Turns(k - 1, DOMAIN allUnits')
      <3>1. Cardinality(waiting) = 0
        BY <2>1, FS_EmptySet
      <3>2. Left = 2 + Turns(k - 1, DOMAIN allUnits) + Cardinality(waiting)
        BY <2>1 DEF Left
      <3>3. Left' = 1 + Turns(MaxTurn - (roundCount + 1), DOMAIN allUnits')
        BY <2>1 DEF Left, Turns
      <3>4. Turns(k - 1, DOMAIN allUnits) \in Nat
        BY <1>2, <2>2, TurnsGrow
      <3> QED
        BY <2>2, <3>1, <3>2, <3>3, <3>4
    <2>4. /\ Turns(k - 1, DOMAIN allUnits') \in Nat /\ Turns(k - 1, DOMAIN allUnits) \in Nat
          /\ Turns(k - 1, DOMAIN allUnits') <= Turns(k - 1, DOMAIN allUnits)
      BY <1>2, <2>1, <2>2, TurnsGrow
    <2> QED
      BY <2>3, <2>4
  <1>8. CASE EndFight
    <2>1. phase = "turn" /\ phase' = "over"
      BY <1>8 DEF EndFight
    <2>2. MaxTurn - roundCount \in 0 .. MaxTurn
      BY <1>2 DEF MaxTurn
    <2>3. Left = 1 + Turns(MaxTurn - roundCount, DOMAIN allUnits) /\ Left' = 0
      BY <2>1 DEF Left
    <2>4. Turns(MaxTurn - roundCount, DOMAIN allUnits) \in Nat
      BY <1>2, <2>2, TurnsGrow
    <2> QED
      BY <2>3, <2>4
  <1> QED
    BY <1>3, <1>4, <1>5, <1>6, <1>7, <1>8 DEF Step

\* A fight is over after 3 + 5 * (units + 3) steps at most, whoever meets with what and
\* whether anybody can hurt anybody: the turns are counted, and nobody fires twice in one.
THEOREM FightsShorten == Spec => FightShortens
  <1>1. IInv /\ [Next]_vars => [Left' \in 0 .. Left - 1]_vars
    BY StepShortens DEF Next, Ended
  <1> QED
    BY <1>1, Inductive, PTL DEF Spec, FightShortens
=============================================================================
