----------------------------- MODULE Encounter ------------------------------
(***************************************************************************)
(* What the rest of a round may expect of the meeting of several players   *)
(* above one place, whatever turns, shots and dice are involved: at once,  *)
(* armies that stayed and had an enemy there lose what they lose, and the  *)
(* fleets that are destroyed and the planet that is lost are known.        *)
(***************************************************************************)
EXTENDS Naturals

CONSTANTS Player, PlanetIndex

VARIABLES
    player,    \* the player of each army that came
    tab,       \* how many units of each type it has
    over,      \* the meeting took place
    dead,      \* the fleets to be removed
    lost       \* the planet, if it is to be taken from its owner

vars == <<player, tab, over, dead, lost>>
Army == DOMAIN tab
IsEmpty(t) == \A k \in DOMAIN t : t[k] = 0

Init == ~over /\ dead = {} /\ lost = {}

\* The armies of `stay' meet, between players of which `foes' are enemies.
Enemies(a, stay, foes) == {b \in stay : <<player[a], player[b]>> \in foes}
Engaged(stay, foes)    == {a \in stay : Enemies(a, stay, foes) # {}}

Suffers(a, engaged) ==
    IF a \in engaged
    THEN DOMAIN tab'[a] = DOMAIN tab[a] /\ \A k \in DOMAIN tab[a] : tab'[a][k] <= tab[a][k]
    ELSE tab'[a] = tab[a]

Destroyed(stay) == {f \in stay \ {PlanetIndex} : IsEmpty(tab'[f])}

Taken(stay) ==
    {c \in stay \cap {PlanetIndex} :
        /\ IsEmpty(tab'[c])
        /\ \A f \in stay \ {c} : player[f] = player[c] => IsEmpty(tab'[f])}

Outcome(stay, foes) ==
    /\ PlanetIndex \in Army => PlanetIndex \in stay
    /\ \A p, q \in Player : <<p, q>> \in foes => <<q, p>> \in foes /\ p # q
    /\ \A a \in Army : Suffers(a, Engaged(stay, foes))
    /\ IF Engaged(stay, foes) = {} THEN UNCHANGED <<dead, lost>>
       ELSE dead' = Destroyed(stay) /\ lost' = Taken(stay)

Next ==
    /\ ~over /\ over' = TRUE
    /\ UNCHANGED player /\ DOMAIN tab' = Army
    /\ \E stay \in SUBSET Army, foes \in SUBSET (Player \X Player) : Outcome(stay, foes)

Spec == Init /\ [][Next]_vars
=============================================================================
