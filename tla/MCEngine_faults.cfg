SPECIFICATION Spec
CONSTANTS
    Player = {p1, p2}
    Planets = {a, b}
    NoId = NoId  NoCoord = NoCoord  NoUniverse = NoUniverse
    MaxOwned = 1
    MaxScript = 2
    MaxCrash = 1
    MaxAbort = 1
    MaxUniverse = 1
INVARIANTS
    TypeOK
    ScriptsFresh
    NobodyForgotten
    OwnersKnown
SYMMETRY Symmetry
