SPECIFICATION OpenSpec
CONSTANTS
    Player = {p1}
    Planets = {a, b}
    NoId = NoId  NoCoord = NoCoord  NoUniverse = NoUniverse
    MaxOwned = 1
    MaxScript = 1
    MaxCrash = 0
    MaxAbort = 0
    MaxUniverse = 1
INVARIANTS OneHome
