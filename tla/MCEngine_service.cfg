SPECIFICATION OpenFairSpec
CONSTANTS
    Player = {p1, p2}
    Planets = {a, b, c, d}
    NoId = NoId  NoCoord = NoCoord  NoUniverse = NoUniverse
    MaxOwned = 2
    MaxScript = 1
    MaxCrash = 0
    MaxAbort = 0
    MaxUniverse = 0
INVARIANTS PlanetGiven OneHome
PROPERTIES Served
