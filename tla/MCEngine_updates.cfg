SPECIFICATION OpenFairSpec
CONSTANTS
    Player = {p1}
    Planets = {a, b}
    NoId = NoId  NoCoord = NoCoord  NoUniverse = NoUniverse
    MaxOwned = 1
    MaxScript = 2
    MaxCrash = 0
    MaxAbort = 1
    MaxUniverse = 1
PROPERTIES ScriptsApplied NewUniverseEnds
