SPECIFICATION SavedSpec
CONSTANTS
    p1 = p1  p2 = p2  a = a  b = b  c = c  d = d
    Player = {p1, p2}
    Planets = {a, b, c, d}
    Space = {}
    Queen = Queen
    Ship = {Queen}
    NoId = NoId  NoCoord = NoCoord  NoTask = NoTask
    Near <- LineNear
    MaxPlanetCount = 4
    MaxFleetCount = 3
    MaxFleetSize = 2
    MaxCannon = 0
    MaxFleetID = 3
    MaxRound = 5
INVARIANTS
    FamilyTree
    WalksEnd
    
    FleetsFit
    TypeOK
PROPERTIES
    RoundOutcome
    RoundEnds
ACTION_CONSTRAINT NoBuilding
