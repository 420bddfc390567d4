SPECIFICATION Spec
CONSTANTS
    p1 = p1  p2 = p2  a = a  b = b  c = c  d = d
    Player = {p1, p2}
    Planets = {a, b, c}
    Space = {}
    Queen = Queen
    Ship = {Queen}
    NoId = NoId  NoCoord = NoCoord  NoTask = NoTask
    Near <- AllNear
    MaxPlanetCount = 2
    MaxFleetCount = 1
    MaxFleetSize = 1
    MaxCannon = 1
    MaxFleetID = 1
    MaxRound = 4
INVARIANTS MainPlanetKept NoGhostFleet
