SPECIFICATION FairSpec
CONSTANTS
    Player = {p1, p2, p3}
    FleetCount = 2
    MaxUnits = 4
    ShipType = {1, 7}
    CannonType = {9}
    Life <- MCLife
    Power <- MCPower
    Shield <- MCShield
INVARIANTS
    DuelHasTargets
    FightsAreMutual
    NobodyLetGo
    IInv
PROPERTIES
    IsEncounter
    FightEnds
