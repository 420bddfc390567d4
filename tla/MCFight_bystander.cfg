SPECIFICATION Spec
CONSTANTS
    Player = {p1, p2, p3}
    FleetCount = 3
    MaxUnits = 4
    ShipType = {1, 7}
    CannonType = {9}
    Life <- MCLife
    Power <- MCPower
    Shield <- MCShield
INVARIANTS
    EveryShotHasTarget
