SPECIFICATION SavedSpec
CONSTANTS
    anne = anne  ben = ben  earth = earth  moon = moon
    Planet = {earth, moon}
    Player = {anne, ben}
    NoId = NoId  NoPlanet = NoPlanet  NoTask = NoTask
    Metal = Metal  Res = {Metal, Carbon}
    CommandCenter = CommandCenter  Factory = Factory
    Building = {CommandCenter, Factory}
    Ship = {Mosquito}
    Top = 7  Cap = 2  Alarm = 4
    MaxLevel = 2  BuildPrice <- Prices  ShipPrice <- OnePrice  CannonPrice <- OnePrice
    Yield <- MineYield  Crystal <- Crystals
    Gift <- SmallGift  StartStock <- SmallStart
    MaxFleetID = 4
    MaxRound = 3
INVARIANTS OrdersPaid
PROPERTIES NoWindfall
ACTION_CONSTRAINTS OneLoss BenStays FarMoves
