SPECIFICATION Spec
CONSTANTS
    anne = anne
    ben = ben
    Player = {anne, ben}
    BlackBox = {anne}
    EventLimit <- Limits
    TypeLimit = 2
    Keep = 0
    MaxTime = 1
    MaxBattle = 2
    MaxScript = 2
    MaxErrors = 2
    MaxAbort = 1
    MaxCrash = 1
INVARIANTS TypeOK LinksRead FaultTold ExperienceKept
PROPERTIES NewestKept
ACTION_CONSTRAINTS OneAuthor OneWinner OneFault
