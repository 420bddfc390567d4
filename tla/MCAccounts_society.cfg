SPECIFICATION FairSpec
CONSTANTS
    MaxPlayer = 2
    MaxAlliance = 2
    Skill = {farm}
    SkillBase <- Base  SkillFirst <- First  SkillTop <- Top
    XPPerSkillPoints = 1
    MaxGain = 1
    MaxXP = 3
    MaxCrash = 1
INVARIANTS TypeOK NoCrossedRequests MissingOnlyIfChanged SkillsPaid
PROPERTIES FriendsByConsent Dissolved
ACTION_CONSTRAINT OneFighter
