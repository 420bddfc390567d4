SPECIFICATION FairSpec
CONSTANTS
  SavePeriod = 1
  FirstLaps = 2
  GrowNum = 3
  GrowDen = 2
  MaxTime = 6
  MaxRound = 2
  MaxCrash = 1
  NoSave = NoSave
  Partial = Partial
INVARIANTS NewestAtHand OldestAtHand
PROPERTY PruneEnds
