SPECIFICATION FairSpec
CONSTANTS
  Ids = {o1, o2}
  MaxState = 4
  MaxFaults = 3
INVARIANT CursorCovers
PROPERTY ImplementsMirror
PROPERTY ReachedConverge
PROPERTY CursorlessConverge
