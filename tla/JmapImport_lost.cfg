SPECIFICATION FairSpec
CONSTANTS
  Ids = {o1, o2}
  MaxState = 3
  MaxFaults = 0
PROPERTY Converge
