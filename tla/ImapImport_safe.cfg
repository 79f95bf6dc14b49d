SPECIFICATION FairSpec
CONSTANTS
  NumFolders = 2
  MaxUid = 2
  Workers = {w1, w2}
  FetchBatch = 1
  MaxChanges = 1
  MaxFaults = 1
  MaxOrphans = 3
INVARIANT TypeOK
INVARIANT Filed
INVARIANT NoDuplicates
PROPERTY KeptWhileThere
PROPERTY IndexConverges
