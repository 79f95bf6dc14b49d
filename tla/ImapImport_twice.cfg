SPECIFICATION FairSpec
CONSTANTS
  NumFolders = 1
  MaxUid = 2
  Workers = {w1, w2}
  FetchBatch = 2
  MaxChanges = 0
  MaxFaults = 1
  MaxOrphans = 3
PROPERTY ImapConverge
