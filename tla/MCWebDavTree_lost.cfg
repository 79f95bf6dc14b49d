SPECIFICATION FairSpec
CONSTANTS
  root = root
  dir = dir
  file = file
  sub = sub
  leaf = leaf
  twin = twin
  Root = root
  Nodes <- MCNodes
  Dirs <- MCDirs
  Parent <- MCParent
  Name <- MCName
  Titles <- MCUntitled
  CommitBatch = 2
  MaxChanges = 0
  MaxFaults = 1
PROPERTY KeptWhileThere
