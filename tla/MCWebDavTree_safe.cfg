SPECIFICATION FairSpec
CONSTANTS
  root = root
  dir = dir
  file = file
  sub = sub
  leaf = leaf
  twin = twin
  Root = root
  Nodes <- MCNodes
  Dirs <- MCDirs
  Parent <- MCParent
  Name <- MCName
  Titles <- MCTitles
  CommitBatch = 2
  MaxChanges = 3
  MaxFaults = 2
INVARIANT TypeOK
PROPERTY KeptIfListed
PROPERTY CleanRunMirrors
PROPERTY TreeConverges
