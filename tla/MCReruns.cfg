SPECIFICATION FairSpec
CONSTANTS
  LastItem = 3
  LastHome = 2
  MaxChanges = 2
  MaxFaults = 1
  PageSize = 1
  Batch = 1
  Workers = 2
  ChunkSize = 2
  MultigetBatch = 2
  CommitBatch = 2
  Uid <- MCUid
  FolderNames = {"a", "b"}
  FolderChunk = 2
  GetLimit = 2
  DriveChunk = 2
  FirstFolders = 2
INVARIANT MCTypeOK
INVARIANT RowsAreTrees
INVARIANT SourcesSound
PROPERTY KeptWhileThere
PROPERTY CleanRunMirrors
PROPERTY Converges
