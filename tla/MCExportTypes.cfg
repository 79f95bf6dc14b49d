SPECIFICATION FairSpec
CONSTANTS
  Archives <- MCArchives
  Targets <- MCTargets
  Names = {"a", "A", "b"}
  Fold <- MCFold
  MaxUpsets = 1
INVARIANT TypeOK
PROPERTY PruneSparesArchive
PROPERTY CleanRunCopies
PROPERTY Settles
