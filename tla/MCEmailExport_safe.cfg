SPECIFICATION FairSpec
CONSTANTS
  b1 = b1
  b2 = b2
  b3 = b3
  b4 = b4
  k1 = k1
  k2 = k2
  k3 = k3
  NumEmails = 5
  Blob <- MCBlob
  Key <- MCKey
  MaxObjectsInSet = 4
  MaxFit = 3
  Targets <- MCTargets
  MaxFaults = 2
INVARIANT TypeOK
INVARIANT CountsTrue
INVARIANT NoDuplicates
PROPERTY RunEnds
PROPERTY KeysArrive
