SPECIFICATION Spec
CONSTANTS
  b1 = b1
  b2 = b2
  b3 = b3
  b4 = b4
  Jobs <- MCBlobs
  BlobLen <- MCLen
  Workers = {w1, w2}
  NoJob = NoJob
  MaxPanics = 2
  MaxCount = 3
  MaxBytes = 3
  MaxCalls = 2
INVARIANT InFlightBounded
INVARIANT Accounted
PROPERTY SettledOnReturn
PROPERTY PoolsServe
CHECK_DEADLOCK FALSE
