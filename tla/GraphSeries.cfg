SPECIFICATION Spec
CONSTANTS
  Series <- MCSeries
  Shifts = {1}
  Span = 35
  LastDate = 99
  Days = {10}
  MaxChanges = 0
  MaxFaults = 0
INVARIANT OnlyAbsentExcluded
