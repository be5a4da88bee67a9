SPECIFICATION Spec
CONSTANTS
  Key = {k1}
  Value = {a}
  Empty = Empty
  Absent = Absent
  Null = Null
  MaxSegments = 1
  MaxMemory = 0
  MinMergeSize = 2
  CloseCounts = {0, 1}
  MaxSegID = 3
  MaxCrashes = 1
INVARIANT OpensAfterCrash
CHECK_DEADLOCK FALSE
