SPECIFICATION Spec
CONSTANTS
  Key = {k1}
  Value = {a, b}
  Empty = Empty
  Absent = Absent
  Null = Null
  MaxSegments = 1
  MaxMemory = 0
  MinMergeSize = 2
  CloseCounts = {0, 1, 2}
  MaxSegID = 4
  MaxCrashes = 2
INVARIANTS TypeOK DiskMatchesSession CloseKeepsEverything TargetsAreFree OpensUnlessTmpLeft
CHECK_DEADLOCK FALSE
