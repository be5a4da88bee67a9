SPECIFICATION Spec
CONSTANTS
  k1 = k1
  k2 = k2
  v1 = v1
  v2 = v2
  Key = {k1, k2}
  Value = {v1}
  Empty = Empty
  Absent = Absent
  Null = Null
  Writer = {w1}
  Reader = {r1}
  Snap = {}
  Batches <- Puts
  CloseCounts <- NoCloseCounts
  InitialLayers <- OneLayer
  MaxSegments = 1
  MaxMemory = 0
  MinMergeSize = 2
  AutoMerge = FALSE
  IOErrors = FALSE
  MaxSegID = 3
INVARIANTS RemovedStaysRemoved
CHECK_DEADLOCK FALSE
