SPECIFICATION FairSpec
CONSTANTS
  k1 = k1
  k2 = k2
  v1 = v1
  v2 = v2
  Key = {k1, k2}
  Value = {v1}
  Empty = Empty
  Absent = Absent
  Null = Null
  Writer = {w1}
  Reader = {}
  Snap = {s1}
  Batches <- Puts
  CloseCounts <- Counts012
  InitialLayers <- ThreeLayers
  MaxSegments = 1
  MaxMemory = 0
  MinMergeSize = 2
  AutoMerge = TRUE
  IOErrors = TRUE
  MaxSegID = 5
INVARIANTS TypeOK SegmentsOrdered MergesFailForAReason DeletedAreCovered CloseKeepsData NoUseAfterClose
PROPERTIES ImplementsKVStore CloseCompletes MergeCatchesUp
CHECK_DEADLOCK FALSE
