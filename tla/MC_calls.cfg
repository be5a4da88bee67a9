SPECIFICATION Spec
CONSTANTS
  k1 = k1
  k2 = k2
  v1 = v1
  v2 = v2
  Key = {k1, k2}
  Value = {v1, v2}
  Empty = Empty
  Absent = Absent
  Null = Null
  Writer = {w1}
  Reader = {r1}
  Snap = {s1}
  Batches <- Pairs
  CloseCounts <- Counts1
  InitialLayers <- PairLayer
  MaxSegments = 1
  MaxMemory = 1
  MinMergeSize = 2
  AutoMerge = TRUE
  IOErrors = FALSE
  MaxSegID = 4
INVARIANTS SnapshotsSeeWholeBatches NullOnlyInClose IInv
PROPERTY GetLinearizable
CHECK_DEADLOCK FALSE
