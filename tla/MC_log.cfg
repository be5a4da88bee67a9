SPECIFICATION Spec
CONSTANTS
  Key = {k1, k2}
  Value = {a, Removed}
  Removed = Removed
  Absent = Absent
  EmptyKey = EmptyKey
  MaxBatch = 2
  MaxWrites = 3
INVARIANTS TypeOK ApplyKeepsAPrefix DiscardKeepsWholeWrites LogHoldsTheList
CHECK_DEADLOCK FALSE
