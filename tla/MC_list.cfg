SPECIFICATION FairSpec
CONSTANTS
  Key = {1, 2}
  Value = {a, b}
  Absent = Absent
  Reader = {r1}
  Null = Null
  Garbage = Garbage
  MaxHeight = 2
  MaxNodes = 3
INVARIANTS TypeOK LinksAscend Structure ScanSeesAll GetLinearizable NeverLoadsGarbage
PROPERTY SearchReturns
CHECK_DEADLOCK FALSE
