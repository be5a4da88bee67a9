SPECIFICATION Spec
CONSTANTS
  keyBlockSize = 50
  keyIndexInterval = 3
  maxPrefixLen = 2
  maxCompressedLen = 1
  maxKeySize = 4
  Key <- MCKey
  Value <- MCValue
  Absent = Absent
  Bound <- MCBound
  Stacks <- MCStacks
INVARIANTS LookupsShowTheMap FilesHoldTheMerge BlocksFit IndexIsReloaded GetsAnswer FailsOnlyOnLongKeysAndEmptyFiles
CHECK_DEADLOCK FALSE
