SPECIFICATION Spec
CONSTANTS
  Process = {p1, p2, p3}
  Handle = {h1}
  MaxFd = 2
  TheLockFile = TheLockFile
  None = None
INVARIANTS OpensExclude NoDescriptorLeak
CHECK_DEADLOCK FALSE
