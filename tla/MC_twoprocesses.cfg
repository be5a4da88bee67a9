SPECIFICATION Spec
CONSTANTS
  Process = {p1, p2}
  Handle = {h1}
  MaxFd = 2
  TheLockFile = TheLockFile
  None = None
SYMMETRY Symmetry
INVARIANT OpenInOneProcess
CHECK_DEADLOCK FALSE
