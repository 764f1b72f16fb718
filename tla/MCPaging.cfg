\* Three processes that do all there is to do, within the limits.
CONSTANTS
  p1 = p1
  p2 = p2
  p3 = p3
  Procs = {p1, p2, p3}
  LastFrame = 16
  CodeLen = 1
  StackLen = 1
  HeapMax = 2
  MaxGrow = 1
  Touched = {"code"}
  MaxPid = 4
  Written = {"zero"}
  Stale = {"zero"}
  RefLimit = 8
  Calls = {"spawn", "fork", "execve", "sbrk", "store", "read", "exit"}
  Beyond = {}
SPECIFICATION Spec
SYMMETRY Symmetry
INVARIANTS Counted SharedReadOnly
PROPERTY PrivateSpec
CHECK_DEADLOCK FALSE
