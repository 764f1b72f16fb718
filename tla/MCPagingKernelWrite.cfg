\* The kernel writes through read-only mappings.
CONSTANTS
  p1 = p1
  p2 = p2
  Procs = {p1, p2}
  LastFrame = 15
  CodeLen = 1
  StackLen = 1
  HeapMax = 1
  MaxGrow = 1
  MaxPid = 3
  Touched = {"stack"}
  Written = {"a"}
  Stale = {"zero"}
  RefLimit = 256
  Calls = {"spawn", "fork", "read"}
  Beyond = {"readonly"}
SPECIFICATION Spec
PROPERTY PrivateSpec
CHECK_DEADLOCK FALSE
