SPECIFICATION Spec
CONSTANTS
  Vectors = {0, 8, 14, 32, 33, 35, 40, 50, 255}
  Kernel = kernel
  Procs = {p1, p2, p3}
  Values = {x1, x2}
  TableLen = 2
  MaxHeap = 4
  Vesa = TRUE
SYMMETRY Twins
INVARIANT LostOnlyInInstall
INVARIANT OnlyTimerUnacknowledged
INVARIANT OwnContext
INVARIANT BootHeapMapped
CHECK_DEADLOCK FALSE
