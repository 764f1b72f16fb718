CONSTANTS
  Start = 32
  InitEnd = 64
  Page = 32
  Header = 9
  FirstSizes = {4, 12}
  Sizes = {4, 12, 40}
  MaxEnd = 160
SPECIFICATION Spec
INVARIANTS Exclusive HeapInv NeverRefused
