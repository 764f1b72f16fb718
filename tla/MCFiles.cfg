SPECIFICATION Spec
CONSTANTS
  BLOCK = 2
  WORD = 64
  SCREEN = 3
  Contents <- MCContents
  Paths <- MCPaths
  Lookups <- MCLookups
  Procs = {p1, p2}
  Requests = {2}
  MaxOpen = 3
  MaxNodes = 3
  MaxSeek = 4
SYMMETRY Twins
INVARIANT MountsFound
INVARIANT Resolves
INVARIANT LsComplete
INVARIANT ReadsOnce
INVARIANT OnlyCallsCrash
CHECK_DEADLOCK FALSE
