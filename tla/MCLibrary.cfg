SPECIFICATION Spec
CONSTANTS
  Nodes = {n1, n2, n3, n4}
  Null = Null
  Data = {a, b}
  Limits = {1, 2}
  MaxTokens = 9
  ExpBits = 4
  HighBits = 2
  LowBits = 3
  MaxTokLen = 3
  PageSize = 16
  HeaderSize = 2
  Buses = {0, 1}
  Devs = {0, 1}
  Funs = {0, 1}
  Page = 4
  UpperStart = 16
  MaxName = 5
  MaxArgs = 2
  MaxWord = 4
  Inputs <- MCInputs
SYMMETRY Twins
INVARIANT Searches
INVARIANT ReadBack
INVARIANT CalcMeaning
INVARIANT ImageLoaded
INVARIANT MainGetsArguments
INVARIANT DisplayFound
INVARIANT KernelReserved
INVARIANT CommandSplit
INVARIANT PsListed
INVARIANT ImageUpright
INVARIANT CellsShown
PROPERTY SequenceSpec
