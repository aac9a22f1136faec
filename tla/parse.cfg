SPECIFICATION CountedSpec
CONSTANTS
  Tokens <- MCTokens
  MaxTokens = 4
  MaxDepth = 3
  MaxNodes = 5
  LocalCap = 2
  ArenaCap = 7
  VocabCap = 1
  MaxString = 2
  Searched <- MCSearched
  Reserved <- MCReserved
CHECK_DEADLOCK FALSE
INVARIANTS AcceptedIsWhole OpenPath CountsCover
