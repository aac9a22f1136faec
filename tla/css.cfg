SPECIFICATION MCSpec
CONSTANTS
  Pieces <- MCPieces
  MaxPieces = 4
  Tokens <- MCTokens
  Characters <- MCCharacters
  MaxClasses = 3
  MaxLength = 4
CHECK_DEADLOCK FALSE
INVARIANTS RoundTrip NothingLost ClassListAsOneValue
