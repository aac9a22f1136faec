SPECIFICATION WalkSpec
CONSTANTS
  Docs <- ChainDocs
  Attributes <- MCAttributes
  ClassNames <- MCClassNames
  ChildNames <- MCChildNames
  Selectors <- ChainSelectors
  NarrowNodes = 8
  Margin = 7
  MaxEdits = 0
  MaxDepth = 6
  MaxNodes = 8
  LocalCap = 4
  ArenaCap = 16
  VocabCap = 1
  MaxString = 2
CHECK_DEADLOCK FALSE
INVARIANT DirectMatches
