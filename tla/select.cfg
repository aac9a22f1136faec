SPECIFICATION WalkSpec
CONSTANTS
  Docs <- MCDocs
  Attributes <- MCAttributes
  ClassNames <- MCClassNames
  ChildNames <- MCChildNames
  Selectors <- MCSelectors
  NarrowNodes = 8
  Margin = 7
  MaxEdits = 1
  MaxDepth = 6
  MaxNodes = 8
  LocalCap = 4
  ArenaCap = 16
  VocabCap = 1
  MaxString = 2
CHECK_DEADLOCK FALSE
INVARIANT DirectMatches
PROPERTY SelectsNext
