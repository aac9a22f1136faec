SPECIFICATION Spec
CONSTANTS
  Docs <- MCDocs
  Attributes <- MCAttributes
  ClassNames <- MCClassNames
  ChildNames <- MCChildNames
  NarrowNodes = 4
  Margin = 3
  MaxEdits = 3
  MaxDepth = 3
  MaxNodes = 5
  LocalCap = 3
  ArenaCap = 9
  VocabCap = 1
  MaxString = 2
CHECK_DEADLOCK FALSE
INVARIANT Findable
PROPERTIES ImplementsContent RebuildCompact
