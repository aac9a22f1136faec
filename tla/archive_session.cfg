SPECIFICATION Spec
CONSTANTS
  None = None
  Keys <- MCKeys
  BundleCap = 2
  Fields = 2
  MaxAdds = 5
  Filters <- MCFilters
  Selects <- MCSelects
CHECK_DEADLOCK FALSE
INVARIANTS FileSound SameBundles ResaveKeeps KeysAndFiltersFind
PROPERTIES CommitExtends
