SPECIFICATION Spec
CONSTANTS
  Keys = {k1, k2}
  MaxRuns = 3
  MaxDocs = 2
  DictSampleDocs = 2
CHECK_DEADLOCK FALSE
INVARIANTS PublishedWhole RowsPaired
