SPECIFICATION Spec
CONSTANTS
  Procs = {p1, p2}
  Calls = {c1, c2}
  Threads = 2
  Chunk = 2
  Archives <- MCArchives
  Nobody = Nobody
  Limit = 3
  Ceiling = 5
  KeyLength = 1
  Chunks <- MCChunks
  NoValue <- MCNoValue
CHECK_DEADLOCK FALSE
INVARIANTS SweepAnswers PoolHeldByOne TableTells
PROPERTY SweepsEnd
