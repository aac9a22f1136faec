SPECIFICATION Spec
CONSTANTS
  Threads = 2
  RunStart = 1
  RunEnd = 8
  MaxPanics = 1
CHECK_DEADLOCK FALSE
INVARIANTS InFlightBounded NothingLeftBehind
PROPERTIES ImplementsOrderedRuns JoinsUnlessDrained
