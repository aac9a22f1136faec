SPECIFICATION Spec
CONSTANTS
  Keys = {k1, k2}
  Readers = {r1}
  MaxSessions = 3
SYMMETRY Symmetry
INVARIANTS Recoverable DurablyRecoverable AckedDurable ReadersStable ReadersFresh
PROPERTY ImplementsStore
