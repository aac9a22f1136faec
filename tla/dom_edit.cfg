SPECIFICATION Spec
CONSTANTS
  Docs <- MCDocs
  MaxEdits = 2
  MaxYields = 12
CHECK_DEADLOCK FALSE
INVARIANTS WellLinked RebuildIsSweepable
PROPERTIES WordsKept ReturnsLive OneEditLoopMeetsAll
