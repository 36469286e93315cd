SPECIFICATION Spec
CONSTANTS
  MaxLen = 2
  Jumps <- MCJumps
  MaxCase = 4
  MaxRecords = 6
INVARIANTS DbInOrder FailuresSurvive WindowSaved
PROPERTIES ImplementsArchive
CHECK_DEADLOCK FALSE
