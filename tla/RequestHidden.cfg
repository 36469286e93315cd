SPECIFICATION Spec
CONSTANTS
  MaxItems = 4
  Most <- mcNested
  Compares = {"!="}
  Muts = 2
  Values = 2
  MaxReps = 1
  MaxMutes = 12
  MaxResets = 0
INVARIANTS MutantShown
CHECK_DEADLOCK FALSE
