SPECIFICATION Spec
CONSTANTS
  MaxItems = 5
  Most <- mcMixed
  Compares = {"=="}
  Muts = 2
  Values = 2
  MaxReps = 1
  MaxMutes = 12
  MaxResets = 1
INVARIANTS Counted NormalAgain OneFuzzed SizeIsLength MutantShown
CHECK_DEADLOCK FALSE
