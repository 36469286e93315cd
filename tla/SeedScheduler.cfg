SPECIFICATION FairSpec
CONSTANTS
  N = 4
  Muts <- MCMuts
  Groups = {1}
  Sizes = {1, 2}
  MaxNew = 5
  ThElement = 1
  ThNode = 2
INVARIANTS QueueInSync TopIsCurrent SeedKept WalkIsolated NothingMissed
PROPERTIES CompletedOnce
\* The campaign ends when the request is finished.
CHECK_DEADLOCK FALSE
