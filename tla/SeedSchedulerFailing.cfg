SPECIFICATION FairSpec
CONSTANTS
  N = 3
  Muts <- MCMutsShort
  Groups = {1}
  Sizes = {1, 2}
  MaxNew = 3
  ThElement = 1
  ThNode = 3
PROPERTIES Terminates
\* The campaign ends when the request is finished.
CHECK_DEADLOCK FALSE
