SPECIFICATION Spec
CONSTANTS
  Walk <- MCWalk
  Stack <- MCBlocks
  NodeThreshold = 2
  ElementThreshold = 1
  MaxSeeds <- MCSeeds
  MaxFavored = 1
  MaxLives = 2
INVARIANTS IndexIsPosition NothingLostPlain ResultsKeyed
PROPERTIES EndsOrWaits
CHECK_DEADLOCK FALSE
