SPECIFICATION Spec
CONSTANTS
  Walk <- MCShortWalk
  Stack <- MCShort
  NodeThreshold = 9
  ElementThreshold = 9
  MaxSeeds <- MCShortSeeds
  MaxFavored = 2
  MaxLives = 2
INVARIANTS NothingLost
CHECK_DEADLOCK FALSE
