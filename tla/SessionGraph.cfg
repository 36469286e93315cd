SPECIFICATION Spec
CONSTANTS
  Names = {"a", "b", "c"}
  Mutations <- MCMutations
  Bounds <- MCBounds
  MaxId = 3
  MaxEdits = 3
  MaxDetours = 1
  MaxWalks = 2
INVARIANTS LeadsWhereMeant NearIsWithin EveryMutationOnce PrepIsNormal SingleReproduces
CHECK_DEADLOCK FALSE
