SPECIFICATION Spec
CONSTANTS
  r1 = r1
  r2 = r2
  Request <- Requests2
  MaxGen = 2
SYMMETRY Symmetry
INVARIANTS RenewOnce NoGhost FlagHasOwner
PROPERTY RenewsFailedRoute
