SPECIFICATION Spec
CONSTANTS
  N = 2
  Parents = {1}
  InScope = {2}
  PageSize = 1
  MaxForeign = 2
INVARIANT DeletesTheMissing
INVARIANT WalkMissesNothing
PROPERTY RunEnds
CHECK_DEADLOCK FALSE
