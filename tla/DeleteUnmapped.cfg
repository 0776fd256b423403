SPECIFICATION Spec
CONSTANTS
  N = 2
  Parents = {1}
  InScope = {2}
  PageSize = 1
  MaxForeign = 1
INVARIANT RepairedKept
CHECK_DEADLOCK FALSE
