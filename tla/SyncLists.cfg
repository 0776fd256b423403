SPECIFICATION Spec
CONSTANTS
  x0 = x0
  x1 = x1
  y = y
  t1 = t1
  t2 = t2
  s = s
  X = X
  Y = Y
  T = T
  main = main
  other = other
  NoScope = none
  Op = {x0, x1, y, t1, t2, s}
  Requests <- ListsRequests
  Sku = {X, Y, T}
  SkuOf <- ListsSkuOf
  Scope = {main, other}
  ScopeOf <- ListsScopeOf
  MaxItems = 3
INVARIANT RowsAccounted
INVARIANT ExactBlame
CHECK_DEADLOCK FALSE
