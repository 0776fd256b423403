SPECIFICATION Spec
CONSTANTS
  Store = {en, de}
  Default = all
  MaxRows = 3
  MaxSize = 2
INVARIANT SentAsPlanned
INVARIANT OrderKept
CHECK_DEADLOCK FALSE
