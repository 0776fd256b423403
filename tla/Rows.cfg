SPECIFICATION Spec
CONSTANTS
  Entities = {product, category}
  MaxStarts = 6
  Keys = {a, b}
  NoKey = blank
  Views = {en}
  Global = all
  Labels = {"x", "y"}
  MaxLines = 3
  N = 5
  MaxChunk = 3
  Ref = {r1, r2}
  Percents = {50}
  MaxRows = 3
  None = None
INVARIANT TypeOK
INVARIANT ReadWhole
INVARIANT LinesReachRows
INVARIANT UploadAccountsForRows
INVARIANT CountsAreFates
INVARIANT NoFailureHidden
CHECK_DEADLOCK FALSE
