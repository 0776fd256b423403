SPECIFICATION Spec
CONSTANTS
  MaxId = 7
  MaxForeign = 1
  MaxSetForeign = 2
  MaxLost = 1
  MaxFault = 2
  men = men
  tops = tops
  red = red
  Red = Red
  bw = bw
  bAmpW = bAmpW
  blank = blank
  None = None
  Name = {men, tops}
  CategoryInputs <- CategoryRows
  Trees <- Forests
  SetInputs <- SetRows
  Shops <- ShopStates
  Spelling <- Spellings
  Blank = blank
  Norm <- Normalized
  Trim <- Trimmed
  OptionInputs <- LabelRows
  Attributes <- AttributeStores
INVARIANT TypeOK
INVARIANT CategoriesAsPlanned
INVARIANT SetsComplete
INVARIANT LabelsResolve
PROPERTY WritesOwnCategory
CHECK_DEADLOCK FALSE
