SPECIFICATION Spec
CONSTANTS
  parent = parent
  child = child
  s1 = s1
  s2 = s2
  None = None
  Value = {1, 2}
  MaxForeign = 1
  Sku = {parent, child}
  ProductInputs <- ProductImports
  ProductStores <- Catalogs
  PricedSku = {s1, s2}
  PriceInputs <- PriceImports
  PricedStores <- PriceStores
  Sites <- Websites
INVARIANT TypeOK
INVARIANT ProductRowsHold
INVARIANT LastPriceHolds
PROPERTY SavesKeepPromises
PROPERTY FollowUpsFit
CHECK_DEADLOCK FALSE
