SPECIFICATION Spec
CONSTANTS
  MaxRetries = 3
  MaxCalls = 3
  Key = {x, y}
  NoKey = none
  MaxOps = 5
  Sku = {"a", "b,c", "d", "e"}
  Comma = {"b,c"}
  Wanted <- StoredWanted
  Stores <- StoredStores
  Value = {1, 2}
  None = None
  ChunkSize = 2
  MaxSkus = 2
  MaxForeign = 1
  Positions = {1, 2}
  Labels = {"x", "y"}
  MaxImages = 2
  MaxEntries = 2
  MaxFaults = 2
INVARIANT TypeOK
INVARIANT NoDoubleWrite
INVARIANT EndingTellsEffect
INVARIANT ExpiryCostsOneLogin
INVARIANT Partition
INVARIANT UnitsTogether
INVARIANT RequestsFit
INVARIANT SnapshotIsStore
INVARIANT RequireOrAbort
INVARIANT GalleryAsNamed
PROPERTY CallEnds
CHECK_DEADLOCK FALSE
