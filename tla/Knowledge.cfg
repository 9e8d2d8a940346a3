CONSTANTS
  Doc = {d1}
  User = {u1, u2}
  ChunkCount = {0, 2}
  MayFail = {"database", "broker", "storage", "embedding"}
  Prefetch = 2
  MaxFaults = 2
  None = None
SYMMETRY UserSymmetry
SPECIFICATION Spec
INVARIANTS RemovedForGood CountIsBacked CopiesBoundedByFaults
PROPERTIES CatalogueSpec
CHECK_DEADLOCK FALSE
