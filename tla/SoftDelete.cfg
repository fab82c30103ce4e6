CONSTANTS
  Assets = {t1, t2, t3}
  Kinds <- NodeKinds
  Mappings <- ColumnMappings
  Providers = {p, q}
  Foreign = {f}
  MaxEdges = 3
  MaxLinks = 6
  CriticalOver = 1
  HighOver = 1
  MediumFrom = 1
  Absent = Absent
  Calls = {c1, c2}
  Tables = {"t"}
  Promotions <- PromotionSet
  Remediations <- IncidentRequests
  Registered = {"i"}
  Tiers = {"community", "pro"}
  AlertKeys = {"latency"}
  Window = 2
  MaxTime = 5
  MaxSame = 2
  People = {a, b}
  Listings <- TableLists
  TableSchemas <- SchemaSet
  MaxEntries = 1
  MaxPeeked = 1
  Close <- CloseNames
  Widening <- WideningTypes
  DriftColumns = {"c", "d"}
  DriftTypes = {"int", "integer", "bigint", "uuid"}
  TypeWidth <- WidthOf
  TaskNames = {1, 2, 3}
  MaxTasks = 3
  MaxDeps = 3
  MaxFindings = 4
  EventTimes = {0, 1}
  MaxEvents = 4
  Limits = {1, 2, 4}
SPECIFICATION Spec
INVARIANTS SoftDeletedIsMarked
SYMMETRY Symmetry
CHECK_DEADLOCK FALSE
