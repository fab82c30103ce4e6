CONSTANTS
  Agents = {a1, a2}
  Tasks = {t1, t2}
  Handlers = {h1}
  a1 = a1 a2 = a2 a3 = a3 t1 = t1 t2 = t2 h1 = h1
  Closer = Closer
  Priorities = {1}
  Scale = 10
  Threshold = 1
  MaxQueue = 20
  MaxRows = 10
  MaxCrashes = 1
  MaxLate = 0
  MayClose = TRUE
  Absent = Absent
  Idle = Idle
SPECIFICATION SafetySpec
INVARIANTS TypeOK   
PROPERTIES UsesScheduler
SYMMETRY Symmetry
CHECK_DEADLOCK FALSE
