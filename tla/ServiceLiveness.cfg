CONSTANTS
  Agents = {a1, a2, a3}
  Tasks = {t1}
  Handlers = {h1}
  a1 = a1 a2 = a2 a3 = a3 t1 = t1 t2 = t2 h1 = h1
  Closer = Closer
  Priorities = {1}
  Scale = 10
  Threshold = 1
  MaxQueue = 20
  MaxRows = 10
  MaxCrashes = 2
  MaxLate = 1
  MayClose = FALSE
  Absent = Absent
  Idle = Idle
SPECIFICATION LiveSpec
PROPERTIES EveryTaskEnds 
CHECK_DEADLOCK FALSE
