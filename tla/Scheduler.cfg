CONSTANTS
  Tasks = {t1, t2}
  Agents = {a1, a2}
  Calls = {c1}
  a1 = a1 a2 = a2 t1 = t1 t2 = t2 c1 = c1 c2 = c2
  Priorities = {1, 3}
  Scale = 10
  Threshold = 0
  MaxNow = 1
  MaxQueue = 4
  Idle = Idle
SPECIFICATION MixedSpec
INVARIANTS TypeOK QueuedHasEntry RunningIsHeld PersistedAgrees ScoresOK
PROPERTIES ImplementsPool
SYMMETRY Symmetry
