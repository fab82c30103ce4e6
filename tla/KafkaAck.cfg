CONSTANTS
  Events = {e1, e2, e3, e4, e5}
  Calls = {c1, c2}
  Handlers = 2
  MaxIds = 3
  KeepIds = 2
  MayThrow = TRUE
  Idle = Idle
SPECIFICATION Spec
INVARIANTS CommittedIsHandled
CHECK_DEADLOCK FALSE
