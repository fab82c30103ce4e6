CONSTANTS
  Events = {e1, e2, e3, e4}
  Calls = {c1, c2}
  Idle = Idle
  Requests = {r1, r2, r3}
  BusHandlers = {h1, h2}
  BusTopics = {}
  BusEvents = {}
  Ask = "ask"
  MaxEvents = 1
  MaxHandlers = 2
  Policies <- PolicySet
  Facts = {"incident"}
  AccessKinds = {"write"}
  Removals = {"removal"}
  MaxAdds = 3
  Handlers = 2
  MaxIds = 2
  KeepIds = 1
  MayThrow = TRUE
  Operations = {"set", "checkpoint"}
  MaxOps = 5
  BufferTimeout = 2
  Members = {a1, a2}
  Routed = {v1, v2}
  Tenants = {x1, x2}
  Op = o1
  Resource = f1
  Absent = Absent
  ToolCalls = {1, 2, 3}
  ToolTimeout = 2
  WindowMs = 2
  MaxActions = 2
  Hour = 2
  MaxFailures = 3
  ResetMs = 1
  MaxNow = 6
  MaxStreak = 6
  MaxInARow = 4
  MaxAttempts = 3
  Proceed = 70
  Elevation = 15
  Confidences = {0, 69, 70, 84, 85, 100}
  MaxRefused = 2
  Tasks <- TaskSet
  MaxConcurrent = 2
  MaxLog = 3
  KeepLog = 2
  MaxAccesses = 4
SPECIFICATION CoreSpec
INVARIANTS CoreTypeOK HandledAtMostOnce AcceptedOnce RecordIsTrue    DetectsExactly
PROPERTIES ImplementsDirectory
CHECK_DEADLOCK FALSE
