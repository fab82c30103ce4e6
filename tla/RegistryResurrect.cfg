CONSTANTS
  Agents = {a1, a2}
  Tenants = {x1, x2}
  Ops = {o1}
  a1 = a1 a2 = a2 x1 = x1 x2 = x2 o1 = o1 o2 = o2
  MaxRows = 4
  ListedOnly = FALSE
  Absent = Absent
  Idle = Idle
SPECIFICATION Spec
PROPERTIES ListedByRegistration
SYMMETRY Symmetry
CHECK_DEADLOCK FALSE
