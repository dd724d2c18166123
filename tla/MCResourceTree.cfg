SPECIFICATION Spec
CONSTANTS
  a = a
  b = b
  d1 = d1
  d2 = d2
  Devices = {d1, d2}
  Fsas = {a, b}
  Owner <- MCOwner
  Position <- MCPosition
  Programs = {p}
  Lists = {{}, {p}}
  Fallback = {p}
  Handlers = {h}
  MaxChanges = 1
  MaxFaults = 1
INVARIANTS
    CancelledOnlyIfWithdrawn
PROPERTIES
    AssignmentsReach
CHECK_DEADLOCK FALSE
