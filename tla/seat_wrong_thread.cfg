\* A thread may serve another connection than its own.
CONSTANTS
  c1 = c1  c2 = c2
  NoFd = NoFd
  Conns = {c1, c2}
  NUser = 1  NSeat = 1  NSlot = 2
  QueriesOf <- Bad
  Faults = {}
  Deaths = {}
SPECIFICATION Spec
SYMMETRY Symmetric
INVARIANTS ThreadServesItsConnection
CHECK_DEADLOCK FALSE
