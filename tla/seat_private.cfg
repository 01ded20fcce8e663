\* Two clients with an account each, two seats, and deaths.
CONSTANTS
  c1 = c1  c2 = c2
  NoFd = NoFd
  Conns = {c1, c2}
  NUser = 2  NSeat = 2  NSlot = 2
  QueriesOf <- Private
  Faults = {}
  Deaths = {c1, c2}
SPECIFICATION Spec
INVARIANTS ToldIsTrue
PROPERTIES ImplementsBooking
CHECK_DEADLOCK FALSE
