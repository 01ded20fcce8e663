\* Progress of the threads, with deaths and failing calls.
CONSTANTS
  c1 = c1  c2 = c2
  NoFd = NoFd
  Conns = {c1, c2}
  NUser = 1  NSeat = 1  NSlot = 1
  QueriesOf <- Bad
  Faults = {"accept", "create"}
  Deaths = {c1}
SPECIFICATION FairSpec
INVARIANTS OneQueryInFlight
PROPERTIES Answered ExitCompletes
CHECK_DEADLOCK FALSE
