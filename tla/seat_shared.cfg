\* Two clients type any user id and race for one seat.
CONSTANTS
  c1 = c1  c2 = c2
  NoFd = NoFd
  Conns = {c1, c2}
  NUser = 2  NSeat = 1  NSlot = 2
  QueriesOf <- Racing
  Faults = {}
  Deaths = {}
SPECIFICATION RaceSpec
SYMMETRY Symmetric
INVARIANTS TypeOK LoginProvesPassword OwnersAreRegistered ExitEndsSessions
PROPERTIES PasswordSetOnce AtomicUntilOverwritten
CHECK_DEADLOCK FALSE
