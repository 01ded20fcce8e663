\* Two producers, two consumers, two places, one spurious wakeup.
CONSTANTS
  p1 = p1  p2 = p2  c1 = c1  c2 = c2
  NoThread = NoThread  Garbage = Garbage
  Producers = {p1, p2}  Consumers = {c1, c2}
  capacity = 2  n_loops = 3  MaxSpurious = 1
SPECIFICATION FairSpec
INVARIANTS TypeOK IndexInv NoLostWakeup
PROPERTIES ImplementsFifo Termination
CHECK_DEADLOCK FALSE
