\* A day of two hours of two minutes of three ticks, four processes, two
\* failures of fork() and two of execl().
CONSTANTS
  p1 = p1  p2 = p2  p3 = p3  p4 = p4
  Seconds = 3  Minutes = 2  Hours = 2
  Crontabs <- SomeCrontabs  Procs = {p1, p2, p3, p4}  MaxDelay = 1  MaxFailures = 2
SPECIFICATION Spec
SYMMETRY Symmetric
INVARIANTS NoneMissed OneDaemon
PROPERTIES EachMinuteOnce
