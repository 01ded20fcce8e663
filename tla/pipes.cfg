\* Three lines, two of them with a pipe of two units.
CONSTANTS
  Lines <- SomeLines  NLines = 3
  Reads <- Readers  Size <- Sizes  PIPE = 2
  MaxFd = 7  Absent = {"absent"}  MaxFails = 1
SPECIFICATION FairSpec
INVARIANTS ReadersEndLast
PROPERTIES AllEnd PromptReturns
CHECK_DEADLOCK FALSE
