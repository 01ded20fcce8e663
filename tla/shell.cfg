\* Two lines out of twenty-two, a pipe that holds two units, one failing fork().
CONSTANTS
  Lines <- SomeLines  NLines = 2
  Reads = {"sort", "grep"}  Size <- Sizes  PIPE = 2
  Content <- SomeFiles  MaxFails = 1
SPECIFICATION FairSpec
INVARIANTS PromptMeansQuiet RunsAsTyped InputIsComplete NoPromptWithoutRoom
PROPERTIES AddsOrOverwrites PromptReturns
CHECK_DEADLOCK FALSE
