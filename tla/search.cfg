\* Files of one and of two chunks of seven characters.
CONSTANTS
  Chars <- Letters  Space = " "  Newline = "n"
  lower <- InSmall  MAX_INPUT = 7  Inputs <- AllInputs
SPECIFICATION FairSpec
INVARIANTS NoneSkipped HitsAreWords AnswerIsRight
PROPERTIES Ended
CHECK_DEADLOCK FALSE
