\* The search of search.cfg, for a word with a capital.
CONSTANTS
  Chars <- Letters  Space = " "  Newline = "n"
  lower <- InSmall  MAX_INPUT = 7  Inputs <- AllInputs
SPECIFICATION Spec
INVARIANTS NoneSkippedInAnyCase
CHECK_DEADLOCK FALSE
