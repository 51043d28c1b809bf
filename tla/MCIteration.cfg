SPECIFICATION RegExpSpec
CONSTANTS
  c_base_char_cnt = 4
  WordMax = 3
  ExpMax = 4
  RegExps <- NestedIteration
INVARIANT IterationRepeats
CHECK_DEADLOCK FALSE
