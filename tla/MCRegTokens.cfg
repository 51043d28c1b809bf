SPECIFICATION TokensSpec
CONSTANTS
  c_base_char_cnt = 256
  ShortMax = 4
  InsideMax = 2
  RegTexts <- SomeTexts
INVARIANTS
  TokensLongest
  CharsWritten
CHECK_DEADLOCK FALSE
