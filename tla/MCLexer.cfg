SPECIFICATION ExpressionsSpec
CONSTANTS
  c_base_char_cnt = 6
  WordMax = 4
  ExpMax = 7
  MaxFaStates = 20
  TextMax = 3
  WhiteChars = {4}
  DigitChars = {3}
  LetterChars = {1, 2}
  Pool <- LexerPool
  RegExps <- AllRegExps
  TerminalLists <- AllPairs
INVARIANTS
  PartsOnStack
  RefusesTheRest
  AutomatonDenotes
  SetsExact
  SameWords
  RowsExact
  RecognizesLongest
  RecognizesFarthest
PROPERTY LexerEnds
CHECK_DEADLOCK FALSE
