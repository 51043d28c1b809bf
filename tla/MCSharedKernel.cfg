SPECIFICATION ParserSpec
CONSTANTS
  TermCount = 5
  NontermCount = 3
  MaxKernels = 24
  ReduceBase = 100
  EndTerminal = 0
  SkipTerminals = {}
  StopAnswers = {0}
  MaxInput = 4
  MaxUnread = 1
  MaxStack = 8
  Grammars <- SharedKernelOnly
INVARIANTS
  AcceptedAreSentences
CHECK_DEADLOCK FALSE
