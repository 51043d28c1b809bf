SPECIFICATION EmittedSpec
CONSTANTS
  TermCount = 7
  NontermCount = 5
  MaxKernels = 24
  ReduceBase = 100
  EndTerminal = 6
  SkipTerminals = {5}
  StopAnswers <- EndSkipOrBlank
  MaxInput = 7
  MaxUnread = 1
  MaxStack = 12
  EmitMax = 4
  EmitLanguages <- AllLanguages
  Grammars <- Languages
INVARIANTS
  AcceptedAreSentences
  RefusedAreNot
  EmittedAgrees
PROPERTIES
  RunIsDerivation
  RunsEnd
  ProgramsEnd
CHECK_DEADLOCK FALSE
