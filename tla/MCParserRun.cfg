SPECIFICATION ParserSpec
CONSTANTS
  TermCount = 3
  NontermCount = 3
  MaxKernels = 16
  ReduceBase = 100
  EndTerminal = 0
  SkipTerminals = {2}
  StopAnswers <- AnyAnswer
  MaxInput = 4
  MaxUnread = 0
  MaxStack = 8
  Grammars <- SmallAndMerging
INVARIANTS
  KernelsLinked
  ParserTypeOK
  ShiftsResolved
  CellsJustified
  CreatedTableComplete
  SpansOrdered
  StackFollowsGotos
  SoundKernelsHaveHandle
PROPERTIES
  ExpandedFixed
  CellsWrittenOnce
CHECK_DEADLOCK FALSE
