SPECIFICATION YapgenSpec
CONSTANTS
  Scenarios <- AllScenarios
  EmittedText <- OneX
  TerminalNames <- MarkNames
  NonterminalNames = {"a", "b"}
  MaxTokens = 19
  ReadScenarios <- OneToRead
  MaxAnswerTokens = 14
INVARIANTS
  ExitStatus
  FilesExact
  ReportsShowPosition
  LoadedRight
  KeysMarked
CHECK_DEADLOCK FALSE
