SPECIFICATION LoadSpec
CONSTANTS
  TerminalNames <- NamesWithMarks
  NonterminalNames = {"a"}
  MaxTokens = 16
INVARIANTS
  KeyNamesMarked
CHECK_DEADLOCK FALSE
