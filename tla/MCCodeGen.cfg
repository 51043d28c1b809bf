SPECIFICATION CodeSpec
CONSTANTS
  c_base_char_cnt = 5
  Languages = {"cc", "php", "js", "awk", "rust"}
  HighChar = 3
  TextMax = 2
  Automata <- MCAutomata
INVARIANT EmittedExact
PROPERTY RunsRecognize
CHECK_DEADLOCK FALSE
