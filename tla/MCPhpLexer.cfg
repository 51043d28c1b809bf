SPECIFICATION CodeSpec
CONSTANTS
  c_base_char_cnt = 5
  Languages = {"php"}
  HighChar = 3
  TextMax = 2
  Automata <- CommentOnly
PROPERTY CodeAnswers
CHECK_DEADLOCK FALSE
