SPECIFICATION FollowsSpec
CONSTANTS
  TermCount = 2
  NontermCount = 3
  Grammars <- SmallGrammars
INVARIANT FollowsComplete
CHECK_DEADLOCK FALSE
