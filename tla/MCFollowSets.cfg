SPECIFICATION FollowsSpec
CONSTANTS
  TermCount = 2
  NontermCount = 3
  Grammars <- EndingGrammars
INVARIANTS
  FirstsExact
  FirstRulesExact
  FollowsSound
  CreatedComplete
PROPERTIES
  RootComplete
  FollowsTerminate
CHECK_DEADLOCK FALSE
