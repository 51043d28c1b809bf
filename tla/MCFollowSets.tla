---------------------------- MODULE MCFollowSets ---------------------------
EXTENDS FollowSets, MCGrammars
=============================================================================
