---------------------------- MODULE MCRuleLoader ---------------------------
EXTENDS RuleLoader

(* Names that contain a mark, with a letter or one more underscore in front of
   it. *)
NamesWithMarks == {<<"x", "_", "SKIP", "_">>, <<"_", "_", "END", "_">>}
=============================================================================
