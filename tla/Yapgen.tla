------------------------------- MODULE Yapgen ------------------------------
(***************************************************************************)
(* main with the reading of the rule file in it (yapgen.cc and             *)
(* parser_s::create_from_rule_string).  For some scenarios the option      *)
(* --parser_descr calls the loader, which takes the file token by token,   *)
(* and main goes on with what it answers; for the others the answer is any *)
(* one, as in Program.                                                     *)
(***************************************************************************)
EXTENDS Program, RuleLoader

CONSTANTS
  ReadScenarios,    (* those whose rule file is read token by token        *)
  MaxAnswerTokens   (* bound: tokens of the files whose answer main is     *)
                    (* followed behind                                     *)

ASSUME YapgenAssumption ==
  ReadScenarios \subseteq Scenarios /\ MaxAnswerTokens \in Nat

yapgenVars == <<vars, loadVars>>

YapgenInit == Init /\ LoadInit

ReadsRules == scenario \in ReadScenarios

ReadRules ==
  /\ ReadsRules
  /\ AtOption(1) /\ Given /\ Loadable
  /\ LoadNext
  /\ UNCHANGED vars

(* What the loader answered, if it was asked. *)
Answered(answer) ==
  ReadsRules => load_stage = answer /\ Len(file) <= MaxAnswerTokens

MainStep ==
  /\ \/ Answered("created") /\ ParserCreated
     \/ Answered("failed") /\ ParserNotCreated
     \/ TakeOption \/ BadArguments \/ ArgumentsTaken
     \/ NotGiven \/ CannotLoad
     \/ CannotSave \/ Save
     \/ NoParserForSource \/ SourceRefused \/ SourceAccepted
  /\ UNCHANGED loadVars

YapgenNext == ReadRules \/ MainStep

YapgenSpec == YapgenInit /\ [][YapgenNext]_yapgenVars
=============================================================================
