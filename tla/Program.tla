------------------------------ MODULE Program ------------------------------
(***************************************************************************)
(* The program yapgen (yapgen.cc): it reads its arguments and then creates *)
(* a parser from a rule file, saves it in five languages and runs it on a  *)
(* source file, each if it is asked to, and tells by its exit status       *)
(* whether everything went well.                                           *)
(*                                                                         *)
(* Whether a text is a rule file, and whether the parser accepts a source  *)
(* text, is the business of other modules: here either may turn out so or  *)
(* so, with any of the errors.                                             *)
(***************************************************************************)
EXTENDS ErrorReport

CONSTANTS
  Scenarios,    (* records [args, files, locked]: the command line without *)
                (* its first word, the file of every name, and the names   *)
                (* that cannot be opened for writing                       *)
  EmittedText   (* what the source of a parser looks like                  *)

(* A file: who made it, "user" or a language, and its text.  A file that
   cannot be opened is "missing". *)
IsFile(f) ==
  /\ f.maker \in {"missing", "user"}
  /\ f.text \in Seq(1 .. 255)
  /\ f.maker = "missing" => f.text = <<>>

ASSUME ProgramAssumption ==
  /\ EmittedText \in Seq(1 .. 255) /\ EmittedText # <<>>
  /\ \A s \in Scenarios :
       /\ \A name \in DOMAIN s.files : IsFile(s.files[name])
       /\ s.locked \subseteq DOMAIN s.files
       /\ s.args \in Seq(DOMAIN s.files)

VARIABLES
  scenario,       (* a member of Scenarios, with the files at the start    *)
  files,          (* the files now                                         *)
  stage,          (* "arguments", "options" or "exited"                    *)
  a_idx,          (* the word of the arguments that is next                *)
  o_idx,          (* the option that main looks at                         *)
  arg_file_idxs,  (* the word with the file of every option, zero if none  *)
  parser_exist,
  return_value,
  shown,          (* history: what was told of an error in a text, and of  *)
                  (* which text and position                               *)
  accepted        (* history: the parser accepted the source text          *)

vars == <<scenario, files, stage, a_idx, o_idx, arg_file_idxs, parser_exist,
          return_value, shown, accepted>>

Languages == <<"cc", "js", "rust", "awk", "php">>

arg_option_names ==
  << "--parser_descr", "--parser_save_cc", "--parser_save_js",
     "--parser_save_rust", "--parser_save_awk", "--parser_save_php",
     "--source" >>

arg_option_cnt == Len(arg_option_names)

Init ==
  /\ scenario \in Scenarios
  /\ files = scenario.files
  /\ stage = "arguments"
  /\ a_idx = 1 /\ o_idx = 1
  /\ arg_file_idxs = [o \in 1 .. arg_option_cnt |-> 0]
  /\ parser_exist = FALSE
  /\ return_value = 0
  /\ shown = {}
  /\ accepted = FALSE

-----------------------------------------------------------------------------
(* parse_arguments: an option, whatever word behind it as its file.  *)

args == scenario.args

IsOption(word) == \E o \in 1 .. arg_option_cnt : arg_option_names[o] = word

(* Mutant: an option that comes again does not count. *)
TakeFirstOption ==
  /\ stage = "arguments"
  /\ a_idx < Len(args)
  /\ \E o \in 1 .. arg_option_cnt :
       /\ arg_option_names[o] = args[a_idx]
       /\ arg_file_idxs' =
            [arg_file_idxs EXCEPT ![o] = IF @ = 0 THEN a_idx + 1 ELSE @]
  /\ a_idx' = a_idx + 2
  /\ UNCHANGED <<scenario, files, stage, o_idx, parser_exist, return_value,
                 shown, accepted>>

TakeOption ==
  /\ stage = "arguments"
  /\ a_idx < Len(args)
  /\ \E o \in 1 .. arg_option_cnt :
       /\ arg_option_names[o] = args[a_idx]
       /\ arg_file_idxs' = [arg_file_idxs EXCEPT ![o] = a_idx + 1]
  /\ a_idx' = a_idx + 2
  /\ UNCHANGED <<scenario, files, stage, o_idx, parser_exist, return_value,
                 shown, accepted>>

BadArguments ==
  /\ stage = "arguments"
  /\ a_idx <= Len(args)
  /\ ~IsOption(args[a_idx]) \/ a_idx = Len(args)
  /\ stage' = "exited"
  /\ return_value' = 1
  /\ UNCHANGED <<scenario, files, a_idx, o_idx, arg_file_idxs, parser_exist,
                 shown, accepted>>

ArgumentsTaken ==
  /\ stage = "arguments"
  /\ a_idx > Len(args)
  /\ stage' = "options"
  /\ UNCHANGED <<scenario, files, a_idx, o_idx, arg_file_idxs, parser_exist,
                 return_value, shown, accepted>>

-----------------------------------------------------------------------------
(* main looks at one option after the other. *)

AtOption(o) == stage = "options" /\ o_idx = o

Given == arg_file_idxs[o_idx] # 0
Name == args[arg_file_idxs[o_idx]]
File == files[Name]

(* load_text_file: fread of no bytes answers zero, which is not one. *)
Loadable == File.maker # "missing" /\ File.text # <<>>

NextOption ==
  IF o_idx < arg_option_cnt
    THEN o_idx' = o_idx + 1 /\ stage' = stage
    ELSE o_idx' = o_idx /\ stage' = "exited"

NotGiven ==
  /\ stage = "options" /\ ~Given
  /\ NextOption
  /\ UNCHANGED <<scenario, files, a_idx, arg_file_idxs, parser_exist,
                 return_value, shown, accepted>>

(* The option could not be done. *)
Fails ==
  /\ NextOption
  /\ return_value' = 1
  /\ UNCHANGED <<scenario, files, a_idx, arg_file_idxs, parser_exist, accepted>>

(* print_error: errors of a place in the text show it, with a caret, a
   duplicate rule without; the others only tell their names.  A position is
   that of a terminal, at the latest the end of the text. *)
Told(report, pos) == [report |-> report, text |-> File.text, pos |-> pos]

RuleErrorShown ==
  \/ shown' = shown
  \/ \E pos \in 0 .. Len(File.text) :
       shown' = shown \union
         {Told(print_error_show_line(File.text, pos), pos)}
  \/ \E pos \in 0 .. Len(File.text) :
       shown' = shown \union {Told(print_error_line(File.text, pos), pos)}

RunErrorShown ==
  \/ shown' = shown
  \/ \E pos \in 0 .. Len(File.text) :
       shown' = shown \union
         {Told(print_error_show_line(File.text, pos), pos)}

CannotLoad ==
  /\ AtOption(1) \/ AtOption(arg_option_cnt)
  /\ Given /\ ~Loadable
  /\ Fails /\ shown' = shown

ParserNotCreated ==
  /\ AtOption(1) /\ Given /\ Loadable
  /\ Fails /\ RuleErrorShown

ParserCreated ==
  /\ AtOption(1) /\ Given /\ Loadable
  /\ parser_exist' = TRUE
  /\ NextOption
  /\ UNCHANGED <<scenario, files, a_idx, arg_file_idxs, return_value, shown,
                 accepted>>

(* GENERATE_PARSER of the language of the option. *)
Saving == o_idx \in 2 .. arg_option_cnt - 1 /\ stage = "options" /\ Given

(* Mutant: without a parser nothing is saved, which is no error. *)
CannotSaveUnnoticed ==
  /\ Saving
  /\ ~parser_exist \/ Name \in scenario.locked
  /\ return_value' = IF parser_exist THEN 1 ELSE return_value
  /\ NextOption
  /\ UNCHANGED <<scenario, files, a_idx, arg_file_idxs, parser_exist, shown,
                 accepted>>

CannotSave ==
  /\ Saving
  /\ ~parser_exist \/ Name \in scenario.locked
  /\ Fails /\ shown' = shown

(* What fwrite answers is not looked at. *)
Save ==
  /\ Saving
  /\ parser_exist /\ Name \notin scenario.locked
  /\ files' = [files EXCEPT ![Name] = [maker |-> Languages[o_idx - 1],
                                       text |-> EmittedText]]
  /\ NextOption
  /\ UNCHANGED <<scenario, a_idx, arg_file_idxs, parser_exist, return_value,
                 shown, accepted>>

NoParserForSource ==
  /\ AtOption(arg_option_cnt) /\ Given /\ Loadable /\ ~parser_exist
  /\ Fails /\ shown' = shown

SourceRefused ==
  /\ AtOption(arg_option_cnt) /\ Given /\ Loadable /\ parser_exist
  /\ Fails /\ RunErrorShown

SourceAccepted ==
  /\ AtOption(arg_option_cnt) /\ Given /\ Loadable /\ parser_exist
  /\ accepted' = TRUE
  /\ NextOption
  /\ UNCHANGED <<scenario, files, a_idx, arg_file_idxs, parser_exist,
                 return_value, shown>>

Next ==
  \/ TakeOption \/ BadArguments \/ ArgumentsTaken
  \/ NotGiven \/ CannotLoad
  \/ ParserNotCreated \/ ParserCreated
  \/ CannotSave \/ Save
  \/ NoParserForSource \/ SourceRefused \/ SourceAccepted

ProgramSpec == Init /\ [][Next]_vars

-----------------------------------------------------------------------------
(* What the command line asks for, read off its words. *)

Exited == stage = "exited"

ArgumentsOK ==
  /\ Len(args) % 2 = 0
  /\ \A i \in DOMAIN args : i % 2 = 1 => IsOption(args[i])

Mentions(option) == {i \in DOMAIN args : i % 2 = 1 /\ args[i] = option}

AskedFor(option) == ArgumentsOK /\ Mentions(option) # {}

FileFor(option) ==
  args[1 + CHOOSE i \in Mentions(option) : \A j \in Mentions(option) : j <= i]

Saved(n) == arg_option_names[n + 1]

(* The languages whose parser belongs into a file. *)
SavedIn(name) ==
  {n \in DOMAIN Languages :
     AskedFor(Saved(n)) /\ FileFor(Saved(n)) = name /\ name \notin scenario.locked}

(* The exit status is zero exactly if the arguments are in order and all that
   they ask for was done: what could not be done makes main go on, and is not
   forgotten. *)
ExitStatus ==
  Exited =>
    (return_value = 0 <=>
      /\ ArgumentsOK
      /\ AskedFor("--parser_descr") => parser_exist
      /\ \A n \in DOMAIN Languages :
           AskedFor(Saved(n)) =>
             parser_exist /\ FileFor(Saved(n)) \notin scenario.locked
      /\ AskedFor("--source") => accepted)

(* A file holds the parser in the last of the languages that were to be saved
   in it, if there is a parser, and otherwise what it held before. *)
FilesExact ==
  Exited =>
    \A name \in DOMAIN files :
      IF parser_exist /\ SavedIn(name) # {}
        THEN files[name].maker =
               Languages[CHOOSE n \in SavedIn(name) :
                           \A m \in SavedIn(name) : m <= n]
        ELSE files[name] = scenario.files[name]

(* A report shows the line of the error, its number and the place in it,
   unless the error is at the very end of a line. *)
ReportsShowPosition ==
  \A t \in shown :
    Byte(t.text, t.pos) # NewLine => ShowsPosition(t.report, t.text, t.pos)
=============================================================================
