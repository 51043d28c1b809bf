---------------------------- MODULE EmittedParser --------------------------
(***************************************************************************)
(* The parsers that yapgen writes: the loop parse_source_string as each of *)
(* the creators (cc_creator.h, rust_creator.h, awk_creator.h,              *)
(* js_creator.h, php_creator.h) emits it, over the table it emits.  When   *)
(* parser_run_s has come to an end on a text, an emitted program is run on *)
(* the same text; its recognizer (module CodeGen) gives the same answers.  *)
(*                                                                         *)
(* The emitted programs print the number of every rule they reduce and     *)
(* have no rule codes.  They keep positions on their stacks, but never     *)
(* read them.                                                              *)
(***************************************************************************)
EXTENDS ParserRun

CONSTANTS
  EmitLanguages,   (* languages a run considers *)
  EmitMax          (* bound: characters of the texts emitted programs read *)

ASSUME EmittedAssumption ==
  /\ EmitLanguages \subseteq {"cc", "rust", "awk", "js", "php"}
  /\ EmitMax \in 0 .. MaxInput

VARIABLES
  answers,        (* history: what recognize has answered parser_run_s     *)
  reductions,     (* history: the rules whose code it has run              *)
  emit_status,    (* "idle", "running", "ended", "aborted" or "endless"    *)
  emit_lang,
  emit_stack,     (* lalr_stack, as the numbers in the array               *)
  emit_idx,       (* input_idx                                             *)
  emit_term,      (* ret_term                                              *)
  printed         (* the output                                            *)

historyVars == <<answers, reductions>>
programVars == <<emit_status, emit_lang, emit_stack, emit_idx, emit_term, printed>>
emittedVars == <<parserVars, historyVars, programVars>>

EmittedInit ==
  /\ ParserInit
  /\ answers = <<>> /\ reductions = <<>>
  /\ emit_status = "idle" /\ emit_lang = "cc"
  /\ emit_stack = <<>> /\ emit_idx = 0 /\ emit_term = NotExist
  /\ printed = <<>>

(* A step of parser_run_s, with what it tells about a text that is short
   enough: the answer for a character, and the rule it reduces. *)
Remembered == input_length <= EmitMax

InterpreterStep ==
  /\ ParserNext
  /\ IF Remembered /\ Reading /\ input_idx < stop_idx
       THEN \E t \in IF ret_term' # NotExist THEN {ret_term'}
                     ELSE IF run_status' = "running" THEN SkipTerminals
                     ELSE {NotExist} :
              answers' = Append(answers, t)
       ELSE answers' = answers
  /\ IF Remembered /\ Reducing /\ run_status' = "running"
       THEN reductions' = Append(reductions, ActionRule)
       ELSE reductions' = reductions
  /\ UNCHANGED programVars

-----------------------------------------------------------------------------
(* What the languages do differently: the numbers that an element of the
   stack takes, whether a blank terminal or action ends the program, and what
   the table reads in the row of no state, where a program that goes on may
   get. *)

cc_loop == [width |-> 1, on_blank |-> "abort", outside |-> "nothing"]

rust_loop == [width |-> 1, on_blank |-> "abort", outside |-> "nothing"]

(* A blank state is the empty string, which counts as zero in an index. *)
awk_loop == [width |-> 3, on_blank |-> "abort", outside |-> "first_row"]

(* The assertions are comments.  Outside, lalr_table[-1*n + t] is undefined:
   not less than any number, it is a reduction by no rule, which pushes
   undefined, and so on without end. *)
js_loop == [width |-> 1, on_blank |-> "go_on", outside |-> "endless"]

(* assert() warns and goes on (or is switched off, as in production), and
   the second one asserts that the name parse_action is not -1.  Outside,
   $lalr_table[-1*n + t] is null: less than the base of reductions, and the
   number zero as a state. *)
php_loop == [width |-> 3, on_blank |-> "go_on", outside |-> "first_state"]

Loop ==
  CASE emit_lang = "cc" -> cc_loop
    [] emit_lang = "rust" -> rust_loop
    [] emit_lang = "awk" -> awk_loop
    [] emit_lang = "js" -> js_loop
    [] emit_lang = "php" -> php_loop

(* What a program pushes, and what it finds on top of its stack:
   the state, then the positions, which are left out here. *)
Positions == [i \in 1 .. Loop.width - 1 |-> NotExist]
Pushed(stack, state) == stack \o <<state>> \o Positions
TopState(stack) == stack[Len(stack) - Loop.width + 1]

(* The emitted table.  Shifts and gotos are written as numbers of states,
   reductions as the base plus the number of the rule, a blank as the
   number that means no index, in AWK as no element at all. *)
TableCell(s, c) == lalr_table[s][c]

(* The number the program acts on for a symbol: the state one of
   JavaScript's undefined, and PHP's null, are what a shift to it does. *)
EmittedAction(stack, c) ==
  IF TopState(stack) # NotExist THEN TableCell(TopState(stack), c)
  ELSE CASE Loop.outside = "first_state" -> 1
         [] Loop.outside = "first_row" -> TableCell(1, c)
         [] OTHER -> NotExist

Running == emit_status = "running"
NeedsTerminal == Running /\ emit_term = NotExist
HasTerminal == Running /\ emit_term # NotExist
OutsideTable == TopState(emit_stack) = NotExist /\ Loop.outside = "endless"
EmitCell == EmittedAction(emit_stack, emit_term)

-----------------------------------------------------------------------------
StartProgram ==
  /\ Remembered
  /\ run_status \in {"accepted", "SYNTAX_ERROR", "UNRECOGNIZED_TERMINAL"}
  /\ emit_status = "idle"
  /\ emit_status' = "running"
  /\ \E lang \in EmitLanguages : emit_lang' = lang
  /\ emit_stack' = [i \in 1 .. Loop'.width |-> IF i = 1 THEN 1 ELSE NotExist]
  /\ UNCHANGED <<emit_idx, emit_term, printed>>

(* What the recognizer of the program answers: what parser_run_s was told,
   and anything for the characters it never came to. *)
EmitAnswers ==
  IF emit_idx >= stop_idx THEN {stop_answer}
  ELSE IF emit_idx < Len(answers) THEN {answers[emit_idx + 1]}
  ELSE Terminals \union {NotExist}

(* A blank terminal ends the program, or is read over: the recognizer is
   called again behind the character, or where it was, which is no step. *)
EmitRead ==
  /\ NeedsTerminal
  /\ \E t \in EmitAnswers :
       /\ emit_term' = IF t \in SkipTerminals THEN NotExist ELSE t
       /\ emit_status' = IF t = NotExist /\ Loop.on_blank = "abort"
                           THEN "aborted" ELSE "running"
  /\ emit_idx' = IF emit_idx < stop_idx THEN emit_idx + 1 ELSE emit_idx
  /\ UNCHANGED <<emit_lang, emit_stack, printed>>

EmitAbort ==
  /\ HasTerminal
  /\ EmitCell = NotExist /\ Loop.on_blank = "abort"
  /\ emit_status' = "aborted"
  /\ UNCHANGED <<emit_lang, emit_stack, emit_idx, emit_term, printed>>

(* A blank that does not end the program is less than the base. *)
EmitShifting ==
  /\ HasTerminal /\ ~OutsideTable
  /\ EmitCell <= ReduceBase
  /\ EmitCell = NotExist => Loop.on_blank = "go_on"

(* Mutant: the end terminal is consumed and the loop goes on. *)
EmitEndGoesOn ==
  /\ EmitShifting
  /\ emit_term = EndTerminal
  /\ emit_term' = NotExist
  /\ UNCHANGED <<emit_status, emit_lang, emit_stack, emit_idx, printed>>

EmitEnd ==
  /\ EmitShifting
  /\ emit_term = EndTerminal
  /\ emit_status' = "ended"
  /\ UNCHANGED <<emit_lang, emit_stack, emit_idx, emit_term, printed>>

EmitShift ==
  /\ EmitShifting
  /\ emit_term # EndTerminal
  /\ emit_stack' = Pushed(emit_stack, EmitCell)
  /\ emit_term' = NotExist
  /\ UNCHANGED <<emit_status, emit_lang, emit_idx, printed>>

EmitEndless ==
  /\ HasTerminal /\ OutsideTable
  /\ emit_status' = "endless"
  /\ UNCHANGED <<emit_lang, emit_stack, emit_idx, emit_term, printed>>

(* Mutant: every language removes as many numbers as the body has symbols. *)
RemovedOnePerSymbol(body) == Len(body)

Removed(body) == Loop.width * Len(body)

EmitReduce ==
  /\ HasTerminal /\ ~OutsideTable
  /\ EmitCell > ReduceBase
  /\ LET rule == EmitCell - ReduceBase
         below == SubSeq(emit_stack, 1,
                         Len(emit_stack) - Removed(rules[rule].body))
     IN  /\ Len(below) >= Loop.width
         /\ emit_stack' = Pushed(below, EmittedAction(below, rules[rule].head))
         /\ printed' = Append(printed, rule)
  /\ UNCHANGED <<emit_status, emit_lang, emit_idx, emit_term>>

ProgramNext ==
  \/ StartProgram
  \/ EmitRead \/ EmitAbort
  \/ EmitEnd \/ EmitShift \/ EmitEndless
  \/ EmitReduce

EmittedNext ==
  \/ InterpreterStep
  \/ ProgramNext /\ UNCHANGED <<parserVars, historyVars>>

EmittedSpec ==
  /\ EmittedInit /\ [][EmittedNext]_emittedVars
  /\ WF_parserVars(InterpreterStep) /\ WF_programVars(ProgramNext)

-----------------------------------------------------------------------------
PrefixOf(p, w) == Len(p) <= Len(w) /\ SubSeq(w, 1, Len(p)) = p

(* An emitted program does what parser_run_s did on the same text: it prints
   the rules that were reduced, and ends on an accepted text.  A refused text
   ends the programs that check for blanks, with no rule printed too many;
   the others have printed no other rules until then. *)
EmittedAgrees ==
  /\ run_status = "accepted" =>
       /\ emit_status \notin {"aborted", "endless"}
       /\ PrefixOf(printed, reductions)
       /\ emit_status = "ended" => printed = reductions
  /\ emit_status \in {"ended", "aborted"} /\ Loop.on_blank = "abort" =>
       /\ emit_status = "ended" <=> run_status = "accepted"
       /\ printed = reductions
  /\ PrefixOf(printed, reductions) \/ PrefixOf(reductions, printed)

(* The programs that check for blanks come to an end whenever parser_run_s
   did. *)
ProgramsEnd ==
  [](emit_status = "running" /\ Loop.on_blank = "abort"
       => <>(emit_status # "running"))
=============================================================================
