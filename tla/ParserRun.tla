----------------------------- MODULE ParserRun -----------------------------
(***************************************************************************)
(* parser_run_s::parse_source_string (parser_run.cc:62-203), run with the  *)
(* table that create_lalr_table made.                                      *)
(*                                                                         *)
(* The lexical automaton is what it looks like from here (parser_code.cc:  *)
(* 758-807).  A call of recognize that moves takes a terminal, which is    *)
(* one character here, or refuses what it read.  A call that moves nothing *)
(* is made at the end of the text, or inside it where no terminal begins:  *)
(* it answers what state 0 is final for, blank or a terminal that matches  *)
(* no character at all (at the end it may be the terminal of the state     *)
(* that a zero leads to).  As every call begins in state 0, all later      *)
(* calls answer the same and move nothing either.  Rule and init codes may *)
(* fail and do nothing else.                                               *)
(***************************************************************************)
EXTENDS LalrTable

CONSTANTS
  EndTerminal,    (* parser.end_terminal                                   *)
  SkipTerminals,  (* parser.skip_terminals                                 *)
  StopAnswers,    (* what recognize may answer without moving              *)
  MaxInput,       (* bound: characters of the source string                *)
  MaxUnread,      (* bound: those from the first one on that no call of    *)
                  (* recognize moves over; none of them is looked at       *)
  MaxStack        (* bound: elements of lalr_stack                         *)

ASSUME ParserRunAssumption ==
  /\ EndTerminal \in Terminals
  /\ SkipTerminals \subseteq Terminals
  /\ StopAnswers \subseteq Terminals \union {NotExist}
  /\ MaxInput \in Nat /\ MaxUnread \in Nat /\ MaxStack \in Nat

VARIABLES
  run_status,     (* "wait", "running", "accepted" or how the run failed   *)
  lalr_stack,     (* elements [state, start, end, symbol]; symbol is what  *)
                  (* the element stands for and is not kept by the code    *)
  old_input_idx,  (* where the last terminal begins                        *)
  input_idx,      (* where the next one begins                             *)
  input_length,
  stop_idx,       (* where recognize stops moving: where no terminal       *)
                  (* begins, or the end of the text                        *)
  ret_term,       (* the terminal at hand, NotExist when it was consumed   *)
  stop_answer,    (* what recognize answers there                          *)
  sentence        (* history: the terminals handed to the table            *)

textVars == <<input_length, stop_idx, stop_answer>>
runOwnVars == <<run_status, lalr_stack, old_input_idx, input_idx,
                textVars, ret_term, sentence>>
inputsOfRun == <<firstVars, followOwnVars, kernelOwnVars, tableOwnVars>>
parserVars == <<inputsOfRun, runOwnVars>>

RunInit ==
  /\ run_status = "wait"
  /\ lalr_stack = <<>>
  /\ old_input_idx = 0 /\ input_idx = 0
  /\ input_length = 0 /\ stop_idx = 0
  /\ ret_term = NotExist
  /\ stop_answer = NotExist
  /\ sentence = <<>>

LastOf(s) == s[Len(s)]

(* Bound of the history: a terminal that is answered without moving, and
   that neither ends the run nor is skipped, may be read forever. *)
MaxSentence == MaxInput + 2

(* Mutant: the bottom element is not pushed. *)
StartRunEmpty ==
  /\ table_stage = "created"
  /\ run_status = "wait"
  /\ run_status' = "running"
  /\ input_length' \in 0 .. MaxInput
  /\ stop_idx' \in 0 .. input_length' /\ input_length' - stop_idx' <= MaxUnread
  /\ stop_answer' \in StopAnswers
  /\ UNCHANGED <<inputsOfRun, lalr_stack, old_input_idx, input_idx, ret_term,
                 sentence>>

(* The stack gets its bottom element, then Lua is set up and the init code
   runs. *)
StartRun ==
  /\ table_stage = "created"
  /\ run_status = "wait"
  /\ lalr_stack' = << [state |-> 1, start |-> 0, end |-> 0,
                       symbol |-> NotExist] >>
  /\ input_length' \in 0 .. MaxInput
  /\ stop_idx' \in 0 .. input_length' /\ input_length' - stop_idx' <= MaxUnread
  /\ stop_answer' \in StopAnswers
  /\ run_status' \in {"running", "LUA_NEW_STATE_ERROR",
                     "LUA_DO_INIT_CODE_ERROR"}
  /\ UNCHANGED <<inputsOfRun, old_input_idx, input_idx, ret_term, sentence>>

-----------------------------------------------------------------------------
(* The inner loop: one call of recognize. *)

Reading == run_status = "running" /\ ret_term = NotExist

Recognized(t, next) ==
  /\ Reading
  /\ \/ /\ input_idx < stop_idx
        /\ t \in Terminals \union {NotExist} /\ next = input_idx + 1
     \/ /\ input_idx = stop_idx
        /\ t = stop_answer /\ next = input_idx

SkipTerminal ==
  /\ \E t \in SkipTerminals, next \in 0 .. MaxInput :
       Recognized(t, next) /\ input_idx' = next
  /\ old_input_idx' = input_idx
  /\ UNCHANGED <<inputsOfRun, run_status, lalr_stack, textVars, ret_term,
                 sentence>>

NextTerminal ==
  /\ Len(sentence) < MaxSentence
  /\ \E t \in Terminals \ SkipTerminals, next \in 0 .. MaxInput :
       /\ Recognized(t, next)
       /\ input_idx' = next
       /\ ret_term' = t
       /\ sentence' = Append(sentence, t)
  /\ old_input_idx' = input_idx
  /\ UNCHANGED <<inputsOfRun, run_status, lalr_stack, textVars>>

Unrecognized ==
  /\ \E next \in 0 .. MaxInput : Recognized(NotExist, next) /\ input_idx' = next
  /\ old_input_idx' = input_idx
  /\ run_status' = "UNRECOGNIZED_TERMINAL"
  /\ UNCHANGED <<inputsOfRun, lalr_stack, textVars, ret_term, sentence>>

-----------------------------------------------------------------------------
(* The action the table has for the state on top and the terminal at hand. *)

Acting == run_status = "running" /\ ret_term # NotExist

(* Reading the table in the row of no state, or popping the bottom of the
   stack, is undefined: the run may do anything and is not followed. *)
InState == LastOf(lalr_stack).state # NotExist
ParseAction == lalr_table[LastOf(lalr_stack).state][ret_term]
ActionRule == ParseAction - ReduceBase
ActionHead == rules[ActionRule].head
ActionBody == rules[ActionRule].body

SyntaxError ==
  /\ Acting /\ InState
  /\ ParseAction = NotExist
  /\ run_status' = "SYNTAX_ERROR"
  /\ UNCHANGED <<inputsOfRun, lalr_stack, old_input_idx, input_idx, textVars,
                 ret_term, sentence>>

Shifting == Acting /\ InState /\ ParseAction \in 1 .. ReduceBase

(* Mutant: any shift of the table ends the run. *)
AcceptAnyShift ==
  /\ Shifting
  /\ run_status' = "accepted"
  /\ UNCHANGED <<inputsOfRun, lalr_stack, old_input_idx, input_idx, textVars,
                 ret_term, sentence>>

(* Mutant: the end terminal does not end the loop. *)
AcceptGoesOn ==
  /\ Shifting
  /\ ret_term = EndTerminal
  /\ ret_term' = NotExist
  /\ UNCHANGED <<inputsOfRun, run_status, lalr_stack, old_input_idx,
                 input_idx, textVars, sentence>>

Accept ==
  /\ Shifting
  /\ ret_term = EndTerminal
  /\ run_status' = "accepted"
  /\ UNCHANGED <<inputsOfRun, lalr_stack, old_input_idx, input_idx, textVars,
                 ret_term, sentence>>

Shift ==
  /\ Shifting
  /\ ret_term # EndTerminal
  /\ Len(lalr_stack) < MaxStack
  /\ lalr_stack' = Append(lalr_stack,
                     [state |-> ParseAction, start |-> old_input_idx,
                      end |-> input_idx, symbol |-> ret_term])
  /\ ret_term' = NotExist
  /\ UNCHANGED <<inputsOfRun, run_status, old_input_idx, input_idx, textVars,
                 sentence>>

Reducing == Acting /\ InState /\ ParseAction > ReduceBase

RuleCodeFails ==
  /\ Reducing
  /\ run_status' = "LUA_DO_RULE_CODE_ERROR"
  /\ UNCHANGED <<inputsOfRun, lalr_stack, old_input_idx, input_idx, textVars,
                 ret_term, sentence>>

(* The element that stands below the body of a reduction; the head goes on
   from its state and takes over the text from the first body symbol on. *)
Below == Len(lalr_stack) - Len(ActionBody)
(* Mutant: goes on from the state the body ended in. *)
GotoStateOnTop == lalr_table[LastOf(lalr_stack).state][ActionHead]

GotoState == lalr_table[lalr_stack[Below].state][ActionHead]
(* Mutant: the head begins where the element below the body does. *)
HandleStartBelow == lalr_stack[Below].start

HandleStart == lalr_stack[Below + 1].start

(* Mutant: leaves one body symbol on the stack. *)
ReducePopsOneLess ==
  /\ Reducing
  /\ Below >= 1
  /\ lalr_stack' = Append(SubSeq(lalr_stack, 1, Below + 1),
                     [state |-> GotoState, start |-> HandleStart,
                      end |-> LastOf(lalr_stack).end, symbol |-> ActionHead])
  /\ Len(lalr_stack') <= MaxStack
  /\ UNCHANGED <<inputsOfRun, run_status, old_input_idx, input_idx, textVars,
                 ret_term, sentence>>

Reduce ==
  /\ Reducing
  /\ Below >= 1
  /\ lalr_stack' = Append(SubSeq(lalr_stack, 1, Below),
                     [state |-> GotoState, start |-> HandleStart,
                      end |-> LastOf(lalr_stack).end, symbol |-> ActionHead])
  /\ UNCHANGED <<inputsOfRun, run_status, old_input_idx, input_idx, textVars,
                 ret_term, sentence>>

Undefined ==
  /\ Acting
  /\ InState => Reducing /\ Below < 1
  /\ run_status' = "undefined"
  /\ UNCHANGED <<inputsOfRun, lalr_stack, old_input_idx, input_idx, textVars,
                 ret_term, sentence>>

RunNext ==
  \/ StartRun
  \/ SkipTerminal \/ NextTerminal \/ Unrecognized
  \/ SyntaxError \/ Accept \/ Shift
  \/ Reduce \/ RuleCodeFails \/ Undefined

ParserInit == CreatorInit /\ RunInit
ParserNext == (CreatorNext /\ UNCHANGED runOwnVars) \/ RunNext
ParserSpec == ParserInit /\ [][ParserNext]_parserVars /\ WF_parserVars(ParserNext)

-----------------------------------------------------------------------------
StackElement ==
  [state : 1 .. MaxKernels \union {NotExist}, start : 0 .. MaxInput,
   end : 0 .. MaxInput, symbol : Symbols \union {NotExist}]

RunStatuses == {"wait", "running", "accepted", "UNRECOGNIZED_TERMINAL",
                "SYNTAX_ERROR", "LUA_NEW_STATE_ERROR", "LUA_DO_INIT_CODE_ERROR",
                "LUA_DO_RULE_CODE_ERROR", "undefined"}

(* Types of the variables of parse_source_string. *)
RunTypeOK ==
  /\ run_status \in RunStatuses
  /\ lalr_stack \in Seq(StackElement)
  /\ (lalr_stack = <<>>) <=> (run_status = "wait")
  /\ old_input_idx \in 0 .. MaxInput /\ input_idx \in 0 .. MaxInput
  /\ input_length \in 0 .. MaxInput /\ stop_idx \in 0 .. MaxInput
  /\ ret_term \in Terminals \union {NotExist}

(* Types of all that the construction of a parser and its run keep. *)
ParserTypeOK ==
  FirstTypeOK /\ FollowTypeOK /\ KernelTypeOK /\ TableTypeOK /\ RunTypeOK

(* rule_body(i) cuts the text of body symbol i out of the source string by
   the positions of its stack element: they lie in the text, in order, and
   no two elements claim the same character. *)
SpansOrdered ==
  /\ \A i \in DOMAIN lalr_stack :
       /\ lalr_stack[i].start <= lalr_stack[i].end
       /\ lalr_stack[i].end <= input_idx
  /\ \A i, j \in DOMAIN lalr_stack :
       i < j => lalr_stack[i].end <= lalr_stack[j].start
  /\ input_idx <= stop_idx /\ stop_idx <= input_length

(* Two neighbours on the stack are linked by a goto of the kernels. *)
StackFollowsGotos ==
  \A i \in 2 .. Len(lalr_stack) :
    lalr_stack[i].state # NotExist =>
      /\ lalr_stack[i - 1].state # NotExist
      /\ lalr_stack[i].state \in
           GotoTargets([from |-> lalr_stack[i - 1].state,
                        symbol |-> lalr_stack[i].symbol])

StackSymbols == [i \in 1 .. Len(lalr_stack) - 1 |-> lalr_stack[i + 1].symbol]

HandleOnStack ==
  /\ Len(ActionBody) <= Len(StackSymbols)
  /\ SubSeq(StackSymbols, Len(StackSymbols) - Len(ActionBody) + 1,
            Len(StackSymbols)) = ActionBody

(* When a rule is reduced its body is what lies on top of the stack, in every
   parser whose kernels all satisfy PredecessorsHoldDot: mixed up kernels are
   the only way a reduction can pop what is not its body. *)
SoundKernelsHaveHandle == Reducing /\ PredecessorsHoldDot => HandleOnStack

(* A call of recognize that moves nothing leaves the loops of the run. *)
StopLeaves == stop_answer \in {EndTerminal, NotExist} \ SkipTerminals

(* The answer of such a call is a terminal to skip, at the end of the text or
   inside it, where none begins. *)
StandsAtSkip == Reading /\ input_idx = stop_idx /\ stop_answer \in SkipTerminals

(* The inner loop (parser_run.cc:126-148) is never left from there: a skip
   terminal that matches no character, as _SKIP_ {w*} does, is skipped for
   ever at the first character with which no terminal begins. *)
SkipsForEver == [](StandsAtSkip => []StandsAtSkip)

(* A run whose recognizer, where it moves no more, answers blank or the end
   terminal comes to an end, whatever it reduces and skips before; one that
   comes to stand at a skip terminal does not.  That is assumed of the
   terminals, not of the run: the first holds if none but the end terminal
   matches the empty string. *)
RunsEnd ==
  /\ [](run_status = "running" /\ StopLeaves => <>(run_status # "running"))
  /\ SkipsForEver

(* The run, seen as the rewriting of a sentential form. *)
Derivation ==
  INSTANCE BottomUp WITH
    Terms <- Terminals, End <- EndTerminal,
    form <- IF lalr_stack = <<>> THEN <<>> ELSE StackSymbols,
    verdict <- IF run_status \in {"wait", "running"} THEN "open"
               ELSE IF run_status = "accepted" THEN "accepted" ELSE "rejected"

RunIsDerivation == Derivation!DerivationSpec

(* Grammars whose end terminal ends a text: it stands at the end of rules of
   the outermost heads alone, and these stand nowhere but in rules with one
   body symbol of each other. *)
EndsText(g) ==
  \A r \in DOMAIN g : \A i \in DOMAIN g[r].body :
    /\ g[r].body[i] = EndTerminal
         => i = Len(g[r].body) /\ g[r].head \in Derivation!OutermostHeads(g)
    /\ g[r].body[i] \in Derivation!OutermostHeads(g)
         => Len(g[r].body) = 1 /\ g[r].head \in Derivation!OutermostHeads(g)

(* A text is accepted only if the grammar derives it. *)
AcceptedIsDerived ==
  run_status = "accepted" => Derives(rules, <<rules[1].head>>, sentence)

(* Parsers of such grammars whose kernels are not mixed up. *)
SoundParser ==
  EndsText(rules) /\ (run_status # "wait" => PredecessorsHoldDot)
=============================================================================
