------------------------------ MODULE CodeGen ------------------------------
(***************************************************************************)
(* The lexers that yapgen writes: every *_creator.h turns the transition   *)
(* rows of the final automaton into tests of runs of characters, and adds  *)
(* the code that reads characters and returns.  First the code is emitted  *)
(* for one automaton in one language, then it runs on a text.              *)
(*                                                                         *)
(* The PROCESS_STATE macros differ in the form of their tests and in when  *)
(* they emit a return; the languages differ in how a character is read and *)
(* closed.  A test is a record of the characters lo .. hi - 1 it is true   *)
(* for and the state it leads to.                                          *)
(***************************************************************************)
EXTENDS Characters, SequencesExt

CONSTANTS
  Languages,   (* of "cc", "php", "js", "awk", "rust": those a run is for  *)
  Automata,    (* final automata: [states, moves]                          *)
  HighChar,    (* 128 in the code: the first character of the upper half   *)
  TextMax      (* bound: characters of the text                            *)

(* All generators but the first begin their loop over the states with the
   second one, whose test is behind the loop.  The moves of an automaton lead
   to its states. *)
ASSUME CodeGenAssumption ==
  /\ Languages \subseteq {"cc", "php", "js", "awk", "rust"}
  /\ HighChar \in Chars
  /\ \A a \in Automata :
       /\ Len(a.states) \in Nat /\ Len(a.states) >= 2
       /\ a.moves \in [1 .. Len(a.states) ->
                         [Chars -> {NotExist} \union 1 .. Len(a.states)]]

ASSUME TextMaxAssumption == TextMax \in Nat

VARIABLES
  lang,
  fa_states, state_moves,   (* the automaton                               *)
  gen_stage,     (* "state", "runs", "return" or "done"                    *)
  s_idx,         (* the state whose code is emitted                        *)
  b_idx, e_idx,  (* the run of characters at hand begins at b_idx          *)
  f_idx,         (* cc: all characters in front of it are tested           *)
  target_state,  (* where that run leads                                   *)
  code,          (* for each state: its tests, and whether a return follows *)
  run_stage,     (* "idle", "testing", "closing" or "returned"             *)
  text,
  input_idx,
  in_char,
  label,         (* the state whose code runs                              *)
  here,          (* history: the state the closed characters lead to       *)
  ret_term_idx   (* what the function returned                             *)

inputVars == <<lang, fa_states, state_moves>>
genVars == <<gen_stage, s_idx, b_idx, e_idx, f_idx, target_state, code>>
runVars == <<run_stage, text, input_idx, in_char, label, here, ret_term_idx>>
codeVars == <<inputVars, genVars, runVars>>

CodeInit ==
  /\ lang \in Languages
  /\ \E a \in Automata : fa_states = a.states /\ state_moves = a.moves
  /\ gen_stage = "state" /\ s_idx = 1
  /\ b_idx = 0 /\ e_idx = 0 /\ f_idx = 0 /\ target_state = NotExist
  /\ code = <<>>
  /\ run_stage = "idle" /\ text = <<>> /\ input_idx = 0 /\ in_char = 0
  /\ label = 1 /\ here = 1 /\ ret_term_idx = NotExist

-----------------------------------------------------------------------------
(* Emission. *)

Row(s) == state_moves[s]
HasMoves(s) == \E c \in Chars : Row(s)[c] # NotExist

BeginState ==
  /\ gen_stage = "state"
  /\ code' = Append(code, [tests |-> <<>>, return |-> FALSE])
  /\ f_idx' = 0
  /\ IF HasMoves(s_idx)
       THEN /\ gen_stage' = "runs"
            /\ b_idx' = 0 /\ e_idx' = 0
            /\ target_state' = Row(s_idx)[0]
       ELSE /\ gen_stage' = "return"
            /\ UNCHANGED <<b_idx, e_idx, target_state>>
  /\ UNCHANGED <<inputVars, s_idx, runVars>>

Wide == e_idx - b_idx > 1

(* In cc a wide run behind nothing but tested characters has no lower bound. *)
RunTest ==
  [lo |-> IF lang = "cc" /\ Wide /\ b_idx = f_idx THEN 0 ELSE b_idx,
   hi |-> e_idx, to |-> target_state]

(* Mutant: f_idx goes over what is not tested. *)
TestedOver(last) == IF Wide THEN e_idx ELSE f_idx

(* f_idx after a test; the last single character does not move it on. *)
Tested(last) ==
  IF lang # "cc" \/ b_idx # f_idx THEN f_idx
  ELSE IF Wide THEN e_idx
  ELSE IF last THEN f_idx ELSE f_idx + 1

EmitRun(last) ==
  IF target_state = NotExist THEN UNCHANGED <<code, f_idx>>
  ELSE /\ code' = [code EXCEPT ![s_idx].tests = Append(@, RunTest)]
       /\ f_idx' = Tested(last)

NextChar ==
  /\ gen_stage = "runs" /\ e_idx < c_base_char_cnt
  /\ IF Row(s_idx)[e_idx] # target_state
       THEN /\ EmitRun(FALSE)
            /\ b_idx' = e_idx
            /\ target_state' = Row(s_idx)[e_idx]
       ELSE UNCHANGED <<code, f_idx, b_idx, target_state>>
  /\ e_idx' = e_idx + 1
  /\ UNCHANGED <<inputVars, gen_stage, s_idx, runVars>>

LastRun ==
  /\ gen_stage = "runs" /\ e_idx = c_base_char_cnt
  /\ EmitRun(TRUE)
  /\ b_idx' = IF lang = "rust" /\ target_state # NotExist THEN e_idx ELSE b_idx
  /\ gen_stage' = "return"
  /\ UNCHANGED <<inputVars, s_idx, e_idx, target_state, runVars>>

(* cc leaves out a return that no character reaches; rust the arm "_" of a
   state that is not final, if the last run goes to the last character. *)
NeedsReturn ==
  CASE lang = "cc" -> f_idx # c_base_char_cnt
    [] lang = "rust" /\ HasMoves(s_idx) ->
         fa_states[s_idx].final # NotExist \/ b_idx < c_base_char_cnt
    [] OTHER -> TRUE

EndState ==
  /\ gen_stage = "return"
  /\ code' = [code EXCEPT ![s_idx].return = NeedsReturn]
  /\ s_idx' = s_idx + 1
  /\ gen_stage' = IF s_idx = Len(fa_states) THEN "done" ELSE "state"
  /\ UNCHANGED <<inputVars, b_idx, e_idx, f_idx, target_state, runVars>>

-----------------------------------------------------------------------------
(* What was emitted, at work. *)

(* in_char as the tests see it: js reads the text through an Int8Array, and
   the array _ord_ of awk has no entry for the upper half, which compares
   like 0. *)
Seen(c) ==
  CASE lang = "js" /\ c >= HighChar -> c - c_base_char_cnt
    [] lang = "awk" /\ c >= HighChar -> 0
    [] OTHER -> c

(* A test of several characters that begin at 0 has no lower bound. *)
IsTrue(test, c) ==
  c < test.hi /\ (test.lo <= c \/ (test.lo = 0 /\ test.hi > 1))

Holding(s, c) == {i \in DOMAIN code[s].tests : IsTrue(code[s].tests[i], c)}

(* rustc wants every match to be exhaustive. *)
Compiles ==
  lang = "rust" =>
    \A s \in DOMAIN code : code[s].return \/ \A c \in Chars : Holding(s, c) # {}

Texts == UNION {[1 .. n -> Chars] : n \in 0 .. TextMax}

(* Mutant: begins at the label of the first state. *)
StartRunAtLabel ==
  /\ gen_stage = "done" /\ run_stage = "idle" /\ Compiles
  /\ text' \in Texts
  /\ run_stage' = "closing"
  /\ in_char' = 1
  /\ UNCHANGED <<inputVars, genVars, input_idx, label, here, ret_term_idx>>

(* Begins behind the closing of the first state. *)
StartRun ==
  /\ gen_stage = "done" /\ run_stage = "idle" /\ Compiles
  /\ text' \in Texts
  /\ run_stage' = "testing"
  /\ UNCHANGED <<inputVars, genVars, input_idx, in_char, label, here,
                 ret_term_idx>>

AtTextEnd == input_idx >= Len(text)

Return ==
  /\ run_stage' = "returned"
  /\ ret_term_idx' = fa_states[label].final
  /\ UNCHANGED <<input_idx, label, here>>

(* The next character, if the state has moves, and the first true test. *)
TestChar ==
  /\ run_stage = "testing"
  /\ in_char' = IF ~HasMoves(label) THEN in_char
                ELSE IF AtTextEnd THEN 0 ELSE Seen(text[input_idx + 1])
  /\ LET true == IF HasMoves(label) THEN Holding(label, in_char') ELSE {}
     IN  IF true # {}
           THEN LET i == CHOOSE i \in true : \A j \in true : i <= j
                IN  /\ label' = code[label].tests[i].to
                    /\ run_stage' = "closing"
                    /\ UNCHANGED <<input_idx, here, ret_term_idx>>
           ELSE code[label].return /\ Return
  /\ UNCHANGED <<inputVars, genVars, text>>

(* In cc the end of the text ends the function, elsewhere a zero. *)
CloseEnds == IF lang = "cc" THEN AtTextEnd ELSE in_char = 0

Close ==
  /\ run_stage = "closing" /\ ~CloseEnds
  /\ input_idx' = input_idx + 1
  /\ here' = label
  /\ run_stage' = "testing"
  /\ UNCHANGED <<inputVars, genVars, text, in_char, label, ret_term_idx>>

ReturnAtEnd ==
  /\ run_stage = "closing" /\ CloseEnds /\ lang # "php"
  /\ Return
  /\ UNCHANGED <<inputVars, genVars, text, in_char>>

(* In php it is close_char that returns, and nobody looks at its answer. *)
CloseGoesOn ==
  /\ run_stage = "closing" /\ CloseEnds /\ lang = "php"
  /\ run_stage' = "testing"
  /\ UNCHANGED <<inputVars, genVars, text, input_idx, in_char, label, here,
                 ret_term_idx>>

CodeNext ==
  \/ BeginState \/ NextChar \/ LastRun \/ EndState
  \/ StartRun \/ TestChar \/ Close \/ ReturnAtEnd \/ CloseGoesOn

CodeSpec == CodeInit /\ [][CodeNext]_codeVars /\ WF_codeVars(CodeNext)

-----------------------------------------------------------------------------
Emitted(s) == s < s_idx

(* The first true test of a character leads where the row of its state does,
   and where it leads nowhere no test is true and a return follows (but for
   rust, where it may be missing: Compiles). *)
EmittedExact ==
  \A s \in {s \in DOMAIN code : Emitted(s)} : \A c \in Chars :
    LET true == Holding(s, c)
    IN  IF true = {} THEN Row(s)[c] = NotExist /\ (code[s].return \/ lang = "rust")
        ELSE \E i \in true : /\ \A j \in true : i <= j
                             /\ code[s].tests[i].to = Row(s)[c]

(* The texts and automata for which a language keeps to recognize: only cc
   reads zeros, js and awk know the lower half alone, and php must not be
   led on by a zero from a state that a zero leads to. *)
Faithful ==
  lang = "cc" \/
    /\ \A i \in DOMAIN text : text[i] # 0
    /\ lang \in {"js", "awk"} => \A i \in DOMAIN text : text[i] < HighChar
    /\ lang = "php" => \A s \in DOMAIN state_moves :
         Row(s)[0] # NotExist => Row(Row(s)[0])[0] = NotExist

Running == Faithful /\ run_stage # "idle"

Recognition ==
  INSTANCE Recognizer WITH
    read_stage <- IF ~Running THEN "idle"
                  ELSE IF run_stage = "returned" THEN "returned" ELSE "reading",
    text <- IF Running THEN text ELSE <<>>,
    text_idx <- IF Running THEN input_idx ELSE 0,
    state_idx <- IF Running THEN here ELSE 1,
    recognized <- IF Running THEN ret_term_idx ELSE NotExist

(* Emitted code recognizes what recognize does, character by character. *)
RunsRecognize == Recognition!RecSpec

(* Once called, the emitted function returns. *)
CodeAnswers == run_stage = "testing" ~> run_stage = "returned"
=============================================================================
