---------------------------- MODULE Recognizer -----------------------------
(***************************************************************************)
(* final_automata_s::recognize (parser_code.cc:758-807): one terminal is   *)
(* read from the beginning of a text with a finished automaton.            *)
(***************************************************************************)
EXTENDS Characters

CONSTANT TextMax     (* bound: characters of the text to be recognized     *)

VARIABLES
  fa_states,     (* states of the automaton: final is a terminal or blank  *)
  state_moves,   (* and their transition rows                              *)
  read_stage,    (* "idle", "reading" or "returned"                        *)
  text,          (* input                                                  *)
  text_idx,      (* input_idx                                              *)
  state_idx,
  recognized     (* what recognize returned                                *)

automatonVars == <<fa_states, state_moves>>
textVars == <<read_stage, text, text_idx, state_idx, recognized>>
recVars == <<automatonVars, textVars>>

RecInit ==
  /\ read_stage = "idle"
  /\ text = <<>> /\ text_idx = 0 /\ state_idx = 1 /\ recognized = NotExist

Texts == UNION {[1 .. n -> Chars] : n \in 0 .. TextMax}

StartText ==
  /\ read_stage = "idle"
  /\ text' \in Texts
  /\ read_stage' = "reading"
  /\ UNCHANGED <<automatonVars, text_idx, state_idx, recognized>>

AtTextEnd == text_idx >= Len(text)
InChar == IF AtTextEnd THEN 0 ELSE text[text_idx + 1]
NextState == state_moves[state_idx][InChar]

StepText ==
  /\ read_stage = "reading"
  /\ NextState # NotExist /\ ~AtTextEnd
  /\ text_idx' = text_idx + 1
  /\ state_idx' = NextState
  /\ UNCHANGED <<automatonVars, read_stage, text, recognized>>

(* Mutant: the zero behind the text is not looked at. *)
ReturnFinalAtEnd ==
  /\ read_stage = "reading"
  /\ NextState = NotExist \/ AtTextEnd
  /\ recognized' = fa_states[state_idx].final
  /\ read_stage' = "returned"
  /\ UNCHANGED <<automatonVars, text, text_idx, state_idx>>

(* The zero behind the text is looked at, but stays. *)
ReturnFinal ==
  /\ read_stage = "reading"
  /\ \/ NextState = NotExist /\ recognized' = fa_states[state_idx].final
     \/ /\ NextState # NotExist /\ AtTextEnd
        /\ recognized' = fa_states[NextState].final
  /\ read_stage' = "returned"
  /\ UNCHANGED <<automatonVars, text, text_idx, state_idx>>

RecNext == StartText \/ StepText \/ ReturnFinal
RecSpec == RecInit /\ [][RecNext]_recVars
=============================================================================
