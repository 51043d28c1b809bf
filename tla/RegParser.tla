----------------------------- MODULE RegParser -----------------------------
(***************************************************************************)
(* reg_parser_s::parse_reg_exp (parser_code.cc:2354-2807): the regular     *)
(* expression of one terminal is parsed with a table that yapgen once made *)
(* from build/rules/regexp.rules, and every reduction adds states to a     *)
(* nondeterministic automaton.                                             *)
(*                                                                         *)
(* The text is the sequence of the tokens recognize_terminal cuts it into; *)
(* a token carries the characters that process_char makes of it.  Arrays   *)
(* are sequences: a state index is one more than in the code.              *)
(***************************************************************************)
EXTENDS RegTerminals, SequencesExt, FiniteSets

CONSTANT RegExps     (* the expressions a run considers                    *)

EpsMove == 65535     (* 0xffff: a move without a character *)

ASSUME RegExpAssumption ==
  /\ RegExps \subseteq Seq(Token)
  /\ \A e \in RegExps : \A i \in DOMAIN e : CharsFit(e[i])

VARIABLES
  reg_stage,    (* "parse", "closures", "subsets", "done" or "failed"      *)
  reg_exp,      (* source_string                                           *)
  reg_idx,      (* the next token                                          *)
  reg_term,     (* ret_term                                                *)
  reg_stack,    (* lalr_stack: [state, chars]                              *)
  states,       (* the automaton: [final, moves], a move is [idx, value]   *)
  begin_idxs,   (* where the parts built so far begin ...                  *)
  end_idxs,     (* ... and end                                             *)
  fas_idx       (* first state of the automaton                            *)

lexVars == <<reg_exp, reg_idx, reg_term>>
partVars == <<states, begin_idxs, end_idxs>>
regVars == <<reg_stage, lexVars, reg_stack, partVars, fas_idx>>

ParseInit ==
  /\ reg_stage = "parse"
  /\ reg_exp \in RegExps
  /\ reg_idx = 1
  /\ reg_term = NotExist
  /\ reg_stack = <<[state |-> 0, chars |-> <<>>]>>
  /\ states = <<>> /\ begin_idxs = <<>> /\ end_idxs = <<>>
  /\ fas_idx = 1

-----------------------------------------------------------------------------
(* reg_lalr_table, by what its rows have in common. *)

AtomState == <<4, 6, 7, 8, 5, 9, 10, 11, 12, 13, 14>>
ExpectsAtom == {0, 14, 15, 17}
AfterAtom == rr_br .. alter \union {reg_end}

RegShift(s, t) ==
  CASE s \in ExpectsAtom /\ t \in char_eps .. lr_br -> AtomState[t + 1]
    [] s = 1 /\ t = reg_end -> 16
    [] s \in {1, 19, 20} /\ t = alter -> 15
    [] s \in {2, 21} /\ t = conc -> 17
    [] s = 3 /\ t = iter -> 18
    [] s = 19 /\ t = rr_br -> 22
    [] OTHER -> NotExist

RegReduce(s, t) ==
  CASE s = 2 /\ t \in {rr_br, alter, reg_end} -> 2
    [] s = 3 /\ t \in AfterAtom \ {iter} -> 4
    [] s \in 4 .. 13 /\ t \in AfterAtom -> s + 2
    [] s = 18 /\ t \in AfterAtom -> 5
    [] s = 20 /\ t \in {rr_br, reg_end} -> 1
    [] s = 21 /\ t \in {rr_br, alter, reg_end} -> 3
    [] s = 22 /\ t \in AfterAtom -> 16
    [] OTHER -> NotExist

(* Where a head leads to: 18 = <C>, 19 = <B>, 20 = <A>. *)
RegGoto(s, head) ==
  CASE head = 20 /\ s \in ExpectsAtom -> 3
    [] head = 19 /\ s \in ExpectsAtom -> IF s = 17 THEN 21 ELSE 2
    [] head = 18 /\ s = 0 -> 1
    [] head = 18 /\ s = 14 -> 19
    [] head = 18 /\ s = 15 -> 20
    [] OTHER -> NotExist

reg_rule_head_idxs == <<18, 18, 19, 19>> \o [i \in 1 .. 12 |-> 20]
reg_rule_body_lengths == <<3, 1, 3, 1, 2>> \o [i \in 1 .. 10 |-> 1] \o <<3>>

-----------------------------------------------------------------------------
(* The next token. *)

Tok == IF reg_idx <= Len(reg_exp) THEN reg_exp[reg_idx] ELSE EndToken

Reading == reg_stage = "parse" /\ reg_term = NotExist

SkipToken ==
  /\ Reading
  /\ Tok.term = skip
  /\ reg_idx' = reg_idx + 1
  /\ UNCHANGED <<reg_stage, reg_exp, reg_term, reg_stack, partVars, fas_idx>>

ReadToken ==
  /\ Reading
  /\ Tok.term \notin {skip, NotExist}
  /\ reg_term' = Tok.term
  /\ reg_idx' = reg_idx + 1
  /\ UNCHANGED <<reg_stage, reg_exp, reg_stack, partVars, fas_idx>>

TokenError ==
  /\ Reading
  /\ Tok.term = NotExist
  /\ reg_stage' = "failed"
  /\ UNCHANGED <<lexVars, reg_stack, partVars, fas_idx>>

-----------------------------------------------------------------------------
(* What the table says. *)

Parsing == reg_stage = "parse" /\ reg_term # NotExist
Top == Last(reg_stack)
TheShift == RegShift(Top.state, reg_term)
TheRule == RegReduce(Top.state, reg_term)

ActionError ==
  /\ Parsing
  /\ TheShift = NotExist /\ TheRule = NotExist
  /\ reg_stage' = "failed"
  /\ UNCHANGED <<lexVars, reg_stack, partVars, fas_idx>>

ShiftToken ==
  /\ Parsing
  /\ TheShift # NotExist /\ reg_term # reg_end
  /\ reg_stack' = Append(reg_stack,
                    [state |-> TheShift, chars |-> reg_exp[reg_idx - 1].chars])
  /\ reg_term' = NotExist
  /\ UNCHANGED <<reg_stage, reg_exp, reg_idx, partVars, fas_idx>>

(* The end of the expression: what is left is one part. *)
AcceptRegExp ==
  /\ Parsing
  /\ TheShift # NotExist /\ reg_term = reg_end
  /\ fas_idx' = Last(begin_idxs)
  /\ states' = [states EXCEPT ![Last(end_idxs)].final = TRUE]
  /\ begin_idxs' = Front(begin_idxs)
  /\ end_idxs' = Front(end_idxs)
  /\ reg_stage' = "closures"
  /\ UNCHANGED <<lexVars, reg_stack>>

(* The reduction pops the body of its rule and pushes the goto state. *)
ReduceBy(rules) ==
  /\ Parsing
  /\ TheRule \in rules
  /\ LET below == SubSeq(reg_stack, 1,
                         Len(reg_stack) - reg_rule_body_lengths[TheRule])
     IN  reg_stack' = Append(below,
           [state |-> RegGoto(Last(below).state, reg_rule_head_idxs[TheRule]),
            chars |-> <<>>])
  /\ UNCHANGED <<reg_stage, lexVars, fas_idx>>

-----------------------------------------------------------------------------
(* The parts of the automaton. *)

NewState(moves) == [final |-> FALSE, moves |-> moves]
Move(c, target) == [idx |-> c, value |-> target]
AddMove(st, s, c, target) ==
  [st EXCEPT ![s].moves = Append(@, Move(c, target))]

Count == Len(states)
FromEnd(s, i) == s[Len(s) - i]
Drop(s, n) == SubSeq(s, 1, Len(s) - n)

ReduceNull == ReduceBy({2, 4, 16}) /\ UNCHANGED partVars

(* Mutant: only the end of the second part leads on. *)
ReduceAlterOneEnd ==
  /\ ReduceBy({1})
  /\ LET begin == NewState(<<Move(EpsMove, FromEnd(begin_idxs, 1)),
                             Move(EpsMove, FromEnd(begin_idxs, 0))>>)
     IN  states' = AddMove(states \o <<begin, NewState(<<>>)>>,
                           FromEnd(end_idxs, 0), EpsMove, Count + 2)
  /\ begin_idxs' = Append(Drop(begin_idxs, 2), Count + 1)
  /\ end_idxs' = Append(Drop(end_idxs, 2), Count + 2)

(* <C> -> <C> alter <C>: a new begin leads to both parts, both ends lead to
   a new end. *)
ReduceAlter ==
  /\ ReduceBy({1})
  /\ LET begin == NewState(<<Move(EpsMove, FromEnd(begin_idxs, 1)),
                             Move(EpsMove, FromEnd(begin_idxs, 0))>>)
         grown == states \o <<begin, NewState(<<>>)>>
         second == AddMove(grown, FromEnd(end_idxs, 0), EpsMove, Count + 2)
     IN  states' = AddMove(second, FromEnd(end_idxs, 1), EpsMove, Count + 2)
  /\ begin_idxs' = Append(Drop(begin_idxs, 2), Count + 1)
  /\ end_idxs' = Append(Drop(end_idxs, 2), Count + 2)

(* Mutant: the begin of the second part stays on its stack. *)
ReduceConcKeepsBegin ==
  /\ ReduceBy({3})
  /\ states' = AddMove(states, FromEnd(end_idxs, 1), EpsMove,
                       FromEnd(begin_idxs, 0))
  /\ begin_idxs' = begin_idxs
  /\ end_idxs' = Append(Drop(end_idxs, 2), FromEnd(end_idxs, 0))

(* <B> -> <B> conc <B>: the end of the first part leads to the second. *)
ReduceConc ==
  /\ ReduceBy({3})
  /\ states' = AddMove(states, FromEnd(end_idxs, 1), EpsMove,
                       FromEnd(begin_idxs, 0))
  /\ begin_idxs' = Drop(begin_idxs, 1)
  /\ end_idxs' = Append(Drop(end_idxs, 2), FromEnd(end_idxs, 0))

(* <A> -> <A> iter: the end leads back to the begin, which becomes the end. *)
ReduceIter ==
  /\ ReduceBy({5})
  /\ states' = AddMove(states, FromEnd(end_idxs, 0), EpsMove,
                       FromEnd(begin_idxs, 0))
  /\ begin_idxs' = begin_idxs
  /\ end_idxs' = Append(Drop(end_idxs, 1), FromEnd(begin_idxs, 0))

(* The elements of s that are in S, in their order. *)
ElementsIn(s, S) ==
  LET among[t \in Seq(ToSet(s))] ==
        IF t = <<>> THEN <<>>
        ELSE IF Last(t) \in S THEN Append(among[Front(t)], Last(t))
        ELSE among[Front(t)]
  IN  among[s]

AddPart(new, end) ==
  /\ states' = states \o new
  /\ begin_idxs' = Append(begin_idxs, Count + 1)
  /\ end_idxs' = Append(end_idxs, end)

(* A begin with one move to the end for each of the characters, in order. *)
AddMoves(cs) ==
  AddPart(<<NewState([i \in DOMAIN cs |-> Move(cs[i], Count + 2)]),
            NewState(<<>>)>>, Count + 2)

ReduceEps == ReduceBy({6}) /\ AddPart(<<NewState(<<>>)>>, Count + 1)

ReduceChar ==
  /\ ReduceBy({7, 8, 9, 10, 11})
  /\ AddMoves(<< CASE TheRule = 7 -> Top.chars[1]
                   [] TheRule = 8 -> reg_char_white
                   [] TheRule = 9 -> reg_char_digit
                   [] TheRule = 10 -> reg_char_letter
                   [] TheRule = 11 -> c_no_char_base + Top.chars[1] >>)

(* A chain of one state for each character and one for the end. *)
ReduceStr ==
  /\ ReduceBy({12})
  /\ LET n == Len(Top.chars)
     IN  AddPart([i \in 1 .. n |-> NewState(<<Move(Top.chars[i], Count + i + 1)>>)]
                   \o <<NewState(<<>>)>>, Count + n + 1)

ReduceRange ==
  /\ ReduceBy({13})
  /\ Top.chars[1] <= Top.chars[2]
  /\ AddMoves([i \in 1 .. Top.chars[2] - Top.chars[1] + 1 |->
                 Top.chars[1] + i - 1])

(* Mutant: a range of one character is refused. *)
RangeErrorEqual ==
  /\ Parsing
  /\ TheRule = 13
  /\ Top.chars[1] >= Top.chars[2]
  /\ reg_stage' = "failed"
  /\ UNCHANGED <<lexVars, reg_stack, partVars, fas_idx>>

RangeError ==
  /\ Parsing
  /\ TheRule = 13
  /\ Top.chars[1] > Top.chars[2]
  /\ reg_stage' = "failed"
  /\ UNCHANGED <<lexVars, reg_stack, partVars, fas_idx>>

ReduceCharSet == ReduceBy({14}) /\ AddMoves(Top.chars)

ReduceExcept ==
  /\ ReduceBy({15})
  /\ AddMoves(ElementsIn([i \in 1 .. c_base_char_cnt |-> i - 1],
                         Chars \ ToSet(Top.chars)))

ParseNext ==
  \/ SkipToken \/ ReadToken \/ TokenError
  \/ ActionError \/ ShiftToken \/ AcceptRegExp
  \/ ReduceNull \/ ReduceAlter \/ ReduceConc \/ ReduceIter
  \/ ReduceEps \/ ReduceChar \/ ReduceStr
  \/ ReduceRange \/ RangeError \/ ReduceCharSet \/ ReduceExcept
-----------------------------------------------------------------------------
(* begin_idxs and end_idxs are not popped with lalr_stack, but rule by rule:
   they hold one part for each nonterminal on lalr_stack. *)
OperandStates == {1, 2, 3, 19, 20, 21}
Operands(stack) == {i \in DOMAIN stack : stack[i].state \in OperandStates}
PartsOnStack ==
  reg_stage = "parse" =>
    /\ Len(begin_idxs) = Cardinality(Operands(reg_stack))
    /\ Len(end_idxs) = Cardinality(Operands(reg_stack))
=============================================================================
