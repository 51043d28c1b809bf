------------------------------ MODULE RegTokens ----------------------------
(***************************************************************************)
(* How the text of a regular expression becomes the tokens that RegParser  *)
(* parses: reg_parser_s::recognize_terminal (parser_code.cc:814-2345), the *)
(* automaton that yapgen once made of build/rules/regexp.rules, and        *)
(* process_char (parser_code.h:674-772), which the reductions of           *)
(* parse_reg_exp call for the characters of a token.                       *)
(*                                                                         *)
(* Characters are bytes.  text[i] is source_string[i - 1]; positions are   *)
(* those of the code.  The characters of a token are read when it has been *)
(* recognized: the text does not change until its reduction.               *)
(***************************************************************************)
EXTENDS RegTerminals, SequencesExt, FiniteSetsExt

CONSTANT RegTexts    (* the texts of expressions a run considers *)

ASSUME RegTextsAssumption == RegTexts \subseteq Seq(Chars)

(* parser_code.h:11.  What a number of three octal digits fits in depends on it. *)
ASSUME ByteAssumption == c_base_char_cnt = 256

VARIABLES
  reg_phase,      (* "lex", "chars", "read" or "refused"                   *)
  source_string,
  old_input_idx,  (* where the token in work begins                        *)
  input_idx,      (* the next character                                    *)
  lex_state,      (* state of the automaton: the label in the code         *)
  c_ptr,          (* process_char: the next character of the token         *)
  tokens          (* tokens so far: [term, start, end, chars]              *)

tokenVars == <<reg_phase, source_string, old_input_idx, input_idx, lex_state,
               c_ptr, tokens>>

TokensInit ==
  /\ reg_phase = "lex"
  /\ source_string \in RegTexts
  /\ old_input_idx = 0 /\ input_idx = 0
  /\ lex_state = 0
  /\ c_ptr = 0
  /\ tokens = <<>>

(* There is a zero behind the text. *)
CharAt(i) == IF i < Len(source_string) THEN source_string[i + 1] ELSE 0

-----------------------------------------------------------------------------
(* The automaton: the state that a character c leads to from a state s. *)

Octal == 48 .. 55
HexDigit == 48 .. 57 \union 65 .. 70 \union 97 .. 102
White == 8 .. 13 \union {32}

(* The characters that stand behind a backslash on their own: abfnrtv\?'">}]| *)
SimpleEscape == {97, 98, 102, 110, 114, 116, 118, 92, 63, 39, 34, 62, 125, 93, 124}

To(c, cs, target, other) == IF c \in cs THEN target ELSE other
Only(c, cs, target) == To(c, cs, target, NotExist)

(* Behind a backslash. *)
Escape(c, simple, octal, hex) ==
  CASE c \in SimpleEscape -> simple
    [] c \in Octal -> octal
    [] c = 120 -> hex
    [] OTHER -> NotExist

(* Inside "...", [...] and |...|, and at the second character of <..>. *)
InStr(c) == CASE c = 34 -> 19 [] c = 92 -> 20 [] OTHER -> 3
InAlter(c) == CASE c = 93 -> 41 [] c = 92 -> 40 [] OTHER -> 25
InExcept(c) == CASE c = 124 -> 45 [] c = 92 -> 44 [] OTHER -> 27
RangeSecond(c) == To(c, {92}, 38, 39)

FirstChar == <<0, 33, 34, 39, 40, 41, 42, 43, 46, 60, 91, 100, 101, 108, 119, 124>>

MovesFromStart(c) ==
  IF c \in White THEN 17
  ELSE IF c \notin ToSet(FirstChar) THEN NotExist
  ELSE LET i == SelectInSeq(FirstChar, LAMBDA d : d = c)
       IN  IF i = Len(FirstChar) THEN 16 ELSE i

Moves1To11(s, c) ==
  CASE s = 2 -> Only(c, {39}, 18)
    [] s = 3 -> InStr(c)
    [] s = 4 -> To(c, {92}, 21, 22)
    [] s = 10 -> To(c, {92}, 23, 24)
    [] s = 11 -> CASE c = 92 -> 26 [] c = 93 -> NotExist [] OTHER -> 25
    [] OTHER -> NotExist

Moves12To18(s, c) ==
  CASE s = 16 -> CASE c = 92 -> 28 [] c = 124 -> NotExist [] OTHER -> 27
    [] s = 17 -> Only(c, White, 17)
    [] s = 18 -> To(c, {92}, 29, 30)
    [] OTHER -> NotExist

Moves19To21(s, c) ==
  CASE s = 20 -> Escape(c, 3, 31, 32)
    [] s = 21 -> Escape(c, 22, 33, 34)
    [] OTHER -> NotExist

Moves22To25(s, c) ==
  CASE s = 22 -> Only(c, {39}, 35)
    [] s = 23 -> Escape(c, 24, 36, 37)
    [] s = 24 -> RangeSecond(c)
    [] s = 25 -> InAlter(c)

Moves26To28(s, c) ==
  CASE s = 26 -> Escape(c, 25, 42, 43)
    [] s = 27 -> InExcept(c)
    [] s = 28 -> Escape(c, 27, 46, 47)

Moves29To35(s, c) ==
  CASE s = 29 -> Escape(c, 30, 48, 49)
    [] s = 30 -> Only(c, {39}, 50)
    [] s = 31 -> To(c, Octal, 51, InStr(c))
    [] s = 32 -> Only(c, HexDigit, 52)
    [] s = 33 -> To(c, Octal, 53, Only(c, {39}, 35))
    [] s = 34 -> Only(c, HexDigit, 54)
    [] s = 35 -> NotExist

Moves36To40(s, c) ==
  CASE s = 36 -> To(c, Octal, 55, RangeSecond(c))
    [] s = 37 -> Only(c, HexDigit, 56)
    [] s = 38 -> Escape(c, 39, 57, 58)
    [] s = 39 -> Only(c, {62}, 59)
    [] s = 40 -> Escape(c, 25, 60, 61)

Moves41To48(s, c) ==
  CASE s = 41 -> NotExist
    [] s = 42 -> To(c, Octal, 62, InAlter(c))
    [] s = 43 -> Only(c, HexDigit, 63)
    [] s = 44 -> Escape(c, 27, 64, 65)
    [] s = 45 -> NotExist
    [] s = 46 -> To(c, Octal, 66, InExcept(c))
    [] s = 47 -> Only(c, HexDigit, 67)
    [] s = 48 -> To(c, Octal, 68, Only(c, {39}, 50))

(* Mutant: from state 55, where an octal digit has followed one, the second
   character of a range may not be just that digit. *)
Moves49To56Longest(s, c) ==
  CASE s = 49 -> Only(c, HexDigit, 69)
    [] s = 50 -> NotExist
    [] s \in {51, 52} -> InStr(c)
    [] s = 53 -> To(c, Octal, 22, Only(c, {39}, 35))
    [] s = 54 -> To(c, HexDigit, 22, Only(c, {39}, 35))
    [] s = 55 -> CASE c \in Octal -> 70 [] OTHER -> RangeSecond(c)
    [] s = 56 -> To(c, HexDigit, 70, RangeSecond(c))

Moves49To56(s, c) ==
  CASE s = 49 -> Only(c, HexDigit, 69)
    [] s = 50 -> NotExist
    [] s \in {51, 52} -> InStr(c)
    [] s = 53 -> To(c, Octal, 22, Only(c, {39}, 35))
    [] s = 54 -> To(c, HexDigit, 22, Only(c, {39}, 35))
    [] s = 55 -> CASE c \in Octal -> 70 [] c = 62 -> 71 [] OTHER -> RangeSecond(c)
    [] s = 56 -> To(c, HexDigit, 70, RangeSecond(c))

Moves57To64(s, c) ==
  CASE s = 57 -> To(c, Octal, 72, Only(c, {62}, 59))
    [] s = 58 -> Only(c, HexDigit, 73)
    [] s = 59 -> NotExist
    [] s = 60 -> To(c, Octal, 74, InAlter(c))
    [] s = 61 -> Only(c, HexDigit, 75)
    [] s \in {62, 63} -> InAlter(c)
    [] s = 64 -> To(c, Octal, 76, InExcept(c))

Moves65To71(s, c) ==
  CASE s = 65 -> Only(c, HexDigit, 77)
    [] s \in {66, 67} -> InExcept(c)
    [] s = 68 -> To(c, Octal, 30, Only(c, {39}, 50))
    [] s = 69 -> To(c, HexDigit, 30, Only(c, {39}, 50))
    [] s = 70 -> To(c, {62}, 71, RangeSecond(c))
    [] s = 71 -> Only(c, {62}, 59)

Moves72To77(s, c) ==
  CASE s = 72 -> To(c, Octal, 39, Only(c, {62}, 59))
    [] s = 73 -> To(c, HexDigit, 39, Only(c, {62}, 59))
    [] s \in {74, 75} -> InAlter(c)
    [] s \in {76, 77} -> InExcept(c)

LexMove(s, c) ==
  CASE s = 0 -> MovesFromStart(c)
    [] s \in 1 .. 11 -> Moves1To11(s, c)
    [] s \in 12 .. 18 -> Moves12To18(s, c)
    [] s \in 19 .. 21 -> Moves19To21(s, c)
    [] s \in 22 .. 25 -> Moves22To25(s, c)
    [] s \in 26 .. 28 -> Moves26To28(s, c)
    [] s \in 29 .. 35 -> Moves29To35(s, c)
    [] s \in 36 .. 40 -> Moves36To40(s, c)
    [] s \in 41 .. 48 -> Moves41To48(s, c)
    [] s \in 49 .. 56 -> Moves49To56(s, c)
    [] s \in 57 .. 64 -> Moves57To64(s, c)
    [] s \in 65 .. 71 -> Moves65To71(s, c)
    [] s \in 72 .. 77 -> Moves72To77(s, c)

(* What is returned in a state from which the character does not lead on. *)
LexFinal(s) ==
  CASE s \in {59, 71} -> char_range
    [] s = 1 -> reg_end
    [] s = 5 -> lr_br [] s = 6 -> rr_br [] s = 7 -> iter
    [] s = 8 -> alter [] s = 9 -> conc
    [] s = 12 -> char_digit [] s = 13 -> char_eps
    [] s = 14 -> char_letter [] s = 15 -> char_white
    [] s = 17 -> skip
    [] s = 19 -> char_str [] s = 35 -> char [] s = 41 -> char_alter
    [] s = 45 -> char_except [] s = 50 -> char_no_char
    [] OTHER -> NotExist

-----------------------------------------------------------------------------
(* process_char: the number of the character written at i, and the position
   behind it. *)

DigitsAt(i, digits, most) ==
  Max({n \in 0 .. most : \A k \in i .. i + n - 1 : CharAt(k) \in digits})

DigitValue(c) ==
  CASE c >= 97 -> 10 + c - 97 [] c \in 65 .. 70 -> 10 + c - 65 [] OTHER -> c - 48

NumberAt(i, n, base) ==
  FoldLeft(LAMBDA v, k : v * base + DigitValue(CharAt(k)), 0,
           [k \in 1 .. n |-> i + k - 1])

EscapedCode(c) ==
  CASE c = 97 -> 7 [] c = 98 -> 8 [] c = 102 -> 12 [] c = 110 -> 10
    [] c = 114 -> 13 [] c = 116 -> 9 [] c = 118 -> 11
    [] c \in {92, 63, 39, 34, 62, 125, 93, 124} -> c
    [] OTHER -> 65535

(* Mutant: at most two octal digits. *)
ProcessCharTwoDigits(i) ==
  LET number(from, digits, most, base) ==
        LET n == DigitsAt(from, digits, most)
        IN  [code |-> NumberAt(from, n, base), next |-> from + n]
  IN  CASE CharAt(i) # 92 -> [code |-> CharAt(i), next |-> i + 1]
        [] CharAt(i) = 92 /\ CharAt(i + 1) \in Octal -> number(i + 1, Octal, 2, 8)
        [] CharAt(i) = 92 /\ CharAt(i + 1) = 120 -> number(i + 2, HexDigit, 2, 16)
        [] OTHER -> [code |-> EscapedCode(CharAt(i + 1)), next |-> i + 2]

process_char(i) ==
  LET number(from, digits, most, base) ==
        LET n == DigitsAt(from, digits, most)
        IN  [code |-> NumberAt(from, n, base), next |-> from + n]
  IN  CASE CharAt(i) # 92 -> [code |-> CharAt(i), next |-> i + 1]
        [] CharAt(i) = 92 /\ CharAt(i + 1) \in Octal -> number(i + 1, Octal, 3, 8)
        [] CharAt(i) = 92 /\ CharAt(i + 1) = 120 -> number(i + 2, HexDigit, 2, 16)
        [] OTHER -> [code |-> EscapedCode(CharAt(i + 1)), next |-> i + 2]

-----------------------------------------------------------------------------
(* recognize_terminal.  CLOSE_CHAR of the state that is entered returns its
   terminal at the end of the text. *)

Lexing == reg_phase = "lex"
LexTarget == LexMove(lex_state, CharAt(input_idx))
Returns == LexTarget = NotExist \/ input_idx >= Len(source_string)
ReturnedTerm == LexFinal(IF LexTarget = NotExist THEN lex_state ELSE LexTarget)

NextState ==
  /\ Lexing /\ ~Returns
  /\ lex_state' = LexTarget
  /\ input_idx' = input_idx + 1
  /\ UNCHANGED <<reg_phase, source_string, old_input_idx, c_ptr, tokens>>

RefuseText ==
  /\ Lexing /\ Returns /\ ReturnedTerm = NotExist
  /\ reg_phase' = "refused"
  /\ UNCHANGED <<source_string, old_input_idx, input_idx, lex_state, c_ptr, tokens>>

SkipWhite ==
  /\ Lexing /\ Returns /\ ReturnedTerm = skip
  /\ old_input_idx' = input_idx
  /\ lex_state' = 0
  /\ UNCHANGED <<reg_phase, source_string, input_idx, c_ptr, tokens>>

ReachEnd ==
  /\ Lexing /\ Returns /\ ReturnedTerm = reg_end
  /\ reg_phase' = "read"
  /\ UNCHANGED <<source_string, old_input_idx, input_idx, lex_state, c_ptr, tokens>>

(* Where the characters of a token begin, and the number that is read of a
   terminal whose characters are counted. *)
Opening(t) == IF t = char_no_char THEN 2 ELSE 1
Counted(t) == CASE t \in {char, char_no_char} -> 1 [] t = char_range -> 2 [] OTHER -> 0

TakeToken ==
  /\ Lexing /\ Returns
  /\ ReturnedTerm \notin {NotExist, skip, reg_end}
  /\ tokens' = Append(tokens, [term |-> ReturnedTerm, start |-> old_input_idx,
                               end |-> input_idx, chars |-> <<>>])
  /\ old_input_idx' = input_idx
  /\ lex_state' = 0
  /\ c_ptr' = old_input_idx + Opening(ReturnedTerm)
  /\ reg_phase' = IF ReturnedTerm \in char .. char_except THEN "chars" ELSE "lex"
  /\ UNCHANGED <<source_string, input_idx>>

(* The end of the characters: a count, or the closing character.  Only a
   string may have none; the other loops test behind their first turn. *)
CharsRead(tok) ==
  CASE tok.term = char_str -> c_ptr >= tok.end - 1
    [] tok.term \in {char_alter, char_except} -> tok.chars # <<>> /\ c_ptr >= tok.end - 1
    [] OTHER -> Len(tok.chars) = Counted(tok.term)

ReadChar ==
  /\ reg_phase = "chars" /\ ~CharsRead(Last(tokens))
  /\ LET c == process_char(c_ptr)
     IN  /\ tokens' = [tokens EXCEPT ![Len(tokens)].chars = Append(@, c.code)]
         /\ c_ptr' = c.next
  /\ UNCHANGED <<reg_phase, source_string, old_input_idx, input_idx, lex_state>>

CharsDone ==
  /\ reg_phase = "chars" /\ CharsRead(Last(tokens))
  /\ reg_phase' = "lex"
  /\ UNCHANGED <<source_string, old_input_idx, input_idx, lex_state, c_ptr, tokens>>

TokensNext ==
  \/ NextState \/ RefuseText \/ SkipWhite \/ ReachEnd
  \/ TakeToken \/ ReadChar \/ CharsDone

TokensSpec == TokensInit /\ [][TokensNext]_tokenVars /\ WF_tokenVars(TokensNext)

=============================================================================
