---------------------------- MODULE RegTerminals ---------------------------
(***************************************************************************)
(* The terminals of regular expressions, which RegTokens cuts a text into  *)
(* and RegParser parses.                                                   *)
(***************************************************************************)
EXTENDS Characters

(* Numbers of the placeholders, behind the characters (parser_code.h:12). *)
reg_char_white == c_base_char_cnt
reg_char_digit == c_base_char_cnt + 1
reg_char_letter == c_base_char_cnt + 2
c_no_char_base == c_base_char_cnt + 3

(* Terminals of regexp.rules, in its order. *)
char_eps == 0
char_white == 1
char_digit == 2
char_letter == 3
char == 4
char_no_char == 5
char_str == 6
char_range == 7
char_alter == 8
char_except == 9
lr_br == 10
rr_br == 11
iter == 12
conc == 13
alter == 14
skip == 15
reg_end == 16

Token == [term : NotExist .. skip, chars : Seq(Chars)]
EndToken == [term |-> reg_end, chars |-> <<>>]

(* How many characters recognize_terminal lets a token have. *)
CharsFit(tok) ==
  CASE tok.term \in {char, char_no_char} -> Len(tok.chars) = 1
    [] tok.term = char_range -> Len(tok.chars) = 2
    [] tok.term \in {char_alter, char_except} -> Len(tok.chars) >= 1
    [] tok.term = char_str -> TRUE
    [] OTHER -> tok.chars = <<>>

=============================================================================
