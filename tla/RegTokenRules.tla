---------------------------- MODULE RegTokenRules --------------------------
(***************************************************************************)
(* What build/rules/regexp.rules and doc/intro.md:70-152 say of the tokens *)
(* of a regular expression, whatever automaton and loops find them, and    *)
(* what the tokens that were found have to do with it.                     *)
(***************************************************************************)
EXTENDS RegTokens

-----------------------------------------------------------------------------
(* One character, written at i: what it may be and where it may end.  Some
   are written in more than one way: \12 is one character, or \1 and 2. *)

Size == Len(source_string)

Spelled(i, stops) ==
  LET number(from, digits, most, base) ==
        {[code |-> NumberAt(from, n, base), next |-> from + n] :
           n \in 1 .. DigitsAt(from, digits, most)}
  IN  CASE i >= Size \/ CharAt(i) \in stops -> {}
        [] i < Size /\ CharAt(i) \notin stops \union {92} -> {[code |-> CharAt(i), next |-> i + 1]}
        [] OTHER ->
             {[code |-> EscapedCode(CharAt(i + 1)), next |-> i + 2] :
                c \in {CharAt(i + 1)} \intersect SimpleEscape}
             \union number(i + 1, Octal, 3, 8)
             \union IF CharAt(i + 1) = 120 THEN number(i + 2, HexDigit, 2, 16) ELSE {}

(* What n characters written from i on may be, and the position behind them. *)
Readings(i, stops, n) ==
  LET readings[k \in 0 .. n] ==
        IF k = 0 THEN {[chars |-> <<>>, next |-> i]}
        ELSE UNION {{[chars |-> Append(r.chars, s.code), next |-> s.next] :
                       s \in Spelled(r.next, stops)} : r \in readings[k - 1]}
  IN  readings[n]

Closing(t) ==
  CASE t \in {char, char_no_char} -> 39 [] t = char_str -> 34
    [] t = char_range -> 62 [] t = char_alter -> 93 [] t = char_except -> 124
Opened(t, i) ==
  CASE t = char -> CharAt(i) = 39
    [] t = char_no_char -> CharAt(i) = 33 /\ CharAt(i + 1) = 39
    [] t = char_str -> CharAt(i) = 34
    [] t = char_range -> CharAt(i) = 60
    [] t = char_alter -> CharAt(i) = 91
    [] t = char_except -> CharAt(i) = 124

(* The character that closes a list of characters is not one of them. *)
Stops(t) == IF t \in {char_str, char_alter, char_except} THEN {Closing(t)} ELSE {}

Counts(t) ==
  CASE t \in {char, char_no_char} -> {1} [] t = char_range -> {2}
    [] t = char_str -> 0 .. Size [] OTHER -> 1 .. Size

(* All that may be written between the signs of a token t that begins at i. *)
Contents(t, i) ==
  IF ~Opened(t, i) THEN {}
  ELSE {r \in UNION {Readings(i + Opening(t), Stops(t), n) : n \in Counts(t)} :
          r.next < Size /\ CharAt(r.next) = Closing(t)}

PlainChar == [t \in {char_eps, char_white, char_digit, char_letter, lr_br, rr_br,
                     iter, conc, alter} |->
  CASE t = char_eps -> 101 [] t = char_white -> 119 [] t = char_digit -> 100
    [] t = char_letter -> 108 [] t = lr_br -> 40 [] t = rr_br -> 41
    [] t = iter -> 42 [] t = conc -> 46 [] t = alter -> 43]

(* Where a token t that begins at i may end. *)
Ends(t, i) ==
  IF t \in DOMAIN PlainChar
    THEN {i + 1 : c \in {CharAt(i)} \intersect {PlainChar[t]}}
    ELSE {r.next + 1 : r \in Contents(t, i)}

AllEnds(i) == UNION {Ends(t, i) : t \in char_eps .. alter}

(* What the characters of a token may be. *)
CharsOf(tok) ==
  IF tok.term \in DOMAIN PlainChar THEN {<<>>}
  ELSE {r.chars : r \in {r \in Contents(tok.term, tok.start) : r.next + 1 = tok.end}}

TheTokens == {tokens[i] : i \in DOMAIN tokens}
Finished == IF reg_phase = "chars" THEN {tokens[i] : i \in 1 .. Len(tokens) - 1}
                                  ELSE TheTokens

-----------------------------------------------------------------------------
(* recognize_terminal stops at the first character that does not lead on and
   never goes back: what it returns is the longest token there is, of a
   terminal it is a token of, and it refuses a text only where none begins.
   Nothing is lost but white characters. *)
TokensLongest ==
  /\ \A tok \in TheTokens :
       /\ tok.end \in Ends(tok.term, tok.start)
       /\ tok.end = Max(AllEnds(tok.start))
  /\ reg_phase = "refused" => AllEnds(old_input_idx) = {}
  /\ \A i \in 0 .. old_input_idx - 1 :
       CharAt(i) \in White
         \/ \E tok \in TheTokens : i \in tok.start .. tok.end - 1
  /\ reg_phase = "read" => CharAt(old_input_idx) = 0

(* The second character of a range is not part of the longest way to read the
   first: <\60> is the range from \6 to 0 for recognize_terminal, but
   process_char takes \60 for the first and the closing > for the second. *)
RangeApart(tok) ==
  tok.term = char_range =>
    process_char(tok.start + 1).next < tok.end - 1

(* Three octal digits make a number below 256. *)
OctalFits(tok) ==
  \A i \in tok.start .. tok.end - 1 :
    CharAt(i) = 92 /\ CharAt(i + 1) \in 52 .. 55 => DigitsAt(i + 1, Octal, 3) < 3

(* process_char, which is given no end, reads just the characters that are
   written between the signs that open and close a token, as many as
   parse_reg_exp counts on, and they are characters. *)
CharsWritten ==
  \A tok \in Finished :
    RangeApart(tok) =>
      /\ tok.chars \in CharsOf(tok)
      /\ OctalFits(tok) => ToSet(tok.chars) \subseteq Chars

=============================================================================
