---------------------------- MODULE ErrorReport ----------------------------
(***************************************************************************)
(* Where an error is shown: print_error_show_line and print_error_line     *)
(* (parser_code.cc) over the methods of string_s (ucl_string.cc).  A text  *)
(* is the sequence of its bytes, none of them zero; data[i] of the code is *)
(* Byte(text, i), and the terminating zero is behind the last one.         *)
(***************************************************************************)
EXTENDS Integers, Sequences, FiniteSets

Tab == 9
NewLine == 10
c_tabulator_size == 8

Byte(text, i) == IF i < Len(text) THEN text[i + 1] ELSE 0
SizeOf(text) == Len(text) + 1

NewLinesIn(text, first, last) ==
  {i \in first .. last : Byte(text, i) = NewLine}

(* The first character is looked at even if it is the one asked for. *)
get_character_line(text, c_idx) ==
  IF SizeOf(text) <= c_idx THEN 0
  ELSE 1 + Cardinality(NewLinesIn(text, 0, IF c_idx = 0 THEN 0 ELSE c_idx - 1))

(* Mutant: the new line itself is taken to be on the line. *)
LineBeginAtNewLine(text, c_idx) ==
  LET before == NewLinesIn(text, 0, c_idx)
  IN  IF before = {} THEN 0 ELSE CHOOSE i \in before : \A j \in before : j <= i

(* The search goes backwards and begins with the character itself. *)
get_character_line_begin(text, c_idx) ==
  LET before == NewLinesIn(text, 0, c_idx)
  IN  IF before = {} THEN 0
      ELSE 1 + CHOOSE i \in before : \A j \in before : j <= i

get_character_line_end(text, c_idx) ==
  CHOOSE e \in c_idx .. Len(text) :
    /\ e = Len(text) \/ Byte(text, e) = NewLine
    /\ NewLinesIn(text, c_idx, e - 1) = {}

-----------------------------------------------------------------------------
(* utf8_to_utf32, as far as it matters here: how many characters it makes of
   the bytes, and which of them are tabulators (but for 192 137, which is
   decoded to one as well). *)

IsContinuation(b) == b \div 64 = 2

(* The lead shifted by two bits, and by one more for every byte read. *)
Shifts == <<4, 8, 16, 32, 64, 128, 256>>
ShiftedOut(lead, k) == (lead * Shifts[k]) % 256 < 128

(* The bytes read behind a byte over 127, whatever it is: one, and one more
   for every bit that is set from its third bit on. *)
Trailing(lead) ==
  CHOOSE k \in DOMAIN Shifts :
    ShiftedOut(lead, k) /\ \A j \in 1 .. k - 1 : ~ShiftedOut(lead, j)

(* The bytes behind the first of these have to be continuations. *)
Undecodable == -1

BytesOf(text, i) == IF Byte(text, i) <= 127 THEN 1 ELSE 1 + Trailing(Byte(text, i))

Decodable(text, i) ==
  \A j \in i + 2 .. i + BytesOf(text, i) - 1 : IsContinuation(Byte(text, j))

(* The last character is decoded as a whole, beyond s_idx if it has to be. *)
PrintSizes(text, s_idx) ==
  LET size[i \in 0 .. s_idx + 8] ==
        IF i >= s_idx THEN 0
        ELSE LET rest == size[i + BytesOf(text, i)]
             IN  IF ~Decodable(text, i) \/ rest = Undecodable THEN Undecodable
                 ELSE rest + IF Byte(text, i) = Tab THEN c_tabulator_size ELSE 1
  IN  size

get_print_size_between(text, f_idx, s_idx) ==
  IF f_idx >= s_idx \/ PrintSizes(text, s_idx)[f_idx] = Undecodable THEN 0
  ELSE PrintSizes(text, s_idx)[f_idx]

-----------------------------------------------------------------------------
(* The text is cut at the end of the line while it is printed, from the begin
   of the line up to the first zero. *)
ErrorLine(text, pos) ==
  LET begin == get_character_line_begin(text, pos)
      end == get_character_line_end(text, pos)
  IN  IF begin <= end THEN SubSeq(text, begin + 1, end)
                      ELSE SubSeq(text, begin + 1, Len(text))

NoCaret == -1

print_error_show_line(text, pos) ==
  [number |-> get_character_line(text, pos),
   line |-> ErrorLine(text, pos),
   caret |-> get_print_size_between(text, get_character_line_begin(text, pos), pos)]

print_error_line(text, pos) ==
  [number |-> get_character_line(text, pos),
   line |-> ErrorLine(text, pos),
   caret |-> NoCaret]

-----------------------------------------------------------------------------
(* What they are meant to show.  A text is cut into lines at its new lines;
   a column is a character of a well-formed line, or eight for a tabulator. *)

LeadLength(b) == IF b < 128 THEN 1 ELSE IF b \div 32 = 6 THEN 2
                 ELSE IF b \div 16 = 14 THEN 3 ELSE IF b \div 8 = 30 THEN 4 ELSE 0

WellFormed(s) ==
  \E starts \in SUBSET DOMAIN s :
    \A i \in DOMAIN s :
      IF IsContinuation(s[i])
        THEN \E k \in starts : k < i /\ i < k + LeadLength(s[k]) /\ i \notin starts
        ELSE /\ i \in starts /\ LeadLength(s[i]) > 0
             /\ \A j \in i + 1 .. i + LeadLength(s[i]) - 1 :
                  j \in DOMAIN s /\ IsContinuation(s[j])

Columns(s) ==
  Cardinality({i \in DOMAIN s : ~IsContinuation(s[i])})
    + (c_tabulator_size - 1) * Cardinality({i \in DOMAIN s : s[i] = Tab})

IsLine(text, first, last) ==
  /\ first - 1 = 0 \/ text[first - 1] = NewLine
  /\ last = Len(text) \/ text[last + 1] = NewLine
  /\ \A i \in first .. last : text[i] # NewLine

(* The report of the character at pos + 1 of the text: its line, the number
   of the line, and a caret below the character. *)
ShowsPosition(report, text, pos) ==
  \E first \in 1 .. pos + 1, last \in pos .. Len(text) :
    /\ IsLine(text, first, last)
    /\ report.number = 1 + Cardinality({i \in 1 .. first - 1 : text[i] = NewLine})
    /\ report.line = SubSeq(text, first, last)
    /\ \/ report.caret = NoCaret
       \/ WellFormed(SubSeq(text, first, pos))
            => report.caret = Columns(SubSeq(text, first, pos))
=============================================================================
