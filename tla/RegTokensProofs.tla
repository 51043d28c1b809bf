--------------------------- MODULE RegTokensProofs -------------------------
(***************************************************************************)
(* The tokens of a regular expression, for every text.                     *)
(***************************************************************************)
EXTENDS RegTokenRules, SequenceLemmas

-----------------------------------------------------------------------------
(* The operators of RegTokens and RegTokenRules as facts about a text, whose
   value does not change while a variable may. *)
At(txt, i) == IF i < Len(txt) THEN txt[i + 1] ELSE 0

DigitsFrom(txt, i, digits, most) ==
  Max({n \in 0 .. most : \A k \in i .. i + n - 1 : At(txt, k) \in digits})

NumberFrom(txt, i, n, base) ==
  FoldLeft(LAMBDA v, k : v * base + DigitValue(At(txt, k)), 0,
           [k \in 1 .. n |-> i + k - 1])

Greedy(txt, from, digits, most, base) ==
  LET n == DigitsFrom(txt, from, digits, most)
  IN  [code |-> NumberFrom(txt, from, n, base), next |-> from + n]

CharFrom(txt, i) ==
  CASE At(txt, i) # 92 -> [code |-> At(txt, i), next |-> i + 1]
    [] At(txt, i) = 92 /\ At(txt, i + 1) \in Octal -> Greedy(txt, i + 1, Octal, 3, 8)
    [] At(txt, i) = 92 /\ At(txt, i + 1) = 120 -> Greedy(txt, i + 2, HexDigit, 2, 16)
    [] OTHER -> [code |-> EscapedCode(At(txt, i + 1)), next |-> i + 2]

Numbers(txt, from, digits, most, base) ==
  {[code |-> NumberFrom(txt, from, n, base), next |-> from + n] :
     n \in 1 .. DigitsFrom(txt, from, digits, most)}

SpelledFrom(txt, i, stops) ==
  CASE i >= Len(txt) \/ At(txt, i) \in stops -> {}
    [] i < Len(txt) /\ At(txt, i) \notin stops \union {92} ->
         {[code |-> At(txt, i), next |-> i + 1]}
    [] OTHER ->
         {[code |-> EscapedCode(At(txt, i + 1)), next |-> i + 2] :
            c \in {At(txt, i + 1)} \intersect SimpleEscape}
         \union Numbers(txt, i + 1, Octal, 3, 8)
         \union IF At(txt, i + 1) = 120 THEN Numbers(txt, i + 2, HexDigit, 2, 16) ELSE {}

ReadFurther(txt, before, stops) ==
  UNION {{[chars |-> Append(r.chars, s.code), next |-> s.next] :
            s \in SpelledFrom(txt, r.next, stops)} : r \in before}

ReadStep(readings, txt, i, stops, n) ==
  IF n = 0 THEN {[chars |-> <<>>, next |-> i]}
  ELSE ReadFurther(txt, readings[n - 1], stops)

Reads(readings, txt, i, stops, n) ==
  readings = [k \in 0 .. n |-> ReadStep(readings, txt, i, stops, k)]

ReadFrom(txt, i, stops, n) ==
  LET readings == CHOOSE readings : Reads(readings, txt, i, stops, n) IN readings[n]

OpenedIn(txt, t, i) ==
  CASE t = char -> At(txt, i) = 39
    [] t = char_no_char -> At(txt, i) = 33 /\ At(txt, i + 1) = 39
    [] t = char_str -> At(txt, i) = 34
    [] t = char_range -> At(txt, i) = 60
    [] t = char_alter -> At(txt, i) = 91
    [] t = char_except -> At(txt, i) = 124

CountsIn(txt, t) ==
  CASE t \in {char, char_no_char} -> {1} [] t = char_range -> {2}
    [] t = char_str -> 0 .. Len(txt) [] OTHER -> 1 .. Len(txt)

ContentsIn(txt, t, i) ==
  IF ~OpenedIn(txt, t, i) THEN {}
  ELSE {r \in UNION {ReadFrom(txt, i + Opening(t), Stops(t), n) : n \in CountsIn(txt, t)} :
          r.next < Len(txt) /\ At(txt, r.next) = Closing(t)}

EndsIn(txt, t, i) ==
  IF t \in DOMAIN PlainChar
    THEN {i + 1 : c \in {At(txt, i)} \intersect {PlainChar[t]}}
    ELSE {r.next + 1 : r \in ContentsIn(txt, t, i)}

AllEndsIn(txt, i) == UNION {EndsIn(txt, t, i) : t \in char_eps .. alter}

CharsIn(txt, tok) ==
  IF tok.term \in DOMAIN PlainChar THEN {<<>>}
  ELSE {r.chars : r \in {r \in ContentsIn(txt, tok.term, tok.start) : r.next + 1 = tok.end}}

-----------------------------------------------------------------------------
(* Where characters that are written from i on may end. *)
Nexts(written) == {s.next : s \in written}
After(txt, i, stops) == Nexts(SpelledFrom(txt, i, stops))
Behind(txt, i) == CharFrom(txt, i).next
Reach(txt, i, stops, n) == Nexts(ReadFrom(txt, i, stops, n))

(* No reading goes past b but through b. *)
Cut(txt, p, stops, b) ==
  \A n \in Nat : \A e \in Reach(txt, p, stops, n) :
    e < b => At(txt, e) \notin stops /\ \A k \in After(txt, e, stops) : k <= b

-----------------------------------------------------------------------------
(* The states of the automaton that are within the signs of a token: the
   terminal, how many characters were read (or more, in a list), and how far
   the next one is. *)
Lists == {char_str, char_alter, char_except}
WithChars == char .. char_except

Roles == {"base", "esc", "oct1", "hex0", "oct2", "hex1", "full"}

Spots(role) ==
  CASE role = "base" ->
          {<<4, char, 0>>, <<22, char, 1>>, <<18, char_no_char, 0>>,
                    <<30, char_no_char, 1>>, <<3, char_str, 1>>,
                    <<10, char_range, 0>>, <<24, char_range, 1>>, <<39, char_range, 2>>,
                    <<11, char_alter, 0>>, <<25, char_alter, 1>>,
                    <<16, char_except, 0>>, <<27, char_except, 1>>}
    [] role = "esc" ->
          {<<21, char, 0>>, <<29, char_no_char, 0>>, <<20, char_str, 1>>,
                   <<23, char_range, 0>>, <<38, char_range, 1>>, <<26, char_alter, 0>>,
                   <<40, char_alter, 1>>, <<28, char_except, 0>>, <<44, char_except, 1>>}
    [] role = "oct1" ->
          {<<33, char, 0>>, <<48, char_no_char, 0>>, <<31, char_str, 1>>,
                   <<36, char_range, 0>>, <<57, char_range, 1>>, <<42, char_alter, 0>>,
                   <<60, char_alter, 1>>, <<46, char_except, 0>>, <<64, char_except, 1>>}
    [] role = "hex0" ->
          {<<34, char, 0>>, <<49, char_no_char, 0>>, <<32, char_str, 1>>,
                   <<37, char_range, 0>>, <<58, char_range, 1>>, <<43, char_alter, 0>>,
                   <<61, char_alter, 1>>, <<47, char_except, 0>>, <<65, char_except, 1>>}
    [] role = "oct2" ->
          {<<53, char, 0>>, <<68, char_no_char, 0>>, <<51, char_str, 1>>,
                   <<55, char_range, 0>>, <<72, char_range, 1>>, <<62, char_alter, 0>>,
                   <<74, char_alter, 1>>, <<66, char_except, 0>>, <<76, char_except, 1>>}
    [] role = "hex1" ->
          {<<54, char, 0>>, <<69, char_no_char, 0>>, <<52, char_str, 1>>,
                   <<56, char_range, 0>>, <<73, char_range, 1>>, <<63, char_alter, 0>>,
                   <<75, char_alter, 1>>, <<67, char_except, 0>>, <<77, char_except, 1>>}
    [] role = "full" ->
          {<<70, char_range, 0>>}

ClosedBy == {<<35, char>>, <<50, char_no_char>>, <<19, char_str>>, <<59, char_range>>,
             <<41, char_alter>>, <<45, char_except>>}

PlainStates == {<<5, lr_br>>, <<6, rr_br>>, <<7, iter>>, <<8, alter>>, <<9, conc>>,
                <<12, char_digit>>, <<13, char_eps>>, <<14, char_letter>>, <<15, char_white>>}

(* How a character that begins at b is written up to i. *)
Shape(txt, role, b, i) ==
  CASE role = "base" -> i = b
    [] role = "esc" -> i = b + 1 /\ At(txt, b) = 92
    [] role = "oct1" -> i = b + 2 /\ At(txt, b) = 92 /\ At(txt, b + 1) \in Octal
    [] role = "hex0" -> i = b + 2 /\ At(txt, b) = 92 /\ At(txt, b + 1) = 120
    [] role = "oct2" -> i = b + 3 /\ At(txt, b) = 92 /\ At(txt, b + 1) \in Octal
                        /\ At(txt, b + 2) \in Octal
    [] role = "hex1" -> i = b + 3 /\ At(txt, b) = 92 /\ At(txt, b + 1) = 120
                        /\ At(txt, b + 2) \in HexDigit
    [] role = "full" -> i = b + 4 /\ Behind(txt, b) = i /\ i - 1 \in After(txt, b, {})

(* The first character of a range is not also one and a digit, with the sign
   that closes the range behind it. *)
Lone(txt, p) ==
  At(txt, Behind(txt, p)) = 62 => Behind(txt, p) - 1 \notin After(txt, p, {})

(* Characters were read from p up to b. *)
Progress(txt, t, p, cnt, b) ==
  IF t \in Lists
    THEN /\ Cut(txt, p, Stops(t), b)
         /\ \E n \in Nat : b \in Reach(txt, p, Stops(t), n)
                           /\ (cnt = 1 /\ t # char_str => n # 0)
         /\ cnt = 0 => b = p
    ELSE CASE cnt = 0 -> b = p
           [] cnt = 1 -> /\ b = Behind(txt, p) /\ After(txt, p, {}) # {}
                         /\ t = char_range => Lone(txt, p)
           [] cnt = 2 -> /\ b = Behind(txt, Behind(txt, p)) /\ After(txt, p, {}) # {}
                         /\ After(txt, Behind(txt, p), {}) # {} /\ Lone(txt, p)

Reading(txt, o, i, t, cnt, role) ==
  \E b \in Nat : Shape(txt, role, b, i) /\ Progress(txt, t, o + Opening(t), cnt, b)

LongestEnd(txt, t, o, i) == i \in EndsIn(txt, t, o) /\ \A e \in EndsIn(txt, t, o) : e <= i

(* The sign > was read behind the first character of a range, and the last
   digit of this may be the second one. *)
SignTwice(txt, o, i) ==
  /\ At(txt, i - 1) = 62
  /\ i - 1 = Behind(txt, o + 1) /\ i - 2 \in After(txt, o + 1, {})

InSpots(txt, o, i, t, s) ==
  \E role \in Roles : \E cnt \in 0 .. 2 :
    <<s, t, cnt>> \in Spots(role) /\ Reading(txt, o, i, t, cnt, role)

Within(txt, o, i, t, s) ==
  /\ OpenedIn(txt, t, o)
  /\ \/ InSpots(txt, o, i, t, s)
     \/ <<s, t>> \in ClosedBy /\ LongestEnd(txt, t, o, i)
     \/ s = 71 /\ t = char_range /\ SignTwice(txt, o, i)

(* Where the automaton is at i in a token that begins at o. *)
Place(txt, o, i, s) ==
  \/ s = 0 /\ i = o
  \/ s = 1 /\ i = o + 1 /\ At(txt, o) = 0
  \/ s = 2 /\ i = o + 1 /\ At(txt, o) = 33
  \/ s = 17 /\ i > o /\ \A k \in o .. i - 1 : At(txt, k) \in White
  \/ \E t \in DOMAIN PlainChar :
       <<s, t>> \in PlainStates /\ i = o + 1 /\ At(txt, o) = PlainChar[t]
  \/ \E t \in WithChars : Within(txt, o, i, t, s)

-----------------------------------------------------------------------------
(* Digits, and the characters that are written with them. *)
LEMMA GreatestIn ==
  ASSUME NEW n \in Nat, NEW S \in SUBSET (0 .. n), S # {}
  PROVE  Max(S) \in S /\ \A y \in S : y <= Max(S)
<1> DEFINE T == {n - y : y \in S}
<1>1. T \in SUBSET Nat /\ T # {}
  <2>1. \A y \in S : n - y \in Nat
    OBVIOUS
  <2> QED
    BY <2>1
<1>2. PICK z \in T : \A y \in T : z <= y
  BY <1>1, LeastNat
<1>3. PICK x \in S : z = n - x
  OBVIOUS
<1>4. \A y \in S : n - x <= n - y
  BY <1>2, <1>3
<1>5. \A y \in S : x >= y
  BY <1>4
<1> QED
  BY <1>3, <1>5 DEF Max

LEMMA DigitsAre ==
  ASSUME NEW txt, NEW i \in Nat, NEW digits, NEW most \in Nat
  PROVE  LET d == DigitsFrom(txt, i, digits, most)
         IN  /\ d \in 0 .. most
             /\ \A k \in i .. i + d - 1 : At(txt, k) \in digits
             /\ d < most => At(txt, i + d) \notin digits
<1> DEFINE S == {n \in 0 .. most : \A k \in i .. i + n - 1 : At(txt, k) \in digits}
<1>1. PICK d : d = DigitsFrom(txt, i, digits, most)
  OBVIOUS
<1>2. S \in SUBSET (0 .. most) /\ 0 \in S
  OBVIOUS
<1>3. d \in S /\ \A y \in S : y <= d
  <2>1. d = Max(S)
    BY <1>1 DEF DigitsFrom
  <2> HIDE DEF S
  <2> QED
    BY <1>2, <2>1, GreatestIn
<1>4. ASSUME d < most, At(txt, i + d) \in digits
      PROVE  FALSE
  <2>1. d + 1 \in 0 .. most
    BY <1>3, <1>4
  <2>2. \A k \in i .. i + (d + 1) - 1 : k \in i .. i + d - 1 \/ k = i + d
    BY <1>3
  <2>3. d + 1 \in S /\ d \in 0 .. most
    BY <1>3, <1>4, <2>1, <2>2
  <2>4. d + 1 <= d
    <3> HIDE DEF S
    <3> QED
      BY <1>3, <2>3
  <2> QED
    BY <2>3, <2>4
<1> QED
  BY <1>1, <1>3, <1>4

LEMMA DigitCodes ==
  /\ \A c \in Octal : c \in HexDigit /\ c \in Int /\ c \notin SimpleEscape
  /\ \A c \in HexDigit : c \in Int /\ c # 0
       /\ c \notin {33, 34, 39, 60, 62, 91, 92, 93, 120, 124}
  /\ \A c \in SimpleEscape : c \in Int /\ c # 0 /\ c # 120
  /\ \A c \in White : c \in Int /\ c # 0
BY DEF Octal, HexDigit, SimpleEscape, White

LEMMA ElementOf ==
  ASSUME NEW S, NEW sq \in Seq(S), NEW i \in 1 .. Len(sq)
  PROVE  sq[i] \in S
OBVIOUS

LEMMA TextAt ==
  ASSUME NEW txt \in Seq(Chars), NEW i \in Nat
  PROVE  /\ At(txt, i) \in 0 .. 255 /\ (At(txt, i) # 0 => i < Len(txt))
         /\ Len(txt) \in Nat
<1>1. Len(txt) \in Nat
  OBVIOUS
<1>2. CASE i < Len(txt)
  <2>1. i + 1 \in 1 .. Len(txt)
    BY <1>1, <1>2
  <2>2. txt[i + 1] \in Chars
    BY <2>1, ElementOf
  <2>3. \A c \in Chars : c \in 0 .. 255
    BY CharCountAssumption DEF Chars
  <2>4. At(txt, i) = txt[i + 1]
    BY <1>2 DEF At
  <2> QED
    BY <1>1, <1>2, <2>2, <2>3, <2>4
<1>3. CASE ~(i < Len(txt))
  BY <1>1, <1>3 DEF At
<1> QED
  BY <1>2, <1>3

(* The positions behind one to d digits. *)
Digits(from, d) == {from + n : n \in 1 .. d}

(* The characters that one number may stand for, and the longest of them. *)
LEMMA NumbersAre ==
  ASSUME NEW txt \in Seq(Chars), NEW i \in Nat, NEW most \in Nat, NEW base,
         NEW digits, \A c \in digits : c \in HexDigit,
         NEW d, d = DigitsFrom(txt, i, digits, most)
  PROVE  /\ d \in 0 .. most
         /\ \A k \in i .. i + d - 1 : At(txt, k) \in HexDigit
         /\ d # 0 => i + d <= Len(txt)
         /\ Nexts(Numbers(txt, i, digits, most, base)) = Digits(i, d)
         /\ Greedy(txt, i, digits, most, base).next = i + d
         /\ d # 0 => Greedy(txt, i, digits, most, base)
                       \in Numbers(txt, i, digits, most, base)
<1>1. d \in 0 .. most /\ \A k \in i .. i + d - 1 : At(txt, k) \in HexDigit
  BY DigitsAre
<1>2. d # 0 => i + d <= Len(txt)
  <2> SUFFICES ASSUME d # 0
               PROVE  i + d <= Len(txt)
    OBVIOUS
  <2>1. PICK k : k = i + d - 1 /\ k \in i .. i + d - 1 /\ k \in Nat
    BY <1>1
  <2>2. At(txt, k) # 0
    BY <1>1, <2>1, DigitCodes
  <2>3. k < Len(txt) /\ Len(txt) \in Nat
    BY <2>1, <2>2, TextAt
  <2> QED
    BY <1>1, <2>1, <2>3
<1>3. PICK all : all = [n \in 1 .. d |-> [code |-> NumberFrom(txt, i, n, base), next |-> i + n]]
  OBVIOUS
<1>4. Numbers(txt, i, digits, most, base) = {all[n] : n \in 1 .. d}
  BY <1>3 DEF Numbers
<1>5. \A n \in 1 .. d : all[n].next = i + n
  BY <1>3
<1>6. Nexts(Numbers(txt, i, digits, most, base)) = Digits(i, d)
  BY <1>4, <1>5 DEF Nexts, Digits
<1>7. Greedy(txt, i, digits, most, base) = [code |-> NumberFrom(txt, i, d, base), next |-> i + d]
  BY DEF Greedy
<1>8. ASSUME d # 0
      PROVE  Greedy(txt, i, digits, most, base) \in Numbers(txt, i, digits, most, base)
  <2>1. d \in 1 .. d
    BY <1>1, <1>8
  <2> QED
    BY <1>3, <1>4, <1>7, <2>1
<1>9. Greedy(txt, i, digits, most, base).next = i + d
  BY <1>7
<1> QED
  BY ONLY <1>1, <1>2, <1>6, <1>8, <1>9
(* Where one character that is written at i may end, by how it begins. *)
LEMMA AfterIs ==
  ASSUME NEW txt \in Seq(Chars), NEW i \in Nat, NEW stops, 92 \notin stops
  PROVE  /\ i >= Len(txt) \/ At(txt, i) \in stops => After(txt, i, stops) = {}
         /\ i < Len(txt) /\ At(txt, i) \notin stops /\ At(txt, i) # 92 =>
              After(txt, i, stops) = {i + 1} /\ Behind(txt, i) = i + 1
         /\ i < Len(txt) /\ At(txt, i) = 92 =>
              /\ At(txt, i + 1) \in SimpleEscape =>
                   After(txt, i, stops) = {i + 2} /\ Behind(txt, i) = i + 2
              /\ At(txt, i + 1) \in Octal =>
                   LET d == DigitsFrom(txt, i + 1, Octal, 3)
                   IN  /\ After(txt, i, stops) = Digits(i + 1, d)
                       /\ Behind(txt, i) = i + 1 + d
              /\ At(txt, i + 1) = 120 =>
                   LET d == DigitsFrom(txt, i + 2, HexDigit, 2)
                   IN  /\ After(txt, i, stops) = Digits(i + 2, d)
                       /\ Behind(txt, i) = i + 2 + d
              /\ At(txt, i + 1) \notin SimpleEscape \union Octal \union {120} =>
                   After(txt, i, stops) = {}
         /\ After(txt, i, stops) # {} => CharFrom(txt, i) \in SpelledFrom(txt, i, stops)
<1> DEFINE sp == SpelledFrom(txt, i, stops)
<1>1. PICK c, c1 : c = At(txt, i) /\ c1 = At(txt, i + 1)
  OBVIOUS
<1>2. c \in 0 .. 255 /\ c1 \in 0 .. 255 /\ Len(txt) \in Nat /\ i + 1 \in Nat /\ i + 2 \in Nat
  BY <1>1, TextAt
<1>3. PICK d, e : /\ d = DigitsFrom(txt, i + 1, Octal, 3)
                  /\ e = DigitsFrom(txt, i + 2, HexDigit, 2)
  OBVIOUS
<1>4. /\ d \in 0 .. 3
      /\ Nexts(Numbers(txt, i + 1, Octal, 3, 8)) = Digits(i + 1, d)
      /\ Greedy(txt, i + 1, Octal, 3, 8).next = i + 1 + d
      /\ d # 0 => Greedy(txt, i + 1, Octal, 3, 8) \in Numbers(txt, i + 1, Octal, 3, 8)
  <2>1. PICK j, ds : j = i + 1 /\ ds = Octal
    OBVIOUS
  <2>2. (\A x \in ds : x \in HexDigit) /\ j \in Nat /\ 3 \in Nat
        /\ d = DigitsFrom(txt, j, ds, 3) /\ txt \in Seq(Chars)
    BY <1>3, <2>1, DigitCodes
  <2>3. /\ d \in 0 .. 3
        /\ Nexts(Numbers(txt, j, ds, 3, 8)) = Digits(j, d)
        /\ Greedy(txt, j, ds, 3, 8).next = j + d
        /\ d # 0 => Greedy(txt, j, ds, 3, 8) \in Numbers(txt, j, ds, 3, 8)
    BY ONLY <2>2, NumbersAre
  <2> QED
    BY <2>1, <2>3
<1>5. /\ e \in 0 .. 2
      /\ Nexts(Numbers(txt, i + 2, HexDigit, 2, 16)) = Digits(i + 2, e)
      /\ Greedy(txt, i + 2, HexDigit, 2, 16).next = i + 2 + e
      /\ e # 0 => Greedy(txt, i + 2, HexDigit, 2, 16) \in Numbers(txt, i + 2, HexDigit, 2, 16)
  <2>1. PICK j, ds : j = i + 2 /\ ds = HexDigit
    OBVIOUS
  <2>2. (\A x \in ds : x \in HexDigit) /\ j \in Nat /\ 2 \in Nat
        /\ e = DigitsFrom(txt, j, ds, 2) /\ txt \in Seq(Chars)
    BY <1>3, <2>1
  <2>3. /\ e \in 0 .. 2
        /\ Nexts(Numbers(txt, j, ds, 2, 16)) = Digits(j, e)
        /\ Greedy(txt, j, ds, 2, 16).next = j + e
        /\ e # 0 => Greedy(txt, j, ds, 2, 16) \in Numbers(txt, j, ds, 2, 16)
    BY ONLY <2>2, NumbersAre
  <2> QED
    BY <2>1, <2>3
<1>6. /\ c1 \in Octal => c1 \notin SimpleEscape /\ c1 # 120 /\ d # 0
      /\ c1 \in SimpleEscape => c1 # 120
      /\ c1 \notin Octal => d = 0
  <2>1. c1 \in Octal => d # 0
    <3>1. At(txt, (i + 1) + 0) = c1
      BY <1>1, <1>2
    <3>2. 0 < 3 /\ (d = 0 => At(txt, (i + 1) + 0) \notin Octal)
      BY <1>2, <1>3, DigitsAre
    <3> QED
      BY <3>1, <3>2
  <2>2. c1 \notin Octal => d = 0
    <3>1. d # 0 => i + 1 \in i + 1 .. i + 1 + d - 1
      BY <1>2, <1>4
    <3>2. \A k \in i + 1 .. i + 1 + d - 1 : At(txt, k) \in Octal
      BY <1>2, <1>3, DigitsAre
    <3> QED
      BY <1>1, <3>1, <3>2
  <2> QED
    BY <2>1, <2>2, DigitCodes
<1>7. CASE i >= Len(txt) \/ c \in stops
  <2>1. sp = {}
    BY <1>1, <1>7 DEF SpelledFrom
  <2>2. After(txt, i, stops) = {}
    BY <2>1 DEF After, Nexts
  <2> QED
    BY <1>1, <1>2, <1>7, <2>2
<1>8. CASE i < Len(txt) /\ c \notin stops /\ c # 92
  <2>1. sp = {[code |-> c, next |-> i + 1]} /\ CharFrom(txt, i) = [code |-> c, next |-> i + 1]
    BY <1>1, <1>2, <1>8 DEF SpelledFrom, CharFrom
  <2>2. After(txt, i, stops) = {i + 1} /\ Behind(txt, i) = i + 1
    BY <2>1 DEF After, Nexts, Behind
  <2> QED
    BY <1>1, <1>2, <1>8, <2>1, <2>2
<1>9. CASE i < Len(txt) /\ c = 92
  <2>1. sp = {[code |-> EscapedCode(c1), next |-> i + 2] : x \in {c1} \intersect SimpleEscape}
               \union Numbers(txt, i + 1, Octal, 3, 8)
               \union IF c1 = 120 THEN Numbers(txt, i + 2, HexDigit, 2, 16) ELSE {}
    BY <1>1, <1>2, <1>9 DEF SpelledFrom
  <2>2. c1 \notin Octal => Numbers(txt, i + 1, Octal, 3, 8) = {}
    BY <1>3, <1>6 DEF Numbers
  <2>3. CASE c1 \in SimpleEscape
    <3>1. sp = {[code |-> EscapedCode(c1), next |-> i + 2]}
      BY <1>6, <2>1, <2>2, <2>3
    <3>2. CharFrom(txt, i) = [code |-> EscapedCode(c1), next |-> i + 2]
      BY <1>1, <1>6, <1>9, <2>3 DEF CharFrom
    <3>3. After(txt, i, stops) = {i + 2} /\ Behind(txt, i) = i + 2
      BY <3>1, <3>2 DEF After, Nexts, Behind
    <3> QED
      BY <1>1, <1>2, <1>6, <1>9, <2>3, <3>1, <3>2, <3>3
  <2>4. CASE c1 \in Octal
    <3>1. sp = Numbers(txt, i + 1, Octal, 3, 8)
      BY <1>6, <2>1, <2>4
    <3>2. CharFrom(txt, i) = Greedy(txt, i + 1, Octal, 3, 8)
      BY <1>1, <1>6, <1>9, <2>4 DEF CharFrom
    <3>3. After(txt, i, stops) = Digits(i + 1, d) /\ Behind(txt, i) = i + 1 + d
      BY <1>4, <3>1, <3>2 DEF After, Nexts, Behind
    <3> QED
      BY <1>1, <1>2, <1>3, <1>4, <1>6, <1>9, <2>4, <3>1, <3>2, <3>3
  <2>5. CASE c1 = 120
    <3>1. sp = Numbers(txt, i + 2, HexDigit, 2, 16)
      BY <1>6, <2>1, <2>2, <2>5
    <3>2. CharFrom(txt, i) = Greedy(txt, i + 2, HexDigit, 2, 16)
      BY <1>1, <1>6, <1>9, <2>5 DEF CharFrom
    <3>3. After(txt, i, stops) = Digits(i + 2, e) /\ Behind(txt, i) = i + 2 + e
      BY <1>5, <3>1, <3>2 DEF After, Nexts, Behind
    <3>4. After(txt, i, stops) # {} => e # 0
      BY <1>5, <3>3 DEF Digits
    <3> QED
      BY <1>1, <1>2, <1>3, <1>5, <1>6, <1>9, <2>5, <3>1, <3>2, <3>3, <3>4
  <2>6. CASE c1 \notin SimpleEscape \union Octal \union {120}
    <3>1. sp = {}
      BY <2>1, <2>2, <2>6
    <3>2. After(txt, i, stops) = {}
      BY <3>1 DEF After, Nexts
    <3> QED
      BY <1>1, <1>2, <1>9, <2>6, <3>2
  <2> QED
    BY <2>3, <2>4, <2>5, <2>6
<1> QED
  BY <1>1, <1>2, <1>7, <1>8, <1>9

(* Where a character may end is behind it, at or in front of where it ends for
   process_char, and there a digit of it stands. *)
LEMMA AfterWithin ==
  ASSUME NEW txt \in Seq(Chars), NEW i \in Nat, NEW stops, 92 \notin stops,
         NEW e \in After(txt, i, stops)
  PROVE  /\ e \in Nat /\ i < e /\ e <= Behind(txt, i)
         /\ Behind(txt, i) \in Nat /\ Behind(txt, i) <= Len(txt)
         /\ i < Len(txt) /\ At(txt, i) \notin stops
         /\ Behind(txt, i) \in After(txt, i, stops)
         /\ e < Behind(txt, i) =>
              At(txt, i) = 92 /\ At(txt, e) \in HexDigit /\ e + 1 \in After(txt, i, stops)
<1>1. PICK c, c1 : c = At(txt, i) /\ c1 = At(txt, i + 1)
  OBVIOUS
<1>2. Len(txt) \in Nat /\ i + 1 \in Nat /\ i + 2 \in Nat /\ (c1 # 0 => i + 1 < Len(txt))
  BY <1>1, TextAt
<1>3. i < Len(txt) /\ c \notin stops
  BY <1>1, <1>2, AfterIs
<1>4. CASE c # 92
  <2>1. After(txt, i, stops) = {i + 1} /\ Behind(txt, i) = i + 1
    BY <1>1, <1>3, <1>4, AfterIs
  <2> QED
    BY <1>1, <1>2, <1>3, <2>1
<1>5. CASE c = 92 /\ c1 \in SimpleEscape
  <2>1. After(txt, i, stops) = {i + 2} /\ Behind(txt, i) = i + 2
    BY <1>1, <1>3, <1>5, AfterIs
  <2>2. i + 1 < Len(txt)
    BY <1>2, <1>5, DigitCodes
  <2> QED
    BY <1>1, <1>2, <1>3, <2>1, <2>2
<1>6. ASSUME NEW from \in Nat, i < from, NEW d \in Nat,
             d # 0 => from + d <= Len(txt),
             \A k \in from .. from + d - 1 : At(txt, k) \in HexDigit,
             After(txt, i, stops) = Digits(from, d),
             Behind(txt, i) = from + d, c = 92
      PROVE  /\ e \in Nat /\ i < e /\ e <= Behind(txt, i)
             /\ Behind(txt, i) \in Nat /\ Behind(txt, i) <= Len(txt)
             /\ Behind(txt, i) \in After(txt, i, stops)
             /\ e < Behind(txt, i) =>
                  At(txt, i) = 92 /\ At(txt, e) \in HexDigit /\ e + 1 \in After(txt, i, stops)
  <2>1. PICK n \in 1 .. d : e = from + n
    BY <1>6 DEF Digits
  <2>2. d # 0 /\ d \in 1 .. d
    BY <2>1
  <2>3. from + d \in After(txt, i, stops)
    BY <1>6, <2>2 DEF Digits
  <2>4. ASSUME e < Behind(txt, i)
        PROVE  At(txt, e) \in HexDigit /\ e + 1 \in After(txt, i, stops)
    <3>1. e \in from .. from + d - 1 /\ n + 1 \in 1 .. d /\ e + 1 = from + (n + 1)
      BY <1>6, <2>1, <2>4
    <3> QED
      BY <1>6, <3>1 DEF Digits
  <2> QED
    BY <1>1, <1>6, <2>1, <2>2, <2>3, <2>4
<1>7. CASE c = 92 /\ c1 \in Octal
  <2>1. PICK d : d = DigitsFrom(txt, i + 1, Octal, 3)
    OBVIOUS
  <2>2. After(txt, i, stops) = Digits(i + 1, d) /\ Behind(txt, i) = i + 1 + d
    BY <1>1, <1>3, <1>7, <2>1, AfterIs
  <2>3. /\ d \in 0 .. 3
        /\ \A k \in i + 1 .. i + 1 + d - 1 : At(txt, k) \in HexDigit
        /\ d # 0 => i + 1 + d <= Len(txt)
    <3>1. (\A x \in Octal : x \in HexDigit) /\ i + 1 \in Nat /\ 3 \in Nat
      BY DigitCodes
    <3> QED
      BY <2>1, <3>1, NumbersAre
  <2>4. PICK from : from = i + 1
    OBVIOUS
  <2>5. /\ from \in Nat /\ i < from /\ d \in Nat
        /\ After(txt, i, stops) = Digits(from, d) /\ Behind(txt, i) = from + d
        /\ d # 0 => from + d <= Len(txt)
        /\ \A k \in from .. from + d - 1 : At(txt, k) \in HexDigit
    BY <2>2, <2>3, <2>4
  <2> QED
    BY <1>1, <1>3, <1>6, <1>7, <2>5
<1>8. CASE c = 92 /\ c1 = 120
  <2>1. PICK d : d = DigitsFrom(txt, i + 2, HexDigit, 2)
    OBVIOUS
  <2>2. After(txt, i, stops) = Digits(i + 2, d) /\ Behind(txt, i) = i + 2 + d
    BY <1>1, <1>3, <1>8, <2>1, AfterIs
  <2>3. /\ d \in 0 .. 2
        /\ \A k \in i + 2 .. i + 2 + d - 1 : At(txt, k) \in HexDigit
        /\ d # 0 => i + 2 + d <= Len(txt)
    <3>1. (\A x \in HexDigit : x \in HexDigit) /\ i + 2 \in Nat /\ 2 \in Nat
      OBVIOUS
    <3> QED
      BY <2>1, <3>1, NumbersAre
  <2>4. PICK from : from = i + 2
    OBVIOUS
  <2>5. /\ from \in Nat /\ i < from /\ d \in Nat
        /\ After(txt, i, stops) = Digits(from, d) /\ Behind(txt, i) = from + d
        /\ d # 0 => from + d <= Len(txt)
        /\ \A k \in from .. from + d - 1 : At(txt, k) \in HexDigit
    BY <2>2, <2>3, <2>4
  <2> QED
    BY <1>1, <1>3, <1>6, <1>8, <2>5
<1>9. CASE c = 92 /\ c1 \notin SimpleEscape \union Octal \union {120}
  BY <1>1, <1>3, <1>9, AfterIs
<1> QED
  BY <1>4, <1>5, <1>7, <1>8, <1>9

(* Signs that close make no difference to a character that is none of them. *)
LEMMA StopsMatter ==
  ASSUME NEW txt \in Seq(Chars), NEW i \in Nat, NEW stops, 92 \notin stops,
         At(txt, i) \notin stops
  PROVE  After(txt, i, stops) = After(txt, i, {})
<1>1. i >= Len(txt) \/ i < Len(txt)
  BY TextAt
<1> QED
  BY <1>1 DEF After, SpelledFrom

-----------------------------------------------------------------------------
(* The functions that Readings refers to. *)
LEMMA ReadsAt ==
  ASSUME NEW txt, NEW i, NEW stops, NEW n \in Nat, NEW readings,
         Reads(readings, txt, i, stops, n), NEW k \in 0 .. n
  PROVE  readings[k] = ReadStep(readings, txt, i, stops, k)
<1> DEFINE F(r) == [j \in 0 .. n |-> ReadStep(r, txt, i, stops, j)]
<1>1. readings = F(readings)
  BY DEF Reads
<1>2. F(readings)[k] = ReadStep(readings, txt, i, stops, k)
  OBVIOUS
<1> HIDE DEF F
<1> QED
  BY <1>1, <1>2

LEMMA ReadsExist ==
  ASSUME NEW txt, NEW i, NEW stops, NEW n \in Nat
  PROVE  \E readings : Reads(readings, txt, i, stops, n)
<1> DEFINE S == {k \in Nat : \E readings : Reads(readings, txt, i, stops, k)}
<1>1. 0 \in S
  <2> DEFINE readings == [k \in 0 .. 0 |-> {[chars |-> <<>>, next |-> i]}]
  <2>1. Reads(readings, txt, i, stops, 0)
    BY DEF Reads, ReadStep
  <2> QED
    BY <2>1
<1>2. ASSUME NEW k \in Nat, k \in S
      PROVE  k + 1 \in S
  <2>1. PICK readings : Reads(readings, txt, i, stops, k)
    BY <1>2
  <2> DEFINE more == [j \in 0 .. k + 1 |-> ReadStep(readings, txt, i, stops, j)]
  <2>2. ASSUME NEW j \in 0 .. k
        PROVE  more[j] = readings[j]
    <3>1. readings[j] = ReadStep(readings, txt, i, stops, j)
      BY <2>1, ReadsAt
    <3> QED
      BY <3>1
  <2>3. ASSUME NEW j \in 0 .. k + 1
        PROVE  ReadStep(more, txt, i, stops, j) = ReadStep(readings, txt, i, stops, j)
    <3>1. CASE j = 0
      BY <3>1 DEF ReadStep
    <3>2. CASE j # 0
      <4>1. j - 1 \in 0 .. k
        BY <3>2
      <4>2. more[j - 1] = readings[j - 1]
        BY <2>2, <4>1
      <4> HIDE DEF more
      <4> QED
        BY <4>2 DEF ReadStep
    <3> QED
      BY <3>1, <3>2
  <2>4. more = [j \in 0 .. k + 1 |-> ReadStep(more, txt, i, stops, j)]
    BY <2>3
  <2> HIDE DEF more
  <2>5. Reads(more, txt, i, stops, k + 1)
    BY <2>4 DEF Reads
  <2> QED
    BY <2>5
<1> HIDE DEF S
<1>3. n \in S
  BY <1>1, <1>2, SetInduction
<1> QED
  BY <1>3 DEF S

LEMMA ReadFromIs ==
  ASSUME NEW txt, NEW i, NEW stops, NEW n \in Nat
  PROVE  \E readings : /\ Reads(readings, txt, i, stops, n)
                       /\ ReadFrom(txt, i, stops, n) = readings[n]
<1>1. PICK readings : /\ Reads(readings, txt, i, stops, n)
                      /\ readings = CHOOSE r : Reads(r, txt, i, stops, n)
  BY ReadsExist
<1> QED
  BY <1>1 DEF ReadFrom

LEMMA ReadNothing ==
  ASSUME NEW txt, NEW i, NEW stops
  PROVE  ReadFrom(txt, i, stops, 0) = {[chars |-> <<>>, next |-> i]}
<1>1. PICK readings : /\ Reads(readings, txt, i, stops, 0)
                      /\ ReadFrom(txt, i, stops, 0) = readings[0]
  BY ReadFromIs
<1>2. readings[0] = ReadStep(readings, txt, i, stops, 0)
  <2>1. 0 \in 0 .. 0
    OBVIOUS
  <2> QED
    BY <1>1, <2>1, ReadsAt
<1> QED
  BY <1>1, <1>2 DEF ReadStep

(* One character more is one step more. *)
LEMMA ReadOneMore ==
  ASSUME NEW txt, NEW i, NEW stops, NEW n \in Nat
  PROVE  ReadFrom(txt, i, stops, n + 1) = ReadFurther(txt, ReadFrom(txt, i, stops, n), stops)
<1>1. PICK a : Reads(a, txt, i, stops, n) /\ ReadFrom(txt, i, stops, n) = a[n]
  BY ReadFromIs
<1>2. PICK b : Reads(b, txt, i, stops, n + 1) /\ ReadFrom(txt, i, stops, n + 1) = b[n + 1]
  <2>1. n + 1 \in Nat
    OBVIOUS
  <2> QED
    BY <2>1, ReadFromIs
<1> DEFINE S == {k \in Nat : k <= n => a[k] = b[k]}
<1>3. ASSUME NEW k \in 0 .. n
      PROVE  /\ a[k] = ReadStep(a, txt, i, stops, k)
             /\ b[k] = ReadStep(b, txt, i, stops, k)
  <2>1. k \in 0 .. n + 1 /\ n + 1 \in Nat
    OBVIOUS
  <2> QED
    BY <1>1, <1>2, <2>1, ReadsAt
<1>4. 0 \in S
  <2>1. 0 \in 0 .. n
    OBVIOUS
  <2> QED
    BY <1>3, <2>1 DEF ReadStep
<1>5. ASSUME NEW k \in Nat, k \in S
      PROVE  k + 1 \in S
  <2> SUFFICES ASSUME k + 1 <= n
               PROVE  a[k + 1] = b[k + 1]
    OBVIOUS
  <2>1. k + 1 \in 0 .. n /\ k + 1 # 0 /\ (k + 1) - 1 = k /\ k <= n
    OBVIOUS
  <2>2. a[k] = b[k]
    BY <1>5, <2>1
  <2> QED
    BY <1>3, <2>1, <2>2 DEF ReadStep
<1>6. n \in S
  <2> HIDE DEF S
  <2> QED
    BY <1>4, <1>5, SetInduction
<1>7. b[n + 1] = ReadStep(b, txt, i, stops, n + 1)
  <2>1. n + 1 \in 0 .. n + 1 /\ n + 1 \in Nat
    OBVIOUS
  <2> QED
    BY <1>2, <2>1, ReadsAt
<1> QED
  BY <1>1, <1>2, <1>6, <1>7 DEF ReadStep

LEMMA ReachIs ==
  ASSUME NEW txt, NEW p, NEW stops
  PROVE  /\ Reach(txt, p, stops, 0) = {p}
         /\ \A n \in Nat : \A e :
              e \in Reach(txt, p, stops, n + 1) <=>
                \E k \in Reach(txt, p, stops, n) : e \in After(txt, k, stops)
<1>1. Reach(txt, p, stops, 0) = {p}
  <2>1. PICK r : r = [chars |-> <<>>, next |-> p]
    OBVIOUS
  <2>2. ReadFrom(txt, p, stops, 0) = {r} /\ r.next = p
    BY <2>1, ReadNothing
  <2> QED
    BY <2>2 DEF Reach, Nexts
<1>2. ASSUME NEW n \in Nat, NEW e
      PROVE  e \in Reach(txt, p, stops, n + 1) <=>
               \E k \in Reach(txt, p, stops, n) : e \in After(txt, k, stops)
  <2>1. PICK R : R = ReadFrom(txt, p, stops, n)
    OBVIOUS
  <2>2. ReadFrom(txt, p, stops, n + 1) = ReadFurther(txt, R, stops)
    BY <2>1, ReadOneMore
  <2>3. \A x : x \in ReadFurther(txt, R, stops) <=>
          \E r \in R : \E s \in SpelledFrom(txt, r.next, stops) :
            x = [chars |-> Append(r.chars, s.code), next |-> s.next]
    BY DEF ReadFurther
  <2>4. e \in Nexts(ReadFurther(txt, R, stops)) <=>
          \E r \in R : \E s \in SpelledFrom(txt, r.next, stops) : e = s.next
    <3>1. PICK G : G = ReadFurther(txt, R, stops)
      OBVIOUS
    <3>2. e \in Nexts(G) <=> \E x \in G : e = x.next
      BY DEF Nexts
    <3>3. ASSUME NEW x \in G, e = x.next
          PROVE  \E r \in R : \E s \in SpelledFrom(txt, r.next, stops) : e = s.next
      BY <2>3, <3>1, <3>3
    <3>4. ASSUME NEW r \in R, NEW s \in SpelledFrom(txt, r.next, stops), e = s.next
          PROVE  \E x \in G : e = x.next
      <4>1. PICK x : x = [chars |-> Append(r.chars, s.code), next |-> s.next]
        OBVIOUS
      <4>2. x \in G /\ x.next = e
        BY <2>3, <3>1, <3>4, <4>1
      <4> QED
        BY <4>2
    <3> QED
      BY <3>1, <3>2, <3>3, <3>4
  <2> QED
    BY <2>1, <2>2, <2>4 DEF Reach, After, Nexts
<1> QED
  BY <1>1, <1>2

-----------------------------------------------------------------------------
(* How far readings go. *)
LEMMA ReachBeyond ==
  ASSUME NEW txt \in Seq(Chars), NEW p \in Nat, NEW stops, 92 \notin stops
  PROVE  \A n \in Nat : \A e \in Reach(txt, p, stops, n) :
           e \in Nat /\ p + n <= e /\ (n # 0 => e <= Len(txt))
<1> DEFINE S == {n \in Nat : \A e \in Reach(txt, p, stops, n) :
                   e \in Nat /\ p + n <= e /\ (n # 0 => e <= Len(txt))}
<1>1. 0 \in S
  BY ReachIs
<1>2. ASSUME NEW n \in Nat, n \in S
      PROVE  n + 1 \in S
  <2>1. ASSUME NEW e \in Reach(txt, p, stops, n + 1)
        PROVE  e \in Nat /\ p + (n + 1) <= e /\ e <= Len(txt)
    <3>1. PICK k \in Reach(txt, p, stops, n) : e \in After(txt, k, stops)
      BY ReachIs
    <3>2. k \in Nat /\ p + n <= k
      BY <1>2
    <3>3. e \in Nat /\ k < e /\ e <= Behind(txt, k) /\ Behind(txt, k) <= Len(txt)
          /\ Behind(txt, k) \in Nat /\ Len(txt) \in Nat
      BY <3>1, <3>2, AfterWithin, TextAt
    <3> QED
      BY <3>2, <3>3
  <2> QED
    BY <2>1
<1> HIDE DEF S
<1>3. \A n \in Nat : n \in S
  BY <1>1, <1>2, SetInduction
<1> QED
  BY <1>3 DEF S

(* Signs that close a token are no digits. *)
Signs(stops) == \A c \in stops : c \notin HexDigit /\ c # 92

LEMMA SignsClose ==
  ASSUME NEW t \in WithChars
  PROVE  /\ Signs(Stops(t)) /\ 92 \notin Stops(t)
         /\ Closing(t) \notin HexDigit /\ Closing(t) \notin SimpleEscape \ {34, 39, 62, 93, 124}
         /\ Closing(t) \in {34, 39, 62, 93, 124}
         /\ t \in Lists => Stops(t) = {Closing(t)}
         /\ t \notin Lists => Stops(t) = {}
BY DEF Signs, Stops, Closing, WithChars, Lists, HexDigit, SimpleEscape, char, char_no_char,
       char_str, char_range, char_alter, char_except

(* A digit is one character and nothing else. *)
LEMMA DigitGoesOn ==
  ASSUME NEW txt \in Seq(Chars), NEW i \in Nat, NEW stops, Signs(stops), 92 \notin stops,
         At(txt, i) \in HexDigit
  PROVE  /\ At(txt, i) \notin stops
         /\ After(txt, i, stops) = {i + 1} /\ Behind(txt, i) = i + 1
<1>1. At(txt, i) \notin stops /\ At(txt, i) # 92 /\ At(txt, i) # 0
  BY DigitCodes DEF Signs
<1>2. i < Len(txt)
  BY <1>1, TextAt
<1> QED
  BY <1>1, <1>2, AfterIs

LEMMA BehindIs ==
  ASSUME NEW txt \in Seq(Chars), NEW i \in Nat
  PROVE  Behind(txt, i) \in Nat
<1>1. i + 1 \in Nat /\ i + 2 \in Nat /\ (\A x \in Octal : x \in HexDigit)
  BY DigitCodes
<1>2. CASE At(txt, i) # 92
  BY <1>2 DEF Behind, CharFrom
<1>3. CASE At(txt, i) = 92 /\ At(txt, i + 1) \in Octal
  <2>1. CharFrom(txt, i) = Greedy(txt, i + 1, Octal, 3, 8)
    BY <1>3, DigitCodes DEF CharFrom
  <2>2. PICK d, j : d = DigitsFrom(txt, j, Octal, 3) /\ j = i + 1
    OBVIOUS
  <2>3. Greedy(txt, j, Octal, 3, 8).next = j + d /\ d \in 0 .. 3
    BY <1>1, <2>2, DigitsAre DEF Greedy
  <2> QED
    BY <1>1, <2>1, <2>2, <2>3 DEF Behind
<1>4. CASE At(txt, i) = 92 /\ At(txt, i + 1) \notin Octal /\ At(txt, i + 1) = 120
  <2>1. CharFrom(txt, i) = Greedy(txt, i + 2, HexDigit, 2, 16)
    BY <1>4 DEF CharFrom
  <2>2. PICK d, j : d = DigitsFrom(txt, j, HexDigit, 2) /\ j = i + 2
    OBVIOUS
  <2>3. Greedy(txt, j, HexDigit, 2, 16).next = j + d /\ d \in 0 .. 2
    BY <1>1, <2>2, DigitsAre DEF Greedy
  <2> QED
    BY <1>1, <2>1, <2>2, <2>3 DEF Behind
<1>5. CASE At(txt, i) = 92 /\ At(txt, i + 1) \notin Octal /\ At(txt, i + 1) # 120
  BY <1>1, <1>5 DEF Behind, CharFrom
<1> QED
  BY <1>2, <1>3, <1>4, <1>5

(* The character at b ends where process_char takes it to end, whichever way it
   may be read besides: what is read in between are digits of it. *)
LEMMA BetweenDigits ==
  ASSUME NEW txt \in Seq(Chars), NEW p \in Nat, NEW stops, Signs(stops), 92 \notin stops,
         NEW b \in Nat, p <= b, Cut(txt, p, stops, b)
  PROVE  \A n \in Nat : \A e \in Reach(txt, p, stops, n) :
           b < e /\ e < Behind(txt, b) => e \in After(txt, b, stops)
<1> DEFINE S == {n \in Nat : \A e \in Reach(txt, p, stops, n) :
                   b < e /\ e < Behind(txt, b) => e \in After(txt, b, stops)}
<1>1. 0 \in S
  <2>1. \A e \in Reach(txt, p, stops, 0) : e = p
    BY ReachIs
  <2> QED
    BY <2>1
<1>2. ASSUME NEW n \in Nat, n \in S
      PROVE  n + 1 \in S
  <2>1. ASSUME NEW e \in Reach(txt, p, stops, n + 1), b < e, e < Behind(txt, b)
        PROVE  e \in After(txt, b, stops)
    <3>1. PICK k \in Reach(txt, p, stops, n) : e \in After(txt, k, stops)
      BY ReachIs
    <3>2. k \in Nat
      BY ReachBeyond
    <3>3. e \in Nat /\ k < e
      BY <3>1, <3>2, AfterWithin
    <3>4. k >= b
      BY <2>1, <3>1, <3>2, <3>3 DEF Cut
    <3>5. CASE k = b
      BY <3>1, <3>5
    <3>6. CASE k > b
      <4>1. k < Behind(txt, b)
        BY <2>1, <3>2, <3>3, BehindIs
      <4>2. k \in After(txt, b, stops)
        BY <1>2, <3>6, <4>1
      <4>3. At(txt, k) \in HexDigit /\ k + 1 \in After(txt, b, stops)
        BY <4>1, <4>2, AfterWithin
      <4>4. After(txt, k, stops) = {k + 1}
        BY <3>2, <4>3, DigitGoesOn
      <4> QED
        BY <3>1, <4>3, <4>4
    <3> QED
      BY <3>2, <3>4, <3>5, <3>6
  <2> QED
    BY <2>1
<1> HIDE DEF S
<1>3. \A n \in Nat : n \in S
  BY <1>1, <1>2, SetInduction
<1> QED
  BY <1>3 DEF S

LEMMA CutMoves ==
  ASSUME NEW txt \in Seq(Chars), NEW p \in Nat, NEW stops, Signs(stops), 92 \notin stops,
         NEW b \in Nat, NEW m \in Nat, b \in Reach(txt, p, stops, m),
         Cut(txt, p, stops, b), After(txt, b, stops) # {}
  PROVE  /\ Behind(txt, b) \in Reach(txt, p, stops, m + 1)
         /\ Cut(txt, p, stops, Behind(txt, b))
         /\ Behind(txt, b) \in Nat /\ b < Behind(txt, b)
<1>1. PICK g : g = Behind(txt, b)
  OBVIOUS
<1>2. PICK x : x \in After(txt, b, stops)
  OBVIOUS
<1>3. g \in Nat /\ b < g /\ At(txt, b) \notin stops /\ g \in After(txt, b, stops)
  <2>1. /\ x \in Nat /\ b < x /\ x <= Behind(txt, b) /\ Behind(txt, b) \in Nat
        /\ At(txt, b) \notin stops /\ Behind(txt, b) \in After(txt, b, stops)
    BY <1>2, AfterWithin
  <2> QED
    BY <1>1, <2>1
<1>4. p <= b
  BY ReachBeyond
<1>5. g \in Reach(txt, p, stops, m + 1)
  BY <1>3, ReachIs
<1>6. ASSUME NEW n \in Nat, NEW e \in Reach(txt, p, stops, n), e < g
      PROVE  At(txt, e) \notin stops /\ \A k \in After(txt, e, stops) : k <= g
  <2>1. e \in Nat
    BY ReachBeyond
  <2>2. \A k \in After(txt, e, stops) : k \in Nat
    BY <2>1, AfterWithin
  <2>3. CASE e < b
    <3>1. At(txt, e) \notin stops /\ \A k \in After(txt, e, stops) : k <= b
      BY <2>3 DEF Cut
    <3> QED
      BY <1>3, <2>2, <3>1
  <2>4. CASE e = b
    <3>1. \A k \in After(txt, b, stops) : k <= Behind(txt, b)
      BY AfterWithin
    <3> QED
      BY <1>1, <1>3, <2>4, <3>1
  <2>5. CASE b < e
    <3>1. e \in After(txt, b, stops)
      BY <1>1, <1>4, <1>6, <2>5, BetweenDigits
    <3>2. At(txt, e) \in HexDigit
      BY <1>1, <1>6, <3>1, AfterWithin
    <3>3. At(txt, e) \notin stops /\ After(txt, e, stops) = {e + 1}
      BY <2>1, <3>2, DigitGoesOn
    <3> QED
      BY <1>3, <1>6, <2>1, <3>3
  <2> QED
    BY <2>1, <2>3, <2>4, <2>5
<1>7. Cut(txt, p, stops, g)
  BY <1>6 DEF Cut
<1> QED
  BY <1>1, <1>3, <1>5, <1>7

(* Where a reading is cut short no other goes on. *)
LEMMA CutEnds ==
  ASSUME NEW txt \in Seq(Chars), NEW p \in Nat, NEW stops, 92 \notin stops,
         NEW b \in Nat, p <= b, Cut(txt, p, stops, b), After(txt, b, stops) = {}
  PROVE  \A n \in Nat : \A e \in Reach(txt, p, stops, n) : e <= b
<1> DEFINE S == {n \in Nat : \A e \in Reach(txt, p, stops, n) : e <= b}
<1>1. 0 \in S
  <2>1. \A e \in Reach(txt, p, stops, 0) : e = p
    BY ReachIs
  <2> QED
    BY <2>1
<1>2. ASSUME NEW n \in Nat, n \in S
      PROVE  n + 1 \in S
  <2>1. ASSUME NEW e \in Reach(txt, p, stops, n + 1)
        PROVE  e <= b
    <3>1. PICK k \in Reach(txt, p, stops, n) : e \in After(txt, k, stops)
      BY ReachIs
    <3>2. k \in Nat /\ k <= b
      BY <1>2, ReachBeyond
    <3>3. k # b
      BY <3>1
    <3> QED
      BY <3>1, <3>2, <3>3 DEF Cut
  <2> QED
    BY <2>1
<1> HIDE DEF S
<1>3. \A n \in Nat : n \in S
  BY <1>1, <1>2, SetInduction
<1> QED
  BY <1>3 DEF S

(* Nothing is read in front of the beginning. *)
LEMMA CutAtStart ==
  ASSUME NEW txt \in Seq(Chars), NEW p \in Nat, NEW stops, 92 \notin stops
  PROVE  Cut(txt, p, stops, p) /\ p \in Reach(txt, p, stops, 0)
<1>1. ASSUME NEW n \in Nat, NEW e \in Reach(txt, p, stops, n)
      PROVE  ~(e < p)
  <2>1. e \in Nat /\ p + n <= e
    BY ReachBeyond
  <2> QED
    BY <2>1
<1> QED
  BY <1>1, ReachIs DEF Cut

-----------------------------------------------------------------------------
(* Where a token may end. *)
Closes(txt, p, stops, n, sign, e) ==
  \E x \in Reach(txt, p, stops, n) : x < Len(txt) /\ At(txt, x) = sign /\ e = x + 1

LEMMA EndsAre ==
  ASSUME NEW txt, NEW t \in WithChars, NEW o, NEW e,
         NEW p, p = o + Opening(t), NEW stops, stops = Stops(t)
  PROVE  e \in EndsIn(txt, t, o) <=>
           /\ OpenedIn(txt, t, o)
           /\ \E n \in CountsIn(txt, t) : Closes(txt, p, stops, n, Closing(t), e)
<1>1. t \notin DOMAIN PlainChar
  BY DEF WithChars, PlainChar, char, char_except, char_eps, char_white, char_digit,
         char_letter, lr_br, rr_br, iter, conc, alter
<1>2. PICK C : C = ContentsIn(txt, t, o)
  OBVIOUS
<1>3. e \in EndsIn(txt, t, o) <=> \E r \in C : e = r.next + 1
  BY <1>1, <1>2 DEF EndsIn
<1>4. \A r : r \in C <=>
        /\ OpenedIn(txt, t, o)
        /\ \E n \in CountsIn(txt, t) : r \in ReadFrom(txt, o + Opening(t), Stops(t), n)
        /\ r.next < Len(txt) /\ At(txt, r.next) = Closing(t)
  BY <1>2 DEF ContentsIn
<1>5. \A n, x : x \in Reach(txt, o + Opening(t), Stops(t), n) <=>
        \E r \in ReadFrom(txt, o + Opening(t), Stops(t), n) : x = r.next
  BY DEF Reach, Nexts
<1>6. ASSUME e \in EndsIn(txt, t, o)
      PROVE  /\ OpenedIn(txt, t, o)
             /\ \E n \in CountsIn(txt, t) : Closes(txt, p, stops, n, Closing(t), e)
  <2>1. PICK r \in C : e = r.next + 1
    BY <1>3, <1>6
  <2>2. PICK n \in CountsIn(txt, t) : r \in ReadFrom(txt, o + Opening(t), Stops(t), n)
    BY <1>4
  <2>3. r.next \in Reach(txt, o + Opening(t), Stops(t), n)
    BY <1>5, <2>2
  <2>4. Closes(txt, p, stops, n, Closing(t), e)
    BY <1>4, <2>1, <2>3 DEF Closes
  <2> QED
    BY <1>4, <2>1, <2>4
<1>7. ASSUME OpenedIn(txt, t, o), NEW n \in CountsIn(txt, t),
             Closes(txt, p, stops, n, Closing(t), e)
      PROVE  e \in EndsIn(txt, t, o)
  <2>0. PICK x \in Reach(txt, p, stops, n) :
          x < Len(txt) /\ At(txt, x) = Closing(t) /\ e = x + 1
    BY <1>7 DEF Closes
  <2>1. PICK r \in ReadFrom(txt, o + Opening(t), Stops(t), n) : x = r.next
    BY <1>5, <2>0
  <2>2. r \in C
    BY <1>4, <1>7, <2>0, <2>1
  <2> QED
    BY <1>3, <2>0, <2>1, <2>2
<1> QED
  BY <1>6, <1>7

LEMMA OpeningIs ==
  ASSUME NEW t
  PROVE  Opening(t) \in {1, 2}
BY DEF Opening

LEMMA ListEnd ==
  ASSUME NEW txt \in Seq(Chars), NEW t \in Lists, NEW o \in Nat, OpenedIn(txt, t, o),
         NEW b \in Nat, NEW m \in Nat, Cut(txt, o + Opening(t), Stops(t), b),
         b \in Reach(txt, o + Opening(t), Stops(t), m), m # 0 \/ t = char_str,
         b < Len(txt), At(txt, b) = Closing(t)
  PROVE  LongestEnd(txt, t, o, b + 1)
<1>1. PICK p, stops : p = o + Opening(t) /\ stops = Stops(t)
  OBVIOUS
<1>2. t \in WithChars /\ p \in Nat /\ 92 \notin stops /\ stops = {Closing(t)}
  <2>1. t \in WithChars
    BY DEF Lists, WithChars, char, char_except, char_str, char_alter
  <2> QED
    BY <1>1, <2>1, SignsClose, OpeningIs
<1>3. After(txt, b, stops) = {}
  BY <1>2, AfterIs
<1>4. p + m <= b
  BY <1>1, <1>2, ReachBeyond
<1>5. m \in CountsIn(txt, t)
  <2>1. m <= Len(txt) /\ Len(txt) \in Nat
    BY <1>2, <1>4, TextAt
  <2>2. CountsIn(txt, t) = IF t = char_str THEN 0 .. Len(txt) ELSE 1 .. Len(txt)
    BY DEF CountsIn, Lists, char, char_no_char, char_str, char_range, char_alter, char_except
  <2> QED
    BY <2>1, <2>2
<1>6. b + 1 \in EndsIn(txt, t, o)
  <2>1. Closes(txt, p, stops, m, Closing(t), b + 1)
    BY <1>1 DEF Closes
  <2> QED
    BY <1>1, <1>2, <1>5, <2>1, EndsAre
<1>7. ASSUME NEW e \in EndsIn(txt, t, o)
      PROVE  e <= b + 1
  <2>1. PICK n \in CountsIn(txt, t) : Closes(txt, p, stops, n, Closing(t), e)
    BY <1>1, <1>2, EndsAre
  <2>2. PICK x \in Reach(txt, p, stops, n) : e = x + 1
    BY <2>1 DEF Closes
  <2>3. n \in Nat
    BY DEF CountsIn
  <2>4. p <= b /\ Cut(txt, p, stops, b)
    BY <1>1, <1>2, <1>4
  <2>5. x <= b /\ x \in Nat
    <3>1. x \in Nat
      BY <1>2, <2>3, ReachBeyond
    <3>2. x <= b
      BY <1>2, <1>3, <2>3, <2>4, CutEnds
    <3> QED
      BY <3>1, <3>2
  <2> QED
    BY <2>2, <2>5
<1> QED
  BY <1>6, <1>7 DEF LongestEnd

LEMMA ListNone ==
  ASSUME NEW txt \in Seq(Chars), NEW t \in Lists, NEW o \in Nat,
         NEW b \in Nat, NEW m \in Nat, Cut(txt, o + Opening(t), Stops(t), b),
         b \in Reach(txt, o + Opening(t), Stops(t), m),
         After(txt, b, Stops(t)) = {},
         \/ b >= Len(txt)
         \/ At(txt, b) # Closing(t)
         \/ b = o + Opening(t) /\ t # char_str
  PROVE  EndsIn(txt, t, o) = {}
<1> SUFFICES ASSUME NEW e \in EndsIn(txt, t, o)
             PROVE  FALSE
  OBVIOUS
<1>1. PICK p, stops : p = o + Opening(t) /\ stops = Stops(t)
  OBVIOUS
<1>2. t \in WithChars /\ p \in Nat /\ 92 \notin stops /\ stops = {Closing(t)}
  <2>1. t \in WithChars
    BY DEF Lists, WithChars, char, char_except, char_str, char_alter
  <2> QED
    BY <1>1, <2>1, SignsClose, OpeningIs
<1>3. PICK n \in CountsIn(txt, t) : Closes(txt, p, stops, n, Closing(t), e)
  BY <1>1, <1>2, EndsAre
<1>4. PICK x \in Reach(txt, p, stops, n) : x < Len(txt) /\ At(txt, x) = Closing(t)
  BY <1>3 DEF Closes
<1>5. n \in Nat /\ (t # char_str => n # 0)
  BY DEF CountsIn, Lists, char, char_no_char, char_str, char_range, char_alter, char_except
<1>6. x \in Nat /\ p + n <= x
  BY <1>2, <1>5, ReachBeyond
<1>7. p <= b /\ Cut(txt, p, stops, b) /\ After(txt, b, stops) = {} /\ Len(txt) \in Nat
  <2>1. p + m <= b
    BY <1>1, <1>2, ReachBeyond
  <2>2. p <= b /\ Len(txt) \in Nat
    BY <1>2, <2>1
  <2> QED
    BY <1>1, <2>2
<1>8. x <= b
  BY <1>2, <1>5, <1>7, CutEnds
<1>9. ~(x < b)
  BY <1>2, <1>4, <1>5, <1>7 DEF Cut
<1> QED
  BY <1>1, <1>2, <1>4, <1>5, <1>6, <1>7, <1>8, <1>9

(* A token of one character. *)
LEMMA CharEnds ==
  ASSUME NEW txt \in Seq(Chars), NEW t \in {char, char_no_char}, NEW o \in Nat,
         OpenedIn(txt, t, o), NEW p, p = o + Opening(t)
  PROVE  \A e : e \in EndsIn(txt, t, o) <=>
           /\ After(txt, p, {}) # {} /\ e = Behind(txt, p) + 1
           /\ Behind(txt, p) < Len(txt) /\ At(txt, Behind(txt, p)) = 39
<1> SUFFICES ASSUME NEW e
             PROVE  e \in EndsIn(txt, t, o) <=>
                      /\ After(txt, p, {}) # {} /\ e = Behind(txt, p) + 1
                      /\ Behind(txt, p) < Len(txt) /\ At(txt, Behind(txt, p)) = 39
  OBVIOUS
<1>1. t \in WithChars /\ t \notin Lists
  BY DEF WithChars, Lists, char, char_no_char, char_except, char_str, char_alter
<1>2. p \in Nat /\ {} = Stops(t) /\ Closing(t) = 39 /\ CountsIn(txt, t) = {1}
  <2>1. Stops(t) = {}
    BY <1>1, SignsClose
  <2>2. Closing(t) = 39 /\ CountsIn(txt, t) = {1}
    BY DEF Closing, CountsIn, char, char_no_char, char_str, char_range, char_alter, char_except
  <2> QED
    BY <2>1, <2>2, OpeningIs
<1>3. \A x : x \in Reach(txt, p, {}, 1) <=> x \in After(txt, p, {})
  <2>1. Reach(txt, p, {}, 0) = {p} /\ 0 \in Nat /\ 0 + 1 = 1
    BY ReachIs
  <2>2. \A x : x \in Reach(txt, p, {}, 0 + 1) <=>
          \E k \in Reach(txt, p, {}, 0) : x \in After(txt, k, {})
    BY <2>1, ReachIs
  <2> QED
    BY <2>1, <2>2
<1>4. e \in EndsIn(txt, t, o) <=>
        \E x \in After(txt, p, {}) : x < Len(txt) /\ At(txt, x) = 39 /\ e = x + 1
  <2>1. PICK none : none = {} /\ none = Stops(t)
    BY <1>2
  <2>2. e \in EndsIn(txt, t, o) <=>
          OpenedIn(txt, t, o) /\ \E n \in CountsIn(txt, t) : Closes(txt, p, none, n, Closing(t), e)
    BY <1>1, <2>1, EndsAre
  <2>3. e \in EndsIn(txt, t, o) <=> Closes(txt, p, none, 1, 39, e)
    BY <1>2, <2>2
  <2> QED
    BY <1>3, <2>1, <2>3 DEF Closes
<1>5. ASSUME NEW x \in After(txt, p, {}), At(txt, x) = 39
      PROVE  x = Behind(txt, p)
  <2>1. /\ x \in Nat /\ x <= Behind(txt, p) /\ Behind(txt, p) \in Nat
        /\ x < Behind(txt, p) => At(txt, x) \in HexDigit
    BY <1>2, AfterWithin
  <2> QED
    BY <1>5, <2>1, DigitCodes
<1>6. After(txt, p, {}) # {} => Behind(txt, p) \in After(txt, p, {})
  BY <1>2, AfterWithin
<1> QED
  BY <1>4, <1>5, <1>6

(* A range: the second character begins where process_char takes the first to
   end, or else it is the last digit of the first. *)
LEMMA RangeEnds ==
  ASSUME NEW txt \in Seq(Chars), NEW o \in Nat, OpenedIn(txt, char_range, o),
         NEW p, p = o + 1, NEW g, g = Behind(txt, p)
  PROVE  \A e : e \in EndsIn(txt, char_range, o) <=>
           \/ /\ After(txt, p, {}) # {} /\ After(txt, g, {}) # {}
              /\ e = Behind(txt, g) + 1
              /\ Behind(txt, g) < Len(txt) /\ At(txt, Behind(txt, g)) = 62
           \/ g - 1 \in After(txt, p, {}) /\ e = g + 1 /\ g < Len(txt) /\ At(txt, g) = 62
<1> SUFFICES ASSUME NEW e
             PROVE  e \in EndsIn(txt, char_range, o) <=>
               \/ /\ After(txt, p, {}) # {} /\ After(txt, g, {}) # {}
                  /\ e = Behind(txt, g) + 1
                  /\ Behind(txt, g) < Len(txt) /\ At(txt, Behind(txt, g)) = 62
               \/ g - 1 \in After(txt, p, {}) /\ e = g + 1 /\ g < Len(txt) /\ At(txt, g) = 62
  OBVIOUS
<1>1. char_range \in WithChars /\ char_range \notin Lists /\ Opening(char_range) = 1
      /\ Closing(char_range) = 62 /\ CountsIn(txt, char_range) = {2}
  BY DEF WithChars, Lists, Opening, Closing, CountsIn, char, char_no_char, char_str, char_range,
         char_alter, char_except
<1>2. p \in Nat /\ Stops(char_range) = {} /\ g \in Nat
  BY <1>1, SignsClose, BehindIs
<1>3. \A x : x \in Reach(txt, p, {}, 2) <=>
        \E k \in After(txt, p, {}) : x \in After(txt, k, {})
  <2>1. Reach(txt, p, {}, 0) = {p} /\ 0 \in Nat /\ 0 + 1 = 1 /\ 1 \in Nat /\ 1 + 1 = 2
    BY ReachIs
  <2>2. \A x : x \in Reach(txt, p, {}, 0 + 1) <=>
          \E k \in Reach(txt, p, {}, 0) : x \in After(txt, k, {})
    BY <2>1, ReachIs
  <2>3. \A x : x \in Reach(txt, p, {}, 1 + 1) <=>
          \E k \in Reach(txt, p, {}, 1) : x \in After(txt, k, {})
    BY <2>1, ReachIs
  <2> QED
    BY <2>1, <2>2, <2>3
<1>4. e \in EndsIn(txt, char_range, o) <=>
        \E k \in After(txt, p, {}) : \E x \in After(txt, k, {}) :
          x < Len(txt) /\ At(txt, x) = 62 /\ e = x + 1
  <2>1. PICK t, none : t = char_range /\ none = {} /\ none = Stops(t) /\ p = o + Opening(t)
    BY <1>1, <1>2
  <2>2. e \in EndsIn(txt, t, o) <=>
          OpenedIn(txt, t, o) /\ \E n \in CountsIn(txt, t) : Closes(txt, p, none, n, Closing(t), e)
    BY <1>1, <2>1, EndsAre, ZenonT(30)
  <2>3. e \in EndsIn(txt, char_range, o) <=> Closes(txt, p, none, 2, 62, e)
    BY <1>1, <2>1, <2>2
  <2> QED
    BY <1>3, <2>1, <2>3 DEF Closes
<1>5. ASSUME NEW k \in After(txt, p, {}), NEW x \in After(txt, k, {}), At(txt, x) = 62
      PROVE  \/ x = Behind(txt, g) /\ After(txt, g, {}) # {}
             \/ x = g /\ g - 1 \in After(txt, p, {})
  <2>1. /\ k \in Nat /\ k <= g
        /\ k < g => At(txt, k) \in HexDigit /\ k + 1 \in After(txt, p, {})
    BY <1>2, AfterWithin
  <2>2. CASE k = g
    <3>1. /\ x \in Nat /\ x <= Behind(txt, g) /\ Behind(txt, g) \in Nat
          /\ x < Behind(txt, g) => At(txt, x) \in HexDigit
      BY <1>2, <2>2, AfterWithin
    <3> QED
      BY <1>5, <2>2, <3>1, DigitCodes
  <2>3. CASE k < g
    <3>1. After(txt, k, {}) = {k + 1}
      BY <2>1, <2>3, DigitGoesOn DEF Signs
    <3>2. x = k + 1 /\ x \in After(txt, p, {}) /\ k = x - 1
      BY <2>1, <2>3, <3>1
    <3>3. ~(x < g)
      <4>1. x < g => At(txt, x) \in HexDigit
        BY <1>2, <3>2, AfterWithin
      <4> QED
        BY <1>5, <4>1, DigitCodes
    <3>4. x = g
      BY <1>2, <2>1, <2>3, <3>2, <3>3
    <3> QED
      BY <3>2, <3>4
  <2> QED
    BY <1>2, <2>1, <2>2, <2>3
<1>6. ASSUME After(txt, p, {}) # {}, After(txt, g, {}) # {}
      PROVE  \E k \in After(txt, p, {}) : Behind(txt, g) \in After(txt, k, {})
  <2>1. g \in After(txt, p, {}) /\ Behind(txt, g) \in After(txt, g, {})
    BY <1>2, <1>6, AfterWithin
  <2> QED
    BY <2>1
<1>7. ASSUME g - 1 \in After(txt, p, {})
      PROVE  g \in After(txt, g - 1, {})
  <2>1. g - 1 \in Nat /\ g - 1 < g
    BY <1>2, <1>7, AfterWithin
  <2>2. At(txt, g - 1) \in HexDigit
    BY <1>2, <1>7, <2>1, AfterWithin
  <2>3. After(txt, g - 1, {}) = {g - 1 + 1}
    BY <2>1, <2>2, DigitGoesOn DEF Signs
  <2> QED
    BY <1>2, <2>3
<1> QED
  BY <1>4, <1>5, <1>6, <1>7

-----------------------------------------------------------------------------
(* The terminals are told apart by their first characters. *)
SignOf(t) ==
  IF t \in DOMAIN PlainChar THEN PlainChar[t]
  ELSE CASE t = char -> 39 [] t = char_no_char -> 33 [] t = char_str -> 34
         [] t = char_range -> 60 [] t = char_alter -> 91 [] t = char_except -> 124

LEMMA SignsDiffer ==
  /\ \A t, u \in char_eps .. alter : SignOf(t) = SignOf(u) => t = u
  /\ \A t \in char_eps .. alter : t \in DOMAIN PlainChar \/ t \in WithChars
  /\ \A t \in WithChars : t \in char_eps .. alter /\ t \notin DOMAIN PlainChar
  /\ \A t \in DOMAIN PlainChar : t \in char_eps .. alter
BY DEF SignOf, PlainChar, WithChars, char_eps, char_white, char_digit, char_letter, char,
       char_no_char, char_str, char_range, char_alter, char_except, lr_br, rr_br, iter,
       conc, alter

LEMMA OpenedAt ==
  ASSUME NEW txt, NEW t \in WithChars, NEW o, OpenedIn(txt, t, o)
  PROVE  At(txt, o) = SignOf(t)
<1>1. t \notin DOMAIN PlainChar
  BY SignsDiffer
<1>2. t \in {char, char_no_char, char_str, char_range, char_alter, char_except}
  BY DEF WithChars, char, char_no_char, char_str, char_range, char_alter, char_except
<1>3. CASE t = char
  BY <1>1, <1>3 DEF OpenedIn, SignOf, char, char_no_char, char_str, char_range, char_alter,
                    char_except
<1>4. CASE t = char_no_char
  BY <1>1, <1>4 DEF OpenedIn, SignOf, char, char_no_char, char_str, char_range, char_alter,
                    char_except
<1>5. CASE t = char_str
  BY <1>1, <1>5 DEF OpenedIn, SignOf, char, char_no_char, char_str, char_range, char_alter,
                    char_except
<1>6. CASE t = char_range
  BY <1>1, <1>6 DEF OpenedIn, SignOf, char, char_no_char, char_str, char_range, char_alter,
                    char_except
<1>7. CASE t = char_alter
  BY <1>1, <1>7 DEF OpenedIn, SignOf, char, char_no_char, char_str, char_range, char_alter,
                    char_except
<1>8. CASE t = char_except
  BY <1>1, <1>8 DEF OpenedIn, SignOf, char, char_no_char, char_str, char_range, char_alter,
                    char_except
<1> QED
  BY <1>2, <1>3, <1>4, <1>5, <1>6, <1>7, <1>8

LEMMA EndsAt ==
  ASSUME NEW txt, NEW t \in char_eps .. alter, NEW o, NEW e \in EndsIn(txt, t, o)
  PROVE  At(txt, o) = SignOf(t)
<1>1. CASE t \in DOMAIN PlainChar
  BY <1>1 DEF EndsIn, SignOf
<1>2. CASE t \in WithChars
  <2>1. PICK p, stops : p = o + Opening(t) /\ stops = Stops(t)
    OBVIOUS
  <2>2. OpenedIn(txt, t, o)
    BY <1>2, <2>1, EndsAre
  <2> QED
    BY <1>2, <2>2, OpenedAt
<1> QED
  BY <1>1, <1>2, SignsDiffer

(* A token that begins with the sign of t is one of t. *)
LEMMA AllEndsAre ==
  ASSUME NEW txt, NEW t \in char_eps .. alter, NEW o, At(txt, o) = SignOf(t)
  PROVE  AllEndsIn(txt, o) = EndsIn(txt, t, o)
<1>1. \A u \in char_eps .. alter : \A e \in EndsIn(txt, u, o) : u = t
  BY EndsAt, SignsDiffer
<1> QED
  BY <1>1 DEF AllEndsIn

LEMMA PlainEnds ==
  ASSUME NEW txt, NEW t \in DOMAIN PlainChar, NEW o, At(txt, o) = PlainChar[t]
  PROVE  EndsIn(txt, t, o) = {o + 1} /\ At(txt, o) = SignOf(t)
BY DEF EndsIn, SignOf

LEMMA NoneBegins ==
  ASSUME NEW txt, NEW o, \A t \in char_eps .. alter : At(txt, o) # SignOf(t)
  PROVE  AllEndsIn(txt, o) = {}
<1>1. \A u \in char_eps .. alter : \A e \in EndsIn(txt, u, o) : FALSE
  BY EndsAt
<1> QED
  BY <1>1 DEF AllEndsIn

LEMMA LongestIsMax ==
  ASSUME NEW S \in SUBSET Int, NEW i \in S, \A e \in S : e <= i
  PROVE  i = Max(S)
<1>1. i \in S /\ \A y \in S : i >= y
  OBVIOUS
<1>2. \A x \in S : (\A y \in S : x >= y) => x = i
  <2> TAKE x \in S
  <2>1. x \in Int /\ i \in Int /\ x <= i
    OBVIOUS
  <2> QED
    BY <2>1
<1> QED
  BY <1>1, <1>2 DEF Max

-----------------------------------------------------------------------------
(* The rows of the automaton. *)
LEMMA PartsOfTable ==
  ASSUME NEW c
  PROVE  /\ LexMove(0, c) = MovesFromStart(c)
         /\ \A s \in 1 .. 11 : LexMove(s, c) = Moves1To11(s, c)
         /\ \A s \in 12 .. 18 : LexMove(s, c) = Moves12To18(s, c)
         /\ \A s \in 19 .. 21 : LexMove(s, c) = Moves19To21(s, c)
         /\ \A s \in 22 .. 25 : LexMove(s, c) = Moves22To25(s, c)
         /\ \A s \in 26 .. 28 : LexMove(s, c) = Moves26To28(s, c)
         /\ \A s \in 29 .. 35 : LexMove(s, c) = Moves29To35(s, c)
         /\ \A s \in 36 .. 40 : LexMove(s, c) = Moves36To40(s, c)
         /\ \A s \in 41 .. 48 : LexMove(s, c) = Moves41To48(s, c)
         /\ \A s \in 49 .. 56 : LexMove(s, c) = Moves49To56(s, c)
         /\ \A s \in 57 .. 64 : LexMove(s, c) = Moves57To64(s, c)
         /\ \A s \in 65 .. 71 : LexMove(s, c) = Moves65To71(s, c)
         /\ \A s \in 72 .. 77 : LexMove(s, c) = Moves72To77(s, c)
<1>1. ASSUME NEW s \in 1 .. 11
      PROVE  LexMove(s, c) = Moves1To11(s, c)
  BY DEF LexMove
<1>2. ASSUME NEW s \in 12 .. 18
      PROVE  LexMove(s, c) = Moves12To18(s, c)
  BY DEF LexMove
<1>3. ASSUME NEW s \in 19 .. 21
      PROVE  LexMove(s, c) = Moves19To21(s, c)
  BY DEF LexMove
<1>4. ASSUME NEW s \in 22 .. 25
      PROVE  LexMove(s, c) = Moves22To25(s, c)
  BY DEF LexMove
<1>5. ASSUME NEW s \in 26 .. 28
      PROVE  LexMove(s, c) = Moves26To28(s, c)
  BY DEF LexMove
<1>6. ASSUME NEW s \in 29 .. 35
      PROVE  LexMove(s, c) = Moves29To35(s, c)
  BY DEF LexMove
<1>7. ASSUME NEW s \in 36 .. 40
      PROVE  LexMove(s, c) = Moves36To40(s, c)
  BY DEF LexMove
<1>8. ASSUME NEW s \in 41 .. 48
      PROVE  LexMove(s, c) = Moves41To48(s, c)
  BY DEF LexMove
<1>9. ASSUME NEW s \in 49 .. 56
      PROVE  LexMove(s, c) = Moves49To56(s, c)
  BY DEF LexMove
<1>10. ASSUME NEW s \in 57 .. 64
      PROVE  LexMove(s, c) = Moves57To64(s, c)
  BY DEF LexMove
<1>11. ASSUME NEW s \in 65 .. 71
      PROVE  LexMove(s, c) = Moves65To71(s, c)
  BY DEF LexMove
<1>12. ASSUME NEW s \in 72 .. 77
      PROVE  LexMove(s, c) = Moves72To77(s, c)
  BY DEF LexMove
<1>13. LexMove(0, c) = MovesFromStart(c)
  BY DEF LexMove
<1> QED
  BY <1>1, <1>2, <1>3, <1>4, <1>5, <1>6, <1>7, <1>8, <1>9, <1>10, <1>11, <1>12, <1>13

(* What a character c does that is read behind cnt characters of t. *)
Up(t, cnt) == IF t \in Lists THEN 1 ELSE cnt + 1
Full(t, cnt) == t \notin Lists /\ cnt = Counted(t)

BaseMove(t, cnt, c, m) ==
  CASE t \in Lists /\ c = Closing(t) ->
         IF cnt = 1 THEN <<m, t>> \in ClosedBy ELSE m = NotExist
    [] Full(t, cnt) -> IF c = Closing(t) THEN <<m, t>> \in ClosedBy ELSE m = NotExist
    [] OTHER -> IF c = 92 THEN <<m, t, cnt>> \in Spots("esc")
                ELSE <<m, t, Up(t, cnt)>> \in Spots("base")

EscapeMove(t, cnt, c, m) ==
  CASE c \in SimpleEscape -> <<m, t, Up(t, cnt)>> \in Spots("base")
    [] c \in Octal -> <<m, t, cnt>> \in Spots("oct1")
    [] c = 120 -> <<m, t, cnt>> \in Spots("hex0")
    [] OTHER -> m = NotExist

(* Behind all digits of a number but one: the first character of a range is
   told apart from one that the last digit is not part of. *)
LastMove(t, cnt, digits, c, m) ==
  IF t = char_range /\ cnt = 0
    THEN CASE c \in digits -> m = 70
           [] c = 62 -> IF digits = Octal THEN m = 71 ELSE BaseMove(t, 1, c, m)
           [] OTHER -> BaseMove(t, 1, c, m)
    ELSE IF c \in digits THEN <<m, t, Up(t, cnt)>> \in Spots("base")
         ELSE BaseMove(t, Up(t, cnt), c, m)

(* Within the signs, where a character is not begun. *)
LEMMA BaseRows ==
  ASSUME NEW c, NEW s, NEW t \in WithChars, NEW cnt, <<s, t, cnt>> \in Spots("base")
  PROVE  BaseMove(t, cnt, c, LexMove(s, c))
<1> USE DEF char, char_no_char, char_str, char_range, char_alter, char_except
<1>1. CASE t = char
  BY <1>1, PartsOfTable DEF Moves1To11, Moves22To25, BaseMove, Full, Lists, Up,
                          Counted, Closing, Spots, ClosedBy, To, Only
<1>2. CASE t = char_no_char
  BY <1>2, PartsOfTable DEF Moves12To18, Moves29To35, BaseMove, Full, Lists, Up,
                          Counted, Closing, Spots, ClosedBy, To, Only
<1>3. CASE t = char_str
  BY <1>3, PartsOfTable DEF Moves1To11, BaseMove, Full, Lists, Up, Counted,
                          Closing, Spots, ClosedBy, InStr, To, Only
<1>4. CASE t = char_range
  BY <1>4, PartsOfTable DEF Moves1To11, Moves22To25, Moves36To40, BaseMove, Full,
                          Lists, Up, Counted, Closing, Spots, ClosedBy,
                          RangeSecond, To, Only
<1>5. CASE t = char_alter
  BY <1>5, PartsOfTable DEF Moves1To11, Moves22To25, BaseMove, Full, Lists, Up,
                          Counted, Closing, Spots, ClosedBy, InAlter, To, Only
<1>6. CASE t = char_except
  BY <1>6, PartsOfTable DEF Moves12To18, Moves26To28, BaseMove, Full, Lists, Up,
                          Counted, Closing, Spots, ClosedBy, InExcept, To, Only
<1> QED
  BY <1>1, <1>2, <1>3, <1>4, <1>5, <1>6 DEF WithChars

(* Behind a backslash. *)
LEMMA EscapeRows ==
  ASSUME NEW c, NEW s, NEW t \in WithChars, NEW cnt, <<s, t, cnt>> \in Spots("esc")
  PROVE  EscapeMove(t, cnt, c, LexMove(s, c))
<1> USE DEF char, char_no_char, char_str, char_range, char_alter, char_except
<1>1. CASE t = char
  BY <1>1, PartsOfTable DEF Moves19To21, EscapeMove, Escape, Up, Lists, Spots,
                          SimpleEscape, Octal
<1>2. CASE t = char_no_char
  BY <1>2, PartsOfTable DEF Moves29To35, EscapeMove, Escape, Up, Lists, Spots,
                          SimpleEscape, Octal
<1>3. CASE t = char_str
  BY <1>3, PartsOfTable DEF Moves19To21, EscapeMove, Escape, Up, Lists, Spots,
                          SimpleEscape, Octal
<1>4. CASE t = char_range
  BY <1>4, PartsOfTable DEF Moves22To25, Moves36To40, EscapeMove, Escape, Up,
                          Lists, Spots, SimpleEscape, Octal
<1>5. CASE t = char_alter
  BY <1>5, PartsOfTable DEF Moves26To28, Moves36To40, EscapeMove, Escape, Up,
                          Lists, Spots, SimpleEscape, Octal
<1>6. CASE t = char_except
  BY <1>6, PartsOfTable DEF Moves26To28, Moves41To48, EscapeMove, Escape, Up,
                          Lists, Spots, SimpleEscape, Octal
<1> QED
  BY <1>1, <1>2, <1>3, <1>4, <1>5, <1>6 DEF WithChars

(* Behind a backslash and an octal digit. *)
LEMMA OctalRows ==
  ASSUME NEW c, NEW s, NEW t \in WithChars, NEW cnt, <<s, t, cnt>> \in Spots("oct1")
  PROVE  IF c \in Octal THEN <<LexMove(s, c), t, cnt>> \in Spots("oct2")
         ELSE BaseMove(t, Up(t, cnt), c, LexMove(s, c))
<1> USE DEF char, char_no_char, char_str, char_range, char_alter, char_except
<1>1. CASE t = char
  BY <1>1, PartsOfTable DEF Moves29To35, BaseMove, Full, Lists, Up, Counted,
                          Closing, Spots, ClosedBy, Octal, To, Only
<1>2. CASE t = char_no_char
  BY <1>2, PartsOfTable DEF Moves41To48, BaseMove, Full, Lists, Up, Counted,
                          Closing, Spots, ClosedBy, Octal, To, Only
<1>3. CASE t = char_str
  BY <1>3, PartsOfTable DEF Moves29To35, BaseMove, Full, Lists, Up, Counted,
                          Closing, Spots, ClosedBy, Octal, InStr, To, Only
<1>4. CASE t = char_range
  BY <1>4, PartsOfTable DEF Moves36To40, Moves57To64, BaseMove, Full, Lists, Up,
                          Counted, Closing, Spots, ClosedBy, Octal, RangeSecond,
                          To, Only
<1>5. CASE t = char_alter
  BY <1>5, PartsOfTable DEF Moves41To48, Moves57To64, BaseMove, Full, Lists, Up,
                          Counted, Closing, Spots, ClosedBy, Octal, InAlter, To,
                          Only
<1>6. CASE t = char_except
  BY <1>6, PartsOfTable DEF Moves41To48, Moves57To64, BaseMove, Full, Lists, Up,
                          Counted, Closing, Spots, ClosedBy, Octal, InExcept, To,
                          Only
<1> QED
  BY <1>1, <1>2, <1>3, <1>4, <1>5, <1>6 DEF WithChars

(* Behind \\x. *)
LEMMA HexRows ==
  ASSUME NEW c, NEW s, NEW t \in WithChars, NEW cnt, <<s, t, cnt>> \in Spots("hex0")
  PROVE  IF c \in HexDigit THEN <<LexMove(s, c), t, cnt>> \in Spots("hex1")
         ELSE LexMove(s, c) = NotExist
<1> USE DEF char, char_no_char, char_str, char_range, char_alter, char_except
<1>1. CASE t = char
  BY <1>1, PartsOfTable DEF Moves29To35, Spots, To, Only
<1>2. CASE t = char_no_char
  BY <1>2, PartsOfTable DEF Moves49To56, Spots, To, Only
<1>3. CASE t = char_str
  BY <1>3, PartsOfTable DEF Moves29To35, Spots, To, Only
<1>4. CASE t = char_range
  BY <1>4, PartsOfTable DEF Moves36To40, Moves57To64, Spots, To, Only
<1>5. CASE t = char_alter
  BY <1>5, PartsOfTable DEF Moves41To48, Moves57To64, Spots, To, Only
<1>6. CASE t = char_except
  BY <1>6, PartsOfTable DEF Moves41To48, Moves65To71, Spots, To, Only
<1> QED
  BY <1>1, <1>2, <1>3, <1>4, <1>5, <1>6 DEF WithChars

(* Behind two octal digits. *)
LEMMA TwoOctalRows ==
  ASSUME NEW c, NEW s, NEW t \in WithChars, NEW cnt, <<s, t, cnt>> \in Spots("oct2")
  PROVE  LastMove(t, cnt, Octal, c, LexMove(s, c))
<1> USE DEF char, char_no_char, char_str, char_range, char_alter, char_except
<1>1. CASE t = char
  BY <1>1, PartsOfTable DEF Moves49To56, LastMove, BaseMove, Full, Lists, Up,
                          Counted, Closing, Spots, ClosedBy, To, Only, Octal
<1>2. CASE t = char_no_char
  BY <1>2, PartsOfTable DEF Moves65To71, LastMove, BaseMove, Full, Lists, Up,
                          Counted, Closing, Spots, ClosedBy, To, Only, Octal
<1>3. CASE t = char_str
  BY <1>3, PartsOfTable DEF Moves49To56, LastMove, BaseMove, Full, Lists, Up,
                          Counted, Closing, Spots, ClosedBy, InStr, To, Only,
                          Octal
<1>4. CASE t = char_range
  BY <1>4, PartsOfTable DEF Moves49To56, Moves72To77, LastMove, BaseMove, Full,
                          Lists, Up, Counted, Closing, Spots, ClosedBy,
                          RangeSecond, To, Only, Octal
<1>5. CASE t = char_alter
  BY <1>5, PartsOfTable DEF Moves57To64, Moves72To77, LastMove, BaseMove, Full,
                          Lists, Up, Counted, Closing, Spots, ClosedBy, InAlter,
                          To, Only, Octal
<1>6. CASE t = char_except
  BY <1>6, PartsOfTable DEF Moves65To71, Moves72To77, LastMove, BaseMove, Full,
                          Lists, Up, Counted, Closing, Spots, ClosedBy, InExcept,
                          To, Only, Octal
<1> QED
  BY <1>1, <1>2, <1>3, <1>4, <1>5, <1>6 DEF WithChars

(* Behind \\x and a digit. *)
LEMMA OneHexRows ==
  ASSUME NEW c, NEW s, NEW t \in WithChars, NEW cnt, <<s, t, cnt>> \in Spots("hex1")
  PROVE  LastMove(t, cnt, HexDigit, c, LexMove(s, c))
<1> USE DEF char, char_no_char, char_str, char_range, char_alter, char_except
<1>1. CASE t = char
  BY <1>1, PartsOfTable DEF Moves49To56, LastMove, BaseMove, Full, Lists, Up,
                          Counted, Closing, Spots, ClosedBy, To, Only, HexDigit
<1>2. CASE t = char_no_char
  BY <1>2, PartsOfTable DEF Moves65To71, LastMove, BaseMove, Full, Lists, Up,
                          Counted, Closing, Spots, ClosedBy, To, Only, HexDigit
<1>3. CASE t = char_str
  BY <1>3, PartsOfTable DEF Moves49To56, LastMove, BaseMove, Full, Lists, Up,
                          Counted, Closing, Spots, ClosedBy, InStr, To, Only,
                          HexDigit
<1>4. CASE t = char_range
  BY <1>4, PartsOfTable DEF Moves49To56, Moves72To77, LastMove, BaseMove, Full,
                          Lists, Up, Counted, Closing, Spots, ClosedBy,
                          RangeSecond, To, Only, Octal, HexDigit
<1>5. CASE t = char_alter
  BY <1>5, PartsOfTable DEF Moves57To64, Moves72To77, LastMove, BaseMove, Full,
                          Lists, Up, Counted, Closing, Spots, ClosedBy, InAlter,
                          To, Only, HexDigit
<1>6. CASE t = char_except
  BY <1>6, PartsOfTable DEF Moves65To71, Moves72To77, LastMove, BaseMove, Full,
                          Lists, Up, Counted, Closing, Spots, ClosedBy, InExcept,
                          To, Only, HexDigit
<1> QED
  BY <1>1, <1>2, <1>3, <1>4, <1>5, <1>6 DEF WithChars

(* The first character of a token. *)
Openers == {<<3, char_str, 34>>, <<4, char, 39>>, <<10, char_range, 60>>,
            <<11, char_alter, 91>>, <<16, char_except, 124>>}

StartMove(c, m) ==
  \/ c \in White /\ m = 17
  \/ c = 0 /\ m = 1
  \/ c = 33 /\ m = 2
  \/ \E t \in DOMAIN PlainChar : <<m, t>> \in PlainStates /\ c = PlainChar[t]
  \/ \E t \in WithChars : <<m, t, c>> \in Openers
  \/ m = NotExist /\ c \notin White /\ c \notin ToSet(FirstChar)

LEMMA PlainRows ==
  \A i \in {5, 6, 7, 8, 9, 12, 13, 14, 15} :
    \E t \in DOMAIN PlainChar : <<i, t>> \in PlainStates /\ FirstChar[i] = PlainChar[t]
<1> USE DEF FirstChar, PlainStates, PlainChar, char_eps, char_white, char_digit, char_letter,
            lr_br, rr_br, iter, conc, alter
<1>1. <<5, lr_br>> \in PlainStates /\ lr_br \in DOMAIN PlainChar /\ FirstChar[5] = PlainChar[lr_br]
  OBVIOUS
<1>2. <<6, rr_br>> \in PlainStates /\ rr_br \in DOMAIN PlainChar /\ FirstChar[6] = PlainChar[rr_br]
  OBVIOUS
<1>3. <<7, iter>> \in PlainStates /\ iter \in DOMAIN PlainChar /\ FirstChar[7] = PlainChar[iter]
  OBVIOUS
<1>4. <<8, alter>> \in PlainStates /\ alter \in DOMAIN PlainChar /\ FirstChar[8] = PlainChar[alter]
  OBVIOUS
<1>5. <<9, conc>> \in PlainStates /\ conc \in DOMAIN PlainChar /\ FirstChar[9] = PlainChar[conc]
  OBVIOUS
<1>6. <<12, char_digit>> \in PlainStates /\ char_digit \in DOMAIN PlainChar
      /\ FirstChar[12] = PlainChar[char_digit]
  OBVIOUS
<1>7. <<13, char_eps>> \in PlainStates /\ char_eps \in DOMAIN PlainChar
      /\ FirstChar[13] = PlainChar[char_eps]
  OBVIOUS
<1>8. <<14, char_letter>> \in PlainStates /\ char_letter \in DOMAIN PlainChar
      /\ FirstChar[14] = PlainChar[char_letter]
  OBVIOUS
<1>9. <<15, char_white>> \in PlainStates /\ char_white \in DOMAIN PlainChar
      /\ FirstChar[15] = PlainChar[char_white]
  OBVIOUS
<1> HIDE DEF FirstChar, PlainStates, PlainChar, char_eps, char_white, char_digit, char_letter,
             lr_br, rr_br, iter, conc, alter
<1> QED
  BY <1>1, <1>2, <1>3, <1>4, <1>5, <1>6, <1>7, <1>8, <1>9

LEMMA StartRow ==
  ASSUME NEW c
  PROVE  StartMove(c, LexMove(0, c))
<1>1. LexMove(0, c) = MovesFromStart(c)
  BY PartsOfTable
<1>2. ASSUME NEW i \in 1 .. 16, FirstChar[i] = c, c \notin White
      PROVE  LexMove(0, c) = i
  <2>1. \A j \in 1 .. 16 : FirstChar[j] = c => j = i
    BY <1>2 DEF FirstChar
  <2>2. Len(FirstChar) = 16 /\ c \in ToSet(FirstChar)
    BY <1>2 DEF FirstChar, ToSet
  <2>3. {j \in 1 .. 16 : FirstChar[j] = c} = {i}
    BY <1>2, <2>1
  <2>4. SelectInSeq(FirstChar, LAMBDA d : d = c) = i
    BY <2>2, <2>3 DEF SelectInSeq, Min
  <2> QED
    BY <1>1, <1>2, <2>2, <2>4 DEF MovesFromStart
<1>3. CASE c \in White
  BY <1>1, <1>3 DEF MovesFromStart, StartMove
<1>4. CASE c \notin White /\ c \notin ToSet(FirstChar)
  BY <1>1, <1>4 DEF MovesFromStart, StartMove
<1>5. CASE c \notin White /\ c \in ToSet(FirstChar)
  <2>1. PICK i \in 1 .. 16 : FirstChar[i] = c
    BY <1>5 DEF FirstChar, ToSet
  <2>2. LexMove(0, c) = i
    BY <1>2, <1>5, <2>1
  <2>3. CASE i \in {1, 2}
    BY <2>1, <2>2, <2>3 DEF FirstChar, StartMove
  <2>4. CASE i \in {3, 4, 10, 11, 16}
    BY <2>1, <2>2, <2>4 DEF FirstChar, StartMove, Openers, WithChars, char, char_no_char,
       char_str, char_range, char_alter, char_except
  <2>5. CASE i \in {5, 6, 7, 8, 9, 12, 13, 14, 15}
    BY <2>1, <2>2, <2>5, PlainRows DEF StartMove
  <2> QED
    BY <2>3, <2>4, <2>5
<1> QED
  BY <1>3, <1>4, <1>5

LEMMA OtherRows ==
  ASSUME NEW c
  PROVE  /\ LexMove(1, c) = NotExist
         /\ LexMove(2, c) = IF c = 39 THEN 18 ELSE NotExist
         /\ LexMove(17, c) = IF c \in White THEN 17 ELSE NotExist
         /\ \A s, t : <<s, t>> \in PlainStates \union ClosedBy => LexMove(s, c) = NotExist
         /\ LexMove(70, c) = IF c = 62 THEN 71 ELSE RangeSecond(c)
         /\ LexMove(71, c) = IF c = 62 THEN 59 ELSE NotExist
<1>1. LexMove(1, c) = NotExist /\ LexMove(2, c) = IF c = 39 THEN 18 ELSE NotExist
  BY PartsOfTable DEF Moves1To11, Only, To
<1>2. LexMove(17, c) = IF c \in White THEN 17 ELSE NotExist
  BY PartsOfTable DEF Moves12To18, Only, To
<1>3. ASSUME NEW s \in {5, 6, 7, 8, 9}
      PROVE  LexMove(s, c) = NotExist
  BY PartsOfTable DEF Moves1To11
<1>4. ASSUME NEW s \in {12, 13, 14, 15}
      PROVE  LexMove(s, c) = NotExist
  BY PartsOfTable DEF Moves12To18
<1>5. LexMove(19, c) = NotExist /\ LexMove(35, c) = NotExist /\ LexMove(41, c) = NotExist
  BY PartsOfTable DEF Moves19To21, Moves29To35, Moves41To48
<1>6. LexMove(45, c) = NotExist /\ LexMove(50, c) = NotExist /\ LexMove(59, c) = NotExist
  BY PartsOfTable DEF Moves41To48, Moves49To56, Moves57To64
<1>7. /\ LexMove(70, c) = IF c = 62 THEN 71 ELSE RangeSecond(c)
      /\ LexMove(71, c) = IF c = 62 THEN 59 ELSE NotExist
  BY PartsOfTable DEF Moves65To71, Only, To
<1>8. \A s, t : <<s, t>> \in PlainStates => s \in {5, 6, 7, 8, 9} \union {12, 13, 14, 15}
  BY DEF PlainStates
<1>9. \A s, t : <<s, t>> \in ClosedBy => s \in {19, 35, 41, 45, 50, 59}
  BY DEF ClosedBy
<1>10. \A s, t : <<s, t>> \in PlainStates \union ClosedBy => LexMove(s, c) = NotExist
  BY <1>3, <1>4, <1>5, <1>6, <1>8, <1>9
<1> QED
  BY <1>1, <1>2, <1>7, <1>10

LEMMA FinalStates ==
  /\ LexFinal(0) = NotExist /\ LexFinal(1) = reg_end /\ LexFinal(2) = NotExist
  /\ LexFinal(17) = skip /\ LexFinal(71) = char_range
  /\ \A s, t : <<s, t>> \in PlainStates \union ClosedBy => LexFinal(s) = t
  /\ \A role \in Roles : \A s, t, cnt : <<s, t, cnt>> \in Spots(role) => LexFinal(s) = NotExist
<1>1. /\ LexFinal(0) = NotExist /\ LexFinal(1) = reg_end /\ LexFinal(2) = NotExist
      /\ LexFinal(17) = skip /\ LexFinal(71) = char_range
  BY DEF LexFinal
<1>2. \A s, t : <<s, t>> \in PlainStates \union ClosedBy => LexFinal(s) = t
  BY DEF LexFinal, PlainStates, ClosedBy
<1>3. \A s, t, cnt : <<s, t, cnt>> \in Spots("base") => LexFinal(s) = NotExist
  BY DEF LexFinal, Spots
<1>4. \A s, t, cnt : <<s, t, cnt>> \in Spots("esc") => LexFinal(s) = NotExist
  BY DEF LexFinal, Spots
<1>5. \A s, t, cnt : <<s, t, cnt>> \in Spots("oct1") => LexFinal(s) = NotExist
  BY DEF LexFinal, Spots
<1>6. \A s, t, cnt : <<s, t, cnt>> \in Spots("hex0") => LexFinal(s) = NotExist
  BY DEF LexFinal, Spots
<1>7. \A s, t, cnt : <<s, t, cnt>> \in Spots("oct2") => LexFinal(s) = NotExist
  BY DEF LexFinal, Spots
<1>8. \A s, t, cnt : <<s, t, cnt>> \in Spots("hex1") => LexFinal(s) = NotExist
  BY DEF LexFinal, Spots
<1>9. \A s, t, cnt : <<s, t, cnt>> \in Spots("full") => LexFinal(s) = NotExist
  BY DEF LexFinal, Spots
<1> QED
  BY <1>1, <1>2, <1>3, <1>4, <1>5, <1>6, <1>7, <1>8, <1>9 DEF Roles

(* There may be more characters of t behind cnt. *)
Open(t, cnt) ==
  IF t \in Lists THEN cnt \in {0, 1} /\ (cnt = 0 => t # char_str)
                 ELSE cnt \in 0 .. Counted(t) - 1

LEMMA CountsAre ==
  /\ \A t \in WithChars : t \notin Lists => t \in {char, char_no_char, char_range}
  /\ \A t \in {char, char_no_char} : t \notin Lists /\ t # char_range /\ Counted(t) = 1
       /\ Closing(t) = 39 /\ t \in WithChars
  /\ char_range \notin Lists /\ Counted(char_range) = 2 /\ Closing(char_range) = 62
  /\ char_range \in WithChars /\ Opening(char_range) = 1
  /\ Lists \subseteq WithChars
BY DEF WithChars, Lists, Counted, Closing, Opening, char, char_no_char, char_str, char_range,
       char_alter, char_except

(* One more character was read. *)
LEMMA Advance ==
  ASSUME NEW txt \in Seq(Chars), NEW p \in Nat, NEW b \in Nat, NEW t \in WithChars, NEW cnt,
         Open(t, cnt), Progress(txt, t, p, cnt, b), After(txt, b, Stops(t)) # {},
         t = char_range /\ cnt = 0 => Lone(txt, b)
  PROVE  Progress(txt, t, p, Up(t, cnt), Behind(txt, b)) /\ Behind(txt, b) \in Nat
<1>1. Signs(Stops(t)) /\ 92 \notin Stops(t)
  BY SignsClose
<1>2. CASE t \in Lists
  <2>1. PICK n \in Nat : b \in Reach(txt, p, Stops(t), n)
    BY <1>2 DEF Progress
  <2>2. Cut(txt, p, Stops(t), b)
    BY <1>2 DEF Progress
  <2>3. /\ Behind(txt, b) \in Reach(txt, p, Stops(t), n + 1)
        /\ Cut(txt, p, Stops(t), Behind(txt, b)) /\ Behind(txt, b) \in Nat
    BY <1>1, <2>1, <2>2, CutMoves
  <2>4. n + 1 \in Nat /\ n + 1 # 0
    OBVIOUS
  <2> QED
    BY <1>2, <2>3, <2>4 DEF Progress, Up
<1>3. CASE t \notin Lists
  <2>1. Stops(t) = {} /\ Behind(txt, b) \in Nat
    BY <1>3, SignsClose, BehindIs
  <2>2. CASE t \in {char, char_no_char}
    <3>1. cnt = 0 /\ t # char_range
      BY <1>3, <2>2, CountsAre DEF Open
    <3>2. b = p /\ Up(t, cnt) = 1
      BY <1>3, <3>1 DEF Up, Progress
    <3>3. After(txt, p, {}) # {} /\ Behind(txt, b) = Behind(txt, p)
      BY <2>1, <3>2
    <3>4. Progress(txt, t, p, 1, Behind(txt, p))
      BY <1>3, <3>1, <3>3 DEF Progress
    <3> QED
      BY <2>1, <3>2, <3>3, <3>4
  <2>3. CASE t = char_range
    <3>1. CASE cnt = 0
      <4>1. b = p /\ Up(t, cnt) = 1 /\ Lone(txt, p)
        BY <1>3, <2>3, <3>1 DEF Up, Progress
      <4> QED
        BY <1>3, <2>1, <4>1 DEF Progress
    <3>2. CASE cnt = 1
      <4>1. /\ b = Behind(txt, p) /\ Up(t, cnt) = 2 /\ Lone(txt, p)
            /\ After(txt, p, {}) # {}
        BY <1>3, <2>3, <3>2 DEF Up, Progress
      <4> QED
        BY <1>3, <2>1, <4>1 DEF Progress
    <3> QED
      BY <1>3, <2>3, <3>1, <3>2, CountsAre DEF Open
  <2> QED
    BY <1>3, <2>2, <2>3, CountsAre
<1> QED
  BY <1>2, <1>3

(* No more character can be read, and there have to be more. *)
LEMMA Stuck ==
  ASSUME NEW txt \in Seq(Chars), NEW o \in Nat, NEW t \in WithChars, NEW b \in Nat, NEW cnt,
         OpenedIn(txt, t, o), Open(t, cnt), Progress(txt, t, o + Opening(t), cnt, b),
         After(txt, b, Stops(t)) = {},
         b >= Len(txt) \/ At(txt, b) # Closing(t) \/ (t \in Lists /\ cnt = 0)
  PROVE  EndsIn(txt, t, o) = {}
<1>1. PICK p : p = o + Opening(t) /\ p \in Nat
  BY OpeningIs
<1>2. CASE t \in Lists
  <2>1. PICK n \in Nat : b \in Reach(txt, o + Opening(t), Stops(t), n)
    BY <1>2 DEF Progress
  <2>2. Cut(txt, o + Opening(t), Stops(t), b)
    BY <1>2 DEF Progress
  <2>3. CASE b >= Len(txt)
    BY <1>2, <2>1, <2>2, <2>3, ListNone
  <2>4. CASE At(txt, b) # Closing(t)
    BY <1>2, <2>1, <2>2, <2>4, ListNone
  <2>5. CASE cnt = 0
    <3>1. b = o + Opening(t) /\ t # char_str
      BY <1>2, <2>5 DEF Progress, Open
    <3> QED
      BY <1>2, <2>1, <2>2, <3>1, ListNone
  <2> QED
    BY <2>3, <2>4, <2>5
<1>3. CASE t \notin Lists
  <2>1. Stops(t) = {}
    BY <1>3, SignsClose
  <2>2. CASE t \in {char, char_no_char}
    <3>1. cnt = 0
      BY <1>3, <2>2, CountsAre DEF Open
    <3>2. b = p
      BY <1>1, <1>3, <3>1 DEF Progress
    <3>3. \A e : e \in EndsIn(txt, t, o) => After(txt, p, {}) # {}
      BY <1>1, <2>2, CharEnds
    <3> QED
      BY <2>1, <3>2, <3>3
  <2>3. CASE t = char_range
    <3>1. PICK g : g = Behind(txt, p)
      OBVIOUS
    <3>2. p = o + 1 /\ OpenedIn(txt, char_range, o)
      BY <1>1, <2>3, CountsAre
    <3>3. \A e : e \in EndsIn(txt, char_range, o) =>
            \/ After(txt, p, {}) # {} /\ After(txt, g, {}) # {}
            \/ g - 1 \in After(txt, p, {}) /\ g < Len(txt) /\ At(txt, g) = 62
      BY <3>1, <3>2, RangeEnds
    <3>4. CASE cnt = 0
      <4>1. b = p
        BY <1>1, <1>3, <2>3, <3>4 DEF Progress
      <4> QED
        BY <2>1, <2>3, <3>3, <4>1
    <3>5. CASE cnt = 1
      <4>1. b = g
        BY <1>1, <1>3, <2>3, <3>1, <3>5 DEF Progress
      <4>2. b >= Len(txt) \/ At(txt, b) # 62
        BY <1>3, <2>3, CountsAre
      <4>3. ~(g < Len(txt) /\ At(txt, g) = 62)
        BY <4>1, <4>2, TextAt
      <4> QED
        BY <2>1, <2>3, <3>3, <4>1, <4>3
    <3> QED
      BY <1>3, <2>3, <3>4, <3>5, CountsAre DEF Open
  <2> QED
    BY <1>3, <2>2, <2>3, CountsAre
<1> QED
  BY <1>2, <1>3

(* What becomes of a token t that begins at o when m is entered at i. *)
Result(txt, o, i, t, m) ==
  /\ i < Len(txt) /\ m # NotExist => Within(txt, o, i + 1, t, m)
  /\ i >= Len(txt) \/ m = NotExist => EndsIn(txt, t, o) = {}
  /\ i >= Len(txt) /\ m # NotExist => LexFinal(m) = NotExist

LEMMA SpotsAre ==
  ASSUME NEW role \in Roles, NEW s, NEW t \in WithChars, NEW cnt, <<s, t, cnt>> \in Spots(role)
  PROVE  /\ cnt \in 0 .. 2 /\ s # NotExist /\ s \in Int
         /\ role # "base" => Open(t, cnt)
         /\ Open(t, cnt) \/ Full(t, cnt)
<1> USE DEF char, char_no_char, char_str, char_range, char_alter, char_except, NotExist
<1>1. CASE role = "base"
  BY <1>1 DEF Spots, Open, Full, Lists, Counted
<1>2. CASE role = "esc"
  BY <1>2 DEF Spots, Open, Full, Lists, Counted
<1>3. CASE role = "oct1"
  BY <1>3 DEF Spots, Open, Full, Lists, Counted
<1>4. CASE role = "hex0"
  BY <1>4 DEF Spots, Open, Full, Lists, Counted
<1>5. CASE role = "oct2"
  BY <1>5 DEF Spots, Open, Full, Lists, Counted
<1>6. CASE role = "hex1"
  BY <1>6 DEF Spots, Open, Full, Lists, Counted
<1>7. CASE role = "full"
  BY <1>7 DEF Spots, Open, Full, Lists, Counted
<1> QED
  BY <1>1, <1>2, <1>3, <1>4, <1>5, <1>6, <1>7 DEF Roles

LEMMA InSpot ==
  ASSUME NEW txt, NEW o, NEW i \in Nat, NEW t \in WithChars, NEW m, NEW cnt, NEW role \in Roles,
         OpenedIn(txt, t, o), <<m, t, cnt>> \in Spots(role), NEW b \in Nat,
         Shape(txt, role, b, i), Progress(txt, t, o + Opening(t), cnt, b)
  PROVE  Within(txt, o, i, t, m)
<1>1. cnt \in 0 .. 2
  BY SpotsAre
<1>2. Reading(txt, o, i, t, cnt, role)
  BY DEF Reading
<1> QED
  BY <1>1, <1>2 DEF Within, InSpots

LEMMA UpIs ==
  ASSUME NEW t \in WithChars, NEW cnt, Open(t, cnt)
  PROVE  /\ Open(t, Up(t, cnt)) \/ Full(t, Up(t, cnt))
         /\ ~Full(t, cnt)
         /\ t \in Lists => Up(t, cnt) = 1
         /\ t \notin Lists => Up(t, cnt) = cnt + 1 /\ cnt \in {0, 1}
<1>1. t \notin Lists => Counted(t) \in {1, 2}
  BY CountsAre
<1> QED
  BY <1>1 DEF Open, Up, Full

LEMMA BaseStep ==
  ASSUME NEW txt \in Seq(Chars), NEW o \in Nat, NEW t \in WithChars, NEW i \in Nat, NEW cnt,
         OpenedIn(txt, t, o), Open(t, cnt) \/ Full(t, cnt),
         Progress(txt, t, o + Opening(t), cnt, i),
         NEW m, BaseMove(t, cnt, At(txt, i), m)
  PROVE  Result(txt, o, i, t, m)
<1>1. PICK p, c : p = o + Opening(t) /\ p \in Nat /\ c = At(txt, i)
  BY OpeningIs
<1>2. c # 0 => i < Len(txt)
  BY <1>1, TextAt
<1>3. /\ Len(txt) \in Nat /\ Signs(Stops(t)) /\ 92 \notin Stops(t)
      /\ Closing(t) \in {34, 39, 62, 93, 124} /\ i + 1 \in Nat
  BY SignsClose
<1>4. \A s, u : <<s, u>> \in ClosedBy => s # NotExist
  BY DEF ClosedBy, NotExist
<1>5. CASE t \in Lists /\ c = Closing(t)
  <2>1. i < Len(txt) /\ Stops(t) = {c} /\ ~Full(t, cnt) /\ cnt \in {0, 1}
    BY <1>2, <1>3, <1>5, SignsClose DEF Full, Open
  <2>2. After(txt, i, Stops(t)) = {}
    BY <1>1, <1>3, <2>1, AfterIs
  <2>3. CASE cnt = 1
    <3>1. PICK n \in Nat : i \in Reach(txt, p, Stops(t), n) /\ (t # char_str => n # 0)
      BY <1>1, <1>5, <2>3 DEF Progress
    <3>2. Cut(txt, p, Stops(t), i)
      BY <1>1, <1>5 DEF Progress
    <3>3. LongestEnd(txt, t, o, i + 1)
      BY <1>1, <1>5, <2>1, <3>1, <3>2, ListEnd
    <3>4. <<m, t>> \in ClosedBy
      BY <1>1, <1>5, <2>3 DEF BaseMove
    <3>5. Within(txt, o, i + 1, t, m) /\ m # NotExist
      BY <1>4, <3>3, <3>4 DEF Within
    <3> QED
      BY <1>3, <2>1, <3>5 DEF Result
  <2>4. CASE cnt = 0
    <3>1. m = NotExist
      <4>1. cnt # 1
        BY <2>4
      <4> QED
        BY <1>1, <1>5, <2>1, <2>4 DEF BaseMove, NotExist
    <3>2. Open(t, cnt)
      BY <2>1
    <3>3. EndsIn(txt, t, o) = {}
      BY <1>5, <2>2, <2>4, <3>2, Stuck
    <3> QED
      BY <3>1, <3>3 DEF Result
  <2> QED
    BY <2>1, <2>3, <2>4
<1>6. CASE Full(t, cnt)
  <2>1. t \notin Lists /\ cnt = Counted(t) /\ t \in {char, char_no_char, char_range}
    BY <1>6, CountsAre DEF Full
  <2>2. IF c = Closing(t) THEN <<m, t>> \in ClosedBy ELSE m = NotExist
    BY <1>1, <1>6, <2>1 DEF BaseMove
  <2>3. /\ c = Closing(t) => LongestEnd(txt, t, o, i + 1)
        /\ c # Closing(t) => EndsIn(txt, t, o) = {}
    <3>1. CASE t \in {char, char_no_char}
      <4>1. cnt = 1 /\ Closing(t) = 39
        BY <2>1, <3>1, CountsAre
      <4>2. i = Behind(txt, p) /\ After(txt, p, {}) # {}
        BY <1>1, <2>1, <4>1 DEF Progress
      <4>3. \A e : e \in EndsIn(txt, t, o) <=> e = i + 1 /\ i < Len(txt) /\ c = 39
        BY <1>1, <3>1, <4>2, CharEnds
      <4> QED
        BY <1>2, <4>1, <4>3, <1>3 DEF LongestEnd
    <3>2. CASE t = char_range
      <4>1. cnt = 2 /\ Closing(t) = 62
        BY <2>1, <3>2, CountsAre
      <4>2. PICK g : g = Behind(txt, p)
        OBVIOUS
      <4>3. /\ i = Behind(txt, g) /\ After(txt, p, {}) # {} /\ After(txt, g, {}) # {}
            /\ Lone(txt, p)
        BY <1>1, <2>1, <4>1, <4>2 DEF Progress
      <4>4. p = o + 1 /\ OpenedIn(txt, char_range, o)
        BY <1>1, <3>2, CountsAre
      <4>5. ~(g - 1 \in After(txt, p, {}) /\ At(txt, g) = 62)
        BY <4>2, <4>3 DEF Lone
      <4>6. \A e : e \in EndsIn(txt, char_range, o) <=> e = i + 1 /\ i < Len(txt) /\ c = 62
        BY <1>1, <4>2, <4>3, <4>4, <4>5, RangeEnds
      <4> QED
        BY <1>2, <1>3, <3>2, <4>1, <4>6 DEF LongestEnd
    <3> QED
      BY <2>1, <3>1, <3>2
  <2>4. CASE c = Closing(t)
    <3>1. Within(txt, o, i + 1, t, m) /\ m # NotExist
      BY <1>4, <2>2, <2>3, <2>4 DEF Within
    <3> QED
      BY <1>2, <1>3, <2>4, <3>1 DEF Result
  <2>5. CASE c # Closing(t)
    BY <2>2, <2>3, <2>5 DEF Result
  <2> QED
    BY <2>4, <2>5
<1>7. CASE ~(t \in Lists /\ c = Closing(t)) /\ ~Full(t, cnt)
  <2>1. IF c = 92 THEN <<m, t, cnt>> \in Spots("esc") ELSE <<m, t, Up(t, cnt)>> \in Spots("base")
    BY <1>1, <1>7 DEF BaseMove
  <2>2. Open(t, cnt) /\ c \notin Stops(t)
    BY <1>7, SignsClose
  <2>3. CASE i >= Len(txt)
    <3>1. After(txt, i, Stops(t)) = {}
      BY <1>3, <2>3, AfterIs
    <3>2. EndsIn(txt, t, o) = {}
      BY <2>2, <2>3, <3>1, Stuck
    <3>3. LexFinal(m) = NotExist
      BY <2>1, FinalStates DEF Roles
    <3> QED
      BY <1>3, <2>3, <3>2, <3>3 DEF Result
  <2>4. CASE i < Len(txt) /\ c = 92
    <3>1. Shape(txt, "esc", i, i + 1) /\ "esc" \in Roles
      BY <1>1, <2>4 DEF Shape, Roles
    <3>2. Within(txt, o, i + 1, t, m) /\ m # NotExist
      BY <1>3, <2>1, <2>4, <3>1, InSpot, SpotsAre
    <3> QED
      BY <1>3, <2>4, <3>2 DEF Result
  <2>5. CASE i < Len(txt) /\ c # 92
    <3>1. After(txt, i, Stops(t)) = {i + 1} /\ Behind(txt, i) = i + 1
      BY <1>1, <1>3, <2>2, <2>5, AfterIs
    <3>2. t = char_range => Lone(txt, i)
      <4>1. t = char_range => After(txt, i, {}) = {i + 1}
        BY <3>1, CountsAre, SignsClose
      <4>2. Behind(txt, i) - 1 = i /\ i # i + 1
        BY <3>1
      <4> QED
        BY <4>1, <4>2 DEF Lone
    <3>3. p \in Nat /\ Progress(txt, t, p, cnt, i)
      BY <1>1
    <3>4. Progress(txt, t, p, Up(t, cnt), i + 1)
      BY <2>2, <3>1, <3>2, <3>3, Advance
    <3>5. Shape(txt, "base", i + 1, i + 1) /\ "base" \in Roles
      BY DEF Shape, Roles
    <3>6. PICK up : up = Up(t, cnt) /\ <<m, t, up>> \in Spots("base")
      BY <2>1, <2>5
    <3>7. Progress(txt, t, o + Opening(t), up, i + 1)
      BY <1>1, <3>4, <3>6
    <3>8. Within(txt, o, i + 1, t, m) /\ m # NotExist
      BY <1>3, <3>5, <3>6, <3>7, InSpot, SpotsAre
    <3> QED
      BY <1>3, <2>5, <3>8 DEF Result
  <2> QED
    BY <1>3, <2>3, <2>4, <2>5
<1> QED
  BY <1>5, <1>6, <1>7

LEMMA DigitCount ==
  ASSUME NEW txt, NEW i \in Nat, NEW digits, NEW most \in {2, 3},
         NEW d, d = DigitsFrom(txt, i, digits, most)
  PROVE  /\ d \in 0 .. most
         /\ At(txt, i) \notin digits => d = 0
         /\ At(txt, i) \in digits =>
              /\ At(txt, i + 1) \notin digits => d = 1
              /\ At(txt, i + 1) \in digits =>
                   /\ d >= 2
                   /\ At(txt, i + 2) \notin digits => d = 2
                   /\ At(txt, i + 2) \in digits => d = most
<1>1. /\ d \in 0 .. most
      /\ \A k \in i .. i + d - 1 : At(txt, k) \in digits
      /\ d < most => At(txt, i + d) \notin digits
  BY DigitsAre
<1>2. /\ d > 0 => At(txt, i) \in digits
      /\ d > 1 => At(txt, i + 1) \in digits
      /\ d > 2 => At(txt, i + 2) \in digits
  BY <1>1
<1>3. /\ d = 0 => At(txt, i) \notin digits
      /\ d = 1 => At(txt, i + 1) \notin digits
      /\ d = 2 /\ most = 3 => At(txt, i + 2) \notin digits
  BY <1>1
<1> QED
  BY <1>1, <1>2, <1>3

(* What may follow a backslash at b. *)
LEMMA Escaped ==
  ASSUME NEW txt \in Seq(Chars), NEW b \in Nat, NEW t \in WithChars, At(txt, b) = 92
  PROVE  /\ b < Len(txt) /\ Len(txt) \in Nat /\ At(txt, b) # Closing(t)
         /\ At(txt, b + 1) \in SimpleEscape =>
              After(txt, b, Stops(t)) = {b + 2} /\ Behind(txt, b) = b + 2
         /\ At(txt, b + 1) \in Octal =>
              LET d == DigitsFrom(txt, b + 1, Octal, 3)
              IN  After(txt, b, Stops(t)) = Digits(b + 1, d) /\ Behind(txt, b) = b + 1 + d
         /\ At(txt, b + 1) = 120 =>
              LET d == DigitsFrom(txt, b + 2, HexDigit, 2)
              IN  After(txt, b, Stops(t)) = Digits(b + 2, d) /\ Behind(txt, b) = b + 2 + d
         /\ At(txt, b + 1) \notin SimpleEscape \union Octal \union {120} =>
              After(txt, b, Stops(t)) = {}
<1>1. b < Len(txt) /\ Len(txt) \in Nat
  BY TextAt
<1>2. 92 \notin Stops(t) /\ Closing(t) # 92
  BY SignsClose
<1> QED
  BY <1>1, <1>2, AfterIs

LEMMA EscapeStep ==
  ASSUME NEW txt \in Seq(Chars), NEW o \in Nat, NEW t \in WithChars, NEW i \in Nat, NEW cnt,
         OpenedIn(txt, t, o), Open(t, cnt), NEW b \in Nat, i = b + 1, At(txt, b) = 92,
         Progress(txt, t, o + Opening(t), cnt, b),
         NEW m, EscapeMove(t, cnt, At(txt, i), m)
  PROVE  Result(txt, o, i, t, m)
<1>1. PICK p, c : p = o + Opening(t) /\ p \in Nat /\ c = At(txt, i) /\ c = At(txt, b + 1)
  BY OpeningIs
<1>2. c # 0 => i < Len(txt)
  BY <1>1, TextAt
<1>3. b < Len(txt) /\ Len(txt) \in Nat /\ At(txt, b) # Closing(t)
  BY Escaped
<1>4. CASE c \in SimpleEscape
  <2>1. After(txt, b, Stops(t)) = {i + 1} /\ Behind(txt, b) = i + 1 /\ i + 1 = b + 2
    BY <1>1, <1>4, Escaped
  <2>2. i < Len(txt) /\ i + 1 \in Nat
    BY <1>2, <1>4, DigitCodes
  <2>3. t = char_range => Lone(txt, b)
    <3>1. t = char_range => After(txt, b, {}) = {i + 1}
      BY <2>1, CountsAre, SignsClose
    <3>2. Behind(txt, b) - 1 = i /\ i # i + 1
      BY <2>1
    <3> QED
      BY <3>1, <3>2 DEF Lone
  <2>4. p \in Nat /\ Progress(txt, t, p, cnt, b)
    BY <1>1
  <2>5. Progress(txt, t, p, Up(t, cnt), i + 1)
    BY <2>1, <2>3, <2>4, Advance, ZenonT(30)
  <2>6. PICK up : up = Up(t, cnt) /\ <<m, t, up>> \in Spots("base")
    <3>1. c \notin Octal /\ c # 120
      BY <1>4, DigitCodes
    <3>2. EscapeMove(t, cnt, c, m)
      BY <1>1
    <3>3. <<m, t, Up(t, cnt)>> \in Spots("base")
      BY ONLY <1>4, <3>1, <3>2 DEF EscapeMove
    <3> QED
      BY <3>3
  <2>7. Progress(txt, t, o + Opening(t), up, i + 1)
    BY <1>1, <2>5, <2>6
  <2>8. Shape(txt, "base", i + 1, i + 1) /\ "base" \in Roles
    BY DEF Shape, Roles
  <2>9. Within(txt, o, i + 1, t, m) /\ m # NotExist
    BY <2>2, <2>6, <2>7, <2>8, InSpot, SpotsAre
  <2> QED
    BY <1>3, <2>2, <2>9 DEF Result
<1>5. CASE c \in Octal
  <2>1. i < Len(txt) /\ i + 1 \in Nat /\ c \notin SimpleEscape /\ c # 120
    <3>1. c # 120
      BY <1>5 DEF Octal
    <3> QED
      BY <1>2, <1>5, <3>1, DigitCodes
  <2>2. <<m, t, cnt>> \in Spots("oct1")
    BY <1>1, <1>5, <2>1 DEF EscapeMove
  <2>3. Shape(txt, "oct1", b, i + 1) /\ "oct1" \in Roles
    BY <1>1, <1>5 DEF Shape, Roles
  <2>4. Within(txt, o, i + 1, t, m)
    BY <2>1, <2>2, <2>3, InSpot
  <2>5. m # NotExist
    BY <2>2, <2>3, SpotsAre
  <2> QED
    BY <1>3, <2>1, <2>4, <2>5 DEF Result
<1>6. CASE c = 120
  <2>1. i < Len(txt) /\ i + 1 \in Nat /\ c \notin SimpleEscape /\ c \notin Octal
    BY <1>2, <1>6, DigitCodes DEF Octal
  <2>2. <<m, t, cnt>> \in Spots("hex0")
    BY <1>1, <1>6, <2>1 DEF EscapeMove
  <2>3. Shape(txt, "hex0", b, i + 1) /\ "hex0" \in Roles
    BY <1>1, <1>6 DEF Shape, Roles
  <2>4. Within(txt, o, i + 1, t, m)
    BY <2>1, <2>2, <2>3, InSpot
  <2>5. m # NotExist
    BY <2>2, <2>3, SpotsAre
  <2> QED
    BY <1>3, <2>1, <2>4, <2>5 DEF Result
<1>7. CASE c \notin SimpleEscape \union Octal \union {120}
  <2>1. m = NotExist
    BY <1>1, <1>7 DEF EscapeMove
  <2>2. After(txt, b, Stops(t)) = {}
    BY <1>1, <1>7, Escaped
  <2>3. EndsIn(txt, t, o) = {}
    BY <1>3, <2>2, Stuck
  <2> QED
    BY <2>1, <2>3 DEF Result
<1> QED
  BY <1>4, <1>5, <1>6, <1>7

(* The number at b is at its end at i, and what is read there is no part of it. *)
LEMMA NumberEnds ==
  ASSUME NEW txt \in Seq(Chars), NEW o \in Nat, NEW t \in WithChars, NEW i \in Nat, NEW cnt,
         OpenedIn(txt, t, o), Open(t, cnt), NEW b \in Nat, i = Behind(txt, b),
         After(txt, b, Stops(t)) # {}, t = char_range /\ cnt = 0 => Lone(txt, b),
         Progress(txt, t, o + Opening(t), cnt, b),
         NEW m, BaseMove(t, Up(t, cnt), At(txt, i), m)
  PROVE  Result(txt, o, i, t, m)
<1>1. PICK p, up : p = o + Opening(t) /\ p \in Nat /\ up = Up(t, cnt)
  BY OpeningIs
<1>2. p \in Nat /\ Progress(txt, t, p, cnt, b)
  BY <1>1
<1>3. Progress(txt, t, p, Up(t, cnt), Behind(txt, b))
  BY <1>2, Advance
<1>4. Progress(txt, t, o + Opening(t), up, i)
  BY <1>1, <1>3
<1>5. BaseMove(t, up, At(txt, i), m)
  BY <1>1
<1>6. Open(t, up) \/ Full(t, up)
  BY <1>1, UpIs
<1> QED
  BY <1>4, <1>5, <1>6, BaseStep

(* The last digit of the number at b is at i. *)
LEMMA NumberFull ==
  ASSUME NEW txt \in Seq(Chars), NEW o \in Nat, NEW t \in WithChars, NEW i \in Nat, NEW cnt,
         OpenedIn(txt, t, o), Open(t, cnt), NEW b \in Nat, i + 1 = Behind(txt, b),
         After(txt, b, Stops(t)) # {}, t = char_range /\ cnt = 0 => Lone(txt, b),
         Progress(txt, t, o + Opening(t), cnt, b), i < Len(txt),
         NEW m, <<m, t, Up(t, cnt)>> \in Spots("base")
  PROVE  Result(txt, o, i, t, m)
<1>1. PICK p, up : p = o + Opening(t) /\ p \in Nat /\ up = Up(t, cnt)
  BY OpeningIs
<1>2. p \in Nat /\ Progress(txt, t, p, cnt, b)
  BY <1>1
<1>3. Progress(txt, t, p, Up(t, cnt), Behind(txt, b))
  BY <1>2, Advance
<1>4. Progress(txt, t, o + Opening(t), up, i + 1)
  BY <1>1, <1>3
<1>5. <<m, t, up>> \in Spots("base")
  BY <1>1
<1>6. Shape(txt, "base", i + 1, i + 1) /\ "base" \in Roles
  BY DEF Shape, Roles
<1>7. i + 1 \in Nat /\ Len(txt) \in Nat
  BY TextAt
<1>8. Within(txt, o, i + 1, t, m) /\ m # NotExist
  BY <1>4, <1>5, <1>6, <1>7, InSpot, SpotsAre
<1> QED
  BY <1>7, <1>8 DEF Result

LEMMA DigitsIs ==
  ASSUME NEW i \in Nat
  PROVE  /\ Digits(i, 0) = {} /\ Digits(i, 1) = {i + 1} /\ Digits(i, 2) = {i + 1, i + 2}
         /\ Digits(i, 3) = {i + 1, i + 2, i + 3}
<1>1. Digits(i, 0) = {} /\ Digits(i, 1) = {i + 1}
  BY DEF Digits
<1>2. 1 .. 2 = {1, 2} /\ 1 .. 3 = {1, 2, 3}
  OBVIOUS
<1>3. Digits(i, 2) = {i + 1, i + 2}
  BY <1>2 DEF Digits
<1>4. Digits(i, 3) = {i + 1, i + 2, i + 3}
  BY <1>2 DEF Digits
<1> QED
  BY <1>1, <1>3, <1>4

(* A character of a range that ends in one way only. *)
LEMMA OneWay ==
  ASSUME NEW txt, NEW b \in Nat, NEW t \in WithChars, NEW i \in Nat,
         After(txt, b, Stops(t)) = {i}, Behind(txt, b) = i
  PROVE  /\ After(txt, b, Stops(t)) # {}
         /\ t = char_range => Lone(txt, b)
<1>1. t = char_range => After(txt, b, {}) = {i}
  BY CountsAre, SignsClose
<1>2. i - 1 # i
  OBVIOUS
<1> QED
  BY <1>1, <1>2 DEF Lone

LEMMA OctalStep ==
  ASSUME NEW txt \in Seq(Chars), NEW o \in Nat, NEW t \in WithChars, NEW i \in Nat, NEW cnt,
         OpenedIn(txt, t, o), Open(t, cnt), NEW b \in Nat, i = b + 2, At(txt, b) = 92,
         At(txt, b + 1) \in Octal, Progress(txt, t, o + Opening(t), cnt, b),
         NEW m, IF At(txt, i) \in Octal THEN <<m, t, cnt>> \in Spots("oct2")
                ELSE BaseMove(t, Up(t, cnt), At(txt, i), m)
  PROVE  Result(txt, o, i, t, m)
<1>1. PICK d : d = DigitsFrom(txt, b + 1, Octal, 3)
  OBVIOUS
<1>2. /\ After(txt, b, Stops(t)) = Digits(b + 1, d) /\ Behind(txt, b) = b + 1 + d
      /\ Len(txt) \in Nat
  BY <1>1, Escaped
<1>3. i = (b + 1) + 1 /\ b + 1 \in Nat /\ i + 1 \in Nat
  OBVIOUS
<1>4. CASE At(txt, i) \in Octal
  <2>1. i < Len(txt)
    BY <1>4, TextAt, DigitCodes
  <2>2. <<m, t, cnt>> \in Spots("oct2")
    BY <1>4
  <2>3. Shape(txt, "oct2", b, i + 1) /\ "oct2" \in Roles
    BY <1>4 DEF Shape, Roles
  <2>4. Within(txt, o, i + 1, t, m)
    BY <1>3, <2>2, <2>3, InSpot
  <2>5. m # NotExist
    BY <2>2, <2>3, SpotsAre, ZenonT(30)
  <2> QED
    BY <1>2, <2>1, <2>4, <2>5 DEF Result
<1>5. CASE At(txt, i) \notin Octal
  <2>1. d = 1
    BY <1>1, <1>3, <1>5, DigitCount
  <2>2. After(txt, b, Stops(t)) = {i} /\ Behind(txt, b) = i
    BY <1>2, <1>3, <2>1, DigitsIs
  <2>3. After(txt, b, Stops(t)) # {} /\ (t = char_range => Lone(txt, b))
    BY <2>2, OneWay
  <2>4. BaseMove(t, Up(t, cnt), At(txt, i), m) /\ i = Behind(txt, b)
    BY <1>5, <2>2
  <2> QED
    BY <2>3, <2>4, NumberEnds
<1> QED
  BY <1>4, <1>5

LEMMA HexStep ==
  ASSUME NEW txt \in Seq(Chars), NEW o \in Nat, NEW t \in WithChars, NEW i \in Nat, NEW cnt,
         OpenedIn(txt, t, o), Open(t, cnt), NEW b \in Nat, i = b + 2, At(txt, b) = 92,
         At(txt, b + 1) = 120, Progress(txt, t, o + Opening(t), cnt, b),
         NEW m, IF At(txt, i) \in HexDigit THEN <<m, t, cnt>> \in Spots("hex1")
                ELSE m = NotExist
  PROVE  Result(txt, o, i, t, m)
<1>1. PICK d : d = DigitsFrom(txt, b + 2, HexDigit, 2)
  OBVIOUS
<1>2. After(txt, b, Stops(t)) = Digits(b + 2, d) /\ Len(txt) \in Nat /\ At(txt, b) # Closing(t)
  BY <1>1, Escaped
<1>3. CASE At(txt, i) \in HexDigit
  <2>1. i < Len(txt) /\ i + 1 \in Nat
    BY <1>3, TextAt, DigitCodes
  <2>2. <<m, t, cnt>> \in Spots("hex1")
    BY <1>3
  <2>3. Shape(txt, "hex1", b, i + 1) /\ "hex1" \in Roles
    BY <1>3 DEF Shape, Roles
  <2>4. Within(txt, o, i + 1, t, m)
    BY <2>1, <2>2, <2>3, InSpot
  <2>5. m # NotExist
    BY <2>2, <2>3, SpotsAre
  <2> QED
    BY <1>2, <2>1, <2>4, <2>5 DEF Result
<1>4. CASE At(txt, i) \notin HexDigit
  <2>1. d = 0
    BY <1>1, <1>4, DigitCount
  <2>2. After(txt, b, Stops(t)) = {}
    BY <1>2, <2>1, DigitsIs
  <2>3. EndsIn(txt, t, o) = {}
    BY <1>2, <2>2, Stuck
  <2> QED
    BY <1>4, <2>3 DEF Result
<1> QED
  BY <1>3, <1>4

(* The last digit that there may be. *)
LEMMA LastStep ==
  ASSUME NEW txt \in Seq(Chars), NEW o \in Nat, NEW t \in WithChars, NEW i \in Nat, NEW cnt,
         OpenedIn(txt, t, o), Open(t, cnt), NEW b \in Nat, i = b + 3,
         Progress(txt, t, o + Opening(t), cnt, b),
         NEW digits \in {Octal, HexDigit},
         /\ At(txt, i) \in digits => Behind(txt, b) = i + 1 /\ i \in After(txt, b, Stops(t))
         /\ At(txt, i) \notin digits => Behind(txt, b) = i /\ i \in After(txt, b, Stops(t)),
         At(txt, i) \notin digits =>
           (IF digits = Octal THEN i - 1 \in After(txt, b, Stops(t))
                              ELSE After(txt, b, Stops(t)) = {i}),
         NEW m, LastMove(t, cnt, digits, At(txt, i), m)
  PROVE  Result(txt, o, i, t, m)
<1>1. PICK c : c = At(txt, i)
  OBVIOUS
<1>2. c # 0 => i < Len(txt)
  BY <1>1, TextAt
<1>3. Len(txt) \in Nat /\ i + 1 \in Nat /\ After(txt, b, Stops(t)) # {}
  BY TextAt
<1>4. c \in digits => i < Len(txt) /\ c # 62
  BY <1>2, DigitCodes
<1>5. CASE ~(t = char_range /\ cnt = 0)
  <2>1. IF c \in digits THEN <<m, t, Up(t, cnt)>> \in Spots("base")
        ELSE BaseMove(t, Up(t, cnt), c, m)
    BY <1>1, <1>5 DEF LastMove
  <2>2. CASE c \in digits
    <3>1. i + 1 = Behind(txt, b) /\ i < Len(txt) /\ <<m, t, Up(t, cnt)>> \in Spots("base")
      BY <1>1, <1>4, <2>1, <2>2
    <3> QED
      BY <1>3, <1>5, <3>1, NumberFull
  <2>3. CASE c \notin digits
    <3>1. i = Behind(txt, b) /\ BaseMove(t, Up(t, cnt), At(txt, i), m)
      BY <1>1, <2>1, <2>3
    <3> QED
      BY <1>3, <1>5, <3>1, NumberEnds
  <2> QED
    BY <2>2, <2>3
<1>6. CASE t = char_range /\ cnt = 0
  <2>1. b = o + 1 /\ Stops(t) = {} /\ Up(t, cnt) = 1
    BY <1>6, CountsAre, SignsClose DEF Progress, Up
  <2>2. CASE c \in digits
    <3>1. m = 70
      BY <1>1, <1>4, <1>6, <2>2 DEF LastMove
    <3>2. <<m, t, cnt>> \in Spots("full") /\ "full" \in Roles
      BY <1>6, <3>1 DEF Spots, Roles
    <3>3. Shape(txt, "full", b, i + 1)
      <4>1. i + 1 - 1 = i /\ i + 1 = b + 4
        OBVIOUS
      <4> QED
        BY <1>1, <2>1, <2>2, <4>1 DEF Shape
    <3>4. Within(txt, o, i + 1, t, m)
      BY <1>3, <3>2, <3>3, InSpot
    <3>5. m # NotExist
      BY <3>2, SpotsAre
    <3> QED
      BY <1>3, <1>4, <2>2, <3>4, <3>5 DEF Result
  <2>3. CASE c = 62 /\ digits = Octal
    <3>1. m = 71 /\ c \notin digits
      BY <1>1, <1>4, <1>6, <2>3 DEF LastMove
    <3>2. i < Len(txt) /\ m # NotExist
      BY <1>2, <2>3, <3>1 DEF NotExist
    <3>3. i + 1 - 1 = i /\ i + 1 - 2 = i - 1
      OBVIOUS
    <3>4. SignTwice(txt, o, i + 1)
      BY <1>1, <2>1, <2>3, <3>1, <3>3 DEF SignTwice
    <3>5. Within(txt, o, i + 1, t, m)
      BY <1>6, <3>1, <3>4 DEF Within
    <3> QED
      BY <1>3, <3>2, <3>5 DEF Result
  <2>4. CASE c \notin digits /\ ~(c = 62 /\ digits = Octal)
    <3>1. BaseMove(t, Up(t, cnt), At(txt, i), m)
      BY <1>1, <1>6, <2>1, <2>4 DEF LastMove
    <3>2. i = Behind(txt, b)
      BY <1>1, <2>4
    <3>3. Lone(txt, b)
      <4>1. CASE c # 62
        BY <1>1, <3>2, <4>1 DEF Lone
      <4>2. CASE digits # Octal
        <5>1. After(txt, b, {}) = {i} /\ i - 1 # i
          BY <1>1, <2>1, <2>4, <4>2
        <5> QED
          BY <3>2, <5>1 DEF Lone
      <4> QED
        BY <2>4, <4>1, <4>2
    <3> QED
      BY <1>3, <3>1, <3>2, <3>3, NumberEnds
  <2> QED
    BY <2>2, <2>3, <2>4
<1> QED
  BY <1>5, <1>6

LEMMA TwoDigitsStep ==
  ASSUME NEW txt \in Seq(Chars), NEW o \in Nat, NEW t \in WithChars, NEW i \in Nat, NEW cnt,
         OpenedIn(txt, t, o), Open(t, cnt), NEW b \in Nat, i = b + 3, At(txt, b) = 92,
         At(txt, b + 1) \in Octal, At(txt, b + 2) \in Octal,
         Progress(txt, t, o + Opening(t), cnt, b),
         NEW m, LastMove(t, cnt, Octal, At(txt, i), m)
  PROVE  Result(txt, o, i, t, m)
<1>1. PICK d : d = DigitsFrom(txt, b + 1, Octal, 3)
  OBVIOUS
<1>2. After(txt, b, Stops(t)) = Digits(b + 1, d) /\ Behind(txt, b) = b + 1 + d
  BY <1>1, Escaped
<1>3. b + 1 \in Nat /\ b + 2 = (b + 1) + 1 /\ i = (b + 1) + 2
  OBVIOUS
<1>4. /\ At(txt, i) \in Octal => d = 3
      /\ At(txt, i) \notin Octal => d = 2
  BY <1>1, <1>3, DigitCount
<1>5. /\ At(txt, i) \in Octal => Behind(txt, b) = i + 1 /\ i \in After(txt, b, Stops(t))
      /\ At(txt, i) \notin Octal => Behind(txt, b) = i /\ i \in After(txt, b, Stops(t))
      /\ At(txt, i) \notin Octal => i - 1 \in After(txt, b, Stops(t))
  BY <1>2, <1>3, <1>4, DigitsIs
<1>6. PICK digits : digits = Octal
  OBVIOUS
<1>7. /\ digits \in {Octal, HexDigit} /\ LastMove(t, cnt, digits, At(txt, i), m)
      /\ At(txt, i) \in digits => Behind(txt, b) = i + 1 /\ i \in After(txt, b, Stops(t))
      /\ At(txt, i) \notin digits => Behind(txt, b) = i /\ i \in After(txt, b, Stops(t))
      /\ At(txt, i) \notin digits =>
           (IF digits = Octal THEN i - 1 \in After(txt, b, Stops(t))
                              ELSE After(txt, b, Stops(t)) = {i})
  BY <1>5, <1>6
<1> QED
  BY <1>7, LastStep

LEMMA OneHexStep ==
  ASSUME NEW txt \in Seq(Chars), NEW o \in Nat, NEW t \in WithChars, NEW i \in Nat, NEW cnt,
         OpenedIn(txt, t, o), Open(t, cnt), NEW b \in Nat, i = b + 3, At(txt, b) = 92,
         At(txt, b + 1) = 120, At(txt, b + 2) \in HexDigit,
         Progress(txt, t, o + Opening(t), cnt, b),
         NEW m, LastMove(t, cnt, HexDigit, At(txt, i), m)
  PROVE  Result(txt, o, i, t, m)
<1>1. PICK d : d = DigitsFrom(txt, b + 2, HexDigit, 2)
  OBVIOUS
<1>2. After(txt, b, Stops(t)) = Digits(b + 2, d) /\ Behind(txt, b) = b + 2 + d
  BY <1>1, Escaped
<1>3. b + 2 \in Nat /\ i = (b + 2) + 1
  OBVIOUS
<1>4. /\ At(txt, i) \in HexDigit => d = 2
      /\ At(txt, i) \notin HexDigit => d = 1
  BY <1>1, <1>3, DigitCount
<1>5. /\ At(txt, i) \in HexDigit => Behind(txt, b) = i + 1 /\ i \in After(txt, b, Stops(t))
      /\ At(txt, i) \notin HexDigit => Behind(txt, b) = i /\ After(txt, b, Stops(t)) = {i}
  BY <1>2, <1>3, <1>4, DigitsIs
<1>6. PICK digits : digits = HexDigit /\ digits # Octal
  <2>1. 57 \in HexDigit /\ 57 \notin Octal
    BY DEF HexDigit, Octal
  <2> QED
    BY <2>1
<1>7. /\ digits \in {Octal, HexDigit} /\ LastMove(t, cnt, digits, At(txt, i), m)
      /\ At(txt, i) \in digits => Behind(txt, b) = i + 1 /\ i \in After(txt, b, Stops(t))
      /\ At(txt, i) \notin digits => Behind(txt, b) = i /\ i \in After(txt, b, Stops(t))
      /\ At(txt, i) \notin digits =>
           (IF digits = Octal THEN i - 1 \in After(txt, b, Stops(t))
                              ELSE After(txt, b, Stops(t)) = {i})
  BY <1>5, <1>6
<1> QED
  BY <1>7, LastStep

(* All digits were read of the first character of a range. *)
LEMMA FullStep ==
  ASSUME NEW txt \in Seq(Chars), NEW o \in Nat, NEW i \in Nat, OpenedIn(txt, char_range, o),
         i = Behind(txt, o + 1), i - 1 \in After(txt, o + 1, {})
  PROVE  Result(txt, o, i, char_range, LexMove(70, At(txt, i)))
<1>1. PICK t, b, c, m : /\ t = char_range /\ b = o + 1 /\ c = At(txt, i)
                        /\ m = LexMove(70, c)
  OBVIOUS
<1>2. b \in Nat /\ t \in WithChars /\ Stops(t) = {} /\ OpenedIn(txt, t, o) /\ t \notin Lists
      /\ Opening(t) = 1
  BY <1>1, CountsAre, SignsClose
<1>3. m = IF c = 62 THEN 71 ELSE RangeSecond(c)
  BY <1>1, OtherRows
<1>4. CASE c = 62
  <2>1. i < Len(txt) /\ i + 1 - 1 = i /\ i + 1 - 2 = i - 1 /\ Len(txt) \in Nat
    BY <1>1, <1>4, TextAt
  <2>2. m = 71 /\ m # NotExist
    BY <1>3, <1>4 DEF NotExist
  <2>3. SignTwice(txt, o, i + 1)
    BY <1>1, <1>4, <2>1 DEF SignTwice
  <2>4. Within(txt, o, i + 1, t, m)
    BY <1>1, <1>2, <2>2, <2>3 DEF Within
  <2>5. Result(txt, o, i, t, m)
    BY <2>1, <2>2, <2>4 DEF Result
  <2> QED
    BY <1>1, <2>5
<1>5. CASE c # 62
  <2>1. PICK cnt : cnt = 0
    OBVIOUS
  <2>2. Open(t, cnt) /\ Up(t, cnt) = 1
    BY <1>1, <1>2, <2>1, CountsAre DEF Open, Up
  <2>3. BaseMove(t, Up(t, cnt), At(txt, i), m)
    <3>1. m = RangeSecond(c)
      BY <1>3, <1>5
    <3>2. ~Full(t, 1)
      BY <1>1, CountsAre DEF Full
    <3>3. IF c = 92 THEN m = 38 ELSE m = 39
      BY <3>1 DEF RangeSecond, To
    <3>4. <<38, t, 1>> \in Spots("esc") /\ <<39, t, 2>> \in Spots("base") /\ Up(t, 1) = 2
      BY <1>1, <1>2 DEF Spots, Up
    <3> QED
      BY <1>1, <1>2, <2>2, <3>2, <3>3, <3>4, ZenonT(30) DEF BaseMove
  <2>4. Progress(txt, t, o + Opening(t), cnt, b)
    BY <1>1, <1>2, <2>1 DEF Progress
  <2>5. Lone(txt, b) /\ After(txt, b, Stops(t)) # {} /\ i = Behind(txt, b)
    BY <1>1, <1>2, <1>5 DEF Lone
  <2>6. Result(txt, o, i, t, m)
    BY <1>2, <2>2, <2>3, <2>4, <2>5, NumberEnds
  <2> QED
    BY <1>1, <2>6
<1> QED
  BY <1>4, <1>5

(* A range whose last sign may be one too early. *)
LEMMA TwiceEnds ==
  ASSUME NEW txt \in Seq(Chars), NEW o \in Nat, NEW i \in Nat, OpenedIn(txt, char_range, o),
         SignTwice(txt, o, i)
  PROVE  /\ At(txt, i) = 62 => LongestEnd(txt, char_range, o, i + 1)
         /\ At(txt, i) # 62 => LongestEnd(txt, char_range, o, i)
<1>1. PICK p, g : p = o + 1 /\ g = Behind(txt, p) /\ p \in Nat /\ g \in Nat
  BY BehindIs, SMTT(30)
<1>2. At(txt, g) = 62 /\ i = g + 1 /\ g - 1 \in After(txt, p, {})
  BY <1>1 DEF SignTwice
<1>3. g < Len(txt) /\ Len(txt) \in Nat
  BY <1>1, <1>2, TextAt
<1>4. After(txt, g, {}) = {i} /\ Behind(txt, g) = i
  BY <1>1, <1>2, <1>3, AfterIs
<1>5. \A e : e \in EndsIn(txt, char_range, o) <=>
        \/ e = i + 1 /\ i < Len(txt) /\ At(txt, i) = 62
        \/ e = i
  <2>1. \A e : e \in EndsIn(txt, char_range, o) <=>
          \/ /\ After(txt, p, {}) # {} /\ After(txt, g, {}) # {}
             /\ e = Behind(txt, g) + 1
             /\ Behind(txt, g) < Len(txt) /\ At(txt, Behind(txt, g)) = 62
          \/ g - 1 \in After(txt, p, {}) /\ e = g + 1 /\ g < Len(txt) /\ At(txt, g) = 62
    BY <1>1, RangeEnds
  <2> QED
    BY <1>2, <1>3, <1>4, <2>1
<1>6. At(txt, i) = 62 => i < Len(txt)
  BY TextAt
<1> QED
  BY <1>5, <1>6 DEF LongestEnd

(* What a step that leads to m, or to nothing, does in a token t. *)
Outcome(txt, o, i, t, s, m) ==
  /\ i < Len(txt) /\ m # NotExist => Within(txt, o, i + 1, t, m)
  /\ i >= Len(txt) \/ m = NotExist =>
       LET f == LexFinal(IF m = NotExist THEN s ELSE m)
       IN  \/ f = NotExist /\ EndsIn(txt, t, o) = {}
           \/ f = t /\ LongestEnd(txt, t, o, i)

LEMMA SpotMoves ==
  ASSUME NEW txt \in Seq(Chars), NEW o \in Nat, NEW t \in WithChars, NEW i \in Nat, NEW s,
         NEW cnt, NEW role \in Roles, OpenedIn(txt, t, o), <<s, t, cnt>> \in Spots(role),
         Reading(txt, o, i, t, cnt, role)
  PROVE  Result(txt, o, i, t, LexMove(s, At(txt, i)))
<1>1. PICK m : m = LexMove(s, At(txt, i))
  OBVIOUS
<1>2. PICK b \in Nat : Shape(txt, role, b, i) /\ Progress(txt, t, o + Opening(t), cnt, b)
  BY DEF Reading
<1>3. (role # "base" => Open(t, cnt)) /\ (Open(t, cnt) \/ Full(t, cnt))
  BY SpotsAre
<1>4. CASE role = "base"
  <2>1. i = b /\ BaseMove(t, cnt, At(txt, i), m)
    BY <1>1, <1>2, <1>4, BaseRows DEF Shape
  <2> QED
    BY <1>1, <1>2, <1>3, <2>1, BaseStep
<1>5. CASE role = "esc"
  <2>1. i = b + 1 /\ At(txt, b) = 92
    BY <1>2, <1>5 DEF Shape
  <2>2. EscapeMove(t, cnt, At(txt, i), m)
    BY <1>1, <1>5, EscapeRows
  <2> QED
    BY <1>1, <1>2, <1>3, <1>5, <2>1, <2>2, EscapeStep
<1>6. CASE role = "oct1"
  <2>1. i = b + 2 /\ At(txt, b) = 92 /\ At(txt, b + 1) \in Octal
    BY <1>2, <1>6 DEF Shape
  <2>2. IF At(txt, i) \in Octal THEN <<m, t, cnt>> \in Spots("oct2")
        ELSE BaseMove(t, Up(t, cnt), At(txt, i), m)
    BY <1>1, <1>6, OctalRows
  <2>3. Open(t, cnt) /\ Progress(txt, t, o + Opening(t), cnt, b)
    BY <1>2, <1>3, <1>6
  <2>4. Result(txt, o, i, t, m)
    BY <2>1, <2>2, <2>3, OctalStep
  <2> QED
    BY <1>1, <2>4
<1>7. CASE role = "hex0"
  <2>1. i = b + 2 /\ At(txt, b) = 92 /\ At(txt, b + 1) = 120
    BY <1>2, <1>7 DEF Shape
  <2>2. IF At(txt, i) \in HexDigit THEN <<m, t, cnt>> \in Spots("hex1") ELSE m = NotExist
    BY <1>1, <1>7, HexRows
  <2>3. Open(t, cnt) /\ Progress(txt, t, o + Opening(t), cnt, b)
    BY <1>2, <1>3, <1>7
  <2>4. Result(txt, o, i, t, m)
    BY <2>1, <2>2, <2>3, HexStep
  <2> QED
    BY <1>1, <2>4
<1>8. CASE role = "oct2"
  <2>1. i = b + 3 /\ At(txt, b) = 92 /\ At(txt, b + 1) \in Octal /\ At(txt, b + 2) \in Octal
    BY <1>2, <1>8 DEF Shape
  <2>2. LastMove(t, cnt, Octal, At(txt, i), m)
    BY <1>1, <1>8, TwoOctalRows
  <2> QED
    BY <1>1, <1>2, <1>3, <1>8, <2>1, <2>2, TwoDigitsStep
<1>9. CASE role = "hex1"
  <2>1. i = b + 3 /\ At(txt, b) = 92 /\ At(txt, b + 1) = 120 /\ At(txt, b + 2) \in HexDigit
    BY <1>2, <1>9 DEF Shape
  <2>2. LastMove(t, cnt, HexDigit, At(txt, i), m)
    BY <1>1, <1>9, OneHexRows
  <2> QED
    BY <1>1, <1>2, <1>3, <1>9, <2>1, <2>2, OneHexStep
<1>10. CASE role = "full"
  <2>1. i = Behind(txt, b) /\ i - 1 \in After(txt, b, {})
    BY <1>2, <1>10 DEF Shape
  <2>2. s = 70 /\ t = char_range /\ cnt = 0
    BY <1>10 DEF Spots
  <2>3. b = o + 1
    BY <1>2, <2>2, CountsAre DEF Progress
  <2>4. Result(txt, o, i, char_range, LexMove(70, At(txt, i)))
    BY <2>1, <2>2, <2>3, FullStep
  <2> QED
    BY <2>2, <2>4
<1> QED
  BY <1>4, <1>5, <1>6, <1>7, <1>8, <1>9, <1>10 DEF Roles

LEMMA WithinMoves ==
  ASSUME NEW txt \in Seq(Chars), NEW o \in Nat, NEW t \in WithChars, NEW i \in Nat, NEW s,
         Within(txt, o, i, t, s), NEW m, m = LexMove(s, At(txt, i))
  PROVE  Outcome(txt, o, i, t, s, m)
<1>1. OpenedIn(txt, t, o) /\ Len(txt) \in Nat
  BY DEF Within
<1>2. CASE InSpots(txt, o, i, t, s)
  <2>1. PICK role \in Roles, cnt \in 0 .. 2 :
          <<s, t, cnt>> \in Spots(role) /\ Reading(txt, o, i, t, cnt, role)
    BY <1>2 DEF InSpots
  <2>2. Result(txt, o, i, t, m)
    BY <1>1, <2>1, SpotMoves
  <2>3. LexFinal(s) = NotExist
    BY <2>1, FinalStates
  <2> QED
    BY <2>2, <2>3 DEF Result, Outcome
<1>3. CASE <<s, t>> \in ClosedBy /\ LongestEnd(txt, t, o, i)
  <2>1. m = NotExist /\ LexFinal(s) = t
    BY <1>3, OtherRows, FinalStates
  <2> QED
    BY <1>3, <2>1 DEF Outcome
<1>4. CASE s = 71 /\ t = char_range /\ SignTwice(txt, o, i)
  <2>1. m = (IF At(txt, i) = 62 THEN 59 ELSE NotExist) /\ LexFinal(s) = t
    BY <1>4, OtherRows, FinalStates
  <2>2. CASE At(txt, i) = 62
    <3>1. i < Len(txt)
      BY <2>2, TextAt
    <3>2. m = 59 /\ m # NotExist /\ <<m, t>> \in ClosedBy
      BY <1>4, <2>1, <2>2 DEF NotExist, ClosedBy
    <3>3. LongestEnd(txt, t, o, i + 1)
      BY <1>1, <1>4, <2>2, TwiceEnds
    <3>4. Within(txt, o, i + 1, t, m)
      BY <1>1, <3>2, <3>3 DEF Within
    <3> QED
      BY <1>1, <3>1, <3>2, <3>4 DEF Outcome
  <2>3. CASE At(txt, i) # 62
    <3>1. LongestEnd(txt, t, o, i)
      BY <1>1, <1>4, <2>3, TwiceEnds
    <3> QED
      BY <2>1, <2>3, <3>1 DEF Outcome
  <2> QED
    BY <2>2, <2>3
<1> QED
  BY <1>2, <1>3, <1>4 DEF Within

(* What is returned of a token that begins at o. *)
Returned(txt, o, i, f) ==
  \/ f = NotExist /\ AllEndsIn(txt, o) = {}
  \/ f = skip /\ \A k \in o .. i - 1 : At(txt, k) \in White
  \/ f = reg_end /\ At(txt, o) = 0
  \/ f \in char_eps .. alter /\ At(txt, o) = SignOf(f) /\ LongestEnd(txt, f, o, i)

(* Where the automaton gets to, and what it returns where it does not go on. *)
StepFrom(txt, o, i, s, m) ==
  /\ i < Len(txt) /\ m # NotExist => Place(txt, o, i + 1, m)
  /\ i >= Len(txt) \/ m = NotExist =>
       Returned(txt, o, i, LexFinal(IF m = NotExist THEN s ELSE m))

LEMMA Begins ==
  ASSUME NEW txt \in Seq(Chars), NEW o \in Nat, NEW t \in WithChars, OpenedIn(txt, t, o),
         NEW s, NEW cnt, <<s, t, cnt>> \in Spots("base"), cnt = 0 \/ t = char_str
  PROVE  Within(txt, o, o + Opening(t), t, s)
<1>1. PICK p : p = o + Opening(t) /\ p \in Nat
  BY OpeningIs
<1>2. 92 \notin Stops(t)
  BY SignsClose
<1>3. Cut(txt, p, Stops(t), p) /\ p \in Reach(txt, p, Stops(t), 0)
  BY <1>1, <1>2, CutAtStart
<1>4. Progress(txt, t, p, cnt, p)
  <2>1. CASE t \in Lists
    BY <1>3, <2>1 DEF Progress
  <2>2. CASE t \notin Lists
    <3>1. cnt = 0
      BY <2>2 DEF Lists
    <3> QED
      BY <2>2, <3>1 DEF Progress
  <2> QED
    BY <2>1, <2>2
<1>5. Shape(txt, "base", p, p) /\ "base" \in Roles
  BY DEF Shape, Roles
<1>6. Progress(txt, t, o + Opening(t), cnt, p)
  BY <1>1, <1>4
<1>7. Within(txt, o, p, t, s)
  BY <1>1, <1>5, <1>6, InSpot
<1> QED
  BY <1>1, <1>7

LEMMA SignsNotWhite ==
  \A t \in char_eps .. alter : SignOf(t) \notin White /\ SignOf(t) \in ToSet(FirstChar)
<1>1. \A t \in DOMAIN PlainChar : PlainChar[t] \in {40, 41, 42, 43, 46, 100, 101, 108, 119}
  BY DEF PlainChar, char_eps, char_white, char_digit, char_letter, lr_br, rr_br, iter, conc, alter
<1>2. \A t \in char_eps .. alter :
        SignOf(t) \in {33, 34, 39, 60, 91, 124, 40, 41, 42, 43, 46, 100, 101, 108, 119}
  <2> TAKE t \in char_eps .. alter
  <2>1. CASE t \in DOMAIN PlainChar
    BY <1>1, <2>1 DEF SignOf
  <2>2. CASE t \in {char, char_no_char, char_str, char_range, char_alter, char_except}
    <3>1. t \in WithChars
      BY <2>2 DEF WithChars, char, char_no_char, char_str, char_range, char_alter, char_except
    <3>2. t \notin DOMAIN PlainChar
      BY <3>1, SignsDiffer
    <3> QED
      BY <2>2, <3>2 DEF SignOf, char, char_no_char, char_str, char_range, char_alter, char_except
  <2>3. t \in WithChars => t \in {char, char_no_char, char_str, char_range, char_alter, char_except}
    BY DEF WithChars, char, char_no_char, char_str, char_range, char_alter, char_except
  <2> QED
    BY <2>1, <2>2, <2>3, SignsDiffer
<1>3. \A c \in {33, 34, 39, 60, 91, 124, 40, 41, 42, 43, 46, 100, 101, 108, 119} :
        c \notin White
  BY DEF White
<1>4. ToSet(FirstChar) = {FirstChar[i] : i \in 1 .. 16}
  BY DEF ToSet, FirstChar
<1>5. {33, 34, 39, 60, 91, 124, 40, 41, 42, 43, 46, 100, 101, 108, 119} \subseteq ToSet(FirstChar)
  <2>1. /\ FirstChar[2] = 33 /\ FirstChar[3] = 34 /\ FirstChar[4] = 39 /\ FirstChar[5] = 40
        /\ FirstChar[6] = 41 /\ FirstChar[7] = 42 /\ FirstChar[8] = 43 /\ FirstChar[9] = 46
        /\ FirstChar[10] = 60 /\ FirstChar[11] = 91 /\ FirstChar[12] = 100
        /\ FirstChar[13] = 101 /\ FirstChar[14] = 108 /\ FirstChar[15] = 119
        /\ FirstChar[16] = 124
    BY DEF FirstChar
  <2> QED
    BY <1>4, <2>1
<1> QED
  BY <1>2, <1>3, <1>5

LEMMA OpenersOpen ==
  ASSUME NEW txt, NEW o \in Nat, NEW t \in WithChars, NEW m, <<m, t, At(txt, o)>> \in Openers
  PROVE  /\ OpenedIn(txt, t, o) /\ Opening(t) = 1
         /\ \E cnt \in 0 .. 1 : <<m, t, cnt>> \in Spots("base") /\ (cnt = 0 \/ t = char_str)
<1> USE DEF char, char_no_char, char_str, char_range, char_alter, char_except
<1>1. CASE m = 3
  <2>1. t = char_str /\ At(txt, o) = 34
    BY <1>1 DEF Openers
  <2>2. <<m, t, 1>> \in Spots("base")
    BY <1>1, <2>1 DEF Spots
  <2> QED
    BY <2>1, <2>2 DEF OpenedIn, Opening
<1>2. CASE m = 4
  <2>1. t = char /\ At(txt, o) = 39
    BY <1>2 DEF Openers
  <2>2. <<m, t, 0>> \in Spots("base")
    BY <1>2, <2>1 DEF Spots
  <2> QED
    BY <2>1, <2>2 DEF OpenedIn, Opening
<1>3. CASE m = 10
  <2>1. t = char_range /\ At(txt, o) = 60
    BY <1>3 DEF Openers
  <2>2. <<m, t, 0>> \in Spots("base")
    BY <1>3, <2>1 DEF Spots
  <2> QED
    BY <2>1, <2>2 DEF OpenedIn, Opening
<1>4. CASE m = 11
  <2>1. t = char_alter /\ At(txt, o) = 91
    BY <1>4 DEF Openers
  <2>2. <<m, t, 0>> \in Spots("base")
    BY <1>4, <2>1 DEF Spots
  <2> QED
    BY <2>1, <2>2 DEF OpenedIn, Opening
<1>5. CASE m = 16
  <2>1. t = char_except /\ At(txt, o) = 124
    BY <1>5 DEF Openers
  <2>2. <<m, t, 0>> \in Spots("base")
    BY <1>5, <2>1 DEF Spots
  <2> QED
    BY <2>1, <2>2 DEF OpenedIn, Opening
<1> QED
  BY <1>1, <1>2, <1>3, <1>4, <1>5 DEF Openers

(* From the first state. *)
LEMMA StartStep ==
  ASSUME NEW txt \in Seq(Chars), NEW o \in Nat, NEW m, m = LexMove(0, At(txt, o))
  PROVE  StepFrom(txt, o, o, 0, m)
<1>1. PICK c : c = At(txt, o) /\ StartMove(c, m)
  BY StartRow
<1>2. Len(txt) \in Nat /\ (c # 0 => o < Len(txt))
  BY <1>1, TextAt
<1>3. CASE c \in White /\ m = 17
  <2>1. o < Len(txt) /\ m # NotExist
    BY <1>2, <1>3, DigitCodes DEF NotExist
  <2>2. \A k \in o .. o + 1 - 1 : At(txt, k) \in White
    <3>1. \A k \in o .. o + 1 - 1 : k = o
      OBVIOUS
    <3> QED
      BY <1>1, <1>3, <3>1
  <2>3. Place(txt, o, o + 1, m)
    BY <1>3, <2>2 DEF Place
  <2> QED
    BY <1>2, <2>1, <2>3 DEF StepFrom
<1>4. CASE c = 0 /\ m = 1
  <2>1. Place(txt, o, o + 1, m)
    BY <1>1, <1>4 DEF Place
  <2>2. m # NotExist /\ LexFinal(m) = reg_end
    BY <1>4, FinalStates DEF NotExist
  <2>3. Returned(txt, o, o, reg_end)
    BY <1>1, <1>4 DEF Returned
  <2> QED
    BY <2>1, <2>2, <2>3 DEF StepFrom
<1>5. CASE c = 33 /\ m = 2
  <2>1. Place(txt, o, o + 1, m)
    BY <1>1, <1>5 DEF Place
  <2>2. m # NotExist
    BY <1>5 DEF NotExist
  <2> QED
    BY <1>2, <1>5, <2>1, <2>2 DEF StepFrom
<1>6. ASSUME NEW t \in DOMAIN PlainChar, <<m, t>> \in PlainStates, c = PlainChar[t]
      PROVE  StepFrom(txt, o, o, 0, m)
  <2>1. Place(txt, o, o + 1, m)
    BY <1>1, <1>6 DEF Place
  <2>2. m # NotExist
    BY <1>6 DEF PlainStates, NotExist
  <2>3. o < Len(txt)
    <3>1. c # 0
      BY <1>6 DEF PlainChar
    <3> QED
      BY <1>2, <3>1
  <2> QED
    BY <1>2, <2>1, <2>2, <2>3 DEF StepFrom
<1>7. ASSUME NEW t \in WithChars, <<m, t, c>> \in Openers
      PROVE  StepFrom(txt, o, o, 0, m)
  <2>1. OpenedIn(txt, t, o) /\ Opening(t) = 1
    BY <1>1, <1>7, OpenersOpen
  <2>2. PICK cnt : <<m, t, cnt>> \in Spots("base") /\ (cnt = 0 \/ t = char_str)
    BY <1>1, <1>7, OpenersOpen
  <2>3. Within(txt, o, o + 1, t, m)
    BY <2>1, <2>2, Begins
  <2>4. Place(txt, o, o + 1, m)
    BY <2>3 DEF Place
  <2>5. c # 0 /\ m # NotExist
    BY <1>7 DEF Openers, NotExist
  <2> QED
    BY <1>2, <2>4, <2>5 DEF StepFrom
<1>8. CASE m = NotExist /\ c \notin White /\ c \notin ToSet(FirstChar)
  <2>1. \A t \in char_eps .. alter : At(txt, o) # SignOf(t)
    BY <1>1, <1>8, SignsNotWhite
  <2>2. AllEndsIn(txt, o) = {}
    BY <2>1, NoneBegins
  <2>3. LexFinal(0) = NotExist
    BY FinalStates
  <2> QED
    BY <1>8, <2>2, <2>3 DEF StepFrom, Returned
<1> QED
  BY <1>1, <1>3, <1>4, <1>5, <1>6, <1>7, <1>8 DEF StartMove

(* The step of the automaton, from wherever it is. *)
LEMMA PlaceStep ==
  ASSUME NEW txt \in Seq(Chars), NEW o \in Nat, NEW i \in Nat, NEW s, Place(txt, o, i, s),
         NEW m, m = LexMove(s, At(txt, i))
  PROVE  StepFrom(txt, o, i, s, m)
<1>1. PICK c : c = At(txt, i) /\ m = LexMove(s, c)
  OBVIOUS
<1>2. Len(txt) \in Nat /\ (c # 0 => i < Len(txt))
  BY <1>1, TextAt
<1>3. CASE s = 0 /\ i = o
  BY <1>3, StartStep
<1>4. CASE s = 1 /\ i = o + 1 /\ At(txt, o) = 0
  <2>1. m = NotExist /\ LexFinal(s) = reg_end
    BY <1>1, <1>4, OtherRows, FinalStates
  <2> QED
    BY <1>4, <2>1 DEF StepFrom, Returned
<1>5. CASE s = 2 /\ i = o + 1 /\ At(txt, o) = 33
  <2>1. m = (IF c = 39 THEN 18 ELSE NotExist) /\ LexFinal(s) = NotExist
    BY <1>1, <1>5, OtherRows, FinalStates
  <2>2. PICK t : t = char_no_char /\ t \in WithChars /\ Opening(t) = 2 /\ t \in char_eps .. alter
    BY CountsAre, SignsDiffer DEF Opening
  <2>3. OpenedIn(txt, t, o) <=> At(txt, o) = 33 /\ At(txt, o + 1) = 39
    BY <2>2 DEF OpenedIn, char, char_no_char, char_str, char_range, char_alter, char_except
  <2>4. CASE c = 39
    <3>1. i < Len(txt) /\ m = 18 /\ m # NotExist
      BY <1>2, <2>1, <2>4 DEF NotExist
    <3>2. OpenedIn(txt, t, o) /\ i + 1 = o + Opening(t)
      BY <1>1, <1>5, <2>2, <2>3, <2>4
    <3>3. PICK cnt : cnt = 0 /\ <<m, t, cnt>> \in Spots("base")
      BY <2>2, <3>1 DEF Spots
    <3>4. Within(txt, o, o + Opening(t), t, m)
      BY <2>2, <3>2, <3>3, Begins
    <3>5. Place(txt, o, i + 1, m)
      BY <2>2, <3>2, <3>4 DEF Place
    <3> QED
      BY <1>2, <3>1, <3>5 DEF StepFrom
  <2>5. CASE c # 39
    <3>1. m = NotExist
      BY <2>1, <2>5
    <3>2. ~OpenedIn(txt, t, o)
      BY <1>1, <1>5, <2>3, <2>5
    <3>3. EndsIn(txt, t, o) = {}
      <4>1. t \notin DOMAIN PlainChar /\ ContentsIn(txt, t, o) = {}
        BY <2>2, <3>2, SignsDiffer DEF ContentsIn
      <4> QED
        BY <4>1 DEF EndsIn
    <3>4. SignOf(t) = 33
      <4>1. t \notin DOMAIN PlainChar
        BY <2>2, SignsDiffer
      <4> QED
        BY <2>2, <4>1 DEF SignOf, char, char_no_char, char_str, char_range, char_alter,
                               char_except
    <3>5. AllEndsIn(txt, o) = {}
      BY <1>5, <2>2, <3>3, <3>4, AllEndsAre
    <3> QED
      BY <2>1, <3>1, <3>5 DEF StepFrom, Returned
  <2> QED
    BY <2>4, <2>5
<1>6. CASE s = 17 /\ i > o /\ \A k \in o .. i - 1 : At(txt, k) \in White
  <2>1. m = (IF c \in White THEN 17 ELSE NotExist) /\ LexFinal(s) = skip
    BY <1>1, <1>6, OtherRows, FinalStates
  <2>2. CASE c \in White
    <3>1. i < Len(txt) /\ m = 17 /\ m # NotExist
      BY <1>2, <2>1, <2>2, DigitCodes DEF NotExist
    <3>2. \A k \in o .. i + 1 - 1 : At(txt, k) \in White
      <4>1. \A k \in o .. i + 1 - 1 : k = i \/ k \in o .. i - 1
        OBVIOUS
      <4> QED
        BY <1>1, <1>6, <2>2, <4>1
    <3>3. i + 1 > o
      BY <1>6
    <3>4. Place(txt, o, i + 1, m)
      BY <3>1, <3>2, <3>3 DEF Place
    <3> QED
      BY <1>2, <3>1, <3>4 DEF StepFrom
  <2>3. CASE c \notin White
    BY <1>6, <2>1, <2>3 DEF StepFrom, Returned
  <2> QED
    BY <2>2, <2>3
<1>7. ASSUME NEW t \in DOMAIN PlainChar, <<s, t>> \in PlainStates, i = o + 1,
             At(txt, o) = PlainChar[t]
      PROVE  StepFrom(txt, o, i, s, m)
  <2>1. m = NotExist /\ LexFinal(s) = t
    BY <1>1, <1>7, OtherRows, FinalStates
  <2>2. EndsIn(txt, t, o) = {i} /\ At(txt, o) = SignOf(t) /\ t \in char_eps .. alter
    BY <1>7, PlainEnds, SignsDiffer
  <2>3. LongestEnd(txt, t, o, i)
    BY <2>2 DEF LongestEnd
  <2> QED
    BY <2>1, <2>2, <2>3 DEF StepFrom, Returned
<1>8. ASSUME NEW t \in WithChars, Within(txt, o, i, t, s)
      PROVE  StepFrom(txt, o, i, s, m)
  <2>1. Outcome(txt, o, i, t, s, m)
    BY <1>8, WithinMoves
  <2>2. OpenedIn(txt, t, o) /\ At(txt, o) = SignOf(t) /\ t \in char_eps .. alter
    BY <1>8, OpenedAt, SignsDiffer DEF Within
  <2>3. AllEndsIn(txt, o) = EndsIn(txt, t, o)
    BY <2>2, AllEndsAre
  <2>4. i < Len(txt) /\ m # NotExist => Place(txt, o, i + 1, m)
    BY <1>8, <2>1 DEF Outcome, Place
  <2>5. ASSUME i >= Len(txt) \/ m = NotExist
        PROVE  Returned(txt, o, i, LexFinal(IF m = NotExist THEN s ELSE m))
    BY <2>1, <2>2, <2>3, <2>5 DEF Outcome, Returned
  <2> QED
    BY <2>4, <2>5 DEF StepFrom
<1> QED
  BY <1>3, <1>4, <1>5, <1>6, <1>7, <1>8 DEF Place

(* The numbers of characters.  The function that NumberFrom folds with, over
   the sets of the first k digits. *)
NumberFold(it, txt, sq, base, D) ==
  it = [s \in SUBSET D |->
          IF s = {} THEN 0
          ELSE it[s \ {Max(s)}] * base + DigitValue(At(txt, sq[Max(s)]))]

NumberOf(txt, sq, base) ==
  FoldLeft(LAMBDA v, k : v * base + DigitValue(At(txt, k)), 0, sq)

Positions(i, n) == [k \in 1 .. n |-> i + k - 1]

LEMMA FirstDigits ==
  ASSUME NEW k \in Nat \ {0}
  PROVE  Max(1 .. k) = k /\ (1 .. k) \ {k} = 1 .. k - 1 /\ 1 .. k # {}
<1>1. k \in 1 .. k /\ \A y \in 1 .. k : y <= k
  OBVIOUS
<1>2. PICK S : S = 1 .. k
  OBVIOUS
<1>3. S \in SUBSET Int /\ k \in S /\ \A y \in S : y <= k
  BY <1>1, <1>2
<1>4. k = Max(S)
  BY <1>3, LongestIsMax
<1> QED
  BY <1>1, <1>2, <1>4

LEMMA GreatestOfNew ==
  ASSUME NEW k \in Nat, NEW s \in SUBSET (1 .. k + 1), k + 1 \in s
  PROVE  Max(s) = k + 1
<1>1. s \in SUBSET Int /\ \A y \in s : y <= k + 1
  OBVIOUS
<1>2. PICK z : z = k + 1
  OBVIOUS
<1>3. z \in s /\ \A y \in s : y <= z
  BY <1>1, <1>2
<1>4. z = Max(s)
  BY <1>1, <1>3, LongestIsMax
<1> QED
  BY <1>2, <1>4

LEMMA NumberFoldExists ==
  ASSUME NEW txt, NEW sq, NEW base, NEW n \in Nat
  PROVE  \E it : NumberFold(it, txt, sq, base, 1 .. n)
<1> DEFINE S == {k \in Nat : \E it : NumberFold(it, txt, sq, base, 1 .. k)}
<1>1. 0 \in S
  <2> DEFINE it == [s \in SUBSET (1 .. 0) |-> 0]
  <2>1. \A s \in SUBSET (1 .. 0) : s = {}
    OBVIOUS
  <2>2. NumberFold(it, txt, sq, base, 1 .. 0)
    BY <2>1 DEF NumberFold
  <2> QED
    BY <2>2
<1>2. ASSUME NEW k \in Nat, k \in S
      PROVE  k + 1 \in S
  <2>1. PICK it : NumberFold(it, txt, sq, base, 1 .. k)
    BY <1>2
  <2> DEFINE Old == SUBSET (1 .. k)
             New == SUBSET (1 .. k + 1)
             Step(v, x) == v * base + DigitValue(At(txt, sq[x]))
             more == [s \in New |-> IF s \in Old THEN it[s]
                                    ELSE Step(it[s \ {k + 1}], k + 1)]
  <2>2. \A s \in Old : it[s] = IF s = {} THEN 0 ELSE Step(it[s \ {Max(s)}], Max(s))
    BY <2>1 DEF NumberFold
  <2>3. ASSUME NEW s \in New
        PROVE  more[s] = IF s = {} THEN 0 ELSE Step(more[s \ {Max(s)}], Max(s))
    <3>1. CASE s \in Old
      <4>1. s \ {Max(s)} \in Old /\ s \ {Max(s)} \in New
        BY <3>1
      <4>2. more[s] = it[s] /\ more[s \ {Max(s)}] = it[s \ {Max(s)}]
        BY <3>1, <4>1
      <4> HIDE DEF more, Step
      <4> QED
        BY <2>2, <3>1, <4>2
    <3>2. CASE s \notin Old
      <4>1. k + 1 \in s /\ s # {}
        BY <3>2
      <4>2. Max(s) = k + 1
        BY <4>1, GreatestOfNew
      <4>3. s \ {k + 1} \in Old /\ s \ {k + 1} \in New
        OBVIOUS
      <4>4. more[s] = Step(it[s \ {k + 1}], k + 1)
        BY <3>2
      <4>5. more[s \ {k + 1}] = it[s \ {k + 1}]
        BY <4>3
      <4> HIDE DEF more, Step
      <4> QED
        BY <4>1, <4>2, <4>4, <4>5
    <3> QED
      BY <3>1, <3>2
  <2>4. more = [s \in New |-> IF s = {} THEN 0 ELSE Step(more[s \ {Max(s)}], Max(s))]
    <3>1. more = [s \in New |-> more[s]]
      OBVIOUS
    <3> HIDE DEF more, Step, New
    <3> QED
      BY <2>3, <3>1
  <2>5. NumberFold(more, txt, sq, base, 1 .. k + 1)
    <3> HIDE DEF more
    <3> QED
      BY <2>4 DEF NumberFold
  <2> QED
    BY <2>5
<1>3. \A k \in Nat : k \in S
  <2> HIDE DEF S
  <2> QED
    BY <1>1, <1>2, SetInduction
<1> QED
  BY <1>3

LEMMA NumberIsFold ==
  ASSUME NEW txt, NEW i \in Nat, NEW base, NEW n \in Nat, NEW sq, sq = Positions(i, n)
  PROVE  \E it : /\ NumberFold(it, txt, sq, base, 1 .. n)
                 /\ NumberFrom(txt, i, n, base) = it[1 .. n]
<1> DEFINE it == CHOOSE it : NumberFold(it, txt, sq, base, DOMAIN sq)
<1>1. DOMAIN sq = 1 .. n
  BY DEF Positions
<1>2. NumberFold(it, txt, sq, base, DOMAIN sq)
  BY <1>1, NumberFoldExists
<1>3. NumberOf(txt, sq, base) = it[DOMAIN sq]
  BY DEF NumberOf, FoldLeft, MapThenFoldSet, NumberFold
<1>4. NumberFrom(txt, i, n, base) = NumberOf(txt, Positions(i, n), base)
  BY DEF NumberFrom, NumberOf, FoldLeft, MapThenFoldSet, Positions
<1> HIDE DEF it
<1> QED
  BY <1>1, <1>2, <1>3, <1>4

(* The value of up to three digits. *)
ValueOf(n, a, b, c, base) ==
  CASE n = 0 -> 0 [] n = 1 -> a [] n = 2 -> a * base + b [] n = 3 -> (a * base + b) * base + c

LEMMA NumberIs ==
  ASSUME NEW txt, NEW i \in Nat, NEW n \in 0 .. 3, NEW base \in {8, 16},
         NEW a \in Int, NEW b \in Int, NEW c \in Int,
         n > 0 => a = DigitValue(At(txt, i)),
         n > 1 => b = DigitValue(At(txt, i + 1)),
         n > 2 => c = DigitValue(At(txt, i + 2))
  PROVE  NumberFrom(txt, i, n, base) = ValueOf(n, a, b, c, base)
<1>1. PICK sq : sq = Positions(i, n)
  OBVIOUS
<1>2. PICK it : NumberFold(it, txt, sq, base, 1 .. n) /\ NumberFrom(txt, i, n, base) = it[1 .. n]
  <2>1. n \in Nat /\ i \in Nat
    OBVIOUS
  <2>2. \E it : NumberFold(it, txt, sq, base, 1 .. n) /\ NumberFrom(txt, i, n, base) = it[1 .. n]
    BY ONLY <1>1, <2>1, NumberIsFold
  <2> QED
    BY <2>2
<1>3. it[1 .. 0] = 0
  BY <1>2 DEF NumberFold
<1>4. ASSUME NEW k \in 1 .. n
      PROVE  it[1 .. k] = it[1 .. k - 1] * base + DigitValue(At(txt, i + k - 1))
  <2>1. 1 .. k \in SUBSET (1 .. n) /\ sq[k] = i + k - 1
    BY <1>1 DEF Positions
  <2>2. Max(1 .. k) = k /\ (1 .. k) \ {k} = 1 .. k - 1 /\ 1 .. k # {}
    <3>1. k \in Nat \ {0}
      OBVIOUS
    <3> QED
      BY ONLY <3>1, FirstDigits
  <2>3. PICK s : s = 1 .. k
    OBVIOUS
  <2>4. it[s] = it[s \ {Max(s)}] * base + DigitValue(At(txt, sq[Max(s)]))
    BY <1>2, <2>1, <2>2, <2>3 DEF NumberFold
  <2> QED
    BY <2>1, <2>2, <2>3, <2>4
<1>5. n >= 1 => it[1 .. 1] = a
  <2> SUFFICES ASSUME n >= 1
               PROVE  it[1 .. 1] = a
    OBVIOUS
  <2>1. 1 \in 1 .. n /\ 1 - 1 = 0 /\ i + 1 - 1 = i
    OBVIOUS
  <2>2. it[1 .. 1] = it[1 .. 1 - 1] * base + DigitValue(At(txt, i + 1 - 1))
    BY <1>4, <2>1
  <2>3. it[1 .. 1] = 0 * base + a
    BY <1>3, <2>1, <2>2
  <2> QED
    BY <2>3
<1>6. n >= 2 => it[1 .. 2] = a * base + b
  <2> SUFFICES ASSUME n >= 2
               PROVE  it[1 .. 2] = a * base + b
    OBVIOUS
  <2>1. 2 \in 1 .. n /\ 2 - 1 = 1 /\ i + 2 - 1 = i + 1
    OBVIOUS
  <2>2. it[1 .. 2] = it[1 .. 2 - 1] * base + DigitValue(At(txt, i + 2 - 1))
    BY <1>4, <2>1
  <2> QED
    BY <1>5, <2>1, <2>2
<1>7. n >= 3 => it[1 .. 3] = (a * base + b) * base + c
  <2> SUFFICES ASSUME n >= 3
               PROVE  it[1 .. 3] = (a * base + b) * base + c
    OBVIOUS
  <2>1. 3 \in 1 .. n /\ 3 - 1 = 2 /\ i + 3 - 1 = i + 2
    OBVIOUS
  <2>2. it[1 .. 3] = it[1 .. 3 - 1] * base + DigitValue(At(txt, i + 3 - 1))
    BY <1>4, <2>1
  <2> QED
    BY <1>6, <2>1, <2>2
<1>8. CASE n = 0
  BY <1>2, <1>3, <1>8 DEF ValueOf
<1>9. CASE n = 1
  BY <1>2, <1>5, <1>9 DEF ValueOf
<1>10. CASE n = 2
  BY <1>2, <1>6, <1>10 DEF ValueOf
<1>11. CASE n = 3
  BY <1>2, <1>7, <1>11 DEF ValueOf
<1> QED
  BY <1>8, <1>9, <1>10, <1>11

(* A digit that there is, or nothing. *)
LEMMA DigitThere ==
  ASSUME NEW P \in BOOLEAN, NEW v, NEW m \in Nat, P => v \in 0 .. m
  PROVE  \E a \in 0 .. m : P => a = v
<1>1. CASE P
  BY <1>1
<1>2. CASE ~P
  BY <1>2
<1> QED
  BY <1>1, <1>2

LEMMA DigitValues ==
  /\ \A c \in HexDigit : DigitValue(c) \in 0 .. 15
  /\ \A c \in Octal : DigitValue(c) \in 0 .. 7
  /\ \A c \in 48 .. 51 : DigitValue(c) \in 0 .. 3
<1>1. \A c \in 48 .. 57 : DigitValue(c) = c - 48
  BY DEF DigitValue
<1>2. \A c \in 65 .. 70 : DigitValue(c) = 10 + c - 65
  BY DEF DigitValue
<1>3. \A c \in 97 .. 102 : DigitValue(c) = 10 + c - 97
  BY DEF DigitValue
<1> QED
  BY <1>1, <1>2, <1>3 DEF HexDigit, Octal

(* A number of up to three octal digits, and one of up to two hexadecimal. *)
LEMMA NumberBounds ==
  ASSUME NEW txt, NEW i \in Nat, NEW n \in Nat
  PROVE  /\ n <= 3 /\ (\A k \in i .. i + n - 1 : At(txt, k) \in Octal) =>
              /\ NumberFrom(txt, i, n, 8) \in 0 .. 511
              /\ n < 3 \/ At(txt, i) \in 48 .. 51 => NumberFrom(txt, i, n, 8) \in 0 .. 255
         /\ n <= 2 /\ (\A k \in i .. i + n - 1 : At(txt, k) \in HexDigit) =>
              NumberFrom(txt, i, n, 16) \in 0 .. 255
<1>1. ASSUME n <= 3, \A k \in i .. i + n - 1 : At(txt, k) \in Octal
      PROVE  /\ NumberFrom(txt, i, n, 8) \in 0 .. 511
             /\ n < 3 \/ At(txt, i) \in 48 .. 51 => NumberFrom(txt, i, n, 8) \in 0 .. 255
  <2>1. /\ n > 0 => DigitValue(At(txt, i)) \in 0 .. 7
        /\ n > 1 => DigitValue(At(txt, i + 1)) \in 0 .. 7
        /\ n > 2 => DigitValue(At(txt, i + 2)) \in 0 .. 7
    BY <1>1, DigitValues
  <2>2. PICK a \in 0 .. 7, b \in 0 .. 7, c \in 0 .. 7 :
          /\ n > 0 => a = DigitValue(At(txt, i))
          /\ n > 1 => b = DigitValue(At(txt, i + 1))
          /\ n > 2 => c = DigitValue(At(txt, i + 2))
    <3>1. PICK v0, v1, v2 : /\ v0 = DigitValue(At(txt, i)) /\ v1 = DigitValue(At(txt, i + 1))
                            /\ v2 = DigitValue(At(txt, i + 2))
      OBVIOUS
    <3>2. /\ \E a \in 0 .. 7 : n > 0 => a = v0
          /\ \E a \in 0 .. 7 : n > 1 => a = v1
          /\ \E a \in 0 .. 7 : n > 2 => a = v2
      BY ONLY <2>1, <3>1, DigitThere
    <3> QED
      BY ONLY <3>1, <3>2
  <2>3. PICK base : base = 8
    OBVIOUS
  <2>4. base \in {8, 16} /\ n \in 0 .. 3 /\ a \in Int /\ b \in Int /\ c \in Int /\ i \in Nat
    BY <1>1, <2>3
  <2>5. NumberFrom(txt, i, n, base) = ValueOf(n, a, b, c, base)
    BY ONLY <2>2, <2>4, NumberIs
  <2>6. At(txt, i) \in 48 .. 51 /\ n = 3 => a \in 0 .. 3
    BY <2>2, DigitValues
  <2> QED
    BY <1>1, <2>3, <2>4, <2>5, <2>6 DEF ValueOf
<1>2. ASSUME n <= 2, \A k \in i .. i + n - 1 : At(txt, k) \in HexDigit
      PROVE  NumberFrom(txt, i, n, 16) \in 0 .. 255
  <2>1. /\ n > 0 => DigitValue(At(txt, i)) \in 0 .. 15
        /\ n > 1 => DigitValue(At(txt, i + 1)) \in 0 .. 15
    BY <1>2, DigitValues
  <2>2. PICK a \in 0 .. 15, b \in 0 .. 15 :
          /\ n > 0 => a = DigitValue(At(txt, i))
          /\ n > 1 => b = DigitValue(At(txt, i + 1))
    <3>1. PICK v0, v1 : v0 = DigitValue(At(txt, i)) /\ v1 = DigitValue(At(txt, i + 1))
      OBVIOUS
    <3>2. /\ \E a \in 0 .. 15 : n > 0 => a = v0
          /\ \E a \in 0 .. 15 : n > 1 => a = v1
      BY ONLY <2>1, <3>1, DigitThere
    <3> QED
      BY ONLY <3>1, <3>2
  <2>3. PICK base, c : base = 16 /\ c = 0
    OBVIOUS
  <2>4. base \in {8, 16} /\ n \in 0 .. 3 /\ a \in Int /\ b \in Int /\ c \in Int /\ ~(n > 2)
    BY <1>2, <2>3
  <2>5. NumberFrom(txt, i, n, base) = ValueOf(n, a, b, c, base)
    BY <2>2, <2>4, NumberIs
  <2> QED
    BY <1>2, <2>3, <2>4, <2>5 DEF ValueOf
<1> QED
  BY <1>1, <1>2

(* The number that process_char returns. *)
LEMMA GreedyCode ==
  ASSUME NEW txt \in Seq(Chars), NEW i \in Nat
  PROVE  /\ Greedy(txt, i, Octal, 3, 8).code \in 0 .. 511
         /\ DigitsFrom(txt, i, Octal, 3) < 3 \/ At(txt, i) \in 48 .. 51 =>
              Greedy(txt, i, Octal, 3, 8).code \in 0 .. 255
         /\ Greedy(txt, i, HexDigit, 2, 16).code \in 0 .. 255
<1>1. PICK d, e : d = DigitsFrom(txt, i, Octal, 3) /\ e = DigitsFrom(txt, i, HexDigit, 2)
  OBVIOUS
<1>2. /\ d \in 0 .. 3 /\ d \in Nat /\ d <= 3 /\ \A k \in i .. i + d - 1 : At(txt, k) \in Octal
      /\ e \in 0 .. 2 /\ e \in Nat /\ e <= 2 /\ \A k \in i .. i + e - 1 : At(txt, k) \in HexDigit
  <2>1. 3 \in Nat /\ 2 \in Nat
    OBVIOUS
  <2>2. d \in 0 .. 3 /\ \A k \in i .. i + d - 1 : At(txt, k) \in Octal
    BY <1>1, <2>1, DigitsAre
  <2>3. e \in 0 .. 2 /\ \A k \in i .. i + e - 1 : At(txt, k) \in HexDigit
    BY <1>1, <2>1, DigitsAre
  <2> QED
    BY <2>2, <2>3
<1>3. /\ Greedy(txt, i, Octal, 3, 8).code = NumberFrom(txt, i, d, 8)
      /\ Greedy(txt, i, HexDigit, 2, 16).code = NumberFrom(txt, i, e, 16)
  BY <1>1 DEF Greedy
<1>4. /\ NumberFrom(txt, i, d, 8) \in 0 .. 511
      /\ d < 3 \/ At(txt, i) \in 48 .. 51 => NumberFrom(txt, i, d, 8) \in 0 .. 255
  BY ONLY <1>2, i \in Nat, NumberBounds
<1>5. NumberFrom(txt, i, e, 16) \in 0 .. 255
  BY ONLY <1>2, i \in Nat, NumberBounds
<1>6. PICK v, w : v = NumberFrom(txt, i, d, 8) /\ w = NumberFrom(txt, i, e, 16)
  OBVIOUS
<1>7. v \in 0 .. 511 /\ (d < 3 \/ At(txt, i) \in 48 .. 51 => v \in 0 .. 255) /\ w \in 0 .. 255
  BY ONLY <1>4, <1>5, <1>6
<1>8. /\ Greedy(txt, i, Octal, 3, 8).code = v /\ Greedy(txt, i, HexDigit, 2, 16).code = w
  BY ONLY <1>3, <1>6
<1> QED
  BY ONLY <1>1, <1>7, <1>8

LEMMA EscapedCodes ==
  ASSUME NEW c
  PROVE  /\ EscapedCode(c) \in Int
         /\ c \in SimpleEscape => EscapedCode(c) \in 0 .. 255
<1>1. CASE c \in SimpleEscape
  BY <1>1 DEF EscapedCode, SimpleEscape
<1>2. CASE c \notin SimpleEscape
  <2>1. EscapedCode(c) = 65535
    BY <1>2 DEF EscapedCode, SimpleEscape
  <2> QED
    BY <1>2, <2>1
<1> QED
  BY <1>1, <1>2

(* Three octal digits make a byte. *)
Fits(txt, i) ==
  At(txt, i) = 92 /\ At(txt, i + 1) \in 52 .. 55 => DigitsFrom(txt, i + 1, Octal, 3) < 3

LEMMA CodeIs ==
  ASSUME NEW txt \in Seq(Chars), NEW b \in Nat
  PROVE  /\ CharFrom(txt, b).code \in Int
         /\ After(txt, b, {}) # {} /\ Fits(txt, b) => CharFrom(txt, b).code \in Chars
<1>1. PICK c, c1 : c = At(txt, b) /\ c1 = At(txt, b + 1)
  OBVIOUS
<1>2. c \in 0 .. 255 /\ c1 \in 0 .. 255 /\ b + 1 \in Nat /\ b + 2 \in Nat /\ Len(txt) \in Nat
  BY <1>1, TextAt
<1>3. \A x \in 0 .. 255 : x \in Chars
  BY ByteAssumption DEF Chars
<1>4. CASE c # 92
  <2>1. CharFrom(txt, b).code = c
    BY <1>1, <1>4 DEF CharFrom
  <2> QED
    <3>1. CharFrom(txt, b).code \in Int
      BY ONLY <1>2, <1>3, <2>1
    <3>2. CharFrom(txt, b).code \in Chars
      BY ONLY <1>2, <1>3, <2>1
    <3> QED
      BY ONLY <3>1, <3>2
<1>5. CASE c = 92 /\ c1 \in Octal
  <2>1. CharFrom(txt, b) = Greedy(txt, b + 1, Octal, 3, 8)
    BY <1>1, <1>5, DigitCodes DEF CharFrom
  <2>2. /\ Greedy(txt, b + 1, Octal, 3, 8).code \in 0 .. 511
        /\ DigitsFrom(txt, b + 1, Octal, 3) < 3 \/ At(txt, b + 1) \in 48 .. 51 =>
             Greedy(txt, b + 1, Octal, 3, 8).code \in 0 .. 255
    BY <1>2, GreedyCode
  <2>3. Fits(txt, b) => DigitsFrom(txt, b + 1, Octal, 3) < 3 \/ At(txt, b + 1) \in 48 .. 51
    BY <1>1, <1>2, <1>5 DEF Fits, Octal
  <2>4. PICK v : v = Greedy(txt, b + 1, Octal, 3, 8).code
    OBVIOUS
  <2>5. v \in 0 .. 511 /\ (Fits(txt, b) => v \in 0 .. 255)
    BY ONLY <2>2, <2>3, <2>4
  <2>6. CharFrom(txt, b).code = v
    BY ONLY <2>1, <2>4
  <2> QED
    <3>1. CharFrom(txt, b).code \in Int
      BY ONLY <1>3, <2>5, <2>6
    <3>2. ASSUME After(txt, b, {}) # {}, Fits(txt, b)
          PROVE  CharFrom(txt, b).code \in Chars
      BY ONLY <1>3, <2>5, <2>6, <3>2
    <3> QED
      BY ONLY <3>1, <3>2
<1>6. CASE c = 92 /\ c1 \notin Octal /\ c1 = 120
  <2>1. CharFrom(txt, b) = Greedy(txt, b + 2, HexDigit, 2, 16)
    BY <1>1, <1>6 DEF CharFrom
  <2>2. Greedy(txt, b + 2, HexDigit, 2, 16).code \in 0 .. 255
    BY <1>2, GreedyCode
  <2>3. PICK v : v = Greedy(txt, b + 2, HexDigit, 2, 16).code
    OBVIOUS
  <2>4. v \in 0 .. 255
    BY ONLY <2>2, <2>3
  <2>5. CharFrom(txt, b).code = v
    BY ONLY <2>1, <2>3
  <2> QED
    <3>1. CharFrom(txt, b).code \in Int
      BY ONLY <1>3, <2>4, <2>5
    <3>2. ASSUME After(txt, b, {}) # {}, Fits(txt, b)
          PROVE  CharFrom(txt, b).code \in Chars
      BY ONLY <1>3, <2>4, <2>5, <3>2
    <3> QED
      BY ONLY <3>1, <3>2
<1>7. CASE c = 92 /\ c1 \notin Octal /\ c1 # 120
  <2>1. CharFrom(txt, b) = [code |-> EscapedCode(c1), next |-> b + 2]
    BY <1>1, <1>7 DEF CharFrom
  <2>2. EscapedCode(c1) \in Int /\ (c1 \in SimpleEscape => EscapedCode(c1) \in 0 .. 255)
    BY EscapedCodes
  <2>3. After(txt, b, {}) # {} => c1 \in SimpleEscape
    <3>1. b < Len(txt) \/ b >= Len(txt)
      BY <1>2
    <3>2. c1 \notin SimpleEscape => c1 \notin SimpleEscape \union Octal \union {120}
      BY <1>7
    <3>3. 92 \notin {} /\ At(txt, b) = 92 /\ b < Len(txt)
      <4>1. At(txt, b) # 0
        BY <1>1, <1>7
      <4> QED
        BY <1>1, <1>7, <4>1, TextAt, ZenonT(30)
    <3>4. /\ At(txt, b + 1) \notin SimpleEscape \union Octal \union {120} =>
               After(txt, b, {}) = {}
      BY <3>3, AfterIs
    <3> QED
      BY <1>1, <3>2, <3>4
  <2> QED
    <3>1. CharFrom(txt, b).code \in Int
      BY <1>3, <2>1, <2>2, <2>3
    <3>2. ASSUME After(txt, b, {}) # {}, Fits(txt, b)
          PROVE  CharFrom(txt, b).code \in Chars
      <4>1. PICK v : v = EscapedCode(c1) /\ v = CharFrom(txt, b).code
        BY <2>1
      <4>2. v \in 0 .. 255
        BY <2>2, <2>3, <3>2, <4>1
      <4> QED
        BY <1>3, <4>1, <4>2
    <3> QED
      BY ONLY <3>1, <3>2
<1> QED
  BY <1>4, <1>5, <1>6, <1>7

(* The characters of a token t that begins at o and ends at e. *)
AllFit(txt, o, e) == \A i \in o .. e - 1 : Fits(txt, i)
Apart(txt, t, o, e) == t = char_range => Behind(txt, o + 1) < e - 1

(* Where the n-th of a counted number of characters ends. *)
CountedEnd(txt, p, n) ==
  CASE n = 0 -> p [] n = 1 -> Behind(txt, p) [] OTHER -> Behind(txt, Behind(txt, p))

(* Its characters were read up to c. *)
ReadUpTo(txt, t, o, e, chars, c) ==
  /\ [chars |-> chars, next |-> c] \in ReadFrom(txt, o + Opening(t), Stops(t), Len(chars))
  /\ AllFit(txt, o, e) => chars \in Seq(Chars)
  /\ IF t \in Lists THEN Cut(txt, o + Opening(t), Stops(t), c) /\ c <= e - 1
     ELSE Len(chars) <= Counted(t) /\ c = CountedEnd(txt, o + Opening(t), Len(chars))

AllRead(t, e, chars, c) ==
  CASE t = char_str -> c >= e - 1
    [] t \in {char_alter, char_except} -> chars # <<>> /\ c >= e - 1
    [] OTHER -> Len(chars) = Counted(t)

(* What they have to be. *)
CharsFound(txt, t, o, e, chars) ==
  /\ \E n \in CountsIn(txt, t) : [chars |-> chars, next |-> e - 1]
                                   \in ReadFrom(txt, o + Opening(t), Stops(t), n)
  /\ AllFit(txt, o, e) => chars \in Seq(Chars)

LEMMA TokenEnds ==
  ASSUME NEW txt \in Seq(Chars), NEW t \in WithChars, NEW o \in Nat, NEW e \in EndsIn(txt, t, o)
  PROVE  /\ OpenedIn(txt, t, o) /\ e - 1 \in Nat /\ e - 1 < Len(txt) /\ Len(txt) \in Nat
         /\ At(txt, e - 1) = Closing(t) /\ o < e - 1
         /\ \E m \in CountsIn(txt, t) : /\ e - 1 \in Reach(txt, o + Opening(t), Stops(t), m)
                                        /\ m \in Nat /\ (t # char_str => m # 0)
                                        /\ o + Opening(t) + m <= e - 1
<1>1. PICK p, stops : p = o + Opening(t) /\ stops = Stops(t)
  OBVIOUS
<1>2. p \in Nat /\ o < p /\ 92 \notin stops
  BY <1>1, OpeningIs, SignsClose
<1>3. PICK n \in CountsIn(txt, t) : Closes(txt, p, stops, n, Closing(t), e) /\ OpenedIn(txt, t, o)
  BY <1>1, EndsAre
<1>4. PICK x \in Reach(txt, p, stops, n) : x < Len(txt) /\ At(txt, x) = Closing(t) /\ e = x + 1
  BY <1>3 DEF Closes
<1>5. n \in Nat /\ (t # char_str => n # 0)
  BY DEF CountsIn, char, char_no_char, char_str, char_range, char_alter, char_except
<1>6. x \in Nat /\ p + n <= x
  BY <1>2, <1>5, ReachBeyond
<1>7. x = e - 1 /\ Len(txt) \in Nat /\ o < x
  BY <1>2, <1>4, <1>5, <1>6
<1> QED
  BY <1>1, <1>3, <1>4, <1>5, <1>6, <1>7

LEMMA ReadStarts ==
  ASSUME NEW txt \in Seq(Chars), NEW t \in WithChars, NEW o \in Nat, NEW e \in EndsIn(txt, t, o)
  PROVE  ReadUpTo(txt, t, o, e, <<>>, o + Opening(t))
<1>1. PICK p, stops : p = o + Opening(t) /\ stops = Stops(t)
  OBVIOUS
<1>2. p \in Nat /\ 92 \notin stops
  BY <1>1, OpeningIs, SignsClose
<1>3. Len(<<>>) = 0 /\ <<>> \in Seq(Chars) /\ 0 <= Counted(t)
  BY DEF Counted
<1>4. [chars |-> <<>>, next |-> p] \in ReadFrom(txt, p, stops, 0)
  BY ReadNothing
<1>5. Cut(txt, p, stops, p)
  BY <1>2, CutAtStart
<1>6. p <= e - 1
  <2>1. PICK m : m \in Nat /\ p + m <= e - 1 /\ e - 1 \in Nat
    BY <1>1, TokenEnds
  <2> QED
    BY <1>2, <2>1
<1>7. CountedEnd(txt, p, 0) = p
  BY DEF CountedEnd
<1> QED
  BY <1>1, <1>3, <1>4, <1>5, <1>6, <1>7 DEF ReadUpTo

(* The next character of a token, where there is one more to read. *)
LEMMA NextThere ==
  ASSUME NEW txt \in Seq(Chars), NEW t \in WithChars, NEW o \in Nat, NEW e \in EndsIn(txt, t, o),
         Apart(txt, t, o, e), NEW chars \in Seq(Int), NEW c \in Nat,
         ReadUpTo(txt, t, o, e, chars, c), ~AllRead(t, e, chars, c),
         NEW p, p = o + Opening(t), NEW stops, stops = Stops(t)
  PROVE  /\ p <= c /\ c < e - 1 /\ After(txt, c, stops) # {} /\ Behind(txt, c) <= e - 1
         /\ t \notin Lists => /\ Len(chars) + 1 <= Counted(t)
                              /\ Behind(txt, c) = CountedEnd(txt, p, Len(chars) + 1)
<1>1. p \in Nat /\ o < p /\ 92 \notin stops /\ Signs(stops) /\ Len(chars) \in Nat
  BY OpeningIs, SignsClose
<1>2. PICK b : b = e - 1
  OBVIOUS
<1>3. /\ OpenedIn(txt, t, o) /\ b \in Nat /\ b < Len(txt) /\ Len(txt) \in Nat
      /\ At(txt, b) = Closing(t)
  BY <1>2, TokenEnds
<1>4. PICK m \in Nat : b \in Reach(txt, p, stops, m) /\ (t # char_str => m # 0) /\ p + m <= b
  BY <1>2, TokenEnds
<1>5. c \in Reach(txt, p, stops, Len(chars)) /\ p + Len(chars) <= c
  <2>1. PICK r : r = [chars |-> chars, next |-> c]
    OBVIOUS
  <2>2. r \in ReadFrom(txt, p, stops, Len(chars)) /\ r.next = c
    BY <2>1 DEF ReadUpTo
  <2>3. c \in Reach(txt, p, stops, Len(chars))
    BY <2>2 DEF Reach, Nexts
  <2> QED
    BY <1>1, <2>3, ReachBeyond
<1>9. t \notin Lists => Len(chars) # Counted(t)
  BY DEF AllRead, Lists
<1>6. CASE t \in Lists
  <2>1. Cut(txt, p, stops, c) /\ c <= b
    BY <1>2, <1>6 DEF ReadUpTo
  <2>2. c < b
    <3>1. CASE chars = <<>>
      <4>1. Len(chars) = 0
        BY <3>1
      <4>2. c = p
        BY <1>5, <4>1, ReachIs
      <4>3. t # char_str => c < b
        BY <1>1, <1>3, <1>4, <4>2
      <4>4. t = char_str => ~(c >= b)
        BY <1>2 DEF AllRead, char_str, char_alter, char_except
      <4> QED
        BY <1>3, <4>3, <4>4
    <3>2. CASE chars # <<>>
      <4>1. ~(c >= b)
        BY <1>2, <1>6, <3>2 DEF AllRead, Lists, char_str, char_alter, char_except
      <4> QED
        BY <1>3, <4>1
    <3> QED
      BY <3>1, <3>2
  <2>3. After(txt, c, stops) # {}
    <3> SUFFICES ASSUME After(txt, c, stops) = {}
                 PROVE  FALSE
      OBVIOUS
    <3>1. p <= c
      BY <1>1, <1>5
    <3>2. b <= c
      BY <1>1, <1>4, <2>1, <3>1, CutEnds
    <3> QED
      BY <1>3, <2>2, <3>2
  <2>4. Behind(txt, c) <= b
    <3> SUFFICES ASSUME b < Behind(txt, c)
                 PROVE  FALSE
      BY <1>3, BehindIs
    <3>1. p <= c
      BY <1>1, <1>5
    <3>2. b \in After(txt, c, stops)
      BY <1>1, <1>4, <2>1, <2>2, <3>1, BetweenDigits
    <3>3. At(txt, b) \in HexDigit
      BY <1>1, <3>2, AfterWithin
    <3> QED
      BY <1>3, <3>3, SignsClose
  <2> QED
    BY <1>1, <1>2, <1>5, <1>6, <2>2, <2>3, <2>4
<1>7. CASE t \in {char, char_no_char}
  <2>1. t \notin Lists /\ Counted(t) = 1 /\ stops = {} /\ t # char_range
    BY <1>7, CountsAre, SignsClose
  <2>2. Len(chars) = 0 /\ c = p
    <3>1. Len(chars) <= 1 /\ c = CountedEnd(txt, p, Len(chars))
      BY <2>1 DEF ReadUpTo
    <3>2. Len(chars) # 1
      BY <1>9, <2>1
    <3>3. Len(chars) = 0
      <4>1. PICK n \in Nat : n = Len(chars)
        BY <1>1
      <4>2. n <= 1 /\ n # 1
        BY <3>1, <3>2, <4>1
      <4>3. n = 0
        BY ONLY <4>1, <4>2
      <4> QED
        BY <4>1, <4>3
    <3> QED
      BY <3>1, <3>3 DEF CountedEnd
  <2>3. After(txt, p, {}) # {} /\ e = Behind(txt, p) + 1
    BY <1>3, <1>7, CharEnds
  <2>4. Behind(txt, p) \in Nat /\ CountedEnd(txt, p, 1) = Behind(txt, p)
    BY <1>1, BehindIs DEF CountedEnd
  <2>5. p < Behind(txt, p)
    <3>1. PICK x : x \in After(txt, p, stops)
      BY <2>1, <2>3
    <3> QED
      BY <1>1, <3>1, AfterWithin
  <2> QED
    BY <1>1, <1>2, <2>1, <2>2, <2>3, <2>4, <2>5
<1>8. CASE t = char_range
  <2>1. t \notin Lists /\ Counted(t) = 2 /\ stops = {} /\ p = o + 1
    BY <1>8, CountsAre, SignsClose
  <2>2. PICK g : g = Behind(txt, p) /\ g \in Nat /\ g < b
    BY <1>1, <1>2, <1>8, <2>1, BehindIs DEF Apart
  <2>3. /\ After(txt, p, {}) # {} /\ After(txt, g, {}) # {} /\ e = Behind(txt, g) + 1
    <3>1. \/ /\ After(txt, p, {}) # {} /\ After(txt, g, {}) # {} /\ e = Behind(txt, g) + 1
          \/ e = g + 1
      BY <1>3, <1>8, <2>1, <2>2, RangeEnds
    <3> QED
      BY <1>2, <2>2, <3>1
  <2>4. Behind(txt, g) \in Nat /\ Behind(txt, g) = b
    BY <1>2, <2>2, <2>3, BehindIs
  <2>5. p < g /\ g < b
    <3>1. PICK x : x \in After(txt, p, stops)
      BY <2>1, <2>3
    <3> QED
      BY <1>1, <2>2, <3>1, AfterWithin
  <2>6. /\ Len(chars) <= 2 /\ c = CountedEnd(txt, p, Len(chars)) /\ Len(chars) # 2
    <3>1. Len(chars) # 2
      BY <1>9, <2>1
    <3> QED
      BY <2>1, <3>1 DEF ReadUpTo
  <2>7. CASE Len(chars) = 0
    <3>1. c = p /\ CountedEnd(txt, p, 1) = g /\ Len(chars) + 1 = 1
      BY <2>2, <2>6, <2>7 DEF CountedEnd
    <3> QED
      BY <1>1, <1>2, <1>3, <2>1, <2>2, <2>3, <2>5, <3>1
  <2>8. CASE Len(chars) = 1
    <3>1. c = g /\ CountedEnd(txt, p, 2) = Behind(txt, g) /\ Len(chars) + 1 = 2
      BY <2>2, <2>6, <2>8 DEF CountedEnd
    <3> QED
      BY <1>1, <1>2, <1>3, <2>1, <2>2, <2>3, <2>4, <2>5, <3>1
  <2>9. Len(chars) = 0 \/ Len(chars) = 1
    <3>1. PICK n \in Nat : n = Len(chars)
      BY <1>1
    <3>2. n <= 2 /\ n # 2
      BY <2>6, <3>1
    <3>3. n = 0 \/ n = 1
      BY ONLY <3>1, <3>2
    <3> QED
      BY <3>1, <3>3
  <2> QED
    BY <2>7, <2>8, <2>9
<1> QED
  BY <1>6, <1>7, <1>8, CountsAre

LEMMA ReadGoesOn ==
  ASSUME NEW txt \in Seq(Chars), NEW t \in WithChars, NEW o \in Nat, NEW e \in EndsIn(txt, t, o),
         Apart(txt, t, o, e), NEW chars \in Seq(Int), NEW c \in Nat,
         ReadUpTo(txt, t, o, e, chars, c), ~AllRead(t, e, chars, c)
  PROVE  ReadUpTo(txt, t, o, e, Append(chars, CharFrom(txt, c).code), Behind(txt, c))
<1>1. PICK p, stops : p = o + Opening(t) /\ stops = Stops(t)
  OBVIOUS
<1>2. /\ p <= c /\ c < e - 1 /\ After(txt, c, stops) # {} /\ Behind(txt, c) <= e - 1
      /\ t \notin Lists => /\ Len(chars) + 1 <= Counted(t)
                           /\ Behind(txt, c) = CountedEnd(txt, p, Len(chars) + 1)
  BY <1>1, NextThere
<1>3. p \in Nat /\ o <= c /\ 92 \notin stops /\ Signs(stops) /\ Len(chars) \in Nat /\ e - 1 \in Nat
  BY <1>1, <1>2, OpeningIs, SignsClose, TokenEnds
<1>4. PICK code, more : code = CharFrom(txt, c).code /\ more = Append(chars, code)
  OBVIOUS
<1>5. code \in Int /\ Len(more) = Len(chars) + 1
  BY <1>4, CodeIs
<1>6. PICK old, new : /\ old = [chars |-> chars, next |-> c]
                      /\ new = [chars |-> more, next |-> Behind(txt, c)]
  OBVIOUS
<1>7. old \in ReadFrom(txt, p, stops, Len(chars))
  BY <1>1, <1>6 DEF ReadUpTo
<1>8. new \in ReadFrom(txt, p, stops, Len(more))
  <2>1. PICK R : R = ReadFrom(txt, p, stops, Len(chars))
    OBVIOUS
  <2>2. ReadFrom(txt, p, stops, Len(more)) = ReadFurther(txt, R, stops)
    BY <1>3, <1>5, <2>1, ReadOneMore
  <2>3. PICK s : s = CharFrom(txt, c)
    OBVIOUS
  <2>4. s \in SpelledFrom(txt, old.next, stops) /\ old.chars = chars
    <3>1. s \in SpelledFrom(txt, c, stops)
      BY <1>2, <1>3, <2>3, AfterIs
    <3> QED
      BY <1>6, <3>1
  <2>5. new = [chars |-> Append(old.chars, s.code), next |-> s.next]
    BY <1>4, <1>6, <2>3 DEF Behind
  <2>6. new \in ReadFurther(txt, R, stops)
    <3>1. \A x : x \in ReadFurther(txt, R, stops) <=>
            \E r \in R : \E z \in SpelledFrom(txt, r.next, stops) :
              x = [chars |-> Append(r.chars, z.code), next |-> z.next]
      BY DEF ReadFurther
    <3> QED
      BY <1>7, <2>1, <2>4, <2>5, <3>1
  <2> QED
    BY <2>2, <2>6
<1>9. ASSUME AllFit(txt, o, e)
      PROVE  more \in Seq(Chars)
  <2>1. chars \in Seq(Chars)
    BY <1>9 DEF ReadUpTo
  <2>2. Fits(txt, c)
    <3>1. c \in o .. e - 1
      BY <1>2, <1>3
    <3> QED
      BY <1>9, <3>1 DEF AllFit
  <2>3. After(txt, c, {}) # {}
    <3>1. At(txt, c) \notin stops
      <4>1. c >= Len(txt) \/ At(txt, c) \in stops => After(txt, c, stops) = {}
        BY <1>3, AfterIs
      <4> QED
        BY <1>2, <4>1
    <3>2. After(txt, c, stops) = After(txt, c, {})
      BY <1>3, <3>1, StopsMatter
    <3> QED
      BY <1>2, <3>2
  <2>4. code \in Chars
    BY <1>4, <2>2, <2>3, CodeIs
  <2> QED
    BY <1>4, <2>1, <2>4
<1>10. CASE t \in Lists
  <2>1. Cut(txt, p, stops, c) /\ c \in Reach(txt, p, stops, Len(chars))
    <3>1. Cut(txt, p, stops, c)
      BY <1>1, <1>10 DEF ReadUpTo
    <3>2. old.next = c
      BY <1>6
    <3> QED
      BY <1>7, <3>1, <3>2 DEF Reach, Nexts
  <2>2. Cut(txt, p, stops, Behind(txt, c))
    BY <1>2, <1>3, <2>1, CutMoves
  <2> QED
    BY <1>1, <1>2, <1>4, <1>6, <1>8, <1>9, <1>10, <2>2 DEF ReadUpTo
<1>11. CASE t \notin Lists
  BY <1>1, <1>2, <1>4, <1>5, <1>6, <1>8, <1>9, <1>11 DEF ReadUpTo
<1> QED
  BY <1>10, <1>11

LEMMA ReadEnds ==
  ASSUME NEW txt \in Seq(Chars), NEW t \in WithChars, NEW o \in Nat, NEW e \in EndsIn(txt, t, o),
         Apart(txt, t, o, e), NEW chars \in Seq(Int), NEW c \in Nat,
         ReadUpTo(txt, t, o, e, chars, c), AllRead(t, e, chars, c)
  PROVE  CharsFound(txt, t, o, e, chars)
<1>1. PICK p, stops : p = o + Opening(t) /\ stops = Stops(t)
  OBVIOUS
<1>2. p \in Nat /\ p = o + Opening(t) /\ 92 \notin stops /\ Len(chars) \in Nat
  BY <1>1, OpeningIs, SignsClose
<1>3. PICK b \in Nat : b = e - 1 /\ b < Len(txt) /\ Len(txt) \in Nat /\ OpenedIn(txt, t, o)
  BY TokenEnds
<1>4. PICK r : r = [chars |-> chars, next |-> c] /\ r.next = c
  <2>1. PICK r : r = [chars |-> chars, next |-> c]
    OBVIOUS
  <2>2. r.next = c
    BY <2>1
  <2> QED
    BY <2>1, <2>2
<1>5. r \in ReadFrom(txt, p, stops, Len(chars))
  BY <1>1, <1>4 DEF ReadUpTo
<1>6. AllFit(txt, o, e) => chars \in Seq(Chars)
  BY DEF ReadUpTo
<1>7. c = b /\ Len(chars) \in CountsIn(txt, t)
  <2>1. CASE t \in Lists
    <3>1. c <= b /\ c >= b /\ (t # char_str => chars # <<>>)
      BY <1>3, <2>1 DEF ReadUpTo, AllRead, Lists, char_str, char_alter, char_except
    <3>2. c = b
      BY <3>1
    <3>3. p + Len(chars) <= c
      <4>1. c \in Reach(txt, p, stops, Len(chars))
        BY <1>4, <1>5 DEF Reach, Nexts
      <4> QED
        BY <1>2, <4>1, ReachBeyond
    <3>4. Len(chars) <= Len(txt) /\ (chars # <<>> => Len(chars) # 0)
      BY <1>2, <1>3, <3>2, <3>3
    <3>5. CountsIn(txt, t) = IF t = char_str THEN 0 .. Len(txt) ELSE 1 .. Len(txt)
      BY <2>1 DEF CountsIn, Lists, char, char_no_char, char_str, char_range, char_alter,
                  char_except
    <3> QED
      BY <1>2, <1>3, <3>1, <3>2, <3>4, <3>5
  <2>2. CASE t \notin Lists
    <3>1. Len(chars) = Counted(t) /\ c = CountedEnd(txt, p, Len(chars))
      BY <1>1, <2>2 DEF ReadUpTo, AllRead, Lists
    <3>2. CASE t \in {char, char_no_char}
      <4>1. Len(chars) = 1 /\ c = Behind(txt, p) /\ c \in Nat
        BY <1>2, <3>1, <3>2, CountsAre DEF CountedEnd
      <4>2. e = Behind(txt, p) + 1
        BY <1>1, <1>3, <3>2, CharEnds
      <4>3. CountsIn(txt, t) = {1}
        BY <3>2 DEF CountsIn, char, char_no_char, char_str, char_range, char_alter, char_except
      <4> QED
        BY <1>3, <4>1, <4>2, <4>3
    <3>3. CASE t = char_range
      <4>1. Len(chars) = 2 /\ c = Behind(txt, Behind(txt, p)) /\ p = o + 1
        BY <1>1, <3>1, <3>3, CountsAre DEF CountedEnd
      <4>2. PICK g : g = Behind(txt, p) /\ g \in Nat /\ g < b
        BY <1>2, <1>3, <3>3, <4>1, BehindIs DEF Apart
      <4>3. e = Behind(txt, g) + 1
        <5>1. \/ e = Behind(txt, g) + 1
              \/ e = g + 1
          BY <1>3, <3>3, <4>1, <4>2, RangeEnds
        <5> QED
          BY <1>3, <4>2, <5>1
      <4>4. CountsIn(txt, t) = {2}
        BY <3>3 DEF CountsIn, char, char_no_char, char_str, char_range, char_alter, char_except
      <4> QED
        BY <1>3, <4>1, <4>2, <4>3, <4>4
    <3> QED
      BY <2>2, <3>2, <3>3, CountsAre
  <2> QED
    BY <2>1, <2>2
<1> QED
  BY <1>1, <1>3, <1>4, <1>5, <1>6, <1>7 DEF CharsFound

(* The characters that were found are among those that the token may have. *)
LEMMA FoundAreIn ==
  ASSUME NEW txt, NEW tok, tok.term \in WithChars, OpenedIn(txt, tok.term, tok.start),
         tok.end - 1 < Len(txt), At(txt, tok.end - 1) = Closing(tok.term), tok.end \in Nat,
         CharsFound(txt, tok.term, tok.start, tok.end, tok.chars)
  PROVE  tok.chars \in CharsIn(txt, tok)
<1>1. PICK r : r = [chars |-> tok.chars, next |-> tok.end - 1]
  OBVIOUS
<1>2. r.chars = tok.chars /\ r.next = tok.end - 1 /\ r.next + 1 = tok.end
  BY <1>1
<1>3. PICK n \in CountsIn(txt, tok.term) :
        r \in ReadFrom(txt, tok.start + Opening(tok.term), Stops(tok.term), n)
  BY <1>1 DEF CharsFound
<1>4. r \in ContentsIn(txt, tok.term, tok.start)
  BY <1>2, <1>3 DEF ContentsIn
<1>5. tok.term \notin DOMAIN PlainChar
  BY SignsDiffer
<1> QED
  BY <1>2, <1>4, <1>5 DEF CharsIn

-----------------------------------------------------------------------------
(* The operators of the model are those facts about the text that is read. *)
LEMMA CharsAre ==
  /\ \A i : CharAt(i) = At(source_string, i)
  /\ \A i, digits, most : DigitsAt(i, digits, most) = DigitsFrom(source_string, i, digits, most)
  /\ \A i, n, base : NumberAt(i, n, base) = NumberFrom(source_string, i, n, base)
<1>1. \A i : CharAt(i) = At(source_string, i)
  BY DEF CharAt, At
<1>2. \A i, digits, most : DigitsAt(i, digits, most) = DigitsFrom(source_string, i, digits, most)
  BY DEF CharAt, At, DigitsAt, DigitsFrom
<1>3. ASSUME NEW i, NEW n, NEW base
      PROVE  NumberAt(i, n, base) = NumberFrom(source_string, i, n, base)
  BY DEF CharAt, At, NumberAt, NumberFrom, FoldLeft, MapThenFoldSet
<1> QED
  BY <1>1, <1>2, <1>3

LEMMA ProcessCharIs ==
  ASSUME NEW i
  PROVE  process_char(i) = CharFrom(source_string, i)
BY CharsAre DEF process_char, CharFrom, Greedy

LEMMA ReadingsAre ==
  ASSUME NEW i, NEW stops, NEW n
  PROVE  Readings(i, stops, n) = ReadFrom(source_string, i, stops, n)
BY DEF Readings, ReadFrom, Reads, ReadStep, ReadFurther, Spelled, SpelledFrom, Numbers, Size,
       CharAt, At, DigitsAt, DigitsFrom, NumberAt, NumberFrom, FoldLeft, MapThenFoldSet

LEMMA ContentsAre ==
  ASSUME NEW t, NEW i
  PROVE  Contents(t, i) = ContentsIn(source_string, t, i)
<1>1. Opened(t, i) <=> OpenedIn(source_string, t, i)
  BY CharsAre DEF Opened, OpenedIn
<1>2. Counts(t) = CountsIn(source_string, t)
  BY DEF Counts, CountsIn, Size
<1> QED
  BY <1>1, <1>2, CharsAre, ReadingsAre DEF Contents, ContentsIn, Size

LEMMA EndsIs ==
  /\ \A t, i : Ends(t, i) = EndsIn(source_string, t, i)
  /\ \A i : AllEnds(i) = AllEndsIn(source_string, i)
  /\ \A tok : CharsOf(tok) = CharsIn(source_string, tok)
<1>1. ASSUME NEW t, NEW i
      PROVE  Ends(t, i) = EndsIn(source_string, t, i)
  BY CharsAre, ContentsAre DEF Ends, EndsIn
<1>2. \A i : AllEnds(i) = AllEndsIn(source_string, i)
  BY <1>1 DEF AllEnds, AllEndsIn
<1>3. ASSUME NEW tok
      PROVE  CharsOf(tok) = CharsIn(source_string, tok)
  BY CharsAre, ContentsAre DEF CharsOf, CharsIn
<1> QED
  BY <1>1, <1>2, <1>3

-----------------------------------------------------------------------------
(* What is known of a token, and of the characters of one that is finished. *)
TokenRecs == [term : char_eps .. alter, start : Nat, end : Nat, chars : Seq(Int)]

TokenOf(txt, tok) ==
  /\ tok \in TokenRecs
  /\ At(txt, tok.start) = SignOf(tok.term)
  /\ LongestEnd(txt, tok.term, tok.start, tok.end)

FoundOf(txt, tok) ==
  Apart(txt, tok.term, tok.start, tok.end) =>
    /\ tok.chars \in CharsIn(txt, tok)
    /\ AllFit(txt, tok.start, tok.end) => tok.chars \in Seq(Chars)

(* The characters of the last token were read up to c. *)
InWork(txt, tok, c) ==
  /\ tok.term \in WithChars
  /\ Apart(txt, tok.term, tok.start, tok.end) =>
       ReadUpTo(txt, tok.term, tok.start, tok.end, tok.chars, c)

(* Nothing in front of o was lost but white characters. *)
Covered(txt, toks, o) ==
  \A i \in 0 .. o - 1 :
    \/ At(txt, i) \in White
    \/ \E k \in DOMAIN toks : i \in toks[k].start .. toks[k].end - 1

TokensInv ==
  /\ /\ source_string \in Seq(Chars)
     /\ old_input_idx \in Nat /\ input_idx \in Nat /\ c_ptr \in Nat
     /\ old_input_idx <= input_idx
  /\ /\ tokens \in Seq(TokenRecs)
     /\ \A k \in DOMAIN tokens : TokenOf(source_string, tokens[k])
     /\ \A k \in DOMAIN tokens :
          (reg_phase = "chars" => k # Len(tokens)) => FoundOf(source_string, tokens[k])
  /\ Covered(source_string, tokens, old_input_idx)
  /\ reg_phase = "lex" => Place(source_string, old_input_idx, input_idx, lex_state)
  /\ reg_phase = "chars" =>
       /\ lex_state = 0 /\ old_input_idx = input_idx /\ tokens # <<>>
       /\ InWork(source_string, tokens[Len(tokens)], c_ptr)
  /\ reg_phase = "refused" => AllEndsIn(source_string, old_input_idx) = {}
  /\ reg_phase = "read" => At(source_string, old_input_idx) = 0

LEMMA TokenIsWithin ==
  ASSUME NEW txt \in Seq(Chars), NEW tok, TokenOf(txt, tok)
  PROVE  /\ tok.term \in char_eps .. alter /\ tok.start \in Nat /\ tok.end \in Nat
         /\ tok.chars \in Seq(Int) /\ tok.end \in EndsIn(txt, tok.term, tok.start)
         /\ AllEndsIn(txt, tok.start) = EndsIn(txt, tok.term, tok.start)
         /\ tok.term \in DOMAIN PlainChar \/ tok.term \in WithChars
<1>1. /\ tok.term \in char_eps .. alter /\ tok.start \in Nat /\ tok.end \in Nat
      /\ tok.chars \in Seq(Int)
  BY DEF TokenOf, TokenRecs
<1>2. tok.end \in EndsIn(txt, tok.term, tok.start)
  BY DEF TokenOf, LongestEnd
<1>3. AllEndsIn(txt, tok.start) = EndsIn(txt, tok.term, tok.start)
  BY <1>1, AllEndsAre DEF TokenOf
<1> QED
  BY <1>1, <1>2, <1>3, SignsDiffer

LEMMA InitTokens ==
  ASSUME TokensInit
  PROVE  TokensInv
<1>1. source_string \in Seq(Chars)
  BY RegTextsAssumption DEF TokensInit
<1>2. tokens = <<>> /\ tokens \in Seq(TokenRecs) /\ DOMAIN tokens = {}
  BY DEF TokensInit
<1>3. Covered(source_string, tokens, 0)
  BY DEF Covered
<1>4. Place(source_string, 0, 0, 0)
  BY DEF Place
<1> QED
  BY <1>1, <1>2, <1>3, <1>4 DEF TokensInit, TokensInv

(* The automaton takes its steps, and its returns are those of StepFrom. *)
LEMMA LexSteps ==
  ASSUME TokensInv, Lexing
  PROVE  /\ ~Returns => Place(source_string, old_input_idx, input_idx + 1, LexTarget)
         /\ Returns => Returned(source_string, old_input_idx, input_idx, ReturnedTerm)
<1>1. PICK txt, o, i, s, m : /\ txt = source_string /\ o = old_input_idx /\ i = input_idx
                             /\ s = lex_state /\ m = LexMove(s, At(txt, i))
  OBVIOUS
<1>2. txt \in Seq(Chars) /\ o \in Nat /\ i \in Nat /\ Place(txt, o, i, s)
  BY <1>1 DEF TokensInv, Lexing
<1>3. StepFrom(txt, o, i, s, m)
  BY ONLY <1>1, <1>2, PlaceStep
<1>4. LexTarget = m
  BY <1>1, CharsAre DEF LexTarget
<1>5. Returns <=> (m = NotExist \/ i >= Len(txt))
  BY <1>1, <1>4 DEF Returns
<1>6. ReturnedTerm = LexFinal(IF m = NotExist THEN s ELSE m)
  BY <1>1, <1>4 DEF ReturnedTerm
<1>7. i < Len(txt) \/ i >= Len(txt)
  BY <1>2, TextAt
<1> QED
  BY <1>1, <1>3, <1>4, <1>5, <1>6, <1>7 DEF StepFrom

LEMMA NextStateKeeps ==
  ASSUME TokensInv, NextState
  PROVE  TokensInv'
<1>1. Place(source_string, old_input_idx, input_idx + 1, LexTarget)
  BY LexSteps DEF NextState
<1>2. reg_phase = "lex" /\ reg_phase' = "lex" /\ input_idx' = input_idx + 1
      /\ lex_state' = LexTarget
  BY DEF NextState, Lexing
<1>3. old_input_idx <= input_idx' /\ input_idx' \in Nat
  BY <1>2 DEF TokensInv
<1> QED
  BY <1>1, <1>2, <1>3 DEF TokensInv, NextState

LEMMA RefuseTextKeeps ==
  ASSUME TokensInv, RefuseText
  PROVE  TokensInv'
<1>1. Returned(source_string, old_input_idx, input_idx, NotExist)
  BY LexSteps DEF RefuseText
<1>2. AllEndsIn(source_string, old_input_idx) = {}
  BY <1>1 DEF Returned, NotExist, skip, reg_end, char_eps, alter
<1>3. reg_phase = "lex" /\ reg_phase' = "refused"
  BY DEF RefuseText, Lexing
<1> QED
  BY <1>2, <1>3 DEF TokensInv, RefuseText

LEMMA ReachEndKeeps ==
  ASSUME TokensInv, ReachEnd
  PROVE  TokensInv'
<1>1. Returned(source_string, old_input_idx, input_idx, reg_end)
  BY LexSteps DEF ReachEnd
<1>2. At(source_string, old_input_idx) = 0
  BY <1>1 DEF Returned, NotExist, skip, reg_end, char_eps, alter
<1>3. reg_phase = "lex" /\ reg_phase' = "read"
  BY DEF ReachEnd, Lexing
<1> QED
  BY <1>2, <1>3 DEF TokensInv, ReachEnd

LEMMA SkipWhiteKeeps ==
  ASSUME TokensInv, SkipWhite
  PROVE  TokensInv'
<1>1. Returned(source_string, old_input_idx, input_idx, skip)
  BY LexSteps DEF SkipWhite
<1>2. \A k \in old_input_idx .. input_idx - 1 : At(source_string, k) \in White
  BY <1>1 DEF Returned, NotExist, skip, reg_end, char_eps, alter
<1>3. Covered(source_string, tokens, input_idx)
  <2>1. \A k \in 0 .. input_idx - 1 :
          k \in 0 .. old_input_idx - 1 \/ k \in old_input_idx .. input_idx - 1
    BY DEF TokensInv
  <2> QED
    BY <1>2, <2>1 DEF Covered, TokensInv
<1>4. Place(source_string, input_idx, input_idx, 0)
  BY DEF Place
<1>5. reg_phase = "lex" /\ reg_phase' = "lex" /\ old_input_idx' = input_idx /\ lex_state' = 0
  BY DEF SkipWhite, Lexing
<1> QED
  BY <1>3, <1>4, <1>5 DEF TokensInv, SkipWhite

LEMMA TakeTokenKeeps ==
  ASSUME TokensInv, TakeToken
  PROVE  TokensInv'
<1>1. PICK txt, o, i, t : /\ txt = source_string /\ o = old_input_idx /\ i = input_idx
                          /\ t = ReturnedTerm
  OBVIOUS
<1>2. txt \in Seq(Chars) /\ o \in Nat /\ i \in Nat /\ o <= i
  BY <1>1 DEF TokensInv
<1>3. Returned(txt, o, i, t) /\ t \notin {NotExist, skip, reg_end}
  BY <1>1, LexSteps DEF TakeToken
<1>4. t \in char_eps .. alter /\ At(txt, o) = SignOf(t) /\ LongestEnd(txt, t, o, i)
  BY <1>3 DEF Returned
<1>5. PICK tok : tok = [term |-> t, start |-> o, end |-> i, chars |-> <<>>]
  OBVIOUS
<1>6. /\ tok.term = t /\ tok.start = o /\ tok.end = i /\ tok.chars = <<>>
      /\ tok \in TokenRecs
  <2>1. <<>> \in Seq(Int)
    OBVIOUS
  <2> QED
    BY <1>2, <1>4, <1>5, <2>1 DEF TokenRecs
<1>7. TokenOf(txt, tok)
  BY <1>4, <1>6 DEF TokenOf
<1>8. PICK n \in Nat : n = Len(tokens)
  BY DEF TokensInv
<1>9. PICK old, new : old = tokens /\ new = tokens'
  OBVIOUS
<1>10. old \in Seq(TokenRecs) /\ Len(old) = n /\ new = Append(old, tok)
  BY <1>1, <1>5, <1>8, <1>9 DEF TokensInv, TakeToken
<1>11. /\ new \in Seq(TokenRecs) /\ Len(new) = n + 1 /\ DOMAIN new = 1 .. n + 1
       /\ new[n + 1] = tok /\ \A k \in 1 .. n : new[k] = old[k]
       /\ DOMAIN old = 1 .. n
  BY <1>6, <1>10
<1>12. /\ \A k \in 1 .. n : TokenOf(txt, old[k]) /\ FoundOf(txt, old[k])
       /\ Covered(txt, old, o)
  BY <1>1, <1>9, <1>11 DEF TokensInv, TakeToken, Lexing
<1>13. \A k \in DOMAIN new : TokenOf(txt, new[k])
  <2>1. \A k \in DOMAIN new : k \in 1 .. n \/ k = n + 1
    BY <1>11
  <2> QED
    BY <1>7, <1>11, <1>12, <2>1
<1>14. Covered(txt, new, i)
  <2> SUFFICES ASSUME NEW x \in 0 .. i - 1, At(txt, x) \notin White
               PROVE  \E k \in DOMAIN new : x \in new[k].start .. new[k].end - 1
    BY DEF Covered
  <2>1. CASE x \in 0 .. o - 1
    <3>1. PICK k \in 1 .. n : x \in old[k].start .. old[k].end - 1
      BY <1>11, <1>12, <2>1 DEF Covered
    <3>2. k \in DOMAIN new /\ new[k] = old[k]
      BY <1>11
    <3> QED
      BY <3>1, <3>2
  <2>2. CASE x \in o .. i - 1
    <3>1. n + 1 \in DOMAIN new
      BY <1>11
    <3> QED
      BY <1>6, <1>11, <2>2, <3>1
  <2> QED
    BY <1>2, <2>1, <2>2
<1>15. CASE t \in WithChars
  <2>1. reg_phase' = "chars" /\ c_ptr' = o + Opening(t)
    BY <1>1, <1>15 DEF TakeToken, WithChars
  <2>2. InWork(txt, tok, o + Opening(t)) /\ o + Opening(t) \in Nat
    <3>1. i \in EndsIn(txt, t, o)
      BY <1>4 DEF LongestEnd
    <3>2. ReadUpTo(txt, t, o, i, <<>>, o + Opening(t))
      BY <1>2, <1>15, <3>1, ReadStarts
    <3> QED
      BY <1>2, <1>6, <1>15, <3>2, OpeningIs DEF InWork
  <2>3. \A k \in DOMAIN new : k # Len(new) => FoundOf(txt, new[k])
    <3>1. \A k \in DOMAIN new : k # Len(new) => k \in 1 .. n
      BY <1>11
    <3> QED
      BY <1>11, <1>12, <3>1
  <2>4. new # <<>> /\ new[Len(new)] = tok
    BY <1>11
  <2>5. source_string' = txt /\ old_input_idx' = i /\ input_idx' = i /\ lex_state' = 0
        /\ tokens' = new
    BY <1>1, <1>9 DEF TakeToken
  <2> QED
    BY <1>2, <1>11, <1>13, <1>14, <2>1, <2>2, <2>3, <2>4, <2>5 DEF TokensInv
<1>16. CASE t \notin WithChars
  <2>1. reg_phase' = "lex" /\ c_ptr' = o + Opening(t) /\ o + Opening(t) \in Nat
    BY <1>1, <1>2, <1>16, OpeningIs DEF TakeToken, WithChars
  <2>2. FoundOf(txt, tok)
    <3>1. t \in DOMAIN PlainChar
      BY <1>4, <1>16, SignsDiffer
    <3>2. CharsIn(txt, tok) = {<<>>} /\ <<>> \in Seq(Chars)
      BY <1>6, <3>1 DEF CharsIn
    <3> QED
      BY <1>6, <3>2 DEF FoundOf
  <2>3. \A k \in DOMAIN new : FoundOf(txt, new[k])
    <3>1. \A k \in DOMAIN new : k \in 1 .. n \/ k = n + 1
      BY <1>11
    <3> QED
      BY <1>11, <1>12, <2>2, <3>1
  <2>4. Place(txt, i, i, 0)
    BY DEF Place
  <2>5. source_string' = txt /\ old_input_idx' = i /\ input_idx' = i /\ lex_state' = 0
        /\ tokens' = new
    BY <1>1, <1>9 DEF TakeToken
  <2> QED
    BY <1>2, <1>11, <1>13, <1>14, <2>1, <2>3, <2>4, <2>5 DEF TokensInv
<1> QED
  BY <1>15, <1>16

LEMMA CharsReadIs ==
  ASSUME NEW tok
  PROVE  CharsRead(tok) <=> AllRead(tok.term, tok.end, tok.chars, c_ptr)
BY DEF CharsRead, AllRead

LEMMA CharsDoneKeeps ==
  ASSUME TokensInv, CharsDone
  PROVE  TokensInv'
<1>1. PICK txt, toks, n, tok : /\ txt = source_string /\ toks = tokens /\ n = Len(tokens)
                               /\ tok = tokens[n]
  OBVIOUS
<1>2. /\ reg_phase = "chars" /\ reg_phase' = "lex" /\ lex_state = 0
      /\ old_input_idx = input_idx /\ InWork(txt, tok, c_ptr)
  BY <1>1 DEF TokensInv, CharsDone
<1>3. txt \in Seq(Chars) /\ toks \in Seq(TokenRecs) /\ n \in Nat /\ n \in DOMAIN toks /\ c_ptr \in Nat
  BY <1>1, <1>2 DEF TokensInv
<1>4. TokenOf(txt, tok)
  BY <1>1, <1>3 DEF TokensInv
<1>5. /\ tok.term \in WithChars /\ tok.start \in Nat /\ tok.end \in Nat
      /\ tok.chars \in Seq(Int) /\ tok.end \in EndsIn(txt, tok.term, tok.start)
  BY <1>2, <1>3, <1>4, TokenIsWithin DEF InWork
<1>6. FoundOf(txt, tok)
  <2> SUFFICES ASSUME Apart(txt, tok.term, tok.start, tok.end)
               PROVE  /\ tok.chars \in CharsIn(txt, tok)
                      /\ AllFit(txt, tok.start, tok.end) => tok.chars \in Seq(Chars)
    BY DEF FoundOf
  <2>1. AllRead(tok.term, tok.end, tok.chars, c_ptr)
    BY <1>1, CharsReadIs DEF CharsDone, Last
  <2>2. PICK t, o, e, chars, c : /\ t = tok.term /\ o = tok.start /\ e = tok.end
                                 /\ chars = tok.chars /\ c = c_ptr
    OBVIOUS
  <2>3. CharsFound(txt, t, o, e, chars)
    <3>1. ReadUpTo(txt, t, o, e, chars, c) /\ Apart(txt, t, o, e) /\ AllRead(t, e, chars, c)
      BY <1>2, <2>1, <2>2 DEF InWork
    <3>2. /\ txt \in Seq(Chars) /\ t \in WithChars /\ o \in Nat /\ e \in EndsIn(txt, t, o)
          /\ chars \in Seq(Int) /\ c \in Nat
      BY <1>3, <1>5, <2>2
    <3> QED
      BY ONLY <3>1, <3>2, ReadEnds
  <2>4. /\ OpenedIn(txt, t, o) /\ e - 1 < Len(txt) /\ At(txt, e - 1) = Closing(t)
    BY <1>3, <1>5, <2>2, TokenEnds
  <2>5. tok.chars \in CharsIn(txt, tok)
    BY <1>5, <2>2, <2>3, <2>4, FoundAreIn
  <2> QED
    BY <2>2, <2>3, <2>5 DEF CharsFound
<1>7. \A k \in DOMAIN toks : FoundOf(txt, toks[k])
  BY <1>1, <1>6 DEF TokensInv
<1>8. Place(txt, input_idx, input_idx, 0)
  BY DEF Place
<1> QED
  BY <1>1, <1>2, <1>3, <1>7, <1>8 DEF TokensInv, CharsDone

LEMMA ReadCharKeeps ==
  ASSUME TokensInv, ReadChar
  PROVE  TokensInv'
<1>1. PICK txt, old, n, tok, c : /\ txt = source_string /\ old = tokens /\ n = Len(tokens)
                                 /\ tok = tokens[n] /\ c = c_ptr
  OBVIOUS
<1>2. /\ reg_phase = "chars" /\ reg_phase' = "chars" /\ lex_state = 0
      /\ old_input_idx = input_idx /\ InWork(txt, tok, c)
  BY <1>1 DEF TokensInv, ReadChar
<1>3. /\ txt \in Seq(Chars) /\ old \in Seq(TokenRecs) /\ n \in Nat /\ n \in DOMAIN old
      /\ DOMAIN old = 1 .. n /\ Len(old) = n /\ c \in Nat
  BY <1>1, <1>2 DEF TokensInv
<1>4. TokenOf(txt, tok) /\ tok \in TokenRecs
  BY <1>1, <1>3 DEF TokensInv, TokenOf
<1>5. /\ tok.term \in WithChars /\ tok.start \in Nat /\ tok.end \in Nat
      /\ tok.chars \in Seq(Int) /\ tok.end \in EndsIn(txt, tok.term, tok.start)
  BY <1>2, <1>3, <1>4, TokenIsWithin DEF InWork
<1>6. PICK code, next : code = CharFrom(txt, c).code /\ next = Behind(txt, c)
  OBVIOUS
<1>7. code \in Int /\ next \in Nat
  BY <1>3, <1>6, CodeIs, BehindIs
<1>8. PICK more, tok2 : more = Append(tok.chars, code) /\ tok2 = [tok EXCEPT !.chars = more]
  OBVIOUS
<1>9. more \in Seq(Int)
  BY <1>5, <1>7, <1>8
<1>10. /\ tok2.term = tok.term /\ tok2.start = tok.start /\ tok2.end = tok.end
       /\ tok2.chars = more /\ tok2 \in TokenRecs
  BY <1>4, <1>8, <1>9 DEF TokenRecs
<1>11. PICK new : new = [old EXCEPT ![n] = tok2]
  OBVIOUS
<1>12. tokens' = new /\ c_ptr' = next
  <2>1. process_char(c_ptr).code = code /\ process_char(c_ptr).next = next
    BY <1>1, <1>6, ProcessCharIs DEF Behind
  <2>2. tokens' = [old EXCEPT ![n].chars = Append(@, code)] /\ c_ptr' = next
    BY <1>1, <2>1 DEF ReadChar
  <2>3. [old EXCEPT ![n].chars = Append(@, code)] = [old EXCEPT ![n] = tok2]
    BY <1>1, <1>3, <1>8
  <2> QED
    BY <1>11, <2>2, <2>3
<1>13. /\ new \in Seq(TokenRecs) /\ Len(new) = n /\ DOMAIN new = 1 .. n
       /\ new[n] = tok2 /\ \A k \in 1 .. n : k # n => new[k] = old[k]
  BY <1>3, <1>10, <1>11
<1>14. TokenOf(txt, tok2)
  BY <1>4, <1>10 DEF TokenOf
<1>15. \A k \in DOMAIN new : TokenOf(txt, new[k])
  <2>1. \A k \in DOMAIN old : TokenOf(txt, old[k])
    BY <1>1 DEF TokensInv
  <2> QED
    BY <1>3, <1>13, <1>14, <2>1
<1>16. \A k \in DOMAIN new : k # Len(new) => FoundOf(txt, new[k])
  <2>1. \A k \in DOMAIN old : k # n => FoundOf(txt, old[k])
    BY <1>1, <1>2 DEF TokensInv
  <2> QED
    BY <1>3, <1>13, <2>1
<1>17. Covered(txt, new, old_input_idx)
  <2>1. Covered(txt, old, old_input_idx)
    BY <1>1 DEF TokensInv
  <2>2. \A k \in 1 .. n : new[k].start = old[k].start /\ new[k].end = old[k].end
    BY <1>1, <1>10, <1>13
  <2>3. DOMAIN new = DOMAIN old
    BY <1>3, <1>13
  <2> QED
    BY <1>3, <2>1, <2>2, <2>3 DEF Covered
<1>18. InWork(txt, tok2, next)
  <2> SUFFICES ASSUME Apart(txt, tok.term, tok.start, tok.end)
               PROVE  ReadUpTo(txt, tok.term, tok.start, tok.end, more, next)
    BY <1>5, <1>10 DEF InWork
  <2>1. PICK t, o, e, chars : /\ t = tok.term /\ o = tok.start /\ e = tok.end
                              /\ chars = tok.chars
    OBVIOUS
  <2>2. ~AllRead(t, e, chars, c)
    BY <1>1, <2>1, CharsReadIs DEF ReadChar, Last
  <2>3. ReadUpTo(txt, t, o, e, chars, c) /\ Apart(txt, t, o, e)
    BY <1>2, <2>1 DEF InWork
  <2>4. /\ txt \in Seq(Chars) /\ t \in WithChars /\ o \in Nat /\ e \in EndsIn(txt, t, o)
        /\ chars \in Seq(Int) /\ c \in Nat
    BY <1>3, <1>5, <2>1
  <2>5. ReadUpTo(txt, t, o, e, Append(chars, CharFrom(txt, c).code), Behind(txt, c))
    BY ONLY <2>2, <2>3, <2>4, ReadGoesOn
  <2> QED
    BY <1>6, <1>8, <2>1, <2>5
<1>19. /\ source_string' = txt /\ old_input_idx' = old_input_idx /\ input_idx' = input_idx
       /\ lex_state' = 0
  BY <1>1, <1>2 DEF ReadChar
<1>20. new # <<>> /\ new[Len(new)] = tok2
  BY <1>3, <1>13
<1>21. /\ old_input_idx \in Nat /\ input_idx \in Nat /\ old_input_idx <= input_idx
  BY DEF TokensInv
<1> QED
  BY <1>2, <1>3, <1>7, <1>12, <1>13, <1>15, <1>16, <1>17, <1>18, <1>19, <1>20, <1>21
  DEF TokensInv

-----------------------------------------------------------------------------
(* Wherever recognize_terminal is, it is at a place of the token in work, and
   the characters that process_char read are a way to read the text. *)
THEOREM TokensInvariant == TokensSpec => []TokensInv
<1>1. TokensInit => TokensInv
  BY InitTokens
<1>2. TokensInv /\ [TokensNext]_tokenVars => TokensInv'
  <2> SUFFICES ASSUME TokensInv, [TokensNext]_tokenVars
               PROVE  TokensInv'
    OBVIOUS
  <2>1. CASE NextState
    BY <2>1, NextStateKeeps
  <2>2. CASE RefuseText
    BY <2>2, RefuseTextKeeps
  <2>3. CASE SkipWhite
    BY <2>3, SkipWhiteKeeps
  <2>4. CASE ReachEnd
    BY <2>4, ReachEndKeeps
  <2>5. CASE TakeToken
    BY <2>5, TakeTokenKeeps
  <2>6. CASE ReadChar
    BY <2>6, ReadCharKeeps
  <2>7. CASE CharsDone
    BY <2>7, CharsDoneKeeps
  <2>8. CASE UNCHANGED tokenVars
    BY <2>8 DEF TokensInv, tokenVars
  <2> QED
    BY <2>1, <2>2, <2>3, <2>4, <2>5, <2>6, <2>7, <2>8 DEF TokensNext
<1> QED
  BY <1>1, <1>2, PTL DEF TokensSpec

LEMMA TokensAreLongest ==
  ASSUME TokensInv
  PROVE  TokensLongest
<1>1. source_string \in Seq(Chars) /\ tokens \in Seq(TokenRecs)
  BY DEF TokensInv
<1>2. ASSUME NEW tok \in TheTokens
      PROVE  tok.end \in Ends(tok.term, tok.start) /\ tok.end = Max(AllEnds(tok.start))
  <2>1. TokenOf(source_string, tok)
    BY DEF TokensInv, TheTokens
  <2>2. PICK txt, S, e : /\ txt = source_string /\ S = EndsIn(txt, tok.term, tok.start)
                         /\ e = tok.end
    OBVIOUS
  <2>3. /\ tok.start \in Nat /\ e \in S /\ AllEndsIn(txt, tok.start) = S
        /\ tok.term \in DOMAIN PlainChar \/ tok.term \in WithChars
    BY <1>1, <2>1, <2>2, TokenIsWithin
  <2>4. \A x \in S : x <= e
    BY <2>1, <2>2 DEF TokenOf, LongestEnd
  <2>5. S \in SUBSET Int
    <3>1. CASE tok.term \in DOMAIN PlainChar
      BY <2>2, <2>3, <3>1 DEF EndsIn
    <3>2. CASE tok.term \in WithChars
      <4>1. ASSUME NEW x \in EndsIn(txt, tok.term, tok.start)
            PROVE  x \in Int
        <5>1. PICK p, stops : p = tok.start + Opening(tok.term) /\ stops = Stops(tok.term)
          OBVIOUS
        <5>2. p \in Nat /\ 92 \notin stops
          BY <2>3, <3>2, <5>1, OpeningIs, SignsClose
        <5>3. PICK n \in CountsIn(txt, tok.term) :
                Closes(txt, p, stops, n, Closing(tok.term), x)
          BY <3>2, <5>1, EndsAre
        <5>4. PICK y \in Reach(txt, p, stops, n) : x = y + 1
          BY <5>3 DEF Closes
        <5>5. n \in Nat
          BY DEF CountsIn
        <5>6. y \in Nat
          BY <1>1, <2>2, <5>2, <5>4, <5>5, ReachBeyond
        <5> QED
          BY <5>4, <5>6
      <4> QED
        BY <2>2, <4>1
    <3> QED
      BY <2>3, <3>1, <3>2
  <2>6. e = Max(S)
    BY ONLY <2>3, <2>4, <2>5, LongestIsMax
  <2> QED
    BY <2>2, <2>3, <2>6, EndsIs
<1>3. reg_phase = "refused" => AllEnds(old_input_idx) = {}
  BY EndsIs DEF TokensInv
<1>4. ASSUME NEW i \in 0 .. old_input_idx - 1, CharAt(i) \notin White
      PROVE  \E tok \in TheTokens : i \in tok.start .. tok.end - 1
  <2>1. PICK k \in DOMAIN tokens : i \in tokens[k].start .. tokens[k].end - 1
    BY <1>4, CharsAre DEF TokensInv, Covered
  <2> QED
    BY <2>1 DEF TheTokens
<1>5. reg_phase = "read" => CharAt(old_input_idx) = 0
  BY CharsAre DEF TokensInv
<1> QED
  BY <1>2, <1>3, <1>4, <1>5 DEF TokensLongest

LEMMA CharsAreWritten ==
  ASSUME TokensInv
  PROVE  CharsWritten
<1>1. source_string \in Seq(Chars) /\ tokens \in Seq(TokenRecs)
  BY DEF TokensInv
<1> SUFFICES ASSUME NEW tok \in Finished, RangeApart(tok)
             PROVE  /\ tok.chars \in CharsOf(tok)
                    /\ OctalFits(tok) => ToSet(tok.chars) \subseteq Chars
  BY DEF CharsWritten
<1>2. TokenOf(source_string, tok) /\ FoundOf(source_string, tok)
  <2>1. PICK k \in DOMAIN tokens : tok = tokens[k] /\ (reg_phase = "chars" => k # Len(tokens))
    <3>1. PICK n \in Nat : n = Len(tokens) /\ DOMAIN tokens = 1 .. n
      BY <1>1
    <3>2. CASE reg_phase = "chars"
      <4>1. PICK k \in 1 .. Len(tokens) - 1 : tok = tokens[k]
        BY <3>2 DEF Finished
      <4>2. k \in 1 .. n /\ k # n
        BY <3>1, <4>1
      <4> QED
        BY <3>1, <4>1, <4>2
    <3>3. CASE reg_phase # "chars"
      BY <3>3 DEF Finished, TheTokens
    <3> QED
      BY <3>2, <3>3
  <2> QED
    BY <2>1 DEF TokensInv
<1>3. Apart(source_string, tok.term, tok.start, tok.end)
  BY ProcessCharIs DEF RangeApart, Apart, Behind
<1>4. tok.chars \in CharsIn(source_string, tok)
      /\ (AllFit(source_string, tok.start, tok.end) => tok.chars \in Seq(Chars))
  BY <1>2, <1>3 DEF FoundOf
<1>5. OctalFits(tok) => AllFit(source_string, tok.start, tok.end)
  BY CharsAre DEF OctalFits, AllFit, Fits
<1>6. tok.chars \in Seq(Chars) => ToSet(tok.chars) \subseteq Chars
  <2> SUFFICES ASSUME tok.chars \in Seq(Chars), NEW x \in ToSet(tok.chars)
               PROVE  x \in Chars
    OBVIOUS
  <2>1. PICK k \in 1 .. Len(tok.chars) : x = tok.chars[k]
    BY DEF ToSet
  <2> QED
    BY <2>1, ElementOf
<1> QED
  BY <1>4, <1>5, <1>6, EndsIs

(* recognize_terminal returns the longest token that there is, refuses only
   where none begins and loses nothing but white characters, for every text. *)
THEOREM TokensStayLongest == TokensSpec => []TokensLongest
BY TokensInvariant, TokensAreLongest, PTL

(* process_char reads just the characters that are written in a token. *)
THEOREM CharsStayWritten == TokensSpec => []CharsWritten
BY TokensInvariant, CharsAreWritten, PTL

=============================================================================
