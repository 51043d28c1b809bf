----------------------------- MODULE MCRegTokens ---------------------------
(***************************************************************************)
(* The texts that the tokens of regular expressions are looked for in.     *)
(***************************************************************************)
EXTENDS RegTokenRules

CONSTANTS
  ShortMax,    (* bound: length of the texts of any characters *)
  InsideMax    (* bound: characters written inside a token      *)

-----------------------------------------------------------------------------
(* The texts: all that are short, and those of one token with characters, in
   front of another sign, that were written in any way or are cut off. *)

Signs == {0, 32, 33, 34, 39, 42, 48, 60, 62, 91, 92, 93, 97, 120, 124, 200}
ShortTexts == UNION {[1 .. n -> Signs] : n \in 0 .. ShortMax}

Written ==
  {<<97>>, <<48>>, <<62>>, <<92>>, <<92, 54>>, <<92, 54, 48>>, <<92, 49, 48, 49>>,
   <<92, 52, 48, 48>>, <<92, 120, 51>>, <<92, 120, 51, 97>>, <<92, 120, 70>>,
   <<92, 110>>, <<92, 92>>, <<92, 62>>, <<92, 113>>, <<92, 120>>}

Insides == UNION {[1 .. n -> Written] : n \in 0 .. InsideMax}

Delimiters == {<<39>>, <<33, 39>>, <<34>>, <<60>>, <<91>>, <<124>>}
ClosedBy(open) == CASE open = <<60>> -> 62 [] open = <<91>> -> 93 [] OTHER -> Last(open)

LongTexts ==
  {open \o FlattenSeq(inside) \o end :
     open \in Delimiters, inside \in Insides, end \in {<<>>}}
  \union {open \o FlattenSeq(inside) \o <<ClosedBy(open)>> \o rest :
     open \in Delimiters, inside \in Insides, rest \in {<<>>, <<62>>, <<32, 42>>}}

SomeTexts == ShortTexts \union LongTexts
=============================================================================
