----------------------------- MODULE MCParserRun ---------------------------
EXTENDS ParserRun, MCGrammars

(* The hypothesis of the theorems about runs, as far as it is about grammars. *)
ASSUME TextsHaveEnds == \A g \in Grammars : EndsText(g)

EndSkipOrBlank == {NotExist, EndTerminal} \union SkipTerminals
AnyAnswer == Terminals \union {NotExist}

IsPrefixOf(p, w) == Len(p) <= Len(w) /\ SubSeq(w, 1, Len(p)) = p

(***************************************************************************)
(* The sentences of a grammar, up to MaxInput terminals before the end     *)
(* terminal, computed from the rules alone: a growing table of what each   *)
(* nonterminal derives, until it does not grow any more.                   *)
(***************************************************************************)
Short(S) == {w \in S : Len(w) <= MaxInput + 1}

RECURSIVE Strings(_, _)
Strings(body, derived) ==
  IF body = <<>> THEN {<<>>}
  ELSE LET first == IF body[1] \in Terminals THEN {<<body[1]>>}
                                             ELSE derived[body[1]]
       IN  Short({v \o w : v \in first, w \in Strings(Tail(body), derived)})

RECURSIVE Saturate(_, _)
Saturate(g, derived) ==
  LET more == [n \in Nonterminals |->
                 derived[n] \union
                   UNION {Strings(g[r].body, derived) :
                            r \in {r \in DOMAIN g : g[r].head = n}}]
  IN  IF more = derived THEN derived ELSE Saturate(g, more)

Sentences ==
  [g \in Grammars |-> Saturate(g, [n \in Nonterminals |-> {}])[g[1].head]]

(* A text is accepted only if the grammar derives it. *)
AcceptedAreSentences ==
  run_status = "accepted" => sentence \in Sentences[rules]

(* A text is refused, at the terminal where the table has no action, only
   if no sentence of the grammar begins that way. *)
RefusedAreNot ==
  run_status = "SYNTAX_ERROR" =>
    \A w \in Sentences[rules] : ~IsPrefixOf(sentence, w)
=============================================================================
