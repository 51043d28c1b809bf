------------------------------ MODULE Grammar ------------------------------
(***************************************************************************)
(* The grammar that yapgen reads from a rule file (p_creat_descr_s in      *)
(* parser_code.h) and the textbook sets that its table construction is     *)
(* meant to compute.  Terminals are the indices 0..TermCount-1 of the      *)
(* array "terminals", nonterminals the indices that follow them, exactly   *)
(* as the code numbers symbols in rule bodies, table rows and goto sets.   *)
(*                                                                         *)
(* Arrays of the code are sequences here: position i of the model is       *)
(* position i - 1 of the code.                                             *)
(***************************************************************************)
EXTENDS Integers, Sequences

CONSTANTS
  TermCount,     (* terminals.used                                         *)
  NontermCount,  (* nonterminals.used                                      *)
  Grammars       (* the arrays "rules" that a run considers                *)

Terminals == 0 .. (TermCount - 1)
Nonterminals == TermCount .. (TermCount + NontermCount - 1)
Symbols == 0 .. (TermCount + NontermCount - 1)

Rule == [head : Nonterminals, body : Seq(Symbols)]

(* The rule loader refuses an empty body (parser_code.cc:3612) and a rule
   file without a terminal, a nonterminal or a rule. *)
IsGrammar(g) ==
  /\ g \in Seq(Rule)
  /\ g # <<>>
  /\ \A r \in DOMAIN g : g[r].body # <<>>

ASSUME CountAssumption ==
  /\ TermCount \in Nat \ {0}
  /\ NontermCount \in Nat \ {0}

ASSUME GrammarAssumption == \A g \in Grammars : IsGrammar(g)

ElementsOf(s) == {s[i] : i \in DOMAIN s}

Distinct(s) == \A i, j \in DOMAIN s : s[i] = s[j] => i = j

-----------------------------------------------------------------------------
(* FIRST of a symbol, with the nonterminals that begin a derivation kept in
   the set as the code keeps them: the least set that holds x and is closed
   under "the first body symbol of a rule of a member is a member". *)

FirstClosed(g, S) ==
  \A r \in DOMAIN g : g[r].head \in S => g[r].body[1] \in S

First(g, x) ==
  {y \in Symbols : \A S \in SUBSET Symbols :
                      x \in S /\ FirstClosed(g, S) => y \in S}

(* The rules that FIRST(x) passes through: those whose head is in it and
   whose body begins with e. *)
RulesBeginningWith(g, x, e) ==
  {r \in DOMAIN g : g[r].head \in First(g, x) /\ g[r].body[1] = e}

-----------------------------------------------------------------------------
(* FOLLOW of a nonterminal: what may begin right after one of its
   occurrences, and whatever follows the head of a rule that it ends. *)

DirectFollow(g, n) ==
  {y \in Symbols : \E r \in DOMAIN g : \E i \in 1 .. Len(g[r].body) - 1 :
                      g[r].body[i] = n /\ y \in First(g, g[r].body[i + 1])}

EndHeads(g, n) ==
  {h \in Nonterminals : \E r \in DOMAIN g :
                      g[r].head = h /\ g[r].body[Len(g[r].body)] = n}

EndClosed(g, S) == \A k \in S : EndHeads(g, k) \subseteq S

HeadsAbove(g, n) ==
  {m \in Nonterminals : \A S \in SUBSET Nonterminals :
                      n \in S /\ EndClosed(g, S) => m \in S}

Follow(g, n) == UNION {DirectFollow(g, m) : m \in HeadsAbove(g, n)}

-----------------------------------------------------------------------------
(* f derives the text w: the least relation that holds every text of
   terminals as derived from itself, and the form a <<head>> z above every
   text that a body z is above. *)
DeriveClosed(g, R) ==
  /\ \A w \in Seq(Terminals) : <<w, w>> \in R
  /\ \A r \in DOMAIN g, a \in Seq(Symbols), z \in Seq(Symbols),
        w \in Seq(Terminals) :
       <<a \o g[r].body \o z, w>> \in R => <<a \o <<g[r].head>> \o z, w>> \in R

Derives(g, f, w) ==
  \A R \in SUBSET (Seq(Symbols) \X Seq(Terminals)) :
    DeriveClosed(g, R) => <<f, w>> \in R
=============================================================================
