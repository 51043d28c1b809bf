------------------------------- MODULE MCLexer -----------------------------
(***************************************************************************)
(* The lists of terminals the runs of create_final_automata_new are made   *)
(* with, and what recognize is meant to return.  Characters: 0 ends the    *)
(* text, 1 = a and 2 = b are letters, 3 = 5 is a digit, 4 is white and 5   *)
(* is none of these.                                                       *)
(***************************************************************************)
EXTENDS FinalAutomata, MCRegExp

CONSTANT Pool        (* the expressions that terminals have *)

One(c) == With(char, <<c>>)
Not(c) == With(char_no_char, <<c>>)
L == Plain(char_letter)
D == Plain(char_digit)
W == Plain(char_white)
Star == Plain(iter)
Dot == Plain(conc)
Or == Plain(alter)

WordA == <<One(1)>>
WordAB == <<With(char_str, <<1, 2>>)>>
Identifier == <<L, Dot, Plain(lr_br), L, Or, D, Plain(rr_br), Star>>
Number == <<D, Dot, D, Star>>
Spaces == <<W, Dot, W, Star>>
TextEnd == <<One(0)>>
Comment == <<One(5), Dot, Not(4), Star, Dot, One(4)>>
NotA == <<Not(1)>>
Quoted == <<One(3), Dot, With(char_except, <<3>>), Star, Dot, One(3)>>
Broken == <<One(1), Dot>>

LexerPool == {WordA, WordAB, Identifier, Number, Spaces, TextEnd, Comment,
              NotA, Quoted, Broken}

AllPairs == {<<e>> : e \in Pool} \union {<<e, f>> : e \in Pool, f \in Pool}

AllRegExps == LexerPool \union SmallRegExps

-----------------------------------------------------------------------------
(* Expressions are processed on their own as well: process_reg_exp without
   the automaton of several terminals around it. *)

AloneInit ==
  /\ RegExpInit /\ reg_exp \in SmallRegExps
  /\ fa_stage = "alone"
  /\ terminals = <<>> /\ t_idx = 1 /\ states_array = <<>>
  /\ fa_states = <<>> /\ fa_queue = <<>> /\ state_descrs = <<>>
  /\ state_moves = <<>>
  /\ RecInit

AloneDone == fa_stage = "alone" /\ reg_stage \in {"done", "failed"}

ExpressionsSpec ==
  /\ LexerInit \/ AloneInit
  /\ [][LexerNext]_lexerVars
  /\ WF_lexerVars(LexerNext)

-----------------------------------------------------------------------------
WordsOf == [e \in Pool |-> UNION {Denotes(t) : t \in TreesOf(e)}]

Covers(w, p) == Len(w) >= Len(p) /\ \A i \in DOMAIN p : Stands(w[i], p[i])

Begun(t, p) == \E w \in WordsOf[terminals[t]] : Covers(w, p)
Matches(t, p) ==
  \E w \in WordsOf[terminals[t]] : Len(w) = Len(p) /\ Covers(w, p)
Extended(t, p) ==
  \E w \in WordsOf[terminals[t]] : Len(w) > Len(p) /\ Covers(w, p)

Viable(p) == \E t \in DOMAIN terminals : Begun(t, p)

Prefix(n) == SubSeq(text, 1, n)

(* The terminal that wins a lexeme: the last of those that nothing longer
   begins with, or else the first. *)
Winner(p) ==
  LET match == {t \in DOMAIN terminals : Matches(t, p)}
      ended == {t \in match : ~Extended(t, p)}
  IN  IF match = {} THEN NotExist
      ELSE IF ended # {} THEN CHOOSE t \in ended : \A u \in ended : u <= t
      ELSE CHOOSE t \in match : \A u \in match : t <= u

(* recognize goes as far as any terminal goes on, and returns the winner of
   all it has read (with the zero behind the text, if some terminal takes
   it), or blank: it never goes back to a shorter lexeme. *)
RecognizesLongest ==
  read_stage = "returned" /\ AllApart =>
    /\ text_idx = Max({n \in 0 .. Len(text) : Viable(Prefix(n))})
    /\ recognized = IF text_idx = Len(text) /\ Viable(Append(text, 0))
                      THEN Winner(Append(text, 0)) ELSE Winner(Prefix(text_idx))

(* Every construction ends, and recognize returns on every text. *)
LexerEnds == <>(read_stage = "returned" \/ fa_stage = "failed" \/ AloneDone)
=============================================================================
