---------------------------- MODULE RegReference ---------------------------
(***************************************************************************)
(* What a regular expression means, from the grammar of                    *)
(* build/rules/regexp.rules and the descriptions in doc/intro.md: its tree *)
(* and the words it denotes, up to a length.                               *)
(***************************************************************************)
EXTENDS AutomatonWords

IsAtom(ts) == Len(ts) = 1 /\ ts[1].term \in char_eps .. char_except

(* Trees of the tokens ts as a <C> (level 0), <B> (1) or <A> (2). *)
RECURSIVE Trees(_, _)
Trees(ts, level) ==
  LET n == Len(ts)
      Split(op, below) ==
        {[op |-> op, args |-> <<l, r>>] :
           l \in Trees(SubSeq(ts, 1, below - 1), level + 1),
           r \in Trees(SubSeq(ts, below + 1, n), level)}
      Splits(op) == UNION {Split(op, i) : i \in {i \in 2 .. n - 1 : ts[i].term = op}}
  IN  CASE level = 0 -> Trees(ts, 1) \union Splits(alter)
        [] level = 1 -> Trees(ts, 2) \union Splits(conc)
        [] level = 2 ->
             IF IsAtom(ts) THEN {[op |-> ts[1].term, args |-> ts[1].chars]}
             ELSE IF n >= 2 /\ ts[n].term = iter
               THEN {[op |-> iter, args |-> <<t>>] : t \in Trees(Front(ts), 2)}
             ELSE IF n >= 3 /\ ts[1].term = lr_br /\ ts[n].term = rr_br
               THEN Trees(SubSeq(ts, 2, n - 1), 0)
             ELSE {}

TreesOf(exp) == Trees(SelectSeq(exp, LAMBDA t : t.term # skip), 0)

(* A range is of two characters in order. *)
RangesOrdered(exp) ==
  \A i \in DOMAIN exp :
    exp[i].term = char_range => exp[i].chars[1] <= exp[i].chars[2]

WellFormed(exp) == TreesOf(exp) # {} /\ RangesOrdered(exp)

Short(W) == {w \in W : Len(w) <= WordMax}
Pairs(V, W) ==
  UNION {{v \o w : w \in {w \in W : Len(v) + Len(w) <= WordMax}} : v \in V}
RECURSIVE Powers(_, _)
Powers(W, n) == IF n = 0 THEN {<<>>} ELSE {<<>>} \union Pairs(W, Powers(W, n - 1))

RECURSIVE Denotes(_)
Denotes(t) ==
  CASE t.op = alter -> Denotes(t.args[1]) \union Denotes(t.args[2])
    [] t.op = conc -> Pairs(Denotes(t.args[1]), Denotes(t.args[2]))
    [] t.op = iter -> Powers(Denotes(t.args[1]), WordMax)
    [] t.op = char_eps -> {<<>>}
    [] t.op = char_white -> {<<reg_char_white>>}
    [] t.op = char_digit -> {<<reg_char_digit>>}
    [] t.op = char_letter -> {<<reg_char_letter>>}
    [] t.op = char_no_char -> {<<c_no_char_base + t.args[1]>>}
    [] t.op = char_range -> {<<c>> : c \in t.args[1] .. t.args[2]}
    [] t.op = char_except -> {<<c>> : c \in Chars \ ToSet(t.args)}
    [] t.op \in {char, char_alter} -> {<<c>> : c \in ToSet(t.args)}
    [] t.op = char_str -> Short({t.args})

(* The first part of a concatenation, of its first part, and so on. *)
RECURSIVE FirstPart(_)
FirstPart(t) == IF t.op = conc THEN FirstPart(t.args[1]) ELSE t

(* No iteration goes over a concatenation that itself begins with an
   iteration. *)
RECURSIVE IterationsApart(_)
IterationsApart(t) ==
  CASE t.op \in {alter, conc} ->
         IterationsApart(t.args[1]) /\ IterationsApart(t.args[2])
    [] t.op = iter ->
         /\ IterationsApart(t.args[1])
         /\ t.args[1].op = conc => FirstPart(t.args[1]).op # iter
    [] OTHER -> TRUE

-----------------------------------------------------------------------------
Parsed == reg_stage \notin {"parse", "failed"}
JustParsed == reg_stage = "closures" /\ nka_states = <<>>

(* An expression is refused exactly if the grammar of regexp.rules has no
   tree for it or one of its ranges is out of order. *)
RefusesTheRest ==
  /\ Parsed => WellFormed(reg_exp)
  /\ reg_stage = "failed" => ~WellFormed(reg_exp)

(* The automaton of parse_reg_exp accepts the words that the expression
   denotes, for every expression whose iterations are apart. *)
AutomatonDenotes ==
  JustParsed => \A t \in TreesOf(reg_exp) :
    IterationsApart(t) => Accepted(states, fas_idx) = Denotes(t)

(* "In order to accept resulting regular expression operand of operator must
   be accepted zero or n-times" (doc/intro.md:182): nothing but repetitions
   of the operand is accepted. *)
IterationRepeats ==
  JustParsed => \A t \in TreesOf(reg_exp) :
    t.op = iter => Accepted(states, fas_idx) \subseteq Denotes(t)
=============================================================================
