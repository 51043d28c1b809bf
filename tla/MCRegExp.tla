------------------------------ MODULE MCRegExp -----------------------------
(***************************************************************************)
(* The regular expressions the runs of process_reg_exp are made with.      *)
(***************************************************************************)
EXTENDS RegReference

CONSTANT ExpMax      (* bound: tokens of the expressions over two characters *)

Plain(t) == [term |-> t, chars |-> <<>>]
With(t, cs) == [term |-> t, chars |-> cs]

A == With(char, <<1>>)
B == With(char, <<2>>)

(* Everything of at most four tokens: most of it is refused somewhere. *)
AnyTokens ==
  LET tokens == {A} \union {Plain(t) : t \in {NotExist, char_eps, skip, lr_br,
                                              rr_br, iter, conc, alter}}
  IN  UNION {[1 .. n -> tokens] : n \in 0 .. 4}

(* The expressions of n tokens over the atoms: all <C>, <B> or <A>. *)
RECURSIVE Exps(_, _, _)
Exps(atoms, n, level) ==
  LET Joined(op) ==
        UNION {{l \o <<Plain(op)>> \o r : l \in Exps(atoms, i, level + 1),
                                          r \in Exps(atoms, n - 1 - i, level)} :
                 i \in 1 .. n - 2}
      Bracketed(S) == {<<Plain(lr_br)>> \o e \o <<Plain(rr_br)>> : e \in S}
  IN  IF n <= 0 THEN {}
      ELSE CASE level = 0 -> Exps(atoms, n, 1) \union Joined(alter)
             [] level = 1 -> Exps(atoms, n, 2) \union Joined(conc)
             [] level = 2 ->
                  IF n = 1 THEN {<<a>> : a \in atoms}
                  ELSE {Append(e, Plain(iter)) : e \in Exps(atoms, n - 1, 2)}
                         \union IF n > 2 THEN Bracketed(Exps(atoms, n - 2, 0)) ELSE {}

Expressions == UNION {Exps({A, B}, n, 0) : n \in 5 .. ExpMax}

(* Every kind of token, alone and under or between operators. *)
AllAtoms ==
  {Plain(t) : t \in {char_eps, char_white, char_digit, char_letter}}
    \union {With(t, <<c>>) : t \in {char, char_no_char}, c \in {0, 2}}
    \union {With(char_str, cs) : cs \in {<<>>, <<3>>, <<1, 1>>, <<1, 2, 1>>}}
    \union {With(char_range, <<c, d>>) : c \in {1, 2, 3}, d \in {1, 3}}
    \union {With(char_alter, cs) : cs \in {<<0>>, <<2, 1>>, <<1, 1>>}}
    \union {With(char_except, cs) : cs \in {<<0>>, <<3, 1>>, <<2, 2, 1>>}}

AtomExpressions == UNION {Exps(AllAtoms, n, 0) : n \in 1 .. 3}

SmallRegExps == AnyTokens \union Expressions \union AtomExpressions

(* ('a'*.'b')* *)
NestedIteration ==
  {<<Plain(lr_br), A, Plain(iter), Plain(conc), B, Plain(rr_br), Plain(iter)>>}
=============================================================================
