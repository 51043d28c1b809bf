----------------------------- MODULE MCCodeGen -----------------------------
(***************************************************************************)
(* Automata of two states over five characters, and that of a comment.     *)
(***************************************************************************)
EXTENDS CodeGen

Fin(t) == [final |-> t]
Rows == [Chars -> {NotExist, 1, 2}]
Uses(row, s) == \E c \in Chars : row[c] = s

(* The code of the first state is what is looked at: all rows that lead to
   the second one.  The second has no moves, takes all characters, only the
   zero, or some. *)
SecondRows ==
  {[c \in Chars |-> NotExist], [c \in Chars |-> 2],
   [c \in Chars |-> IF c = 0 THEN 2 ELSE NotExist],
   [c \in Chars |-> CASE c = 1 -> 1 [] c \in 3 .. 4 -> 2 [] OTHER -> NotExist]}

(* Every state leads to a final one, as in the automaton of expressions. *)
TwoStates ==
  {[states |-> f, moves |-> <<r1, r2>>] :
     f \in {<<Fin(NotExist), Fin(0)>>, <<Fin(0), Fin(1)>>, <<Fin(0), Fin(NotExist)>>},
     r1 \in {r \in Rows : Uses(r, 2)}, r2 \in SecondRows}
LeadsToFinal(a) == a.states[2].final # NotExist \/ Uses(a.moves[2], 1)

(* A comment, from 1 = # to the end 2 of the line: '#'.!'\n'*.'\n' *)
Comment ==
  [states |-> <<Fin(NotExist), Fin(NotExist), Fin(0)>>,
   moves |-> <<[c \in Chars |-> IF c = 1 THEN 2 ELSE NotExist],
               [c \in Chars |-> IF c = 2 THEN 3 ELSE 2],
               [c \in Chars |-> NotExist]>>]

CommentOnly == {Comment}
MCAutomata == {a \in TwoStates : LeadsToFinal(a)} \union CommentOnly
=============================================================================
