---------------------------- MODULE MCGrammars -----------------------------
(***************************************************************************)
(* The grammars the runs are made with.                                    *)
(***************************************************************************)
EXTENDS Grammar

Rl(h, b) == [head |-> h, body |-> b]

Start == TermCount
X == TermCount + 1
Y == TermCount + 2

(* Every grammar  Start -> X 0  and n different rules with the given heads
   and bodies. *)
Enumerated(n, heads, bodies) ==
  LET more == {Rl(h, b) : h \in heads, b \in bodies}
  IN  {<<Rl(Start, <<X, 0>>)>> \o g :
         g \in {g \in [1 .. n -> more] :
                  \A i, j \in 1 .. n : i # j => g[i] # g[j]}}

OneOrTwo == {<<a>> : a \in {1, X, Y}}
              \union {<<a, b>> : a \in {1, X, Y}, b \in {1, X, Y}}

(* Two rules of X and Y over terminal 1, X and Y. *)
SmallGrammars == Enumerated(2, {X, Y}, OneOrTwo)

(* Three rules of X and Y that call each other from both ends: what makes
   kernels merge while others are expanded. *)
MergingGrammars == Enumerated(3, {X, Y}, {<<1>>, <<1, X>>, <<1, Y>>, <<Y, 1>>})

SmallAndMerging == SmallGrammars \union MergingGrammars

(* Three rules of all three nonterminals that end with X or Y: what FOLLOW
   has to be taken over through. *)
EndingGrammars ==
  Enumerated(3, {Start, X, Y},
             {<<X>>, <<Y>>, <<1, Y>>, <<X, Y>>, <<Y, X>>})

(* build/rules/demo_exp.rules with one kind of number and the operators plus
   and asterisk.  Terminals: number 0, lr_br 1, rr_br 2, plus 3, asterisk 4,
   _SKIP_ 5, _END_ 6; nonterminals: start 7, exp 8, C 9, B 10, A 11. *)
DemoExp ==
  << Rl(7, <<8, 6>>), Rl(8, <<9>>),
     Rl(9, <<9, 3, 10>>), Rl(9, <<10>>),
     Rl(10, <<10, 4, 11>>), Rl(10, <<11>>),
     Rl(11, <<1, 9, 2>>), Rl(11, <<0>>) >>

(* The shape of build/rules/json.rules, whose first rule has the one
   nonterminal end_check: lists between brackets.  Terminals: value 0,
   le_br 1, re_br 2, comma 3, _SKIP_ 5, _END_ 6; nonterminals: start 7,
   end_check 8, value 9, values 10, value_list 11. *)
JsonLists ==
  << Rl(7, <<8>>), Rl(8, <<9, 6>>),
     Rl(9, <<0>>), Rl(9, <<10, 2>>),
     Rl(10, <<1>>), Rl(10, <<10, 11>>),
     Rl(11, <<11, 3, 9>>), Rl(11, <<9>>) >>

(* Two alternatives whose kernels get mixed up: terminal 0 ends the text,
   1 = a, 2 = b, 3 = x, 4 = y; nonterminals start 5, T 6, B 7.
     T -> a B | b B | b x y    B -> x                                       *)
SharedKernel ==
  << Rl(5, <<6, 0>>), Rl(6, <<1, 7>>), Rl(6, <<2, 7>>), Rl(6, <<2, 3, 4>>),
     Rl(7, <<3>>) >>

Languages == {DemoExp, JsonLists}
SharedKernelOnly == {SharedKernel}
=============================================================================
