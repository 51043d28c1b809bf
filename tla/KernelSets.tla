----------------------------- MODULE KernelSets ----------------------------
(***************************************************************************)
(* p_creat_descr_s::compute_kernels (parser_code.cc:3995-4208): the states *)
(* of the LR automaton.  A kernel holds rule dots, without their closure,  *)
(* and the list of gotos that lead INTO it.                                *)
(*                                                                         *)
(* The code does not collect everything a source kernel reaches under one  *)
(* symbol before it looks the target up.  It looks up the little group of  *)
(* dots that one rule dot yields for one member of FIRST, and merges the   *)
(* next group for the same symbol into whatever kernel the first one got.  *)
(*                                                                         *)
(* Kernel k of the model is kernel k - 1 of the code; dot counts the body  *)
(* symbols already behind the dot, as in the code.                         *)
(***************************************************************************)
EXTENDS FirstSets

CONSTANT MaxKernels   (* bound of the model; the code has none             *)

ASSUME MaxKernelsAssumption == MaxKernels \in Nat \ {0}

VARIABLES
  kernels,      (* sequence of [dots, gotos]                               *)
  k_idx,        (* kernel whose dots are expanded                          *)
  rd_idx,       (* rule dot of that kernel                                 *)
  ef_idx,       (* member of FIRST of the symbol after the dot             *)
  merge_k_idx,  (* kernel a group is being merged into, 0 for none         *)
  n_idx         (* next rule dot of that group                             *)

kernelOwnVars == <<kernels, k_idx, rd_idx, ef_idx, merge_k_idx, n_idx>>
kernelVars == <<firstVars, kernelOwnVars>>

RuleDot(r, d) == [rule |-> r, dot |-> d]

AtEnd(d) == d.dot = Len(rules[d.rule].body)
SymbolAfter(d) == rules[d.rule].body[d.dot + 1]
SymbolBefore(d) == rules[d.rule].body[d.dot]
MovedOn(d) == [d EXCEPT !.dot = @ + 1]

KernelInit ==
  /\ kernels = << [dots |-> <<RuleDot(1, 0)>>, gotos |-> <<>>] >>
  /\ k_idx = 1 /\ rd_idx = 1 /\ ef_idx = 1
  /\ merge_k_idx = 0 /\ n_idx = 1

KernelsDone == k_idx > Len(kernels)

(* FIRST of the symbol after a dot, in array order. *)
FirstAfter(d) ==
  IF SymbolAfter(d) \in Terminals THEN <<SymbolAfter(d)>>
                                  ELSE firsts[SymbolAfter(d)]

(* The group of rule dots for member i of that array: the rules that begin
   with it and, for member 1, the dot itself behind the symbol. *)
Group(d, i) ==
  LET begun == IF SymbolAfter(d) \in Terminals
                 THEN <<>>
                 ELSE first_rules[SymbolAfter(d)][i]
  IN  [j \in 1 .. Len(begun) |-> RuleDot(begun[j], 1)]
        \o (IF i = 1 THEN <<MovedOn(d)>> ELSE <<>>)

CurrentDot == kernels[k_idx].dots[rd_idx]
NewDots == Group(CurrentDot, ef_idx)
Goto == [from |-> k_idx, symbol |-> FirstAfter(CurrentDot)[ef_idx]]

SameDots == {k \in DOMAIN kernels : kernels[k].dots = NewDots}
GotoTargets(g) == {k \in DOMAIN kernels : g \in ElementsOf(kernels[k].gotos)}

IsLeast(k, S) == k \in S /\ \A m \in S : k <= m

WithGoto(k) == [kernels EXCEPT ![k].gotos = Append(@, Goto)]

-----------------------------------------------------------------------------
Expanding ==
  /\ FirstsDone /\ ~KernelsDone
  /\ merge_k_idx = 0
  /\ rd_idx <= Len(kernels[k_idx].dots)
  /\ ~AtEnd(CurrentDot)
  /\ ef_idx <= Len(FirstAfter(CurrentDot))

(* A kernel with exactly this array of dots exists already. *)
KnownKernel ==
  /\ Expanding
  /\ \E k \in SameDots : IsLeast(k, SameDots) /\ kernels' = WithGoto(k)
  /\ ef_idx' = ef_idx + 1
  /\ UNCHANGED <<firstVars, k_idx, rd_idx, merge_k_idx, n_idx>>

(* Mutant: merges into kernels that were expanded before, too. *)
BeginAnyMerge ==
  /\ Expanding
  /\ SameDots = {}
  /\ \E k \in GotoTargets(Goto) :
       /\ IsLeast(k, GotoTargets(Goto))
       /\ merge_k_idx' = k
  /\ n_idx' = 1
  /\ UNCHANGED <<firstVars, kernels, k_idx, rd_idx, ef_idx>>

(* The symbol leads somewhere already and that kernel is yet to be expanded. *)
BeginMerge ==
  /\ Expanding
  /\ SameDots = {}
  /\ \E k \in GotoTargets(Goto) :
       /\ IsLeast(k, GotoTargets(Goto))
       /\ k >= k_idx
       /\ merge_k_idx' = k
  /\ n_idx' = 1
  /\ UNCHANGED <<firstVars, kernels, k_idx, rd_idx, ef_idx>>

(* It leads nowhere, or to a kernel that was expanded before. *)
NewKernel ==
  /\ Expanding
  /\ SameDots = {}
  /\ \A k \in GotoTargets(Goto) : IsLeast(k, GotoTargets(Goto)) => k < k_idx
  /\ Len(kernels) < MaxKernels
  /\ kernels' = Append(kernels, [dots |-> NewDots, gotos |-> <<Goto>>])
  /\ ef_idx' = ef_idx + 1
  /\ UNCHANGED <<firstVars, k_idx, rd_idx, merge_k_idx, n_idx>>

(* Mutant: the dots of the group are not stored. *)
MergeNothing ==
  /\ merge_k_idx # 0
  /\ n_idx <= Len(NewDots)
  /\ n_idx' = n_idx + 1
  /\ UNCHANGED <<firstVars, kernels, k_idx, rd_idx, ef_idx, merge_k_idx>>

(* One turn of the loop over the dots of the group. *)
MergeDot ==
  /\ merge_k_idx # 0
  /\ n_idx <= Len(NewDots)
  /\ kernels' =
       IF NewDots[n_idx] \in ElementsOf(kernels[merge_k_idx].dots)
         THEN kernels
         ELSE [kernels EXCEPT ![merge_k_idx].dots = Append(@, NewDots[n_idx])]
  /\ n_idx' = n_idx + 1
  /\ UNCHANGED <<firstVars, k_idx, rd_idx, ef_idx, merge_k_idx>>

EndMerge ==
  /\ merge_k_idx # 0
  /\ n_idx > Len(NewDots)
  /\ kernels' = WithGoto(merge_k_idx)
  /\ merge_k_idx' = 0
  /\ n_idx' = 1
  /\ ef_idx' = ef_idx + 1
  /\ UNCHANGED <<firstVars, k_idx, rd_idx>>

NextDot ==
  /\ FirstsDone /\ ~KernelsDone
  /\ merge_k_idx = 0
  /\ rd_idx <= Len(kernels[k_idx].dots)
  /\ \/ AtEnd(CurrentDot)
     \/ /\ ~AtEnd(CurrentDot)
        /\ ef_idx > Len(FirstAfter(CurrentDot))
  /\ rd_idx' = rd_idx + 1
  /\ ef_idx' = 1
  /\ UNCHANGED <<firstVars, kernels, k_idx, merge_k_idx, n_idx>>

NextKernel ==
  /\ FirstsDone /\ ~KernelsDone
  /\ rd_idx > Len(kernels[k_idx].dots)
  /\ k_idx' = k_idx + 1
  /\ rd_idx' = 1
  /\ UNCHANGED <<firstVars, kernels, ef_idx, merge_k_idx, n_idx>>

KernelNext ==
  \/ KnownKernel \/ NewKernel
  \/ BeginMerge \/ MergeDot \/ EndMerge
  \/ NextDot \/ NextKernel

-----------------------------------------------------------------------------
ValidDot(d) ==
  /\ d.rule \in DOMAIN rules
  /\ d.dot \in 0 .. Len(rules[d.rule].body)

(* Types of the kernels and of the loop indices of compute_kernels. *)
KernelTypeOK ==
  /\ k_idx \in 1 .. (Len(kernels) + 1)
  /\ rd_idx \in Nat \ {0} /\ ef_idx \in Nat \ {0} /\ n_idx \in Nat \ {0}
  /\ merge_k_idx \in 0 .. Len(kernels)
  /\ \A k \in DOMAIN kernels :
       /\ \A i \in DOMAIN kernels[k].dots : ValidDot(kernels[k].dots[i])
       /\ \A i \in DOMAIN kernels[k].gotos :
            /\ kernels[k].gotos[i].from \in 1 .. k_idx
            /\ kernels[k].gotos[i].symbol \in Symbols

(* A kernel is entered under one symbol only: whatever was merged into it,
   every goto into it carries the symbol that stands before all its dots. *)
EntrySymbol ==
  \A k \in DOMAIN kernels :
    \A i \in DOMAIN kernels[k].dots, j \in DOMAIN kernels[k].gotos :
      /\ kernels[k].dots[i].dot >= 1
      /\ SymbolBefore(kernels[k].dots[i]) = kernels[k].gotos[j].symbol

(* The loops have been through member i of FIRST after dot rd of kernel k. *)
Expanded(k, rd, i) ==
  \/ k < k_idx
  \/ k = k_idx /\ rd < rd_idx
  \/ k = k_idx /\ rd = rd_idx /\ i < ef_idx

(* Nothing the automaton must be able to do is lost: every expanded dot has,
   for every symbol that may begin what stands after it, a kernel that is
   entered from there under that symbol and holds the whole group of dots,
   although kernels grow after they were created and a kernel may be
   expanded while it still grows. *)
MovesComplete ==
  \A k \in DOMAIN kernels : \A rd \in DOMAIN kernels[k].dots :
    LET d == kernels[k].dots[rd]
    IN  ~AtEnd(d) =>
          \A i \in DOMAIN FirstAfter(d) :
            Expanded(k, rd, i) =>
              \E t \in GotoTargets([from |-> k, symbol |-> FirstAfter(d)[i]]) :
                ElementsOf(Group(d, i)) \subseteq ElementsOf(kernels[t].dots)

(* Both together: the kernels are linked under the right symbols, and all
   the links that belong there are there. *)
KernelsLinked == EntrySymbol /\ MovesComplete

(* A dot with two symbols behind it got there from a dot one symbol back in
   EVERY kernel that leads here: else a parser may reduce a rule whose body
   it has not read. *)
PredecessorsHoldDot ==
  \A k \in DOMAIN kernels :
    \A i \in DOMAIN kernels[k].dots, j \in DOMAIN kernels[k].gotos :
      LET d == kernels[k].dots[i]
      IN  d.dot >= 2 =>
            RuleDot(d.rule, d.dot - 1)
              \in ElementsOf(kernels[kernels[k].gotos[j].from].dots)

(* A kernel that was expanded does not change any more: nothing is added to
   it behind the back of the loop over its dots. *)
ExpandedFixed ==
  [][\A k \in DOMAIN kernels :
       k < k_idx => kernels'[k].dots = kernels[k].dots]_kernelVars
=============================================================================
