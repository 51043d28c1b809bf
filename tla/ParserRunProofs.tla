--------------------------- MODULE ParserRunProofs --------------------------
(***************************************************************************)
(* parse_source_string and the written parsers, for every grammar, text    *)
(* and answer of the lexer. Of the interpreter: the stack follows the      *)
(* gotos of the kernels, its elements share the text out among them, and a *)
(* reduction pops its body, unless the kernels mixed up what leads to      *)
(* them; what is reduced is a derivation from the right, read backwards.   *)
(* Of the written parsers: they do what parser_run_s does. What the        *)
(* interpreter has done is kept as its trace, and a program is always at   *)
(* some place of it, until the text is refused.                            *)
(***************************************************************************)
EXTENDS EmittedParser, LalrTableProofs

USE DEF textVars

(* Nothing leads back to the first kernel and nothing is merged into it. *)
FirstAlone == kernels[1] = [dots |-> <<RuleDot(1, 0)>>, gotos |-> <<>>]

RunStarts ==
  IF run_status = "wait"
    THEN input_idx = 0 /\ old_input_idx = 0 /\ ret_term = NotExist
    ELSE table_stage = "created"

(* The terminal at hand lies behind all elements of the stack. *)
SpansInv ==
  /\ SpansOrdered
  /\ old_input_idx <= input_idx
  /\ ret_term # NotExist =>
       \A i \in DOMAIN lalr_stack : lalr_stack[i].end <= old_input_idx

(* Only the state on top may be none. *)
StatesInv ==
  /\ lalr_stack # <<>> => lalr_stack[1].state = 1
  /\ \A i \in DOMAIN lalr_stack :
       \/ lalr_stack[i].state \in DOMAIN kernels
       \/ lalr_stack[i].state = NotExist /\ i = Len(lalr_stack)

(* The rules of the outermost heads are begun in the first kernel alone. *)
Outermost(r) == rules[r].head \in Derivation!OutermostHeads(rules)

DotBegun == \A k \in DOMAIN kernels : k # 1 =>
  \A i \in DOMAIN kernels[k].dots : kernels[k].dots[i].dot >= 1

BegunFirst ==
  \A k \in DOMAIN kernels :
    \A i \in DOMAIN kernels[k].dots, j \in DOMAIN kernels[k].gotos :
      kernels[k].dots[i].dot = 1 /\ Outermost(kernels[k].dots[i].rule)
        => kernels[k].gotos[j].from = 1

OuterInv == DotBegun /\ (EndsText(rules) => BegunFirst)

(* The symbols up to element i end with what stands before the dot d. *)
EndsWith(i, d) ==
  /\ d.dot < i
  /\ \A m \in 1 .. d.dot :
       lalr_stack[i - d.dot + m].symbol = rules[d.rule].body[m]

(* What stands before a dot of an outermost rule begins at the bottom. *)
FromBottom(i, d) ==
  EndsText(rules) /\ d.dot >= 1 /\ Outermost(d.rule) => i = d.dot + 1

SpelledInv ==
  \A i \in DOMAIN lalr_stack :
    lalr_stack[i].state # NotExist =>
      \A d \in ElementsOf(kernels[lalr_stack[i].state].dots) :
        EndsWith(i, d) /\ FromBottom(i, d)

RunInv ==
  /\ RunTypeOK /\ RunStarts /\ SpansInv /\ StatesInv /\ StackFollowsGotos
  /\ PredecessorsHoldDot => SpelledInv

ParserInv == CreatorInv /\ FirstAlone /\ OuterInv /\ RunInv

-----------------------------------------------------------------------------
LEMMA FirstStaysAlone ==
  ASSUME KernelInv, FirstAlone, KernelNext
  PROVE  FirstAlone'
<1>0. /\ KernelTypes /\ KernelParts /\ 1 \in DOMAIN kernels
      /\ DOMAIN kernels = 1 .. Len(kernels) /\ Len(kernels) \in Nat
      /\ kernels \in Seq(KernelType)
  BY KernelFacts DEF KernelInv, KernelTypes
<1>1. kernels[1].dots = <<RuleDot(1, 0)>> /\ kernels[1].gotos = <<>>
  BY DEF FirstAlone
<1>2. /\ DOMAIN <<RuleDot(1, 0)>> = {1} /\ <<RuleDot(1, 0)>>[1] = RuleDot(1, 0)
      /\ RuleDot(1, 0).dot = 0
  BY DEF RuleDot
<1>3. merge_k_idx # 0 => merge_k_idx # 1 /\ merge_k_idx \in DOMAIN kernels
  <2> SUFFICES ASSUME merge_k_idx # 0
               PROVE  merge_k_idx # 1 /\ merge_k_idx \in DOMAIN kernels
    OBVIOUS
  <2>1. merge_k_idx \in DOMAIN kernels
        /\ \A i \in DOMAIN kernels[merge_k_idx].dots :
             kernels[merge_k_idx].dots[i].dot >= 1
    BY MergeTarget
  <2> QED BY <1>1, <1>2, <2>1
<1>4. FirstAlone' <=> kernels'[1] = kernels[1]
  BY DEF FirstAlone, RuleDot
<1>5. ASSUME NEW k \in DOMAIN kernels, k # 1, NEW e, kernels' = [kernels EXCEPT ![k] = e]
      PROVE  kernels'[1] = kernels[1]
  BY <1>0, <1>5
<1>6. CASE KnownKernel
  <2>1. PICK k \in SameDots : kernels' = WithGoto(k)
    BY <1>6 DEF KnownKernel
  <2>2. k \in DOMAIN kernels /\ kernels[k].dots = NewDots
    BY <2>1 DEF SameDots
  <2>3. NewDots \in Seq(DotType) /\ NewDots # <<>>
        /\ \A j \in DOMAIN NewDots : NewDots[j].dot >= 1
    BY <1>6, GroupAtHand DEF KnownKernel
  <2>4. k # 1
    BY <1>1, <1>2, <2>2, <2>3
  <2> QED BY <1>4, <1>5, <2>1, <2>2, <2>4 DEF WithGoto
<1>7. CASE NewKernel
  <2>1. PICK new : kernels' = Append(kernels, new) BY <1>7 DEF NewKernel
  <2>2. kernels'[1] = kernels[1] BY <1>0, <2>1
  <2> QED BY <1>4, <2>2
<1>8. CASE EndMerge
  <2>1. kernels' = WithGoto(merge_k_idx) /\ merge_k_idx # 0
    BY <1>8 DEF EndMerge
  <2> QED BY <1>3, <1>4, <1>5, <2>1 DEF WithGoto
<1>9. CASE MergeDot
  <2>1. /\ merge_k_idx # 0
        /\ \/ kernels' = kernels
           \/ \E e : kernels' = [kernels EXCEPT ![merge_k_idx] = e]
    BY <1>9 DEF MergeDot
  <2> QED BY <1>3, <1>4, <1>5, <2>1
<1>10. CASE BeginMerge \/ NextDot \/ NextKernel
  BY <1>4, <1>10 DEF BeginMerge, NextDot, NextKernel
<1> QED BY <1>6, <1>7, <1>8, <1>9, <1>10 DEF KernelNext

-----------------------------------------------------------------------------
(* What a nonterminal begins with is not outermost, unless it is itself. *)
LEMMA BeginsOutermost ==
  ASSUME rules \in Grammars, EndsText(rules), NEW x \in Symbols,
         NEW y \in First(rules, x), y \in Derivation!OutermostHeads(rules)
  PROVE  x \in Derivation!OutermostHeads(rules)
<1> DEFINE O == Derivation!OutermostHeads(rules)
           S == {z \in Symbols : z \in O => x \in O}
<1>1. S \in SUBSET Symbols /\ x \in S
  OBVIOUS
<1>2. \A r \in DOMAIN rules : \A i \in DOMAIN rules[r].body :
        rules[r].body[i] \in O => rules[r].head \in O
  BY Zenon DEF EndsText
<1>3. \A r \in DOMAIN rules :
        rules[r].body[1] \in Symbols /\ 1 \in DOMAIN rules[r].body
  BY RuleFacts
<1> HIDE DEF O
<1>4. FirstClosed(rules, S)
  BY <1>2, <1>3 DEF FirstClosed
<1> HIDE DEF S
<1>5. y \in S
  BY <1>1, <1>4, FirstIsLeast
<1> QED BY <1>5 DEF S, O

(* In every kernel but the first a group begins no outermost rule. *)
LEMMA GroupBeginsInner ==
  ASSUME KernelInv, DotBegun, EndsText(rules), Expanding \/ merge_k_idx # 0,
         NEW x \in ElementsOf(NewDots), x.dot = 1, Outermost(x.rule)
  PROVE  k_idx = 1
<1>0. PICK d : d = CurrentDot
  OBVIOUS
<1>1. PICK j \in DOMAIN NewDots : x = NewDots[j]
  BY DEF ElementsOf
<1>2. /\ (x.dot = 1 /\ Begun(d, x)) \/ x = MovedOn(d)
      /\ AtOpenDot /\ d \in DotType /\ ValidDot(d) /\ k_idx \in DOMAIN kernels
  BY <1>0, <1>1, GroupAtHand
<1>3. /\ ~AtEnd(d) /\ d \in ElementsOf(kernels[k_idx].dots)
      /\ rules \in Grammars
  BY <1>0, <1>2 DEF AtOpenDot, CurrentDot, ElementsOf, KernelInv, RuleInv, FirstInv,
     StoredInv
<1>4. d.dot = 0
  <2>1. CASE x = MovedOn(d)
    <3>1. x.dot = d.dot + 1 /\ d.dot \in Nat
      BY <1>2, <1>3, <2>1, OpenDot DEF DotType
    <3> QED BY <3>1
  <2>2. CASE Begun(d, x)
    <3>1. SymbolAfter(d) \in Symbols
      BY <1>2, <1>3, OpenDot
    <3>2. SymbolAfter(d) \in Derivation!OutermostHeads(rules)
      BY <1>3, <2>2, <3>1, BeginsOutermost DEF Begun, Outermost
    <3>3. /\ d.rule \in DOMAIN rules /\ d.dot \in Nat
          /\ d.dot + 1 \in DOMAIN rules[d.rule].body
      BY <1>2, <1>3, RuleFacts DEF DotType, ValidDot, AtEnd
    <3>4. Len(rules[d.rule].body) = 1
      BY <3>2, <3>3, Zenon DEF EndsText, SymbolAfter
    <3>5. rules[d.rule].body \in Seq(Symbols)
      BY <1>3, <3>3, RuleFacts
    <3> QED BY <3>3, <3>4, <3>5
  <2> QED BY <1>2, <2>1, <2>2
<1>5. \A i \in DOMAIN kernels[k_idx].dots : k_idx # 1 => kernels[k_idx].dots[i].dot >= 1
  BY <1>2 DEF DotBegun
<1> QED BY <1>3, <1>4, <1>5 DEF ElementsOf

(* What a step adds: dots of the group at hand, in front of them no gotos but
   from kernels that were reached. *)
LEMMA StepAdds ==
  ASSUME KernelInv, KernelNext, NEW k \in DOMAIN kernels',
         NEW x \in ElementsOf(kernels'[k].dots)
  PROVE  \/ /\ k \in DOMAIN kernels /\ x \in ElementsOf(kernels[k].dots)
            /\ \A g \in ElementsOf(kernels'[k].gotos) :
                 \/ g \in ElementsOf(kernels[k].gotos)
                 \/ /\ g.from <= k_idx /\ g.from \in DOMAIN kernels
                    /\ x \in ElementsOf(NewDots) /\ (Expanding \/ merge_k_idx # 0)
         \/ /\ x \in ElementsOf(NewDots) /\ (Expanding \/ merge_k_idx # 0)
            /\ \A g \in ElementsOf(kernels'[k].gotos) :
                 g.from <= k_idx /\ g.from \in DOMAIN kernels
<1>0. PICK h : h = Goto
  OBVIOUS
<1>1. /\ KernelTypes /\ KernelParts /\ k_idx \in Int
      /\ DOMAIN kernels = 1 .. Len(kernels) /\ Len(kernels) \in Nat
      /\ kernels \in Seq(KernelType)
  BY KernelFacts DEF KernelInv, KernelTypes
<1>2. \A m \in DOMAIN kernels : \A g \in ElementsOf(kernels[m].gotos) :
        g.from <= k_idx /\ g.from \in DOMAIN kernels
  BY <1>1 DEF KernelParts, ElementsOf
<1>3. Expanding \/ merge_k_idx # 0 =>
        h \in GotoType /\ h.from = k_idx /\ h.from <= k_idx /\ k_idx \in DOMAIN kernels
          /\ NewDots \in Seq(DotType)
  BY <1>0, <1>1, GroupAtHand
<1>4. ASSUME NEW m \in DOMAIN kernels, kernels' = WithGoto(m),
             Expanding \/ merge_k_idx # 0
      PROVE  /\ DOMAIN kernels' = DOMAIN kernels
             /\ \A j \in DOMAIN kernels : kernels'[j].dots = kernels[j].dots
             /\ \A j \in DOMAIN kernels : \A g \in ElementsOf(kernels'[j].gotos) :
                  g \in ElementsOf(kernels[j].gotos) \/ (j = m /\ g = h)
  <2>1. kernels' = [kernels EXCEPT ![m].gotos = Append(@, h)]
    BY <1>0, <1>4 DEF WithGoto
  <2>2. h \in GotoType BY <1>3, <1>4
  <2>3. /\ DOMAIN kernels' = DOMAIN kernels
        /\ \A j \in DOMAIN kernels : kernels'[j].dots = kernels[j].dots
        /\ \A j \in DOMAIN kernels : j # m => kernels'[j].gotos = kernels[j].gotos
        /\ DOMAIN kernels'[m].gotos = 1 .. Len(kernels[m].gotos) + 1
        /\ kernels'[m].gotos[Len(kernels[m].gotos) + 1] = h
        /\ \A i \in DOMAIN kernels[m].gotos :
             kernels'[m].gotos[i] = kernels[m].gotos[i]
    BY <1>1, <2>1, <2>2, GotoAdded
  <2>4. /\ DOMAIN kernels[m].gotos = 1 .. Len(kernels[m].gotos)
        /\ Len(kernels[m].gotos) \in Nat
    BY <1>1, KernelFacts
  <2>5. \A i \in 1 .. Len(kernels[m].gotos) + 1 :
          i \in 1 .. Len(kernels[m].gotos) \/ i = Len(kernels[m].gotos) + 1
    BY <2>4
  <2> QED BY <2>3, <2>4, <2>5 DEF ElementsOf
<1>5. CASE KnownKernel
  <2>1. PICK m \in SameDots : kernels' = WithGoto(m)
    BY <1>5 DEF KnownKernel
  <2>2. m \in DOMAIN kernels /\ kernels[m].dots = NewDots /\ Expanding
    BY <1>5, <2>1 DEF SameDots, KnownKernel
  <2>3. /\ k \in DOMAIN kernels /\ x \in ElementsOf(kernels[k].dots)
        /\ \A g \in ElementsOf(kernels'[k].gotos) :
             g \in ElementsOf(kernels[k].gotos) \/ (k = m /\ g = h)
    BY <1>4, <2>1, <2>2
  <2> QED BY <1>3, <2>2, <2>3
<1>6. CASE NewKernel
  <2>1. kernels' = Append(kernels, [dots |-> NewDots, gotos |-> <<h>>]) /\ Expanding
    BY <1>0, <1>6 DEF NewKernel
  <2>2. PICK new : new = [dots |-> NewDots, gotos |-> <<h>>]
    OBVIOUS
  <2>3. new.dots = NewDots /\ new.gotos = <<h>> /\ ElementsOf(<<h>>) = {h}
    BY <2>2 DEF ElementsOf
  <2>4. /\ DOMAIN kernels' = 1 .. Len(kernels) + 1
        /\ \A j \in 1 .. Len(kernels) : kernels'[j] = kernels[j]
        /\ kernels'[Len(kernels) + 1] = new
    BY <1>1, <2>1, <2>2
  <2>5. CASE k \in DOMAIN kernels
    BY <1>1, <2>4, <2>5
  <2>6. CASE k = Len(kernels) + 1
    BY <1>3, <2>1, <2>3, <2>4, <2>6
  <2> QED BY <1>1, <2>4, <2>5, <2>6
<1>7. CASE EndMerge
  <2>1. /\ merge_k_idx # 0 /\ kernels' = WithGoto(merge_k_idx)
        /\ merge_k_idx \in DOMAIN kernels
        /\ h \in ElementsOf(kernels[merge_k_idx].gotos)
    BY <1>0, <1>7, MergeTarget DEF EndMerge, Merging, GotoTargets
  <2> QED BY <1>4, <2>1
<1>8. CASE MergeDot
  <2>0. PICK y, m : y = NewDots[n_idx] /\ m = merge_k_idx
    OBVIOUS
  <2>1. /\ merge_k_idx # 0 /\ m \in DOMAIN kernels /\ n_idx \in Nat \ {0}
        /\ n_idx <= Len(NewDots) /\ NewDots \in Seq(DotType)
        /\ kernels' = IF y \in ElementsOf(kernels[m].dots)
                        THEN kernels
                        ELSE [kernels EXCEPT ![m].dots = Append(@, y)]
    BY <1>1, <1>3, <1>8, <2>0, MergeTarget DEF MergeDot, KernelTypes
  <2>2. y \in ElementsOf(NewDots) /\ y \in DotType
    BY <2>0, <2>1 DEF ElementsOf
  <2>3. CASE y \in ElementsOf(kernels[m].dots)
    BY <2>1, <2>3
  <2>4. CASE y \notin ElementsOf(kernels[m].dots)
    <3>1. kernels' = [kernels EXCEPT ![m].dots = Append(@, y)]
      BY <2>1, <2>4
    <3>2. /\ DOMAIN kernels' = DOMAIN kernels
          /\ \A j \in DOMAIN kernels : kernels'[j].gotos = kernels[j].gotos
          /\ \A j \in DOMAIN kernels : j # m => kernels'[j].dots = kernels[j].dots
          /\ DOMAIN kernels'[m].dots = 1 .. Len(kernels[m].dots) + 1
          /\ kernels'[m].dots[Len(kernels[m].dots) + 1] = y
          /\ \A i \in DOMAIN kernels[m].dots :
               kernels'[m].dots[i] = kernels[m].dots[i]
      BY <1>1, <2>1, <2>2, <3>1, DotAdded
    <3>3. /\ DOMAIN kernels[m].dots = 1 .. Len(kernels[m].dots)
          /\ Len(kernels[m].dots) \in Nat
      BY <1>1, <2>1, KernelFacts
    <3>4. \A i \in 1 .. Len(kernels[m].dots) + 1 :
            i \in 1 .. Len(kernels[m].dots) \/ i = Len(kernels[m].dots) + 1
      BY <3>3
    <3>5. k \in DOMAIN kernels /\ ElementsOf(kernels'[k].gotos) = ElementsOf(kernels[k].gotos)
      BY <3>2
    <3>6. x \in ElementsOf(kernels[k].dots) \/ x = y
      BY <3>2, <3>3, <3>4, <3>5 DEF ElementsOf
    <3> QED BY <1>2, <2>1, <2>2, <3>5, <3>6
  <2> QED BY <2>3, <2>4
<1>9. CASE BeginMerge \/ NextDot \/ NextKernel
  <2>1. kernels' = kernels
    BY <1>9 DEF BeginMerge, NextDot, NextKernel
  <2> QED BY <2>1
<1> QED BY <1>5, <1>6, <1>7, <1>8, <1>9 DEF KernelNext

LEMMA OuterStays ==
  ASSUME KernelInv, OuterInv, KernelNext
  PROVE  OuterInv'
<1>1. /\ rules' = rules /\ k_idx \in Int
      /\ DOMAIN kernels = 1 .. Len(kernels) /\ Len(kernels) \in Nat
      /\ Expanding \/ merge_k_idx # 0 =>
           \A x \in ElementsOf(NewDots) : x.dot >= 1
  <2>1. rules' = rules
    BY DEF KernelNext, KnownKernel, NewKernel, BeginMerge, MergeDot, EndMerge, NextDot,
       NextKernel, firstVars
  <2>2. /\ k_idx \in Int /\ DOMAIN kernels = 1 .. Len(kernels) /\ Len(kernels) \in Nat
    BY KernelFacts DEF KernelInv, KernelTypes
  <2>3. Expanding \/ merge_k_idx # 0 =>
          \A x \in ElementsOf(NewDots) : x.dot >= 1
    BY GroupAtHand DEF ElementsOf
  <2> QED BY <2>1, <2>2, <2>3
<1>2. EndsText(rules)' = EndsText(rules) /\ \A r : Outermost(r)' = Outermost(r)
  BY <1>1 DEF EndsText, Outermost
<1>3. DotBegun'
  <2> SUFFICES ASSUME NEW k \in DOMAIN kernels', k # 1,
                      NEW x \in ElementsOf(kernels'[k].dots)
               PROVE  x.dot >= 1
    BY DEF DotBegun, ElementsOf
  <2>1. \/ k \in DOMAIN kernels /\ x \in ElementsOf(kernels[k].dots)
        \/ x \in ElementsOf(NewDots) /\ (Expanding \/ merge_k_idx # 0)
    BY StepAdds
  <2> QED BY <1>1, <2>1 DEF OuterInv, DotBegun, ElementsOf
<1>4. ASSUME EndsText(rules) PROVE BegunFirst'
  <2> SUFFICES ASSUME NEW k \in DOMAIN kernels',
                      NEW x \in ElementsOf(kernels'[k].dots),
                      NEW g \in ElementsOf(kernels'[k].gotos),
                      x.dot = 1, Outermost(x.rule)
               PROVE  g.from = 1
    BY <1>2 DEF BegunFirst, ElementsOf
  <2>1. \/ /\ k \in DOMAIN kernels /\ x \in ElementsOf(kernels[k].dots)
           /\ g \in ElementsOf(kernels[k].gotos)
        \/ /\ g.from <= k_idx /\ g.from \in DOMAIN kernels
           /\ x \in ElementsOf(NewDots) /\ (Expanding \/ merge_k_idx # 0)
    BY StepAdds
  <2>2. CASE /\ k \in DOMAIN kernels /\ x \in ElementsOf(kernels[k].dots)
             /\ g \in ElementsOf(kernels[k].gotos)
    BY <1>4, <2>2 DEF OuterInv, BegunFirst, ElementsOf
  <2>3. CASE /\ g.from <= k_idx /\ g.from \in DOMAIN kernels
             /\ x \in ElementsOf(NewDots) /\ (Expanding \/ merge_k_idx # 0)
    <3>1. k_idx = 1 BY <1>4, <2>3, GroupBeginsInner DEF OuterInv
    <3> QED BY <1>1, <2>3, <3>1
  <2> QED BY <2>1, <2>2, <2>3
<1> QED BY <1>2, <1>3, <1>4 DEF OuterInv

-----------------------------------------------------------------------------
LEMMA PushedStack ==
  ASSUME NEW S, NEW s \in Seq(S), NEW n \in 1 .. Len(s), NEW e \in S,
         NEW t, t = Append(SubSeq(s, 1, n), e)
  PROVE  /\ t \in Seq(S) /\ Len(t) = n + 1 /\ DOMAIN t = 1 .. n + 1
         /\ \A i \in 1 .. n : t[i] = s[i]
         /\ t[n + 1] = e
<1>1. n \in Nat /\ n >= 1 /\ \A i \in 1 .. n : s[i] \in S
  OBVIOUS
<1>2. /\ SubSeq(s, 1, n) \in Seq(S) /\ Len(SubSeq(s, 1, n)) = n
      /\ \A i \in 1 .. n : SubSeq(s, 1, n)[i] = s[i]
  BY <1>1, SubSeqProperties
<1>3. PICK u : u = SubSeq(s, 1, n)
  OBVIOUS
<1>4. u \in Seq(S) /\ Len(u) = n /\ \A i \in 1 .. n : u[i] = s[i]
  BY <1>2, <1>3
<1> QED BY <1>1, <1>3, <1>4

LEMMA WholeSequence ==
  ASSUME NEW S, NEW s \in Seq(S)
  PROVE  SubSeq(s, 1, Len(s)) = s
OBVIOUS

LEMMA RunInputsKept ==
  ASSUME CreatorInv, UNCHANGED inputsOfRun
  PROVE  /\ kernels' = kernels /\ rules' = rules /\ lalr_table' = lalr_table
         /\ table_stage' = table_stage /\ CreatorInv'
         /\ PredecessorsHoldDot' = PredecessorsHoldDot
         /\ FirstAlone' = FirstAlone /\ OuterInv' = OuterInv
         /\ EndsText(rules)' = EndsText(rules)
         /\ \A r : Outermost(r)' = Outermost(r)
<1>1. UNCHANGED creatorVars
  BY DEF inputsOfRun, creatorVars
<1>2. CreatorInv'
  BY <1>1, NextCreatorInv
<1>3. kernels' = kernels /\ rules' = rules /\ lalr_table' = lalr_table
      /\ table_stage' = table_stage
  BY <1>1 DEF creatorVars, firstVars, kernelOwnVars, tableOwnVars
<1>4. PredecessorsHoldDot' = PredecessorsHoldDot
  BY <1>3 DEF PredecessorsHoldDot, RuleDot, ElementsOf
<1>5. FirstAlone' = FirstAlone
  BY <1>3 DEF FirstAlone, RuleDot
<1>6. EndsText(rules)' = EndsText(rules) /\ \A r : Outermost(r)' = Outermost(r)
  BY <1>3 DEF EndsText, Outermost
<1>7. OuterInv' = OuterInv
  BY <1>3, <1>6 DEF OuterInv, DotBegun, BegunFirst
<1> QED BY <1>2, <1>3, <1>4, <1>5, <1>6, <1>7

(* Steps that leave the stack alone leave alone what is said of it. *)
LEMMA StackKept ==
  ASSUME ParserInv, UNCHANGED inputsOfRun, lalr_stack' = lalr_stack
  PROVE  /\ StatesInv' /\ StackFollowsGotos' /\ (PredecessorsHoldDot' => SpelledInv')
         /\ table_stage' = table_stage /\ CreatorInv' /\ FirstAlone' /\ OuterInv'
<1>1. /\ kernels' = kernels /\ rules' = rules /\ CreatorInv'
      /\ table_stage' = table_stage /\ OuterInv' = OuterInv
      /\ PredecessorsHoldDot' = PredecessorsHoldDot /\ FirstAlone' = FirstAlone
      /\ EndsText(rules)' = EndsText(rules)
      /\ \A r : Outermost(r)' = Outermost(r)
  BY RunInputsKept DEF ParserInv
<1>2. StatesInv' /\ StackFollowsGotos'
  BY <1>1 DEF ParserInv, RunInv, StatesInv, StackFollowsGotos, GotoTargets, ElementsOf
<1>3. SpelledInv' = SpelledInv
  <2>1. \A i, d : FromBottom(i, d)' = FromBottom(i, d)
    BY <1>1 DEF FromBottom
  <2>2. \A i, d : EndsWith(i, d)' = EndsWith(i, d)
    BY <1>1 DEF EndsWith
  <2> QED BY <1>1, <2>1, <2>2 DEF SpelledInv, ElementsOf
<1> QED BY <1>1, <1>2, <1>3, Zenon DEF ParserInv, RunInv

LEMMA StackFacts ==
  ASSUME ParserInv
  PROVE  /\ lalr_stack \in Seq(StackElement) /\ Len(lalr_stack) \in Nat
         /\ DOMAIN lalr_stack = 1 .. Len(lalr_stack)
         /\ \A i \in DOMAIN lalr_stack :
              /\ lalr_stack[i].start \in Nat /\ lalr_stack[i].end \in Nat
              /\ lalr_stack[i].start <= lalr_stack[i].end
              /\ lalr_stack[i].end <= input_idx
         /\ input_idx \in Nat /\ old_input_idx \in Nat
         /\ input_length \in Nat /\ stop_idx \in Nat
         /\ run_status # "wait" => Len(lalr_stack) >= 1
         /\ rules \in Grammars /\ CreatorInv
<1>1. /\ lalr_stack \in Seq(StackElement) /\ Len(lalr_stack) \in Nat
      /\ DOMAIN lalr_stack = 1 .. Len(lalr_stack)
      /\ run_status # "wait" => lalr_stack # <<>>
      /\ input_idx \in Nat /\ old_input_idx \in Nat
         /\ input_length \in Nat /\ stop_idx \in Nat
  BY ParserRunAssumption DEF ParserInv, RunInv, RunTypeOK
<1>2. ASSUME NEW i \in DOMAIN lalr_stack
      PROVE  lalr_stack[i].start \in Nat /\ lalr_stack[i].end \in Nat
  <2>1. lalr_stack[i] \in StackElement BY <1>1
  <2> QED BY <2>1, ParserRunAssumption DEF StackElement
<1>3. run_status # "wait" => Len(lalr_stack) >= 1
  BY <1>1
<1>4. SpansOrdered
  BY DEF ParserInv, RunInv, SpansInv
<1>5. rules \in Grammars /\ CreatorInv
  BY TableFacts DEF ParserInv
<1> QED BY <1>1, <1>2, <1>3, <1>4, <1>5 DEF SpansOrdered

(* No goto leads to the first kernel: it is the state of the bottom alone. *)
LEMMA OnlyBottomFirst ==
  ASSUME ParserInv, NEW n \in 1 .. Len(lalr_stack), lalr_stack[n].state = 1
  PROVE  n = 1
<1> SUFFICES ASSUME n # 1 PROVE FALSE
  OBVIOUS
<1>1. n \in 2 .. Len(lalr_stack) /\ lalr_stack[n].state # NotExist
  BY StackFacts DEF NotExist
<1>2. 1 \in GotoTargets([from |-> lalr_stack[n - 1].state,
                         symbol |-> lalr_stack[n].symbol])
  BY <1>1 DEF ParserInv, RunInv, StackFollowsGotos
<1>3. kernels[1].gotos = <<>>
  BY DEF ParserInv, FirstAlone
<1> QED BY <1>2, <1>3 DEF GotoTargets, ElementsOf

(* Element n + 1 takes the place of all above element n. *)
LEMMA PushInv ==
  ASSUME ParserInv, UNCHANGED inputsOfRun, run_status # "wait",
         UNCHANGED <<run_status, old_input_idx, input_idx, textVars>>,
         NEW n \in 1 .. Len(lalr_stack), NEW e \in StackElement,
         lalr_stack' = Append(SubSeq(lalr_stack, 1, n), e),
         lalr_stack[n].state # NotExist,
         \/ e.state = NotExist
         \/ e.state \in GotoTargets([from |-> lalr_stack[n].state, symbol |-> e.symbol]),
         e.start <= e.end, e.end <= input_idx,
         \A i \in 1 .. n : lalr_stack[i].end <= e.start,
         \/ ret_term' = NotExist
         \/ ret_term # NotExist /\ ret_term' = ret_term /\ e.end <= old_input_idx
  PROVE  ParserInv'
<1>0. PICK t : t = lalr_stack'
  OBVIOUS
<1>1. /\ lalr_stack \in Seq(StackElement) /\ DOMAIN lalr_stack = 1 .. Len(lalr_stack)
      /\ n \in Nat /\ n >= 1 /\ Len(lalr_stack) \in Nat /\ CreatorInv
      /\ 1 .. n \subseteq DOMAIN lalr_stack /\ input_idx \in Nat /\ old_input_idx \in Nat
  BY StackFacts
<1>2. /\ t \in Seq(StackElement) /\ Len(t) = n + 1 /\ DOMAIN t = 1 .. n + 1
      /\ \A i \in 1 .. n : t[i] = lalr_stack[i]
      /\ t[n + 1] = e
  BY <1>0, <1>1, PushedStack
<1>3. /\ kernels' = kernels /\ rules' = rules /\ table_stage' = table_stage
      /\ CreatorInv' /\ FirstAlone' = FirstAlone /\ OuterInv' = OuterInv
      /\ PredecessorsHoldDot' = PredecessorsHoldDot
      /\ EndsText(rules)' = EndsText(rules) /\ \A r : Outermost(r)' = Outermost(r)
  BY <1>1, RunInputsKept
<1>4. RunTypeOK'
  <2>1. t # <<>> BY <1>2
  <2> QED BY <1>0, <1>2, <2>1 DEF ParserInv, RunInv, RunTypeOK
<1>5. RunStarts'
  BY <1>3 DEF ParserInv, RunInv, RunStarts
<1>6. \A i \in 1 .. n + 1 : i \in 1 .. n \/ i = n + 1
  BY <1>1
<1>7. SpansInv'
  <2>1. SpansInv BY DEF ParserInv, RunInv
  <2>2. \A i \in DOMAIN t : t[i].start <= t[i].end /\ t[i].end <= input_idx
    BY <1>1, <1>2, <1>6, <2>1 DEF SpansInv, SpansOrdered
  <2>3. ASSUME NEW i \in DOMAIN t, NEW j \in DOMAIN t, i < j
        PROVE  t[i].end <= t[j].start
    <3>1. i \in 1 .. n BY <1>1, <1>2, <2>3
    <3>2. CASE j \in 1 .. n
      BY <1>1, <1>2, <2>1, <2>3, <3>1, <3>2 DEF SpansInv, SpansOrdered
    <3>3. CASE j = n + 1
      BY <1>2, <3>1, <3>3
    <3> QED BY <1>2, <1>6, <3>2, <3>3
  <2>4. ret_term' # NotExist => \A i \in DOMAIN t : t[i].end <= old_input_idx
    BY <1>1, <1>2, <1>6, <2>1 DEF SpansInv
  <2> QED BY <1>0, <2>1, <2>2, <2>3, <2>4, SMTT(20) DEF SpansInv, SpansOrdered
<1>8. \A i \in 1 .. n : lalr_stack[i].state \in DOMAIN kernels
  BY <1>1 DEF ParserInv, RunInv, StatesInv
<1>9. e.state # NotExist => e.state \in DOMAIN kernels
  BY DEF GotoTargets
<1>10. StatesInv'
  <2>1. t[1].state = 1
    <3>1. lalr_stack # <<>> BY <1>1
    <3> QED BY <1>1, <1>2, <3>1 DEF ParserInv, RunInv, StatesInv
  <2>2. \A i \in DOMAIN t : \/ t[i].state \in DOMAIN kernels
                            \/ t[i].state = NotExist /\ i = Len(t)
    BY <1>2, <1>6, <1>8, <1>9
  <2> QED BY <1>0, <1>3, <2>1, <2>2 DEF StatesInv
<1>11. StackFollowsGotos'
  <2> SUFFICES ASSUME NEW i \in 2 .. n + 1, t[i].state # NotExist
               PROVE  /\ t[i - 1].state # NotExist
                      /\ t[i].state \in GotoTargets([from |-> t[i - 1].state,
                                                     symbol |-> t[i].symbol])
    <3>1. \A g : GotoTargets(g)' = GotoTargets(g)
      BY <1>3 DEF GotoTargets, ElementsOf
    <3>2. lalr_stack' = t /\ 2 .. Len(t) = 2 .. n + 1
      BY <1>0, <1>2
    <3> QED BY <3>1, <3>2, Zenon DEF StackFollowsGotos
  <2>1. CASE i = n + 1
    BY <1>1, <1>2, <2>1
  <2>2. CASE i \in 2 .. n
    <3>1. i - 1 \in 1 .. n /\ i \in 1 .. n /\ i \in 2 .. Len(lalr_stack)
      BY <1>1, <2>2
    <3>2. t[i] = lalr_stack[i] /\ t[i - 1] = lalr_stack[i - 1]
      BY <1>2, <3>1
    <3> QED BY <3>1, <3>2 DEF ParserInv, RunInv, StackFollowsGotos
  <2> QED BY <1>1, <2>1, <2>2
<1>12. ASSUME PredecessorsHoldDot PROVE SpelledInv'
  <2>0. SpelledInv /\ EntrySymbol /\ KernelTypes /\ KernelParts
    BY <1>12, TableFacts DEF ParserInv, RunInv, CreatorInv, KernelInv
  <2> SUFFICES ASSUME NEW i \in DOMAIN lalr_stack', lalr_stack'[i].state # NotExist,
                      NEW d \in ElementsOf(kernels'[lalr_stack'[i].state].dots)
               PROVE  EndsWith(i, d)' /\ FromBottom(i, d)'
    BY DEF SpelledInv, ElementsOf
  <2>a. /\ i \in DOMAIN t /\ t[i].state # NotExist
        /\ d \in ElementsOf(kernels[t[i].state].dots)
    BY <1>0, <1>3
  <2> SUFFICES /\ d.dot < i
               /\ \A m \in 1 .. d.dot :
                    t[i - d.dot + m].symbol = rules[d.rule].body[m]
               /\ FromBottom(i, d)
    BY <1>0, <1>3 DEF EndsWith, FromBottom
  <2>1. t[i].state \in DOMAIN kernels
    BY <2>a, <1>2, <1>6, <1>8, <1>9
  <2>2. PICK x \in DOMAIN kernels[t[i].state].dots : d = kernels[t[i].state].dots[x]
    BY <2>a DEF ElementsOf
  <2>3. d \in DotType /\ ValidDot(d) /\ d.dot \in Nat
    BY <2>0, <2>1, <2>2, KernelFacts DEF DotType
  <2>4. CASE i \in 1 .. n
    <3>1. d.dot < i /\ \A m \in 1 .. d.dot :
             lalr_stack[i - d.dot + m].symbol = rules[d.rule].body[m]
      BY <1>1, <1>2, <2>a, <2>0, <2>4 DEF SpelledInv, EndsWith
    <3>3. FromBottom(i, d)
      BY <1>1, <1>2, <2>a, <2>0, <2>4 DEF SpelledInv
    <3>2. \A m \in 1 .. d.dot : i - d.dot + m \in 1 .. n
      BY <1>1, <2>3, <2>4, <3>1
    <3> QED BY <1>2, <3>1, <3>2, <3>3
  <2>5. CASE i = n + 1
    <3>1. PICK q, p, s : q = e.state /\ p = lalr_stack[n].state /\ s = e.symbol
      OBVIOUS
    <3>2. t[i] = e /\ q \in GotoTargets([from |-> p, symbol |-> s]) /\ t[i].state = q
      BY <1>2, <2>5, <3>1
    <3>3. q \in DOMAIN kernels /\ [from |-> p, symbol |-> s] \in ElementsOf(kernels[q].gotos)
      BY <3>2 DEF GotoTargets
    <3>4. PICK j \in DOMAIN kernels[q].gotos :
            kernels[q].gotos[j] = [from |-> p, symbol |-> s]
      BY <3>3 DEF ElementsOf
    <3>5. d.dot >= 1 /\ rules[d.rule].body[d.dot] = s
      BY <2>0, <2>2, <3>2, <3>3, <3>4 DEF EntrySymbol, SymbolBefore
    <3>6. CASE d.dot = 1
      <4>1. \A m \in 1 .. d.dot : m = 1 /\ i - d.dot + m = n + 1
        BY <1>1, <2>5, <3>6
      <4>2. d.dot < i BY <1>1, <2>5, <3>6
      <4>3. FromBottom(i, d)
        <5> SUFFICES ASSUME EndsText(rules), Outermost(d.rule) PROVE i = 2
          BY <3>6 DEF FromBottom
        <5>1. kernels[q].gotos[j].from = 1
          BY <2>2, <3>2, <3>3, <3>6 DEF ParserInv, OuterInv, BegunFirst
        <5>2. n = 1
          BY <1>1, <3>1, <3>4, <5>1, OnlyBottomFirst
        <5> QED BY <2>5, <5>2
      <4> QED BY <1>2, <3>1, <3>5, <3>6, <4>1, <4>2, <4>3
    <3>7. CASE d.dot >= 2
      <4>1. RuleDot(d.rule, d.dot - 1) \in ElementsOf(kernels[p].dots)
        BY <1>12, <2>2, <3>2, <3>3, <3>4, <3>7 DEF PredecessorsHoldDot
      <4>2. PICK b : b = RuleDot(d.rule, d.dot - 1)
        OBVIOUS
      <4>3. b.rule = d.rule /\ b.dot = d.dot - 1
        BY <4>2 DEF RuleDot
      <4>4. EndsWith(n, b) /\ FromBottom(n, b)
        BY <1>1, <2>0, <3>1, <4>1, <4>2 DEF SpelledInv
      <4>5. /\ d.dot - 1 < n
            /\ \A m \in 1 .. d.dot - 1 :
                 lalr_stack[n - (d.dot - 1) + m].symbol = rules[d.rule].body[m]
        BY <4>3, <4>4 DEF EndsWith
      <4>6. d.dot < i
        BY <1>1, <2>3, <2>5, <4>5
      <4>7. ASSUME NEW m \in 1 .. d.dot
            PROVE  t[i - d.dot + m].symbol = rules[d.rule].body[m]
        <5>1. CASE m = d.dot
          <6>1. i - d.dot + m = n + 1 BY <1>1, <2>3, <2>5, <5>1
          <6> QED BY <1>2, <3>1, <3>5, <5>1, <6>1
        <5>2. CASE m \in 1 .. d.dot - 1
          <6>1. /\ i - d.dot + m = n - (d.dot - 1) + m
                /\ n - (d.dot - 1) + m \in 1 .. n
            BY <1>1, <2>3, <2>5, <4>5, <5>2
          <6> QED BY <1>2, <4>5, <5>2, <6>1
        <5> QED BY <2>3, <5>1, <5>2
      <4>8. FromBottom(i, d)
        BY <1>1, <2>3, <2>5, <3>7, <4>3, <4>4 DEF FromBottom
      <4> QED BY <4>6, <4>7, <4>8
    <3> QED BY <2>3, <3>5, <3>6, <3>7
  <2> QED BY <1>2, <1>6, <2>4, <2>5
<1>13. PredecessorsHoldDot' => SpelledInv'
  BY <1>3, <1>12
<1> QED
  BY <1>3, <1>4, <1>5, <1>7, <1>10, <1>11, <1>13 DEF ParserInv, RunInv

-----------------------------------------------------------------------------
LEMMA StartRunInv == ParserInv /\ StartRun => ParserInv'
<1> SUFFICES ASSUME ParserInv, StartRun PROVE ParserInv'
  OBVIOUS
<1> DEFINE bottom == [state |-> 1, start |-> 0, end |-> 0, symbol |-> NotExist]
<1>1. /\ UNCHANGED inputsOfRun /\ table_stage = "created" /\ run_status = "wait"
      /\ UNCHANGED <<old_input_idx, input_idx, ret_term, sentence>>
      /\ input_length' \in 0 .. MaxInput /\ stop_idx' \in 0 .. input_length'
      /\ run_status' \in {"running", "LUA_NEW_STATE_ERROR", "LUA_DO_INIT_CODE_ERROR"}
      /\ lalr_stack' = <<bottom>>
  BY DEF StartRun
<1>2. /\ RunTypeOK /\ RunStarts /\ FirstAlone /\ OuterInv /\ CreatorInv
      /\ input_idx = 0 /\ old_input_idx = 0 /\ ret_term = NotExist
  BY <1>1 DEF ParserInv, RunInv, RunStarts
<1>3. /\ kernels' = kernels /\ rules' = rules /\ table_stage' = table_stage
      /\ CreatorInv' /\ FirstAlone' /\ OuterInv'
  BY <1>1, <1>2, RunInputsKept
<1>4. /\ bottom \in StackElement /\ bottom.state = 1 /\ bottom.start = 0 /\ bottom.end = 0
  BY MaxKernelsAssumption, ParserRunAssumption DEF StackElement
<1> HIDE DEF bottom
<1>5. PICK t : t = lalr_stack'
  OBVIOUS
<1>6. /\ t \in Seq(StackElement) /\ t # <<>> /\ Len(t) = 1 /\ DOMAIN t = {1}
      /\ t[1] = bottom
  BY <1>1, <1>4, <1>5
<1>7. RunTypeOK'
  <2>1. stop_idx' \in 0 .. MaxInput
    BY <1>1, ParserRunAssumption
  <2> QED BY <1>1, <1>2, <1>5, <1>6, <2>1 DEF RunTypeOK, RunStatuses
<1>8. RunStarts'
  BY <1>1, <1>3 DEF RunStarts
<1>9. SpansInv'
  <2>1. 0 <= stop_idx' /\ stop_idx' <= input_length' BY <1>1, ParserRunAssumption
  <2> QED BY <1>1, <1>2, <1>4, <1>5, <1>6, <2>1 DEF SpansInv, SpansOrdered
<1>10. StatesInv'
  <2>1. 1 \in DOMAIN kernels BY <1>2, TableFacts
  <2> QED BY <1>3, <1>4, <1>5, <1>6, <2>1 DEF StatesInv
<1>11. StackFollowsGotos'
  <2>1. 2 .. Len(t) = {} BY <1>6
  <2> QED BY <1>5, <2>1 DEF StackFollowsGotos
<1>12. SpelledInv'
  <2> SUFFICES ASSUME NEW i \in DOMAIN lalr_stack',
                      NEW d \in ElementsOf(kernels'[lalr_stack'[i].state].dots)
               PROVE  EndsWith(i, d)' /\ FromBottom(i, d)'
    BY DEF SpelledInv, ElementsOf
  <2>1. i = 1 /\ d \in ElementsOf(kernels[1].dots)
    BY <1>3, <1>4, <1>5, <1>6
  <2>2. ElementsOf(<<RuleDot(1, 0)>>) = {RuleDot(1, 0)}
    BY DEF ElementsOf
  <2>3. d = RuleDot(1, 0)
    BY <1>2, <2>1, <2>2 DEF FirstAlone
  <2>4. d.dot = 0 BY <2>3 DEF RuleDot
  <2> QED BY <2>1, <2>4 DEF EndsWith, FromBottom
<1> QED
  BY <1>3, <1>7, <1>8, <1>9, <1>10, <1>11, <1>12 DEF ParserInv, RunInv

(* A step that reads, or ends the run, and keeps the stack. *)
LEMMA StepKeepsStack ==
  ASSUME ParserInv, UNCHANGED inputsOfRun, run_status = "running",
         UNCHANGED <<lalr_stack, textVars>>,
         run_status' \in RunStatuses, run_status' # "wait",
         ret_term' \in Terminals \union {NotExist},
         \/ UNCHANGED <<old_input_idx, input_idx, ret_term>>
         \/ /\ ret_term = NotExist
            /\ old_input_idx' = input_idx
            /\ input_idx' \in 0 .. MaxInput
            /\ input_idx <= input_idx' /\ input_idx' <= stop_idx
  PROVE  ParserInv'
<1>1. /\ StatesInv' /\ StackFollowsGotos' /\ (PredecessorsHoldDot' => SpelledInv')
      /\ table_stage' = table_stage /\ CreatorInv' /\ FirstAlone' /\ OuterInv'
  BY StackKept
<1>2. /\ RunTypeOK /\ RunStarts /\ SpansInv
  BY DEF ParserInv, RunInv
<1>3. /\ DOMAIN lalr_stack = 1 .. Len(lalr_stack)
      /\ \A i \in DOMAIN lalr_stack : lalr_stack[i].end \in Nat
      /\ input_idx \in Nat /\ old_input_idx \in Nat
  BY StackFacts
<1>4. RunTypeOK'
  BY <1>2 DEF RunTypeOK
<1>5. RunStarts'
  BY <1>1, <1>2 DEF RunStarts
<1>6. SpansInv'
  <2>1. CASE UNCHANGED <<old_input_idx, input_idx, ret_term>>
    BY <1>2, <2>1 DEF SpansInv, SpansOrdered
  <2>2. CASE /\ ret_term = NotExist
             /\ old_input_idx' = input_idx
             /\ input_idx' \in 0 .. MaxInput
             /\ input_idx <= input_idx' /\ input_idx' <= stop_idx
    <3>1. input_idx' \in Nat BY <2>2
    <3>2. \A i \in DOMAIN lalr_stack :
            /\ lalr_stack[i].end <= input_idx
            /\ lalr_stack[i].end <= input_idx'
      BY <1>2, <1>3, <2>2, <3>1 DEF SpansInv, SpansOrdered
    <3> QED BY <1>2, <2>2, <3>2 DEF SpansInv, SpansOrdered
  <2> QED BY <2>1, <2>2
<1> QED BY <1>1, <1>4, <1>5, <1>6 DEF ParserInv, RunInv

(* recognize goes one character on, or stays where it stops moving. *)
LEMMA RecognizedNext ==
  ASSUME ParserInv, NEW t, NEW next \in 0 .. MaxInput, Recognized(t, next)
  PROVE  /\ run_status = "running" /\ ret_term = NotExist
         /\ input_idx <= next /\ next <= stop_idx
<1>1. /\ run_status = "running" /\ ret_term = NotExist
      /\ \/ input_idx < stop_idx /\ next = input_idx + 1
         \/ next = input_idx
  BY DEF Recognized, Reading
<1>2. input_idx \in Nat /\ stop_idx \in Nat /\ input_idx <= stop_idx
  BY StackFacts DEF ParserInv, RunInv, SpansInv, SpansOrdered
<1> QED BY <1>1, <1>2

LEMMA ReadingInv ==
  ParserInv /\ (SkipTerminal \/ NextTerminal \/ Unrecognized) => ParserInv'
<1> SUFFICES ASSUME ParserInv, SkipTerminal \/ NextTerminal \/ Unrecognized
             PROVE  ParserInv'
  OBVIOUS
<1>0. RunTypeOK BY DEF ParserInv, RunInv
<1>1. CASE SkipTerminal
  <2>1. PICK t \in SkipTerminals, next \in 0 .. MaxInput :
          Recognized(t, next) /\ input_idx' = next
    BY <1>1 DEF SkipTerminal
  <2>2. /\ UNCHANGED inputsOfRun /\ old_input_idx' = input_idx
        /\ UNCHANGED <<run_status, lalr_stack, textVars, ret_term>>
    BY <1>1 DEF SkipTerminal
  <2>3. /\ run_status = "running" /\ ret_term = NotExist
        /\ input_idx <= next /\ next <= stop_idx
    BY <2>1, RecognizedNext
  <2> QED
    BY <1>0, <2>1, <2>2, <2>3, StepKeepsStack DEF RunStatuses
<1>2. CASE NextTerminal
  <2>1. PICK t \in Terminals \ SkipTerminals, next \in 0 .. MaxInput :
          Recognized(t, next) /\ input_idx' = next /\ ret_term' = t
    BY <1>2 DEF NextTerminal
  <2>2. /\ UNCHANGED inputsOfRun /\ old_input_idx' = input_idx
        /\ UNCHANGED <<run_status, lalr_stack, textVars>>
    BY <1>2 DEF NextTerminal
  <2>3. /\ run_status = "running" /\ ret_term = NotExist
        /\ input_idx <= next /\ next <= stop_idx
    BY <2>1, RecognizedNext
  <2> QED
    BY <2>1, <2>2, <2>3, StepKeepsStack DEF RunStatuses
<1>3. CASE Unrecognized
  <2>1. PICK next \in 0 .. MaxInput : Recognized(NotExist, next) /\ input_idx' = next
    BY <1>3 DEF Unrecognized
  <2>2. /\ UNCHANGED inputsOfRun /\ old_input_idx' = input_idx
        /\ UNCHANGED <<lalr_stack, textVars, ret_term>>
        /\ run_status' = "UNRECOGNIZED_TERMINAL"
    BY <1>3 DEF Unrecognized
  <2>3. /\ run_status = "running" /\ ret_term = NotExist
        /\ input_idx <= next /\ next <= stop_idx
    BY <2>1, RecognizedNext
  <2> QED
    BY <1>0, <2>1, <2>2, <2>3, StepKeepsStack DEF RunStatuses
<1> QED BY <1>1, <1>2, <1>3

LEMMA EndingInv ==
  ParserInv /\ (SyntaxError \/ Accept \/ RuleCodeFails \/ Undefined) => ParserInv'
<1> SUFFICES ASSUME ParserInv, SyntaxError \/ Accept \/ RuleCodeFails \/ Undefined
             PROVE  ParserInv'
  OBVIOUS
<1>1. /\ UNCHANGED inputsOfRun /\ run_status = "running"
      /\ UNCHANGED <<lalr_stack, old_input_idx, input_idx, textVars, ret_term>>
      /\ run_status' \in {"SYNTAX_ERROR", "accepted", "LUA_DO_RULE_CODE_ERROR",
                          "undefined"}
  BY DEF SyntaxError, Accept, RuleCodeFails, Undefined, Shifting, Reducing, Acting
<1>2. run_status' \in RunStatuses /\ run_status' # "wait"
  BY <1>1 DEF RunStatuses
<1>3. ret_term' \in Terminals \union {NotExist}
  BY <1>1 DEF ParserInv, RunInv, RunTypeOK
<1> QED BY <1>1, <1>2, <1>3, StepKeepsStack

-----------------------------------------------------------------------------
(* The cell for the state on top and the terminal at hand. *)
LEMMA ActionFacts ==
  ASSUME ParserInv, Acting, InState
  PROVE  /\ Len(lalr_stack) >= 1 /\ ret_term \in Terminals /\ ret_term \in Symbols
         /\ lalr_stack[Len(lalr_stack)] = LastOf(lalr_stack)
         /\ LastOf(lalr_stack).state \in DOMAIN kernels
         /\ \A k \in DOMAIN kernels : \A s \in Symbols : CellTrue(k, s, lalr_table[k][s])
         /\ \A k \in DOMAIN kernels : k \in 1 .. MaxKernels /\ k < ReduceBase
<1>1. run_status = "running" /\ ret_term # NotExist /\ LastOf(lalr_stack).state # NotExist
  BY DEF Acting, InState
<1>2. /\ Len(lalr_stack) >= 1 /\ Len(lalr_stack) \in Nat
      /\ DOMAIN lalr_stack = 1 .. Len(lalr_stack) /\ CreatorInv
  BY <1>1, StackFacts
<1>3. table_stage = "created" /\ StatesInv /\ ret_term \in Terminals
  BY <1>1 DEF ParserInv, RunInv, RunStarts, RunTypeOK
<1>4. /\ CellsTrue /\ KernelTypes /\ DOMAIN kernels = 1 .. Len(kernels)
  BY <1>2, TableFacts
<1>5. \A k \in DOMAIN kernels : k \in 1 .. MaxKernels /\ k < ReduceBase
  BY <1>4, ReduceBaseAssumption, MaxKernelsAssumption DEF KernelTypes
<1>6. Len(lalr_stack) \in DOMAIN lalr_stack
  BY <1>2
<1>7. LastOf(lalr_stack).state \in DOMAIN kernels
  BY <1>1, <1>3, <1>6 DEF StatesInv, LastOf
<1> QED BY <1>2, <1>3, <1>4, <1>5, <1>7, SymbolKinds DEF CellsTrue, LastOf

LEMMA ShiftInv == ParserInv /\ Shift => ParserInv'
<1> SUFFICES ASSUME ParserInv, Shift PROVE ParserInv'
  OBVIOUS
<1>0. PICK e, n, q : /\ n = Len(lalr_stack) /\ q = ParseAction
                     /\ e = [state |-> q, start |-> old_input_idx,
                             end |-> input_idx, symbol |-> ret_term]
  OBVIOUS
<1>1. /\ Acting /\ InState /\ q \in 1 .. ReduceBase /\ run_status = "running"
      /\ UNCHANGED inputsOfRun /\ ret_term' = NotExist /\ ret_term # NotExist
      /\ UNCHANGED <<run_status, old_input_idx, input_idx, textVars>>
      /\ lalr_stack' = Append(lalr_stack, e)
  BY <1>0 DEF Shift, Shifting, Acting
<1>2. /\ n >= 1 /\ ret_term \in Terminals /\ ret_term \in Symbols
      /\ lalr_stack[n] = LastOf(lalr_stack) /\ lalr_stack[n].state \in DOMAIN kernels
      /\ CellTrue(lalr_stack[n].state, ret_term, q)
      /\ \A k \in DOMAIN kernels : k \in 1 .. MaxKernels /\ k < ReduceBase
  BY <1>0, <1>1, ActionFacts DEF ParseAction
<1>3. /\ lalr_stack \in Seq(StackElement) /\ n \in Nat /\ rules \in Grammars
      /\ old_input_idx \in Nat /\ input_idx \in Nat /\ n \in 1 .. Len(lalr_stack)
  BY <1>0, <1>2, StackFacts
<1>4. q \in GotoTargets([from |-> lalr_stack[n].state, symbol |-> ret_term])
  <2>1. q # NotExist BY <1>1 DEF NotExist
  <2>2. \A r \in DOMAIN rules : q # ReduceBase + r
    BY <1>1, <1>3, RuleFacts, ReduceBaseAssumption
  <2> QED BY <1>2, <2>1, <2>2 DEF CellTrue
<1>5. /\ e.state = q /\ e.start = old_input_idx /\ e.end = input_idx
      /\ e.symbol = ret_term
  BY <1>0
<1>6. e \in StackElement
  <2>1. q \in 1 .. MaxKernels BY <1>2, <1>4 DEF GotoTargets
  <2>2. old_input_idx \in 0 .. MaxInput /\ input_idx \in 0 .. MaxInput
    BY DEF ParserInv, RunInv, RunTypeOK
  <2> QED BY <1>0, <1>2, <2>1, <2>2 DEF StackElement
<1>7. lalr_stack' = Append(SubSeq(lalr_stack, 1, n), e)
  BY <1>0, <1>1, <1>3, WholeSequence
<1>8. lalr_stack[n].state # NotExist
  BY <1>1, <1>2 DEF InState
<1>9. /\ e.start <= e.end /\ e.end <= input_idx
      /\ \A i \in 1 .. n : lalr_stack[i].end <= e.start
  <2>1. SpansInv BY DEF ParserInv, RunInv
  <2>2. 1 .. n = DOMAIN lalr_stack BY <1>0, StackFacts
  <2> QED BY <1>1, <1>3, <1>5, <2>1, <2>2 DEF SpansInv
<1>10. run_status # "wait" BY <1>1
<1> QED
  BY <1>1, <1>3, <1>4, <1>5, <1>6, <1>7, <1>8, <1>9, <1>10, PushInv

(* A reduction in the cell is one of a rule of the grammar. *)
LEMMA ReducingFacts ==
  ASSUME ParserInv, Reducing
  PROVE  /\ ActionRule \in DOMAIN rules
         /\ ActionHead \in Nonterminals /\ ActionBody \in Seq(Symbols)
         /\ Len(ActionBody) \in Nat \ {0}
         /\ RuleDot(ActionRule, Len(ActionBody))
              \in ElementsOf(kernels[LastOf(lalr_stack).state].dots)
<1>1. Acting /\ InState /\ ParseAction > ReduceBase
  BY DEF Reducing
<1>2. /\ LastOf(lalr_stack).state \in DOMAIN kernels /\ ret_term \in Symbols
      /\ CellTrue(LastOf(lalr_stack).state, ret_term, ParseAction)
      /\ \A k \in DOMAIN kernels : k \in 1 .. MaxKernels /\ k < ReduceBase
      /\ rules \in Grammars
  BY <1>1, ActionFacts, StackFacts DEF ParseAction
<1>3. ParseAction # NotExist
  BY <1>1, ReduceBaseAssumption DEF NotExist
<1>4. ParseAction \notin GotoTargets([from |-> LastOf(lalr_stack).state,
                                      symbol |-> ret_term])
  <2> SUFFICES ASSUME ParseAction \in DOMAIN kernels PROVE FALSE
    BY DEF GotoTargets
  <2>1. ParseAction \in 1 .. MaxKernels /\ ParseAction < ReduceBase
    BY <1>2
  <2> QED BY <1>1, <2>1, ReduceBaseAssumption
<1>5. PICK r \in DOMAIN rules :
        /\ ParseAction = ReduceBase + r
        /\ RuleDot(r, Len(rules[r].body))
             \in ElementsOf(kernels[LastOf(lalr_stack).state].dots)
  BY <1>2, <1>3, <1>4 DEF CellTrue
<1>6. /\ r \in Nat /\ rules[r].head \in Nonterminals
      /\ rules[r].body \in Seq(Symbols) /\ Len(rules[r].body) \in Nat \ {0}
  BY <1>2, RuleFacts
<1>7. ActionRule = r
  BY <1>5, <1>6, ReduceBaseAssumption DEF ActionRule
<1> QED BY <1>5, <1>6, <1>7 DEF ActionHead, ActionBody

LEMMA ReduceInv == ParserInv /\ Reduce => ParserInv'
<1> SUFFICES ASSUME ParserInv, Reduce PROVE ParserInv'
  OBVIOUS
<1>0. PICK e, n, q, L, h : /\ n = Below /\ q = GotoState /\ L = Len(lalr_stack)
                           /\ h = ActionHead
                           /\ e = [state |-> q, start |-> HandleStart,
                                   end |-> LastOf(lalr_stack).end, symbol |-> h]
  OBVIOUS
<1>1. /\ Reducing /\ n >= 1 /\ run_status = "running" /\ Acting /\ InState
      /\ UNCHANGED inputsOfRun /\ ret_term' = ret_term /\ ret_term # NotExist
      /\ UNCHANGED <<run_status, old_input_idx, input_idx, textVars>>
      /\ lalr_stack' = Append(SubSeq(lalr_stack, 1, n), e)
  BY <1>0 DEF Reduce, Reducing, Acting
<1>2. /\ h \in Nonterminals /\ h \in Symbols /\ Len(ActionBody) \in Nat \ {0}
      /\ rules \in Grammars
  BY <1>0, <1>1, ReducingFacts, StackFacts, SymbolKinds
<1>3. /\ lalr_stack \in Seq(StackElement) /\ L \in Nat
      /\ DOMAIN lalr_stack = 1 .. L
      /\ \A i \in 1 .. L : /\ lalr_stack[i].start \in Nat /\ lalr_stack[i].end \in Nat
                           /\ lalr_stack[i].start <= lalr_stack[i].end
      /\ old_input_idx \in Nat /\ input_idx \in Nat
  BY <1>0, StackFacts
<1>4. n \in Nat /\ n < L /\ n + 1 \in 1 .. L /\ L \in 1 .. L /\ n \in 1 .. L
  BY <1>0, <1>1, <1>2, <1>3 DEF Below
<1>5. /\ e.state = q /\ e.start = lalr_stack[n + 1].start
      /\ e.end = lalr_stack[L].end /\ e.symbol = h
  BY <1>0 DEF HandleStart, LastOf
<1>6. lalr_stack[n].state \in DOMAIN kernels /\ lalr_stack[n].state # NotExist
  <2>1. StatesInv BY DEF ParserInv, RunInv
  <2>2. lalr_stack[n].state \in DOMAIN kernels
    BY <1>0, <1>3, <1>4, <2>1 DEF StatesInv
  <2>3. lalr_stack[n].state \in 1 .. MaxKernels
    BY <1>1, <2>2, ActionFacts
  <2> QED BY <2>2, <2>3, MaxKernelsAssumption DEF NotExist
<1>7. CellTrue(lalr_stack[n].state, h, q)
  BY <1>0, <1>1, <1>2, <1>6, ActionFacts DEF GotoState
<1>8. \/ q = NotExist
      \/ q \in GotoTargets([from |-> lalr_stack[n].state, symbol |-> h])
  <2>1. h \notin Terminals BY <1>2, CountAssumption DEF Nonterminals, Terminals
  <2> QED BY <1>7, <2>1 DEF CellTrue
<1>9. e \in StackElement
  <2>1. q = NotExist \/ q \in 1 .. MaxKernels
    BY <1>1, <1>8, ActionFacts DEF GotoTargets
  <2>2. lalr_stack[n + 1] \in StackElement /\ lalr_stack[L] \in StackElement
    BY <1>3, <1>4
  <2>3. lalr_stack[n + 1].start \in 0 .. MaxInput /\ lalr_stack[L].end \in 0 .. MaxInput
    BY <2>2 DEF StackElement
  <2>4. e = [state |-> q, start |-> lalr_stack[n + 1].start,
             end |-> lalr_stack[L].end, symbol |-> h]
    BY <1>0 DEF HandleStart, LastOf
  <2> QED BY <1>2, <2>1, <2>3, <2>4 DEF StackElement
<1>10. SpansOrdered /\ \A i \in 1 .. L : lalr_stack[i].end <= old_input_idx
  BY <1>1, <1>3 DEF ParserInv, RunInv, SpansInv
<1>11. e.start <= e.end
  <2>1. CASE n + 1 = L
    BY <1>3, <1>4, <1>5, <2>1
  <2>2. CASE n + 1 < L
    <3>1. /\ lalr_stack[n + 1].start <= lalr_stack[n + 1].end
          /\ lalr_stack[n + 1].end <= lalr_stack[L].start
          /\ lalr_stack[L].start <= lalr_stack[L].end
      BY <1>3, <1>4, <1>10, <2>2 DEF SpansOrdered
    <3>2. PICK a, b, c, f : /\ a = lalr_stack[n + 1].start /\ b = lalr_stack[n + 1].end
                            /\ c = lalr_stack[L].start /\ f = lalr_stack[L].end
      OBVIOUS
    <3>3. a \in Nat /\ b \in Nat /\ c \in Nat /\ f \in Nat
      BY <1>3, <1>4, <3>2
    <3> QED BY <1>5, <3>1, <3>2, <3>3
  <2> QED BY <1>4, <1>3, <2>1, <2>2
<1>12. e.end <= input_idx /\ e.end <= old_input_idx
  BY <1>3, <1>4, <1>5, <1>10 DEF SpansOrdered
<1>13. \A i \in 1 .. n : lalr_stack[i].end <= e.start
  <2> SUFFICES ASSUME NEW i \in 1 .. n PROVE lalr_stack[i].end <= e.start
    OBVIOUS
  <2>1. i \in 1 .. L /\ i < n + 1 BY <1>3, <1>4
  <2> QED BY <1>3, <1>4, <1>5, <1>10, <2>1 DEF SpansOrdered
<1>14. run_status # "wait" /\ n \in 1 .. Len(lalr_stack)
  BY <1>0, <1>1, <1>4
<1> QED
  BY <1>1, <1>5, <1>6, <1>8, <1>9, <1>11, <1>12, <1>13, <1>14, PushInv

-----------------------------------------------------------------------------
LEMMA RunNextInv == ParserInv /\ RunNext => ParserInv'
<1> SUFFICES ASSUME ParserInv, RunNext PROVE ParserInv'
  OBVIOUS
<1>1. CASE StartRun BY <1>1, StartRunInv
<1>2. CASE SkipTerminal \/ NextTerminal \/ Unrecognized BY <1>2, ReadingInv
<1>3. CASE SyntaxError \/ Accept \/ RuleCodeFails \/ Undefined BY <1>3, EndingInv
<1>4. CASE Shift BY <1>4, ShiftInv
<1>5. CASE Reduce BY <1>5, ReduceInv
<1> QED BY <1>1, <1>2, <1>3, <1>4, <1>5 DEF RunNext

(* The construction is over when the first text is parsed. *)
LEMMA CreatedIsDone ==
  ASSUME CreatorInv, table_stage = "created"
  PROVE  ~CreatorNext
<1>1. KernelsDone
  BY DEF CreatorInv, OrderInv
<1>2. ~TableNext
  BY DEF TableNext, CreateTable, WriteGoto, GotoConflict, NextGotoKernel,
     WriteReduction, ReductionFails, SkipOpenDot, NextReduceKernel, AtGoto, AtDot
<1> QED BY <1>1, <1>2, NothingElse DEF CreatorNext

(* While there is no run, only the construction goes on. *)
LEMMA NoRunInv ==
  ASSUME RunInv, run_status = "wait", UNCHANGED runOwnVars
  PROVE  RunInv'
<1>1. /\ RunTypeOK /\ RunStarts /\ SpansInv
      /\ UNCHANGED <<run_status, lalr_stack, old_input_idx, input_idx, textVars,
                     ret_term>>
  BY DEF RunInv, runOwnVars
<1>2. lalr_stack = <<>> /\ lalr_stack' = <<>>
  BY <1>1 DEF RunTypeOK
<1>3. RunTypeOK' /\ RunStarts' /\ SpansInv'
  BY <1>1 DEF RunTypeOK, RunStarts, SpansInv, SpansOrdered
<1>4. DOMAIN lalr_stack' = {} /\ 2 .. Len(lalr_stack') = {}
  BY <1>2
<1>5. StatesInv' /\ StackFollowsGotos' /\ SpelledInv'
  BY <1>2, <1>4 DEF StatesInv, StackFollowsGotos, SpelledInv
<1> QED BY <1>3, <1>5 DEF RunInv

LEMMA CreatorKeepsRules == CreatorNext => rules' = rules
BY DEF CreatorNext, FirstNext, ScanRule, NextElement, StoreFirst, FollowNext, SkipCreated,
   CallRoot, SkipSymbol, FollowInBody, HeadUsed, HeadCreated, CallHead, ReturnToCaller,
   ReturnToRoot, KernelNext, KnownKernel, NewKernel, BeginMerge, MergeDot, EndMerge,
   NextDot, NextKernel, TableNext, CreateTable, WriteGoto, GotoConflict, NextGotoKernel,
   WriteReduction, ReductionFails, SkipOpenDot, NextReduceKernel, inputsOfTable,
   firstVars

LEMMA ConstructionInv ==
  ParserInv /\ CreatorNext /\ UNCHANGED runOwnVars => ParserInv'
<1> SUFFICES ASSUME ParserInv, CreatorNext, UNCHANGED runOwnVars PROVE ParserInv'
  OBVIOUS
<1>1. CreatorInv /\ FirstAlone /\ OuterInv /\ RunInv
  BY DEF ParserInv
<1>2. run_status = "wait"
  BY <1>1, CreatedIsDone DEF RunInv, RunStarts
<1>3. CreatorInv'
  BY <1>1, NextCreatorInv
<1>4. RunInv'
  BY <1>1, <1>2, NoRunInv
<1>5. FirstAlone' /\ OuterInv'
  <2>1. CASE KernelNext
    BY <1>1, <2>1, FirstStaysAlone, OuterStays DEF CreatorInv
  <2>2. CASE ~KernelNext
    <3>1. kernels' = kernels
      BY <2>2 DEF CreatorNext, kernelOwnVars, TableNext, CreateTable, WriteGoto,
         GotoConflict, NextGotoKernel, WriteReduction, ReductionFails, SkipOpenDot,
         NextReduceKernel, inputsOfTable
    <3>2. rules' = rules
      BY CreatorKeepsRules
    <3>3. EndsText(rules)' = EndsText(rules) /\ \A r : Outermost(r)' = Outermost(r)
      BY <3>2 DEF EndsText, Outermost
    <3>4. OuterInv'
      BY <1>1, <3>1, <3>3 DEF OuterInv, DotBegun, BegunFirst
    <3> QED BY <1>1, <3>1, <3>4 DEF FirstAlone, RuleDot
  <2> QED BY <2>1, <2>2
<1> QED BY <1>3, <1>4, <1>5 DEF ParserInv

LEMMA NextParserInv == ParserInv /\ [ParserNext]_parserVars => ParserInv'
<1> SUFFICES ASSUME ParserInv, [ParserNext]_parserVars PROVE ParserInv'
  OBVIOUS
<1>1. CASE CreatorNext /\ UNCHANGED runOwnVars
  BY <1>1, ConstructionInv
<1>2. CASE RunNext
  BY <1>2, RunNextInv
<1>3. CASE UNCHANGED parserVars
  <2>1. /\ UNCHANGED inputsOfRun
        /\ UNCHANGED <<run_status, lalr_stack, old_input_idx, input_idx, textVars,
                       ret_term>>
    BY <1>3 DEF parserVars, runOwnVars
  <2>2. /\ StatesInv' /\ StackFollowsGotos' /\ (PredecessorsHoldDot' => SpelledInv')
        /\ table_stage' = table_stage /\ CreatorInv' /\ FirstAlone' /\ OuterInv'
    BY <2>1, StackKept
  <2>3. RunTypeOK /\ RunStarts /\ SpansInv
    BY DEF ParserInv, RunInv
  <2>4. RunTypeOK' /\ RunStarts' /\ SpansInv'
    BY <2>1, <2>2, <2>3 DEF RunTypeOK, RunStarts, SpansInv, SpansOrdered
  <2> QED BY <2>2, <2>4 DEF ParserInv, RunInv
<1> QED BY <1>1, <1>2, <1>3 DEF ParserNext

LEMMA InitParserInv == ParserInit => ParserInv
<1> SUFFICES ASSUME ParserInit PROVE ParserInv
  OBVIOUS
<1>1. CreatorInit /\ KernelInit /\ RunInit
  BY DEF ParserInit, CreatorInit
<1>2. CreatorInv
  BY <1>1, InitCreatorInv
<1>3. FirstAlone
  BY <1>1 DEF KernelInit, FirstAlone
<1>8. OuterInv
  <2>1. DOMAIN kernels = {1} /\ kernels[1].gotos = <<>>
    BY <1>1 DEF KernelInit
  <2> QED BY <2>1 DEF OuterInv, DotBegun, BegunFirst
<1>4. lalr_stack = <<>> /\ DOMAIN lalr_stack = {} /\ 2 .. Len(lalr_stack) = {}
      /\ lalr_stack \in Seq(StackElement)
  BY <1>1 DEF RunInit
<1>5. RunTypeOK
  BY <1>1, <1>4, ParserRunAssumption DEF RunInit, RunTypeOK, RunStatuses
<1>6. RunStarts /\ SpansInv
  BY <1>1, <1>4 DEF RunInit, RunStarts, SpansInv, SpansOrdered
<1>7. StatesInv /\ StackFollowsGotos /\ SpelledInv
  BY <1>4 DEF StatesInv, StackFollowsGotos, SpelledInv
<1> QED BY <1>2, <1>3, <1>5, <1>6, <1>7, <1>8 DEF ParserInv, RunInv

(* What the stack, the positions in the text and the kernels have to do with
   each other at every moment of parse_source_string. *)
THEOREM ParserInvariant == ParserSpec => []ParserInv
<1> QED BY InitParserInv, NextParserInv, PTL DEF ParserSpec

(* The texts of the stack elements lie in the source string, in order and
   without a character in common: rule_body cuts out what was parsed. *)
THEOREM SpansAreOrdered == ParserSpec => []SpansOrdered
<1>1. ParserInv => SpansOrdered BY DEF ParserInv, RunInv, SpansInv
<1> QED BY <1>1, ParserInvariant, PTL

(* From each element of the stack a goto of the kernels, under the symbol of
   the next element, leads to the state of the next element. *)
THEOREM StackIsLinked == ParserSpec => []StackFollowsGotos
<1>1. ParserInv => StackFollowsGotos BY DEF ParserInv, RunInv
<1> QED BY <1>1, ParserInvariant, PTL

LEMMA NoTerminal == NotExist \notin Terminals
BY CountAssumption DEF NotExist, Terminals

(* A run that stands at a skip terminal goes on to stand there: the inner loop
   skips a terminal that took no character for ever, whatever the grammar. *)
THEOREM StandingRunsStand == ParserSpec => SkipsForEver
<1>1. ParserInv /\ StandsAtSkip /\ [ParserNext]_parserVars => StandsAtSkip'
  <2> SUFFICES ASSUME ParserInv, StandsAtSkip, [ParserNext]_parserVars
               PROVE  StandsAtSkip'
    OBVIOUS
  <2>1. /\ run_status = "running" /\ ret_term = NotExist
        /\ input_idx = stop_idx /\ stop_answer \in SkipTerminals
    BY DEF StandsAtSkip, Reading
  <2>2. stop_answer \in Terminals /\ stop_answer # NotExist
    BY <2>1, NoTerminal, ParserRunAssumption
  <2>3. input_idx \in Int
    BY ParserRunAssumption DEF ParserInv, RunInv, RunTypeOK
  <2>4. ASSUME NEW t, NEW next, Recognized(t, next)
        PROVE  t = stop_answer /\ next = input_idx
    BY <2>1, <2>3, <2>4 DEF Recognized
  <2>5. CASE SkipTerminal
    <3>1. input_idx' = input_idx
      BY <2>4, <2>5 DEF SkipTerminal
    <3> QED BY <2>1, <2>5, <3>1 DEF SkipTerminal, StandsAtSkip, Reading
  <2>6. ~NextTerminal /\ ~Unrecognized
    BY <2>1, <2>2, <2>4 DEF NextTerminal, Unrecognized
  <2>7. ~Acting /\ ~StartRun
    BY <2>1 DEF Acting, StartRun
  <2>8. RunNext => SkipTerminal
    BY <2>6, <2>7 DEF RunNext, SyntaxError, Accept, Shift, Reduce, RuleCodeFails,
       Undefined, Shifting, Reducing
  <2>9. CASE UNCHANGED runOwnVars
    BY <2>1, <2>9 DEF runOwnVars, StandsAtSkip, Reading
  <2> QED BY <2>5, <2>8, <2>9 DEF ParserNext, parserVars
<1> QED BY <1>1, ParserInvariant, PTL DEF ParserSpec, SkipsForEver

(* A kernel entered from kernels that hold the dots one symbol back holds
   complete dots whose bodies lie on top of the stack. *)
LEMMA HandleLiesOnTop == ParserInv => SoundKernelsHaveHandle
<1> SUFFICES ASSUME ParserInv, Reducing, PredecessorsHoldDot
             PROVE  HandleOnStack
  BY DEF SoundKernelsHaveHandle
<1>0. PICK L, b, N : /\ L = Len(lalr_stack) /\ b = ActionBody /\ N = Len(b)
  OBVIOUS
<1>1. /\ b \in Seq(Symbols) /\ N \in Nat \ {0} /\ Acting /\ InState
      /\ RuleDot(ActionRule, N) \in ElementsOf(kernels[LastOf(lalr_stack).state].dots)
  BY <1>0, ReducingFacts DEF Reducing
<1>2. /\ L >= 1 /\ L \in Nat /\ lalr_stack[L] = LastOf(lalr_stack)
      /\ DOMAIN lalr_stack = 1 .. L /\ L \in 1 .. L
  BY <1>0, <1>1, ActionFacts, StackFacts
<1>3. SpelledInv /\ LastOf(lalr_stack).state # NotExist
  BY <1>1 DEF ParserInv, RunInv, InState
<1>4. PICK d : d = RuleDot(ActionRule, N)
  OBVIOUS
<1>5. d.rule = ActionRule /\ d.dot = N
  BY <1>4 DEF RuleDot
<1>6. EndsWith(L, d)
  BY <1>1, <1>2, <1>3, <1>4 DEF SpelledInv
<1>7. /\ N < L
      /\ \A m \in 1 .. N : lalr_stack[L - N + m].symbol = b[m]
  BY <1>0, <1>5, <1>6 DEF EndsWith, ActionBody
<1>8. PICK s : s = StackSymbols
  OBVIOUS
<1>9. /\ Len(s) = L - 1
      /\ \A i \in 1 .. L - 1 : s[i] = lalr_stack[i + 1].symbol
  BY <1>0, <1>2, <1>8 DEF StackSymbols
<1>10. PICK f, g : f = L - 1 - N + 1 /\ g = L - 1
  OBVIOUS
<1>11. /\ f \in Int /\ g \in Int /\ f <= g /\ g - f + 1 = N /\ 1 <= f
       /\ \A i \in f .. g : i \in 1 .. L - 1
       /\ \A m \in 1 .. N : f + m - 1 \in 1 .. L - 1 /\ f + m - 1 + 1 = L - N + m
  <2>1. L \in Nat /\ N \in Nat /\ 1 <= N /\ N < L /\ f = L - N /\ g = L - 1
    BY <1>1, <1>2, <1>7, <1>10
  <2> QED BY <2>1
<1>12. \A i \in f .. g : s[i] \in Symbols \union {NotExist}
  <2> SUFFICES ASSUME NEW i \in f .. g PROVE s[i] \in Symbols \union {NotExist}
    OBVIOUS
  <2>1. i + 1 \in DOMAIN lalr_stack /\ s[i] = lalr_stack[i + 1].symbol
    BY <1>2, <1>9, <1>11
  <2>2. lalr_stack[i + 1] \in StackElement
    BY <2>1, StackFacts
  <2> QED BY <2>1, <2>2 DEF StackElement
<1>13. PICK u : u = SubSeq(s, f, g)
  OBVIOUS
<1>14. /\ u \in Seq(Symbols \union {NotExist}) /\ Len(u) = N
       /\ \A m \in 1 .. N : u[m] = s[f + m - 1]
  BY <1>11, <1>12, <1>13, SubSeqProperties
<1>15. \A m \in 1 .. N : u[m] = b[m]
  BY <1>7, <1>9, <1>11, <1>14
<1>16. u = b
  <2>1. b \in Seq(Symbols \union {NotExist}) /\ Len(b) = Len(u)
    BY <1>0, <1>1, <1>14
  <2> QED BY <1>0, <1>14, <1>15, <2>1
<1>17. N <= Len(s)
  BY <1>1, <1>2, <1>7, <1>9
<1> QED BY <1>0, <1>8, <1>9, <1>10, <1>13, <1>16, <1>17 DEF HandleOnStack

(* A reduction pops exactly its body in every parser whose kernels are all
   entered from kernels that hold the dots one symbol back. *)
THEOREM SoundKernelsReduceHandles == ParserSpec => []SoundKernelsHaveHandle
<1> QED BY HandleLiesOnTop, ParserInvariant, PTL

-----------------------------------------------------------------------------
(* The state of BottomUp, read off the run. *)
Form == IF lalr_stack = <<>> THEN <<>> ELSE StackSymbols
Verdict ==
  IF run_status \in {"wait", "running"} THEN "open"
  ELSE IF run_status = "accepted" THEN "accepted" ELSE "rejected"

FormReads(t) ==
  Verdict = "open" /\ Verdict' = "open" /\ Form' = Append(Form, t)

FormUndoes(r, keep) ==
  /\ Verdict = "open" /\ Verdict' = "open"
  /\ keep = Len(Form) - Len(rules[r].body)
  /\ SubSeq(Form, keep + 1, Len(Form)) = rules[r].body
  /\ Form' = Append(SubSeq(Form, 1, keep), rules[r].head)

FormEnds(r) ==
  /\ Verdict = "open" /\ Verdict' = "accepted" /\ Form' = Form
  /\ Outermost(r) /\ Append(Form, EndTerminal) = rules[r].body

DerivationStep ==
  \/ \E t \in Terminals \ {EndTerminal} : FormReads(t)
  \/ \E r \in DOMAIN rules : \E keep \in Nat : FormUndoes(r, keep)
  \/ \E r \in DOMAIN rules : FormEnds(r)
  \/ Verdict = "open" /\ Verdict' = "rejected" /\ Form' = Form
  \/ Verdict' = Verdict /\ Form' = Form

LEMMA StepOfDerivation ==
  ASSUME DerivationStep, rules' = rules
  PROVE  [Derivation!Steps]_(Derivation!vars)
<1> USE DEF Derivation!vars, Form, Verdict
<1>1. CASE \E t \in Terminals \ {EndTerminal} : FormReads(t)
  BY <1>1 DEF FormReads, Derivation!Steps, Derivation!ReadTerminal
<1>2. CASE \E r \in DOMAIN rules : \E keep \in Nat : FormUndoes(r, keep)
  <2>1. PICK r \in DOMAIN rules, keep \in Nat : FormUndoes(r, keep)
    BY <1>2
  <2>2. keep >= 0 BY <2>1
  <2> HIDE DEF Form, Verdict
  <2>3. /\ Verdict = "open" /\ Verdict' = Verdict
        /\ Len(Form) - Len(rules[r].body) >= 0
        /\ SubSeq(Form, Len(Form) - Len(rules[r].body) + 1, Len(Form)) = rules[r].body
        /\ Form' = Append(SubSeq(Form, 1, Len(Form) - Len(rules[r].body)), rules[r].head)
    BY <2>1, <2>2, Zenon DEF FormUndoes
  <2>4. Derivation!UndoRule
    BY <2>3, Zenon DEF Derivation!UndoRule, Form, Verdict
  <2> QED BY <2>4 DEF Derivation!Steps
<1>3. CASE \E r \in DOMAIN rules : FormEnds(r)
  BY <1>3 DEF FormEnds, Derivation!Steps, Derivation!AcceptForm, Outermost
<1>4. CASE Verdict = "open" /\ Verdict' = "rejected" /\ Form' = Form
  BY <1>4 DEF Derivation!Steps, Derivation!RejectForm
<1>5. CASE Verdict' = Verdict /\ Form' = Form
  BY <1>5
<1> QED BY <1>1, <1>2, <1>3, <1>4, <1>5 DEF DerivationStep

LEMMA FormFacts ==
  ASSUME ParserInv, run_status # "wait"
  PROVE  /\ Form = StackSymbols /\ Form \in Seq(Symbols \union {NotExist})
         /\ Len(Form) = Len(lalr_stack) - 1 /\ Len(Form) \in Nat
         /\ DOMAIN Form = 1 .. Len(lalr_stack) - 1
         /\ \A i \in 1 .. Len(lalr_stack) - 1 : Form[i] = lalr_stack[i + 1].symbol
<1>1. /\ lalr_stack \in Seq(StackElement) /\ Len(lalr_stack) \in Nat \ {0}
      /\ DOMAIN lalr_stack = 1 .. Len(lalr_stack)
  BY StackFacts
<1>2. Form = StackSymbols
  BY <1>1 DEF Form
<1>3. PICK f, n : f = StackSymbols /\ n = Len(lalr_stack) - 1
  OBVIOUS
<1>4. n \in Nat /\ f = [i \in 1 .. n |-> lalr_stack[i + 1].symbol]
  BY <1>1, <1>3 DEF StackSymbols
<1>5. \A i \in 1 .. n : lalr_stack[i + 1].symbol \in Symbols \union {NotExist}
  <2> SUFFICES ASSUME NEW i \in 1 .. n
               PROVE  lalr_stack[i + 1].symbol \in Symbols \union {NotExist}
    OBVIOUS
  <2>1. i + 1 \in 1 .. Len(lalr_stack) BY <1>1, <1>3, <1>4
  <2>2. lalr_stack[i + 1] \in StackElement BY <1>1, <2>1
  <2> QED BY <2>2 DEF StackElement
<1>6. f \in [1 .. n -> Symbols \union {NotExist}]
  BY <1>4, <1>5
<1>7. f \in Seq(Symbols \union {NotExist}) /\ Len(f) = n
  BY <1>4, <1>6
<1> QED BY <1>2, <1>3, <1>4, <1>6, <1>7

(* Element n + 1 takes the place of all above element n: its symbol takes
   the place of all behind the first n - 1 symbols of the form. *)
LEMMA FormPushed ==
  ASSUME ParserInv, run_status # "wait", NEW n \in 1 .. Len(lalr_stack),
         NEW e \in StackElement, lalr_stack' = Append(SubSeq(lalr_stack, 1, n), e)
  PROVE  Form' = Append(SubSeq(Form, 1, n - 1), e.symbol)
<1>0. PICK t, f, a : t = lalr_stack' /\ f = Form /\ a = e.symbol
  OBVIOUS
<1>1. /\ lalr_stack \in Seq(StackElement) /\ Len(lalr_stack) \in Nat
      /\ n \in Nat /\ n >= 1
  BY StackFacts
<1>2. /\ t \in Seq(StackElement) /\ Len(t) = n + 1 /\ DOMAIN t = 1 .. n + 1
      /\ \A i \in 1 .. n : t[i] = lalr_stack[i]
      /\ t[n + 1] = e
  BY <1>0, <1>1, PushedStack
<1>3. Form' = [i \in 1 .. n |-> t[i + 1].symbol]
  <2>1. t # <<>> /\ Len(t) - 1 = n BY <1>1, <1>2
  <2> QED BY <1>0, <2>1 DEF Form, StackSymbols
<1>4. /\ f \in Seq(Symbols \union {NotExist}) /\ Len(f) = Len(lalr_stack) - 1
      /\ \A i \in 1 .. Len(lalr_stack) - 1 : f[i] = lalr_stack[i + 1].symbol
      /\ DOMAIN f = 1 .. Len(lalr_stack) - 1
  BY <1>0, FormFacts
<1>5. a \in Symbols \union {NotExist}
  BY <1>0 DEF StackElement
<1>6. PICK u : u = SubSeq(f, 1, n - 1)
  OBVIOUS
<1>7. /\ u \in Seq(Symbols \union {NotExist}) /\ Len(u) = n - 1
      /\ \A i \in 1 .. n - 1 : u[i] = f[i]
  <2>1. \A i \in 1 .. n - 1 : f[i] \in Symbols \union {NotExist}
    BY <1>1, <1>4
  <2>2. 1 \in Int /\ n - 1 \in Int /\ 1 <= n - 1 + 1
    BY <1>1
  <2>3. CASE n = 1
    <3>1. n - 1 = 0 /\ u = SubSeq(f, 1, 0) BY <1>6, <2>3
    <3>2. u = <<>> BY <3>1
    <3> QED BY <2>3, <3>1, <3>2
  <2>4. CASE n # 1
    <3>1. n - 1 \in 1 .. Len(f) BY <1>1, <1>4, <2>4
    <3> QED BY <1>1, <1>4, <1>6, <2>1, <3>1, SubSeqProperties
  <2> QED BY <2>3, <2>4
<1>8. PICK w : w = Append(u, a)
  OBVIOUS
<1>9. /\ w \in Seq(Symbols \union {NotExist}) /\ Len(w) = n
      /\ \A i \in 1 .. n - 1 : w[i] = u[i]
      /\ w[n] = a
  BY <1>1, <1>5, <1>7, <1>8
<1>10. \A i \in 1 .. n : w[i] = t[i + 1].symbol
  <2> SUFFICES ASSUME NEW i \in 1 .. n PROVE w[i] = t[i + 1].symbol
    OBVIOUS
  <2>1. CASE i = n BY <1>0, <1>2, <1>9, <2>1
  <2>2. CASE i \in 1 .. n - 1
    <3>1. i + 1 \in 1 .. n /\ i \in 1 .. Len(lalr_stack) - 1 BY <1>1, <2>2
    <3> QED BY <1>2, <1>4, <1>7, <1>9, <2>2, <3>1
  <2> QED BY <1>1, <2>1, <2>2
<1>11. w = [i \in 1 .. n |-> t[i + 1].symbol]
  BY <1>9, <1>10
<1> QED BY <1>0, <1>3, <1>6, <1>8, <1>11

LEMMA ShiftReads ==
  ASSUME ParserInv, Shift
  PROVE  ret_term \in Terminals \ {EndTerminal} /\ FormReads(ret_term)
<1>0. PICK e, n : /\ n = Len(lalr_stack)
                  /\ e = [state |-> ParseAction, start |-> old_input_idx,
                          end |-> input_idx, symbol |-> ret_term]
  OBVIOUS
<1>1. /\ Acting /\ InState /\ run_status = "running" /\ run_status' = "running"
      /\ ret_term # EndTerminal /\ lalr_stack' = Append(lalr_stack, e)
  BY <1>0 DEF Shift, Shifting, Acting
<1>2. /\ ret_term \in Terminals /\ ParserInv' /\ n \in 1 .. Len(lalr_stack)
      /\ lalr_stack \in Seq(StackElement) /\ run_status # "wait"
  BY <1>0, <1>1, ActionFacts, StackFacts, ShiftInv
<1>3. e \in StackElement
  <2>1. lalr_stack' \in Seq(StackElement)
    BY <1>2 DEF ParserInv, RunInv, RunTypeOK
  <2>2. /\ Len(Append(lalr_stack, e)) = Len(lalr_stack) + 1
        /\ Append(lalr_stack, e)[Len(lalr_stack) + 1] = e
    BY <1>2
  <2>3. PICK t : t = lalr_stack' OBVIOUS
  <2>4. Len(t) = n + 1 /\ t[n + 1] = e /\ t \in Seq(StackElement) /\ n \in Nat
    BY <1>0, <1>1, <1>2, <2>1, <2>2, <2>3
  <2> QED BY <2>4
<1>4. lalr_stack' = Append(SubSeq(lalr_stack, 1, n), e)
  BY <1>0, <1>1, <1>2, WholeSequence
<1>5. Form' = Append(SubSeq(Form, 1, n - 1), e.symbol)
  BY <1>2, <1>3, <1>4, FormPushed
<1>6. SubSeq(Form, 1, n - 1) = Form
  BY <1>0, <1>2, FormFacts, WholeSequence
<1>7. e.symbol = ret_term BY <1>0
<1> QED BY <1>1, <1>2, <1>5, <1>6, <1>7 DEF FormReads, Verdict

LEMMA ReduceUndoes ==
  ASSUME ParserInv, Reduce, PredecessorsHoldDot
  PROVE  \E r \in DOMAIN rules : \E keep \in Nat : FormUndoes(r, keep)
<1>0. PICK e, n, L, r, h, b :
        /\ n = Below /\ L = Len(lalr_stack) /\ r = ActionRule
        /\ h = ActionHead /\ b = ActionBody
        /\ e = [state |-> GotoState, start |-> HandleStart,
                end |-> LastOf(lalr_stack).end, symbol |-> h]
  OBVIOUS
<1>1. /\ Reducing /\ n >= 1 /\ run_status = "running" /\ run_status' = "running"
      /\ lalr_stack' = Append(SubSeq(lalr_stack, 1, n), e)
  BY <1>0 DEF Reduce, Reducing, Acting
<1>2. /\ r \in DOMAIN rules /\ rules[r].head = h /\ rules[r].body = b
      /\ Len(b) \in Nat \ {0}
  BY <1>0, <1>1, ReducingFacts DEF ActionHead, ActionBody
<1>3. /\ L \in Nat /\ lalr_stack \in Seq(StackElement) /\ run_status # "wait"
  BY <1>0, <1>1, StackFacts
<1>4. n = L - Len(b) /\ n \in Nat /\ n \in 1 .. Len(lalr_stack)
  BY <1>0, <1>1, <1>2, <1>3 DEF Below
<1>5. HandleOnStack
  BY <1>1, HandleLiesOnTop DEF SoundKernelsHaveHandle
<1>6. PICK f, keep : f = Form /\ keep = n - 1
  OBVIOUS
<1>7. f = StackSymbols /\ Len(f) = L - 1
  BY <1>0, <1>3, <1>6, FormFacts
<1>8. keep \in Nat /\ keep = Len(f) - Len(b) /\ SubSeq(f, keep + 1, Len(f)) = b
  <2>1. keep = Len(f) - Len(b) /\ keep \in Nat /\ Len(f) - Len(b) + 1 = keep + 1
    BY <1>1, <1>2, <1>3, <1>4, <1>6, <1>7
  <2> QED BY <1>0, <1>5, <1>7, <2>1 DEF HandleOnStack
<1>9. e \in StackElement
  <2>1. lalr_stack' \in Seq(StackElement)
    BY ReduceInv DEF ParserInv, RunInv, RunTypeOK
  <2>2. PICK t, u : t = lalr_stack' /\ u = SubSeq(lalr_stack, 1, n)
    OBVIOUS
  <2>3. \A i \in 1 .. n : lalr_stack[i] \in StackElement
    BY <1>3, <1>4
  <2>4. u \in Seq(StackElement) /\ Len(u) = n
    BY <1>3, <1>4, <2>2, <2>3, SubSeqProperties
  <2>5. Len(t) = n + 1 /\ t[n + 1] = e /\ t \in Seq(StackElement)
    BY <1>1, <1>4, <2>1, <2>2, <2>4
  <2> QED BY <1>4, <2>5
<1>10. Form' = Append(SubSeq(f, 1, keep), h)
  <2>1. e.symbol = h BY <1>0
  <2> QED BY <1>1, <1>3, <1>4, <1>6, <1>9, <2>1, FormPushed
<1>11. Verdict = "open" /\ Verdict' = "open"
  BY <1>1 DEF Verdict
<1> QED BY <1>2, <1>6, <1>8, <1>10, <1>11 DEF FormUndoes

(* The end terminal is shifted when it and the form are an outermost body. *)
LEMMA AcceptEnds ==
  ASSUME ParserInv, Accept, PredecessorsHoldDot, EndsText(rules)
  PROVE  \E r \in DOMAIN rules : FormEnds(r)
<1>1. /\ Acting /\ InState /\ ret_term = EndTerminal /\ run_status = "running"
      /\ run_status' = "accepted" /\ lalr_stack' = lalr_stack
      /\ ParseAction \in 1 .. ReduceBase
  BY DEF Accept, Shifting, Acting
<1>2. PICK L, p, q : /\ L = Len(lalr_stack) /\ p = LastOf(lalr_stack).state
                     /\ q = ParseAction
  OBVIOUS
<1>3. /\ L \in Nat \ {0} /\ L \in DOMAIN lalr_stack /\ lalr_stack[L].state = p
      /\ p \in DOMAIN kernels /\ p # NotExist
      /\ CellTrue(p, EndTerminal, q)
      /\ rules \in Grammars
  BY <1>1, <1>2, ActionFacts, StackFacts DEF ParseAction, InState
<1>4. q \in GotoTargets([from |-> p, symbol |-> EndTerminal])
  <2>1. q # NotExist BY <1>1, <1>2 DEF NotExist
  <2>2. \A r \in DOMAIN rules : q # ReduceBase + r
    BY <1>1, <1>2, <1>3, RuleFacts, ReduceBaseAssumption
  <2> QED BY <1>3, <2>1, <2>2 DEF CellTrue
<1>5. PICK j \in DOMAIN kernels[q].gotos :
        /\ q \in DOMAIN kernels
        /\ kernels[q].gotos[j] = [from |-> p, symbol |-> EndTerminal]
  BY <1>4 DEF GotoTargets, ElementsOf
<1>6. /\ EntrySymbol /\ KernelTypes /\ KernelParts /\ SpelledInv /\ OuterInv
  BY TableFacts DEF ParserInv, CreatorInv, KernelInv, RunInv
<1>7. PICK d : d = kernels[q].dots[1]
  OBVIOUS
<1>8. /\ 1 \in DOMAIN kernels[q].dots /\ d \in DotType /\ ValidDot(d)
  BY <1>5, <1>6, <1>7, KernelFacts
<1>9. d.dot >= 1 /\ rules[d.rule].body[d.dot] = EndTerminal
  BY <1>5, <1>6, <1>7, <1>8 DEF EntrySymbol, SymbolBefore
<1>10. PICK b, N : b = rules[d.rule].body /\ N = Len(b)
  OBVIOUS
<1>11. /\ d.rule \in DOMAIN rules /\ b \in Seq(Symbols) /\ N \in Nat \ {0}
       /\ d.dot \in Nat /\ d.dot \in DOMAIN b /\ EndTerminal \in Symbols
  <2>1. d.rule \in DOMAIN rules /\ b \in Seq(Symbols) /\ N \in Nat \ {0}
    BY <1>3, <1>8, <1>10, RuleFacts DEF ValidDot
  <2>2. d.dot \in Nat /\ d.dot \in DOMAIN b
    BY <1>8, <1>9, <1>10, <2>1 DEF ValidDot, DotType
  <2> QED BY <2>1, <2>2, ParserRunAssumption, SymbolKinds
<1>12. d.dot = N /\ Outermost(d.rule)
  BY <1>9, <1>10, <1>11, Zenon DEF EndsText, Outermost
<1>13. N = L /\ \A m \in 1 .. N - 1 : lalr_stack[1 + m].symbol = b[m]
  <2>1. CASE N = 1
    <3>1. kernels[q].gotos[j].from = 1
      BY <1>5, <1>6, <1>7, <1>8, <1>12, <2>1 DEF OuterInv, BegunFirst
    <3>2. p = 1 BY <1>5, <3>1
    <3>3. L = 1 BY <1>2, <1>3, <3>2, OnlyBottomFirst, StackFacts
    <3> QED BY <2>1, <3>3
  <2>2. CASE N >= 2
    <3>1. PICK c : c = RuleDot(d.rule, d.dot - 1)
      OBVIOUS
    <3>2. c \in ElementsOf(kernels[p].dots)
      BY <1>5, <1>7, <1>8, <1>12, <2>2, <3>1 DEF PredecessorsHoldDot
    <3>3. c.rule = d.rule /\ c.dot = N - 1
      BY <1>12, <3>1 DEF RuleDot
    <3>4. EndsWith(L, c) /\ FromBottom(L, c)
      BY <1>3, <1>6, <3>2 DEF SpelledInv
    <3>5. L = N
      BY <1>11, <1>12, <2>2, <3>3, <3>4 DEF FromBottom
    <3>6. \A m \in 1 .. N - 1 : lalr_stack[L - (N - 1) + m].symbol = b[m]
      BY <1>10, <3>3, <3>4 DEF EndsWith
    <3>7. L - (N - 1) = 1 BY <1>11, <3>5
    <3> QED BY <3>5, <3>6, <3>7
  <2> QED BY <1>11, <2>1, <2>2
<1>14. PICK f, g : f = Form /\ g = Append(f, EndTerminal)
  OBVIOUS
<1>15. /\ f \in Seq(Symbols \union {NotExist}) /\ Len(f) = N - 1
       /\ \A i \in 1 .. N - 1 : f[i] = lalr_stack[i + 1].symbol
  BY <1>1, <1>2, <1>13, <1>14, FormFacts
<1>16. /\ g \in Seq(Symbols \union {NotExist}) /\ Len(g) = N
       /\ \A i \in 1 .. N - 1 : g[i] = f[i]
       /\ g[N] = EndTerminal
  BY <1>11, <1>14, <1>15
<1>17. \A i \in 1 .. N : g[i] = b[i]
  <2> SUFFICES ASSUME NEW i \in 1 .. N PROVE g[i] = b[i]
    OBVIOUS
  <2>1. CASE i = N BY <1>9, <1>10, <1>12, <1>16, <2>1
  <2>2. CASE i \in 1 .. N - 1
    <3>1. 1 + i = i + 1 BY <2>2
    <3> QED BY <1>13, <1>15, <1>16, <2>2, <3>1
  <2> QED BY <1>11, <2>1, <2>2
<1>18. g = b
  <2>1. b \in Seq(Symbols \union {NotExist}) BY <1>11
  <2> QED BY <1>10, <1>16, <1>17, <2>1
<1>19. Form' = Form
  BY <1>1 DEF Form, StackSymbols
<1> QED BY <1>1, <1>10, <1>11, <1>12, <1>14, <1>18, <1>19 DEF FormEnds, Verdict

LEMMA NextKeepsRules == [ParserNext]_parserVars => rules' = rules
<1> SUFFICES ASSUME [ParserNext]_parserVars PROVE rules' = rules
  OBVIOUS
<1>1. CASE CreatorNext BY <1>1, CreatorKeepsRules
<1>2. CASE UNCHANGED inputsOfRun
  BY <1>2 DEF inputsOfRun, firstVars
<1>3. CASE RunNext
  BY <1>2, <1>3 DEF RunNext, StartRun, SkipTerminal, NextTerminal, Unrecognized,
     SyntaxError, Accept, Shift, Reduce, RuleCodeFails, Undefined
<1> QED BY <1>1, <1>2, <1>3 DEF ParserNext, parserVars

LEMMA StepDerives ==
  ASSUME ParserInv, SoundParser, [ParserNext]_parserVars
  PROVE  [Derivation!Steps]_(Derivation!vars)
<1>1. rules' = rules
  BY NextKeepsRules
<1>2. DerivationStep
  <2>1. CASE UNCHANGED <<lalr_stack, run_status>>
    BY <2>1 DEF DerivationStep, Form, StackSymbols, Verdict
  <2>2. CASE StartRun
    <3>1. /\ run_status = "wait" /\ lalr_stack = <<>>
          /\ Len(lalr_stack') = 1 /\ lalr_stack' # <<>>
          /\ run_status' \in {"running", "LUA_NEW_STATE_ERROR",
                              "LUA_DO_INIT_CODE_ERROR"}
      BY <2>2 DEF StartRun, ParserInv, RunInv, RunTypeOK
    <3>2. Form = <<>> /\ Form' = <<>>
      BY <3>1 DEF Form, StackSymbols
    <3> QED BY <3>1, <3>2 DEF DerivationStep, Verdict
  <2>3. CASE Unrecognized \/ SyntaxError \/ RuleCodeFails \/ Undefined
    <3>1. /\ run_status = "running" /\ lalr_stack' = lalr_stack
          /\ run_status' \in {"UNRECOGNIZED_TERMINAL", "SYNTAX_ERROR",
                              "LUA_DO_RULE_CODE_ERROR", "undefined"}
      BY <2>3 DEF Unrecognized, SyntaxError, RuleCodeFails, Undefined, Reducing, Acting,
         Recognized, Reading
    <3>2. Form' = Form BY <3>1 DEF Form, StackSymbols
    <3> QED BY <3>1, <3>2 DEF DerivationStep, Verdict
  <2>4. CASE Shift BY <2>4, ShiftReads DEF DerivationStep
  <2>5. CASE Reduce
    BY <2>5, ReduceUndoes DEF DerivationStep, SoundParser, Reduce, Reducing, Acting
  <2>6. CASE Accept
    BY <2>6, AcceptEnds DEF DerivationStep, SoundParser, Accept, Shifting, Acting
  <2>7. CASE SkipTerminal \/ NextTerminal
    BY <2>1, <2>7 DEF SkipTerminal, NextTerminal
  <2>8. CASE UNCHANGED runOwnVars
    BY <2>1, <2>8 DEF runOwnVars
  <2> QED BY <2>2, <2>3, <2>4, <2>5, <2>6, <2>7, <2>8 DEF ParserNext, RunNext, parserVars
<1> QED BY <1>1, <1>2, StepOfDerivation

(* A parser whose kernels are not mixed up, of a grammar whose end terminal
   ends the text, runs the rules of its grammar backwards, and accepts when
   what it has read has become the body of an outermost rule. *)
THEOREM RunsAreDerivations == ParserSpec /\ []SoundParser => RunIsDerivation
<1>1. ParserInit => Derivation!Open
  BY DEF ParserInit, RunInit, Derivation!Open
<1>2. ParserInv /\ SoundParser /\ [ParserNext]_parserVars
        => [Derivation!Steps]_(Derivation!vars)
  BY StepDerives
<1> QED
  BY <1>1, <1>2, ParserInvariant, PTL
  DEF ParserSpec, RunIsDerivation, Derivation!DerivationSpec

-----------------------------------------------------------------------------
(* The terminals handed to the table but the one at hand. *)
AtHand == IF ret_term = NotExist THEN <<>> ELSE <<ret_term>>

(* Whatever follows, the form with it derives the text read with it. *)
DerivedInv ==
  /\ Form \in Seq(Symbols) /\ sentence \in Seq(Terminals)
  /\ Verdict = "open" =>
       \E w \in Seq(Terminals) :
         /\ sentence = w \o AtHand
         /\ \A z \in Seq(Terminals) : Derives(rules, Form \o z, w \o z)
  /\ AcceptedIsDerived

LEMMA TextsAreForms ==
  /\ \A s \in Seq(Terminals) : s \in Seq(Symbols)
  /\ \A t \in Terminals : <<t>> \in Seq(Terminals) /\ <<t>> \in Seq(Symbols)
  /\ <<>> \in Seq(Terminals) /\ <<>> \in Seq(Symbols)
BY SymbolKinds

(* A step that does not read or rewrite and does not accept. *)
LEMMA DerivedKept ==
  ASSUME DerivedInv, Form' = Form, sentence' = sentence, ret_term' = ret_term,
         rules' = rules, Verdict' = Verdict \/ Verdict' = "rejected",
         run_status' = "accepted" => Verdict = "accepted"
  PROVE  DerivedInv'
<1>1. AtHand' = AtHand BY DEF AtHand
<1>2. Verdict' = "open" => Verdict = "open" OBVIOUS
<1>3. run_status' = "accepted" => run_status = "accepted"
  BY DEF Verdict
<1> QED BY <1>1, <1>2, <1>3 DEF DerivedInv, AcceptedIsDerived

LEMMA ReadDerived ==
  ASSUME DerivedInv, ret_term = NotExist, NEW t \in Terminals, ret_term' = t,
         sentence' = Append(sentence, t), Form' = Form, Verdict' = Verdict,
         rules' = rules, run_status' # "accepted"
  PROVE  DerivedInv'
<1>1. sentence' \in Seq(Terminals) /\ sentence' = sentence \o <<t>>
  BY AppendIsConcat DEF DerivedInv
<1>2. ASSUME Verdict = "open"
      PROVE  \E w \in Seq(Terminals) :
               /\ sentence' = w \o AtHand'
               /\ \A z \in Seq(Terminals) : Derives(rules, Form \o z, w \o z)
  <2>1. PICK w \in Seq(Terminals) :
          /\ sentence = w \o AtHand
          /\ \A z \in Seq(Terminals) : Derives(rules, Form \o z, w \o z)
    BY <1>2 DEF DerivedInv
  <2>2. sentence = w
    BY <2>1, ConcatEmptySeq DEF AtHand
  <2>3. AtHand' = <<t>>
    BY CountAssumption DEF AtHand, Terminals, NotExist
  <2> QED BY <1>1, <2>1, <2>2, <2>3
<1> QED BY <1>1, <1>2 DEF DerivedInv, AcceptedIsDerived

LEMMA ShiftDerived ==
  ASSUME DerivedInv, ret_term \in Terminals, FormReads(ret_term), ret_term' = NotExist,
         sentence' = sentence, rules' = rules
  PROVE  DerivedInv'
<1>0. PICK t, f, v : t = ret_term /\ f = Form /\ v = sentence
  OBVIOUS
<1>1. /\ f \in Seq(Symbols) /\ v \in Seq(Terminals) /\ t \in Terminals
      /\ t \in Symbols /\ <<t>> \in Seq(Terminals) /\ <<t>> \in Seq(Symbols)
  BY <1>0, TextsAreForms, SymbolKinds DEF DerivedInv
<1>2. Form' = f \o <<t>> /\ f \o <<t>> \in Seq(Symbols)
  BY <1>0, <1>1, AppendIsConcat DEF FormReads
<1>3. PICK w \in Seq(Terminals) :
        /\ v = w \o AtHand
        /\ \A z \in Seq(Terminals) : Derives(rules, f \o z, w \o z)
  BY <1>0 DEF DerivedInv, FormReads
<1>4. AtHand = <<t>> /\ AtHand' = <<>>
  BY <1>0, <1>1, CountAssumption DEF AtHand, Terminals, NotExist
<1>5. ASSUME NEW z \in Seq(Terminals)
      PROVE  Derives(rules, (f \o <<t>>) \o z, v \o z)
  <2>1. z \in Seq(Symbols) /\ <<t>> \o z \in Seq(Terminals)
    BY <1>1, TextsAreForms, ConcatProperties
  <2>2. (f \o <<t>>) \o z = f \o (<<t>> \o z)
    BY <1>1, <2>1, ConcatAssociative
  <2>3. v \o z = w \o (<<t>> \o z)
    BY <1>1, <1>3, <1>4, ConcatAssociative
  <2> QED BY <1>3, <2>1, <2>2, <2>3
<1>6. sentence' = v \o AtHand'
  BY <1>0, <1>1, <1>4, ConcatEmptySeq
<1>7. run_status' # "accepted"
  BY DEF FormReads, Verdict
<1> QED BY <1>0, <1>1, <1>2, <1>5, <1>6, <1>7 DEF DerivedInv, AcceptedIsDerived

LEMMA UndoDerived ==
  ASSUME DerivedInv, rules \in Grammars, NEW r \in DOMAIN rules, NEW keep \in Nat,
         FormUndoes(r, keep), ret_term' = ret_term, sentence' = sentence, rules' = rules
  PROVE  DerivedInv'
<1>0. PICK f, b, h, a : /\ f = Form /\ b = rules[r].body /\ h = rules[r].head
                        /\ a = SubSeq(f, 1, keep)
  OBVIOUS
<1>1. /\ f \in Seq(Symbols) /\ b \in Seq(Symbols) /\ h \in Symbols
      /\ Len(b) \in Nat \ {0} /\ <<h>> \in Seq(Symbols)
  <2>1. h \in Symbols BY <1>0, RuleFacts, SymbolKinds
  <2> QED BY <1>0, <2>1, RuleFacts DEF DerivedInv
<1>2. /\ keep = Len(f) - Len(b) /\ SubSeq(f, keep + 1, Len(f)) = b
      /\ Form' = Append(a, h)
  BY <1>0 DEF FormUndoes
<1>3. f = a \o b /\ a \in Seq(Symbols)
  <2>1. Len(f) \in Nat /\ keep <= Len(f) /\ f = SubSeq(f, 1, Len(f))
    BY <1>1, <1>2, WholeSequence
  <2>2. /\ 1 \in 1 .. Len(f) + 1 /\ keep \in 1 - 1 .. Len(f)
        /\ Len(f) \in keep .. Len(f)
    BY <2>1
  <2>3. SubSeq(f, 1, keep) \o SubSeq(f, keep + 1, Len(f)) = SubSeq(f, 1, Len(f))
    BY <1>1, <2>2, ConcatAdjacentSubSeq
  <2>4. \A i \in 1 .. keep : f[i] \in Symbols
    BY <1>1, <2>1
  <2>5. a \in Seq(Symbols)
    BY <1>0, <2>4, SubSeqProperties
  <2> QED BY <1>0, <1>2, <2>1, <2>3, <2>5
<1>4. Form' = a \o <<h>> /\ Form' \in Seq(Symbols)
  BY <1>1, <1>2, <1>3, AppendIsConcat
<1>5. PICK w \in Seq(Terminals) :
        /\ sentence = w \o AtHand
        /\ \A z \in Seq(Terminals) : Derives(rules, f \o z, w \o z)
  BY <1>0 DEF DerivedInv, FormUndoes
<1>6. ASSUME NEW z \in Seq(Terminals)
      PROVE  Derives(rules, (a \o <<h>>) \o z, w \o z)
  <2>1. z \in Seq(Symbols) /\ w \o z \in Seq(Terminals)
    BY TextsAreForms, ConcatProperties
  <2>2. Derives(rules, (a \o rules[r].body) \o z, w \o z)
    BY <1>0, <1>3, <1>5
  <2> QED BY <1>0, <1>3, <2>1, <2>2, DerivesByRule
<1>7. AtHand' = AtHand /\ run_status' # "accepted"
  BY DEF AtHand, FormUndoes, Verdict
<1> QED BY <1>4, <1>5, <1>6, <1>7 DEF DerivedInv, AcceptedIsDerived

(* What an outermost head derives the start symbol derives. *)
LEMMA OutermostDerived ==
  ASSUME NEW g \in Grammars, NEW v \in Seq(Terminals),
         NEW h \in Derivation!OutermostHeads(g), Derives(g, <<h>>, v)
  PROVE  Derives(g, <<g[1].head>>, v)
<1> DEFINE S == {x \in Derivation!Heads(g) :
                   Derives(g, <<x>>, v) => Derives(g, <<g[1].head>>, v)}
<1>1. /\ 1 \in DOMAIN g
      /\ \A r \in DOMAIN g : /\ g[r].body \in Seq(Symbols)
                             /\ <<g[r].head>> \in Seq(Symbols)
                             /\ g[r].head \in Derivation!Heads(g)
  BY RuleFacts, SymbolKinds DEF Derivation!Heads
<1>2. g[1].head \in S
  BY <1>1
<1>3. ASSUME NEW r \in DOMAIN g, g[r].head \in S, Len(g[r].body) = 1,
             g[r].body[1] \in Derivation!Heads(g)
      PROVE  g[r].body[1] \in S
  <2> SUFFICES ASSUME Derives(g, <<g[r].body[1]>>, v) PROVE Derives(g, <<g[1].head>>, v)
    BY <1>3
  <2>1. g[r].body = <<g[r].body[1]>>
    BY <1>1, <1>3
  <2>2. /\ <<>> \in Seq(Symbols)
        /\ (<<>> \o g[r].body) \o <<>> = g[r].body
        /\ (<<>> \o <<g[r].head>>) \o <<>> = <<g[r].head>>
    BY <1>1, ConcatEmptySeq
  <2>3. Derives(g, <<>> \o g[r].body \o <<>>, v)
    BY <2>1, <2>2
  <2>4. Derives(g, <<>> \o <<g[r].head>> \o <<>>, v)
    BY <2>2, <2>3, DerivesByRule
  <2> QED BY <1>3, <2>2, <2>4
<1>4. S \in SUBSET Derivation!Heads(g)
  OBVIOUS
<1> HIDE DEF S
<1>5. h \in S
  BY <1>2, <1>3, <1>4 DEF Derivation!OutermostHeads
<1> QED BY <1>5 DEF S

LEMMA EndDerived ==
  ASSUME DerivedInv, rules \in Grammars, NEW r \in DOMAIN rules, FormEnds(r),
         ret_term = EndTerminal, ret_term' = ret_term, sentence' = sentence,
         rules' = rules
  PROVE  DerivedInv'
<1>1. PICK w \in Seq(Terminals) :
        /\ sentence = w \o AtHand
        /\ \A z \in Seq(Terminals) : Derives(rules, Form \o z, w \o z)
  BY DEF DerivedInv, FormEnds
<1>2. AtHand = <<EndTerminal>> /\ <<EndTerminal>> \in Seq(Terminals)
      /\ EndTerminal \in Symbols
  BY ParserRunAssumption, CountAssumption, SymbolKinds DEF AtHand, Terminals, NotExist
<1>3. Form \o <<EndTerminal>> = rules[r].body
  BY <1>2, AppendIsConcat DEF FormEnds, DerivedInv
<1>4. Derives(rules, rules[r].body, sentence)
  BY <1>1, <1>2, <1>3
<1>5. /\ rules[r].body \in Seq(Symbols) /\ <<rules[r].head>> \in Seq(Symbols)
      /\ sentence \in Seq(Terminals) /\ <<>> \in Seq(Symbols)
  BY RuleFacts, SymbolKinds DEF DerivedInv
<1>6. /\ (<<>> \o rules[r].body) \o <<>> = rules[r].body
      /\ (<<>> \o <<rules[r].head>>) \o <<>> = <<rules[r].head>>
  BY <1>5, ConcatEmptySeq
<1>7. Derives(rules, <<>> \o rules[r].body \o <<>>, sentence)
  BY <1>4, <1>6
<1>8. Derives(rules, <<>> \o <<rules[r].head>> \o <<>>, sentence)
  BY <1>5, <1>7, DerivesByRule
<1>9. Derives(rules, <<rules[1].head>>, sentence)
  BY <1>5, <1>6, <1>8, OutermostDerived DEF FormEnds, Outermost
<1> QED BY <1>9 DEF DerivedInv, AcceptedIsDerived, FormEnds

LEMMA NextDerivedInv ==
  ASSUME ParserInv, SoundParser, DerivedInv, [ParserNext]_parserVars
  PROVE  DerivedInv'
<1>1. rules' = rules /\ rules \in Grammars
  BY NextKeepsRules, StackFacts
<1>2. CASE UNCHANGED runOwnVars
  BY <1>1, <1>2, DerivedKept DEF runOwnVars, Form, StackSymbols, Verdict
<1>3. CASE StartRun
  <2>1. /\ run_status = "wait" /\ lalr_stack = <<>>
        /\ Len(lalr_stack') = 1 /\ lalr_stack' # <<>>
        /\ run_status' \in {"running", "LUA_NEW_STATE_ERROR", "LUA_DO_INIT_CODE_ERROR"}
        /\ sentence' = sentence /\ ret_term' = ret_term
    BY <1>3 DEF StartRun, ParserInv, RunInv, RunTypeOK
  <2>2. Form = <<>> /\ Form' = <<>>
    BY <2>1 DEF Form, StackSymbols
  <2>3. /\ Verdict' = Verdict \/ Verdict' = "rejected"
        /\ run_status' # "accepted"
    BY <2>1 DEF Verdict
  <2> QED BY <1>1, <2>1, <2>2, <2>3, DerivedKept
<1>4. CASE SkipTerminal \/ Unrecognized \/ SyntaxError \/ RuleCodeFails \/ Undefined
  <2>1. /\ run_status = "running" /\ lalr_stack' = lalr_stack
        /\ run_status' \in {"running", "UNRECOGNIZED_TERMINAL", "SYNTAX_ERROR",
                            "LUA_DO_RULE_CODE_ERROR", "undefined"}
        /\ sentence' = sentence /\ ret_term' = ret_term
    BY <1>4 DEF SkipTerminal, Unrecognized, SyntaxError, RuleCodeFails, Undefined,
       Reducing, Acting, Recognized, Reading
  <2>2. Form' = Form BY <2>1 DEF Form, StackSymbols
  <2>3. /\ Verdict' = Verdict \/ Verdict' = "rejected"
        /\ run_status' # "accepted"
    BY <2>1 DEF Verdict
  <2> QED BY <1>1, <2>1, <2>2, <2>3, DerivedKept
<1>5. CASE NextTerminal
  <2>1. /\ run_status = "running" /\ run_status' = run_status /\ ret_term = NotExist
        /\ lalr_stack' = lalr_stack
        /\ \E t \in Terminals : ret_term' = t /\ sentence' = Append(sentence, t)
    BY <1>5 DEF NextTerminal, Recognized, Reading
  <2>2. Form' = Form /\ Verdict' = Verdict
    BY <2>1 DEF Form, StackSymbols, Verdict
  <2> QED BY <1>1, <2>1, <2>2, ReadDerived
<1>6. CASE Shift
  <2>1. ret_term' = NotExist /\ sentence' = sentence BY <1>6 DEF Shift
  <2> QED BY <1>1, <1>6, <2>1, ShiftReads, ShiftDerived
<1>7. CASE Reduce
  <2>1. /\ ret_term' = ret_term /\ sentence' = sentence /\ PredecessorsHoldDot
    BY <1>7 DEF Reduce, Reducing, Acting, SoundParser
  <2> QED BY <1>1, <1>7, <2>1, ReduceUndoes, UndoDerived
<1>8. CASE Accept
  <2>1. /\ ret_term' = ret_term /\ sentence' = sentence /\ ret_term = EndTerminal
        /\ PredecessorsHoldDot /\ EndsText(rules)
    BY <1>8 DEF Accept, Shifting, Acting, SoundParser
  <2> QED BY <1>1, <1>8, <2>1, AcceptEnds, EndDerived
<1> QED
  BY <1>2, <1>3, <1>4, <1>5, <1>6, <1>7, <1>8 DEF ParserNext, RunNext, parserVars

LEMMA InitDerivedInv == ParserInit => DerivedInv
<1> SUFFICES ASSUME ParserInit PROVE DerivedInv
  OBVIOUS
<1>1. /\ Form = <<>> /\ sentence = <<>> /\ AtHand = <<>> /\ run_status = "wait"
  BY DEF ParserInit, RunInit, Form, AtHand
<1>2. <<>> \in Seq(Terminals) /\ <<>> \in Seq(Symbols)
  BY TextsAreForms
<1>3. \A z \in Seq(Terminals) : <<>> \o z = z /\ Derives(rules, z, z)
  BY DerivesItself, ConcatEmptySeq
<1>4. <<>> \o <<>> = <<>>
  BY <1>2, ConcatEmptySeq
<1> QED BY <1>1, <1>2, <1>3, <1>4 DEF DerivedInv, AcceptedIsDerived

(* A parser whose kernels are not mixed up, of a grammar whose end terminal
   ends the text, accepts nothing that the grammar does not derive from the
   head of its first rule. *)
THEOREM AcceptedAreDerived == ParserSpec /\ []SoundParser => []AcceptedIsDerived
<1>1. DerivedInv => AcceptedIsDerived BY DEF DerivedInv
<1>2. ParserInv /\ SoundParser /\ DerivedInv /\ [ParserNext]_parserVars => DerivedInv'
  BY NextDerivedInv
<1> QED BY <1>1, <1>2, InitDerivedInv, ParserInvariant, PTL DEF ParserSpec

(* Every array, index and status of the construction of a parser and of its
   runs keeps to its type. *)
THEOREM ParserTypesHold == ParserSpec => []ParserTypeOK
<1>1. ParserInv => ParserTypeOK
  <2> SUFFICES ASSUME ParserInv PROVE ParserTypeOK
    OBVIOUS
  <2>1. CreatorInv /\ FollowInv /\ KernelInv /\ OrderInv /\ TableInv /\ RuleInv
        /\ RunTypeOK
    BY DEF ParserInv, CreatorInv, KernelInv, RunInv
  <2>2. /\ KernelTypes /\ KernelParts /\ TableTypes /\ CellsTrue
        /\ DOMAIN kernels = 1 .. Len(kernels) /\ Len(kernels) \in Nat
    BY <2>1, TableFacts
  <2>3. FirstTypeOK
    BY <2>1, FirstTypes
  <2>4. FollowTypeOK
    BY <2>1 DEF FollowInv, FollowTypes, FollowTypeOK, FrameOK
  <2>5. KernelTypeOK
    <3> SUFFICES ASSUME NEW k \in DOMAIN kernels
                 PROVE  /\ \A i \in DOMAIN kernels[k].dots : ValidDot(kernels[k].dots[i])
                        /\ \A i \in DOMAIN kernels[k].gotos :
                             /\ kernels[k].gotos[i].from \in 1 .. k_idx
                             /\ kernels[k].gotos[i].symbol \in Symbols
      BY <2>2 DEF KernelTypes, KernelTypeOK
    <3> SUFFICES ASSUME NEW i \in DOMAIN kernels[k].gotos
                 PROVE  /\ kernels[k].gotos[i].from \in 1 .. k_idx
                        /\ kernels[k].gotos[i].symbol \in Symbols
      BY <2>2 DEF KernelParts
    <3>1. kernels[k].gotos[i] \in GotoType
      BY <2>2, KernelFacts
    <3>2. kernels[k].gotos[i].symbol \in Symbols
      BY <3>1 DEF GotoType
    <3>3. /\ kernels[k].gotos[i].from \in 1 .. Len(kernels)
          /\ kernels[k].gotos[i].from <= k_idx /\ k_idx \in Nat
      BY <2>2 DEF KernelParts, KernelTypes
    <3> QED BY <2>2, <3>2, <3>3
  <2>6. TableTypeOK
    <3>1. table_stage # "wait" => lalr_table \in [DOMAIN kernels -> [Symbols -> Cells]]
      <4> SUFFICES ASSUME table_stage # "wait", NEW k \in DOMAIN kernels,
                          NEW s \in Symbols
                   PROVE  lalr_table[k][s] \in Cells
        BY <2>2 DEF TableTypes
      <4>1. CellTrue(k, s, lalr_table[k][s])
        BY <2>2 DEF CellsTrue
      <4>2. DOMAIN kernels \subseteq 1 .. MaxKernels
        BY <2>2, MaxKernelsAssumption DEF KernelTypes
      <4> QED BY <4>1, <4>2 DEF CellTrue, Cells, GotoTargets
    <3> QED BY <2>1, <2>2, <3>1 DEF TableTypes, TableTypeOK, OrderInv
  <2> QED BY <2>1, <2>3, <2>4, <2>5, <2>6 DEF ParserTypeOK
<1> QED BY <1>1, ParserInvariant, PTL

-----------------------------------------------------------------------------
(* Where a run is: the states on its stack, how far it has read, the terminal
   at hand and how many rules it has reduced. *)
Config == [stack : Seq(Int), idx : Nat, term : Int, done : Nat]

FirstConfig == [stack |-> <<1>>, idx |-> 0, term |-> NotExist, done |-> 0]

States == [i \in 1 .. Len(lalr_stack) |-> lalr_stack[i].state]

(* A text that cannot be read on is refused where the last call began. *)
ReadTo == IF run_status = "UNRECOGNIZED_TERMINAL" THEN old_input_idx ELSE input_idx

Now == [stack |-> States, idx |-> ReadTo, term |-> ret_term,
        done |-> Len(reductions)]

(* The steps of a run, as what was remembered and the table determine them. *)
ReadStep(c, d) ==
  /\ c.term = NotExist
  /\ d.stack = c.stack /\ d.done = c.done
  /\ \E t \in Terminals :
       /\ d.term = IF t \in SkipTerminals THEN NotExist ELSE t
       /\ IF c.idx < stop_idx
            THEN c.idx < Len(answers) /\ answers[c.idx + 1] = t /\ d.idx = c.idx + 1
            ELSE stop_answer = t /\ d.idx = c.idx

TopOf(s) == s[Len(s)]
CellOf(c) == lalr_table[TopOf(c.stack)][c.term]

Acts(c, d) ==
  /\ c.term # NotExist
  /\ Len(c.stack) >= 1 /\ TopOf(c.stack) # NotExist
  /\ CellOf(c) \in Int
  /\ d.idx = c.idx

ShiftStep(c, d) ==
  /\ Acts(c, d)
  /\ CellOf(c) \in 1 .. ReduceBase /\ c.term # EndTerminal
  /\ d.stack = Append(c.stack, CellOf(c))
  /\ d.term = NotExist /\ d.done = c.done

ReduceStep(c, d) ==
  /\ Acts(c, d)
  /\ CellOf(c) > ReduceBase /\ CellOf(c) - ReduceBase \in DOMAIN rules
  /\ \E m \in 1 .. Len(c.stack) :
       /\ m = Len(c.stack) - Len(rules[CellOf(c) - ReduceBase].body)
       /\ c.stack[m] # NotExist
       /\ lalr_table[c.stack[m]][rules[CellOf(c) - ReduceBase].head] \in Int
       /\ d.stack = Append(SubSeq(c.stack, 1, m),
                      lalr_table[c.stack[m]][rules[CellOf(c) - ReduceBase].head])
  /\ d.term = c.term
  /\ d.done = c.done + 1
  /\ c.done < Len(reductions) /\ reductions[c.done + 1] = CellOf(c) - ReduceBase

StepOf(c, d) == ReadStep(c, d) \/ ShiftStep(c, d) \/ ReduceStep(c, d)

IsTrace(tr, n) ==
  /\ tr \in [Nat -> Config] /\ n \in Nat
  /\ tr[0] = FirstConfig
  /\ \A k \in 0 .. n : tr[k].done <= Len(reductions)
  /\ \A k \in 0 .. n - 1 : StepOf(tr[k], tr[k + 1])

TraceInv ==
  Remembered /\ run_status # "wait" => \E tr, n : IsTrace(tr, n) /\ tr[n] = Now

(* What was remembered, and why a run that is over has ended. *)
HistoryInv ==
  /\ answers \in Seq(Terminals \union {NotExist})
  /\ reductions \in Seq(Nat)
  /\ run_status = "wait" => answers = <<>> /\ reductions = <<>>
  /\ Remembered /\ run_status # "UNRECOGNIZED_TERMINAL" => Len(answers) = input_idx

EndInv ==
  /\ run_status = "accepted" =>
       /\ ret_term = EndTerminal /\ InState /\ ParseAction \in 1 .. ReduceBase
  /\ run_status = "SYNTAX_ERROR" =>
       /\ ret_term # NotExist /\ InState /\ ParseAction = NotExist
  /\ run_status = "UNRECOGNIZED_TERMINAL" =>
       /\ ret_term = NotExist
       /\ old_input_idx >= stop_idx => stop_answer = NotExist
       /\ Remembered /\ old_input_idx < stop_idx =>
            Len(answers) = old_input_idx + 1 /\ answers[old_input_idx + 1] = NotExist

-----------------------------------------------------------------------------
(* The stack of a program holds the states s, each with the positions that
   its language keeps with it. *)
HeldBy(w, es, s) ==
  /\ es \in Seq(Int) /\ Len(es) = w * Len(s)
  /\ \A i \in 1 .. Len(s) : es[w * (i - 1) + 1] = s[i]

Follows(c) ==
  /\ HeldBy(Loop.width, emit_stack, c.stack)
  /\ emit_idx = c.idx /\ emit_term = c.term
  /\ printed = SubSeq(reductions, 1, c.done)

(* A program is at a place of the trace, or has ended as the run did, or has
   gone on where the run refused the text. *)
InTrace ==
  /\ emit_status = "running"
  /\ \E tr, n : \E k \in 0 .. n : IsTrace(tr, n) /\ tr[n] = Now /\ Follows(tr[k])

GoneOn ==
  /\ run_status # "accepted" /\ Loop.on_blank = "go_on"
  /\ \E S : printed \in Seq(S)
  /\ Len(reductions) <= Len(printed)
  /\ SubSeq(printed, 1, Len(reductions)) = reductions

ProgramInv ==
  IF emit_status = "idle"
    THEN emit_idx = 0 /\ emit_term = NotExist /\ printed = <<>>
    ELSE /\ Remembered
         /\ run_status \in {"accepted", "SYNTAX_ERROR", "UNRECOGNIZED_TERMINAL"}
         /\ \/ InTrace
            \/ emit_status = "ended" /\ run_status = "accepted" /\ printed = reductions
            \/ /\ emit_status = "aborted" /\ run_status # "accepted"
               /\ Loop.on_blank = "abort" /\ printed = reductions
            \/ emit_status # "aborted" /\ GoneOn

LangInv == emit_lang \in {"cc", "rust", "awk", "js", "php"}

EmittedInv ==
  ParserInv /\ HistoryInv /\ EndInv /\ TraceInv /\ LangInv /\ ProgramInv

-----------------------------------------------------------------------------
(* A trace stays one when more is remembered. *)
HistoriesGrow ==
  /\ lalr_table' = lalr_table /\ rules' = rules
  /\ stop_idx' = stop_idx /\ stop_answer' = stop_answer
  /\ answers \in Seq(Terminals \union {NotExist}) /\ reductions \in Seq(Nat)
  /\ Len(answers') \in Nat /\ Len(reductions') \in Nat
  /\ Len(answers) <= Len(answers') /\ Len(reductions) <= Len(reductions')
  /\ \A i \in 1 .. Len(answers) : answers'[i] = answers[i]
  /\ \A i \in 1 .. Len(reductions) : reductions'[i] = reductions[i]

LEMMA StepsStay ==
  ASSUME NEW c \in Config, NEW d, StepOf(c, d), HistoriesGrow
  PROVE  StepOf(c, d)'
<1>0. /\ lalr_table' = lalr_table /\ rules' = rules /\ stop_idx' = stop_idx
      /\ stop_answer' = stop_answer /\ c.idx \in Nat /\ c.done \in Nat
      /\ Len(answers) \in Nat /\ Len(reductions) \in Nat
      /\ Len(answers') \in Nat /\ Len(reductions') \in Nat
  BY DEF HistoriesGrow, Config
<1>1. CASE ReadStep(c, d)
  <2>1. PICK t \in Terminals :
          /\ d.term = IF t \in SkipTerminals THEN NotExist ELSE t
          /\ IF c.idx < stop_idx
               THEN c.idx < Len(answers) /\ answers[c.idx + 1] = t /\ d.idx = c.idx + 1
               ELSE stop_answer = t /\ d.idx = c.idx
    BY <1>1 DEF ReadStep
  <2>2. c.idx < Len(answers) =>
          c.idx < Len(answers') /\ answers'[c.idx + 1] = answers[c.idx + 1]
    <3> SUFFICES ASSUME c.idx < Len(answers)
                 PROVE  c.idx < Len(answers') /\ answers'[c.idx + 1] = answers[c.idx + 1]
      OBVIOUS
    <3>1. PICK i, a, b : i = c.idx + 1 /\ a = Len(answers) /\ b = Len(answers')
      OBVIOUS
    <3>2. i \in 1 .. a /\ a <= b /\ a \in Nat /\ b \in Nat /\ c.idx < b
      BY <1>0, <3>1 DEF HistoriesGrow
    <3> QED BY <3>1, <3>2 DEF HistoriesGrow
  <2>3. ReadStep(c, d)'
    BY <1>0, <1>1, <2>1, <2>2 DEF ReadStep
  <2> QED BY <2>3 DEF StepOf
<1>2. CASE ShiftStep(c, d)
  BY <1>0, <1>2 DEF ShiftStep, Acts, CellOf, TopOf, StepOf
<1>3. CASE ReduceStep(c, d)
  <2>1. CellOf(c)' = CellOf(c) /\ Acts(c, d)'
    BY <1>0, <1>3 DEF ReduceStep, Acts, CellOf, TopOf
  <2>2. c.done < Len(reductions') /\ reductions'[c.done + 1] = reductions[c.done + 1]
    <3>1. PICK i, a, b :
            i = c.done + 1 /\ a = Len(reductions) /\ b = Len(reductions')
      OBVIOUS
    <3>2. c.done < a
      BY <1>3, <3>1 DEF ReduceStep
    <3>3. i \in 1 .. a /\ a <= b /\ a \in Nat /\ b \in Nat /\ c.done < b
      BY <1>0, <3>1, <3>2 DEF HistoriesGrow
    <3> QED BY <3>1, <3>3 DEF HistoriesGrow
  <2>3. ReduceStep(c, d)'
    BY <1>0, <1>3, <2>1, <2>2 DEF ReduceStep
  <2> QED BY <2>3 DEF StepOf
<1> QED BY <1>1, <1>2, <1>3 DEF StepOf

LEMMA TraceKept ==
  ASSUME NEW tr, NEW n, IsTrace(tr, n), HistoriesGrow
  PROVE  IsTrace(tr, n)'
<1>1. tr \in [Nat -> Config] /\ n \in Nat
  BY DEF IsTrace
<1>2. ASSUME NEW k \in 0 .. n - 1
      PROVE  StepOf(tr[k], tr[k + 1])'
  BY <1>1, StepsStay DEF IsTrace
<1>3. ASSUME NEW k \in 0 .. n
      PROVE  tr[k].done <= Len(reductions')
  <2>1. tr[k] \in Config /\ tr[k].done <= Len(reductions)
    BY <1>1 DEF IsTrace
  <2>2. tr[k].done \in Nat
    BY <2>1 DEF Config
  <2> QED BY <2>1, <2>2 DEF HistoriesGrow
<1> QED BY <1>1, <1>2, <1>3 DEF IsTrace

LEMMA TraceGrows ==
  ASSUME NEW tr, NEW n, IsTrace(tr, n), HistoriesGrow,
         NEW d \in Config, d.done <= Len(reductions'),
         StepOf(tr[n], d)'
  PROVE  \E ts, m : IsTrace(ts, m)' /\ ts[m] = d
<1>1. IsTrace(tr, n)' /\ tr \in [Nat -> Config] /\ n \in Nat
  BY TraceKept DEF IsTrace
<1>2. PICK ts : ts = [tr EXCEPT ![n + 1] = d]
  OBVIOUS
<1>3. /\ ts \in [Nat -> Config] /\ n + 1 \in Nat /\ ts[n + 1] = d
      /\ \A k \in 0 .. n : ts[k] = tr[k]
  BY <1>1, <1>2
<1>4. \A k \in 0 .. n + 1 : ts[k].done <= Len(reductions')
  BY <1>1, <1>3 DEF IsTrace
<1>5. ASSUME NEW k \in 0 .. (n + 1) - 1
      PROVE  StepOf(ts[k], ts[k + 1])'
  <2>1. CASE k = n
    BY <1>1, <1>3, <2>1
  <2>2. CASE k # n
    <3>1. k \in 0 .. n - 1 /\ ts[k] = tr[k] /\ ts[k + 1] = tr[k + 1]
      BY <1>1, <1>3, <2>2
    <3> QED BY <1>1, <3>1 DEF IsTrace
  <2> QED BY <2>1, <2>2
<1>6. ts[0] = FirstConfig
  BY <1>1, <1>3 DEF IsTrace
<1>7. IsTrace(ts, n + 1)'
  BY <1>3, <1>4, <1>5, <1>6 DEF IsTrace
<1> QED BY <1>3, <1>7

-----------------------------------------------------------------------------
(* Steps of the interpreter, and what they leave in the trace. *)
LEMMA ElementStates ==
  ASSUME NEW s \in Seq(StackElement)
  PROVE  /\ [i \in 1 .. Len(s) |-> s[i].state] \in Seq(Int)
         /\ Len([i \in 1 .. Len(s) |-> s[i].state]) = Len(s)
<1>1. \A i \in 1 .. Len(s) : s[i] \in StackElement
  OBVIOUS
<1>2. \A e \in StackElement : e.state \in Int
  BY MaxKernelsAssumption DEF StackElement, NotExist
<1>3. PICK t : t = [i \in 1 .. Len(s) |-> s[i].state]
  OBVIOUS
<1>4. t \in [1 .. Len(s) -> Int] /\ Len(s) \in Nat
  BY <1>1, <1>2, <1>3
<1>5. t \in Seq(Int) /\ Len(t) = Len(s)
  BY <1>4
<1> QED BY <1>3, <1>5

LEMMA PushedStates ==
  ASSUME NEW s \in Seq(StackElement), NEW n \in 1 .. Len(s), NEW e \in StackElement,
         NEW t, t = Append(SubSeq(s, 1, n), e)
  PROVE  [i \in 1 .. Len(t) |-> t[i].state]
           = Append(SubSeq([i \in 1 .. Len(s) |-> s[i].state], 1, n), e.state)
<1>1. /\ t \in Seq(StackElement) /\ Len(t) = n + 1
      /\ \A i \in 1 .. n : t[i] = s[i]
      /\ t[n + 1] = e
  BY PushedStack
<1>2. PICK u, v : /\ u = [i \in 1 .. Len(s) |-> s[i].state]
                  /\ v = [i \in 1 .. Len(t) |-> t[i].state]
  OBVIOUS
<1>3. u \in Seq(Int) /\ Len(u) = Len(s) /\ v \in Seq(Int) /\ Len(v) = n + 1
      /\ n \in 1 .. Len(u)
  BY <1>1, <1>2, ElementStates
<1>4. e.state \in Int
  BY MaxKernelsAssumption DEF StackElement, NotExist
<1>5. PICK w : w = Append(SubSeq(u, 1, n), e.state)
  OBVIOUS
<1>6. /\ w \in Seq(Int) /\ Len(w) = n + 1
      /\ \A i \in 1 .. n : w[i] = u[i]
      /\ w[n + 1] = e.state
  BY <1>3, <1>4, <1>5, PushedStack
<1>7. n \in Nat /\ 1 .. n + 1 = (1 .. n) \union {n + 1} /\ n <= Len(s) /\ Len(s) \in Nat
  OBVIOUS
<1>8. ASSUME NEW i \in 1 .. n + 1 PROVE v[i] = w[i]
  <2>1. v[i] = t[i].state BY <1>1, <1>2
  <2>2. CASE i = n + 1 BY <1>1, <1>6, <2>1, <2>2
  <2>3. CASE i # n + 1
    <3>1. i \in 1 .. n /\ i \in 1 .. Len(s) BY <1>7, <2>3
    <3> QED BY <1>1, <1>2, <1>6, <2>1, <3>1
  <2> QED BY <2>2, <2>3
<1>9. v = w
  BY <1>3, <1>6, <1>8, SeqEqual
<1> QED BY <1>2, <1>5, <1>9

LEMMA NowFacts ==
  ASSUME ParserInv, HistoryInv, run_status # "wait"
  PROVE  /\ Now \in Config
         /\ Now.stack = States /\ Now.idx = ReadTo /\ Now.term = ret_term
         /\ Now.done = Len(reductions)
         /\ States \in Seq(Int) /\ Len(States) = Len(lalr_stack) /\ Len(States) >= 1
         /\ \A i \in 1 .. Len(States) : States[i] = lalr_stack[i].state
         /\ TopOf(States) = LastOf(lalr_stack).state
         /\ CellOf(Now) = ParseAction
<1>1. /\ lalr_stack \in Seq(StackElement) /\ Len(lalr_stack) >= 1 /\ ReadTo \in Nat
      /\ Len(lalr_stack) \in Nat
  BY StackFacts DEF ReadTo
<1>2. States \in Seq(Int) /\ Len(States) = Len(lalr_stack)
  BY <1>1, ElementStates DEF States
<1>3. \A i \in 1 .. Len(States) : States[i] = lalr_stack[i].state
  BY <1>2 DEF States
<1>4. Len(States) \in 1 .. Len(States)
  BY <1>1, <1>2
<1>5. TopOf(States) = LastOf(lalr_stack).state
  BY <1>2, <1>3, <1>4 DEF TopOf, LastOf
<1>6. ret_term \in Int
  BY SymbolKinds, CountAssumption DEF ParserInv, RunInv, RunTypeOK, NotExist, Terminals
<1>7. Len(reductions) \in Nat
  BY DEF HistoryInv
<1>8. /\ Now.stack = States /\ Now.idx = ReadTo /\ Now.term = ret_term
      /\ Now.done = Len(reductions)
  BY DEF Now
<1>9. Now \in Config
  BY <1>1, <1>2, <1>6, <1>7 DEF Now, Config
<1>10. CellOf(Now) = ParseAction
  BY <1>5, <1>8 DEF CellOf, ParseAction
<1> QED BY <1>1, <1>2, <1>3, <1>5, <1>8, <1>9, <1>10

(* The run goes on only while it is not over. *)
LEMMA OnlyOpenRuns ==
  ASSUME ParserInv, ParserNext
  PROVE  /\ run_status \in {"wait", "running"}
         /\ run_status = "running" => RunNext /\ ~StartRun /\ UNCHANGED inputsOfRun
<1>1. CASE CreatorNext /\ UNCHANGED runOwnVars
  <2>1. run_status = "wait"
    BY <1>1, CreatedIsDone DEF ParserInv, RunInv, RunStarts
  <2> QED BY <2>1
<1>2. CASE RunNext
  BY <1>2 DEF RunNext, StartRun, SkipTerminal, NextTerminal, Unrecognized, SyntaxError,
     Accept, Shift, Reduce, RuleCodeFails, Undefined, Recognized, Reading, Acting,
     Shifting, Reducing
<1> QED BY <1>1, <1>2 DEF ParserNext

LEMMA Appended ==
  ASSUME NEW S, NEW s \in Seq(S), NEW e \in S
  PROVE  /\ Append(s, e) \in Seq(S) /\ Len(Append(s, e)) = Len(s) + 1
         /\ \A i \in 1 .. Len(s) : Append(s, e)[i] = s[i]
         /\ Append(s, e)[Len(s) + 1] = e
BY AppendProperties

LEMMA StepRemembers ==
  ASSUME ParserInv, HistoryInv, InterpreterStep, run_status = "running"
  PROVE  /\ HistoriesGrow /\ Remembered' = Remembered
         /\ answers' \in Seq(Terminals \union {NotExist}) /\ reductions' \in Seq(Nat)
<1>1. RunNext /\ ~StartRun /\ UNCHANGED inputsOfRun
  BY OnlyOpenRuns DEF InterpreterStep
<1>2. UNCHANGED <<input_length, stop_idx, stop_answer>>
  BY <1>1 DEF RunNext, SkipTerminal, NextTerminal, Unrecognized, SyntaxError,
     Accept, Shift, Reduce, RuleCodeFails, Undefined
<1>3. lalr_table' = lalr_table /\ rules' = rules
  BY <1>1 DEF inputsOfRun, firstVars, tableOwnVars
<1>4. answers \in Seq(Terminals \union {NotExist}) /\ reductions \in Seq(Nat)
  BY DEF HistoryInv
<1>5. \/ answers' = answers
      \/ \E t \in Terminals \union {NotExist} : answers' = Append(answers, t)
  <2>1. SkipTerminals \subseteq Terminals BY ParserRunAssumption
  <2>2. ret_term' \in Terminals \union {NotExist}
    <3>1. ParserInv' BY NextParserInv DEF InterpreterStep
    <3> QED BY <3>1 DEF ParserInv, RunInv, RunTypeOK
  <2> QED BY <2>1, <2>2 DEF InterpreterStep
<1>6. \/ reductions' = reductions
      \/ \E r \in Nat : reductions' = Append(reductions, r)
  <2>1. Reducing => ActionRule \in Nat
    BY ReducingFacts, RuleFacts, StackFacts
  <2> QED BY <2>1 DEF InterpreterStep
<1>7. /\ answers' \in Seq(Terminals \union {NotExist})
      /\ Len(answers') \in Nat /\ Len(answers) <= Len(answers')
      /\ \A i \in 1 .. Len(answers) : answers'[i] = answers[i]
  <2>0. Len(answers) \in Nat
    BY <1>4
  <2>1. CASE answers' = answers
    BY <1>4, <2>0, <2>1
  <2>2. CASE \E t \in Terminals \union {NotExist} : answers' = Append(answers, t)
    <3>1. PICK x \in Terminals \union {NotExist} : answers' = Append(answers, x)
      BY <2>2
    <3> QED BY <1>4, <2>0, <3>1, Appended
  <2> QED BY <1>5, <2>1, <2>2
<1>8. /\ reductions' \in Seq(Nat)
      /\ Len(reductions') \in Nat /\ Len(reductions) <= Len(reductions')
      /\ \A i \in 1 .. Len(reductions) : reductions'[i] = reductions[i]
  <2>0. Len(reductions) \in Nat
    BY <1>4
  <2>1. CASE reductions' = reductions
    BY <1>4, <2>0, <2>1
  <2>2. CASE \E r \in Nat : reductions' = Append(reductions, r)
    <3>1. PICK x \in Nat : reductions' = Append(reductions, x)
      BY <2>2
    <3> QED BY <1>4, <2>0, <3>1, Appended
  <2> QED BY <1>6, <2>1, <2>2
<1>9. Remembered' = Remembered
  BY <1>2 DEF Remembered
<1> QED BY <1>2, <1>3, <1>4, <1>7, <1>8, <1>9 DEF HistoriesGrow

(* The parts of EmittedInv that speak of the interpreter. *)
RunRemembered == HistoryInv /\ EndInv /\ TraceInv

(* A step to the place d. *)
LEMMA StepTo ==
  ASSUME ParserInv, HistoryInv, TraceInv, ParserInv', HistoryInv', HistoriesGrow,
         Remembered' = Remembered, run_status = "running", run_status' # "wait",
         Remembered => \A c, d : c = Now /\ d = Now' => StepOf(c, d)'
  PROVE  TraceInv'
<1> SUFFICES ASSUME Remembered PROVE TraceInv'
  BY DEF TraceInv
<1>1. PICK tr, n : IsTrace(tr, n) /\ tr[n] = Now
  BY DEF TraceInv
<1>2. PICK d : d = Now'
  OBVIOUS
<1>3. (ParserInv /\ HistoryInv /\ run_status # "wait"
         => Now \in Config /\ Now.done = Len(reductions))'
  BY NowFacts, PTL
<1>4. d \in Config /\ d.done = Len(reductions')
  BY <1>2, <1>3
<1>5. StepOf(tr[n], d)'
  BY <1>1, <1>2
<1>6. d.done <= Len(reductions')
  BY <1>4 DEF HistoriesGrow
<1>7. \E ts, m : IsTrace(ts, m)' /\ ts[m] = d
  BY <1>1, <1>4, <1>5, <1>6, TraceGrows
<1> QED BY <1>2, <1>7 DEF TraceInv

(* A step that leaves the run where it is. *)
LEMMA StaysAt ==
  ASSUME TraceInv, HistoriesGrow, Remembered' = Remembered, run_status = "running",
         UNCHANGED <<lalr_stack, ReadTo, ret_term, reductions>>
  PROVE  TraceInv'
<1> SUFFICES ASSUME Remembered PROVE TraceInv'
  BY DEF TraceInv
<1>1. PICK tr, n : IsTrace(tr, n) /\ tr[n] = Now
  BY DEF TraceInv
<1>2. IsTrace(tr, n)'
  BY <1>1, TraceKept
<1>3. Now' = Now
  BY DEF Now, States
<1> QED BY <1>1, <1>2, <1>3 DEF TraceInv

(* A terminal is read, and kept unless it is one of those to skip. *)
LEMMA ReadKeeps ==
  ASSUME ParserInv, RunRemembered, InterpreterStep, SkipTerminal \/ NextTerminal
  PROVE  RunRemembered'
<1>1. PICK t \in Terminals, next \in 0 .. MaxInput :
        /\ Recognized(t, next) /\ input_idx' = next
        /\ ret_term' = IF t \in SkipTerminals THEN NotExist ELSE t
  BY ParserRunAssumption DEF SkipTerminal, NextTerminal, Recognized, Reading
<1>2. /\ run_status = "running" /\ run_status' = "running" /\ ret_term = NotExist
      /\ Reading /\ ~Reducing /\ lalr_stack' = lalr_stack
  BY <1>1 DEF Recognized, Reading, Reducing, Acting, SkipTerminal, NextTerminal
<1>3. /\ HistoriesGrow /\ Remembered' = Remembered
      /\ answers' \in Seq(Terminals \union {NotExist}) /\ reductions' \in Seq(Nat)
      /\ HistoryInv /\ TraceInv
  BY <1>2, StepRemembers DEF RunRemembered
<1>4. ParserInv'
  BY NextParserInv DEF InterpreterStep
<1>5. reductions' = reductions
  BY <1>2 DEF InterpreterStep
<1>6. /\ input_idx \in Nat /\ stop_idx \in Nat /\ Len(answers) \in Nat
      /\ answers \in Seq(Terminals \union {NotExist})
  BY <1>3, StackFacts DEF HistoryInv
<1>7. IF input_idx < stop_idx THEN input_idx' = input_idx + 1
      ELSE stop_answer = t /\ input_idx' = input_idx
  BY <1>1 DEF Recognized
<1>8. ASSUME Remembered, input_idx < stop_idx
      PROVE  \E a \in Terminals : /\ answers' = Append(answers, a)
                                  /\ ret_term' = IF a \in SkipTerminals THEN NotExist ELSE a
  <2>1. PICK a \in IF ret_term' # NotExist THEN {ret_term'}
                   ELSE IF run_status' = "running" THEN SkipTerminals ELSE {NotExist} :
          answers' = Append(answers, a)
    BY <1>2, <1>8 DEF InterpreterStep
  <2>2. CASE t \in SkipTerminals
    <3>1. a \in SkipTerminals BY <1>1, <1>2, <2>1, <2>2
    <3> QED BY <1>1, <2>1, <2>2, <3>1, ParserRunAssumption
  <2>3. CASE t \notin SkipTerminals
    <3>1. ret_term' = t /\ t # NotExist BY <1>1, <2>3, NoTerminal
    <3>2. a = t BY <2>1, <3>1
    <3> QED BY <1>1, <2>1, <3>1, <3>2
  <2> QED BY <2>2, <2>3
<1>9. ~(Remembered /\ input_idx < stop_idx) => answers' = answers
  BY DEF InterpreterStep
<1>10. Remembered => Len(answers) = input_idx
  BY <1>2, <1>3 DEF HistoryInv
<1>11. Remembered => Len(answers') = input_idx'
  BY <1>6, <1>7, <1>8, <1>9, <1>10, Appended
<1>12. HistoryInv'
  BY <1>2, <1>3, <1>11 DEF HistoryInv
<1>13. EndInv'
  BY <1>2 DEF EndInv
<1>14. ASSUME Remembered, NEW c, NEW d, c = Now, d = Now' PROVE StepOf(c, d)'
  <2>1. /\ c.term = NotExist /\ d.stack = c.stack /\ d.done = c.done
        /\ c.idx = input_idx /\ d.idx = input_idx' /\ d.term = ret_term'
    BY <1>2, <1>5, <1>14 DEF Now, ReadTo, States
  <2>2. stop_idx' = stop_idx /\ stop_answer' = stop_answer
    BY <1>3 DEF HistoriesGrow
  <2>3. CASE input_idx < stop_idx
    <3>1. PICK a \in Terminals :
            /\ answers' = Append(answers, a)
            /\ ret_term' = IF a \in SkipTerminals THEN NotExist ELSE a
      BY <1>8, <1>14, <2>3
    <3>2. Len(answers') = input_idx + 1 /\ answers'[input_idx + 1] = a
      BY <1>6, <1>10, <1>14, <3>1, Appended
    <3>3. ReadStep(c, d)'
      BY <1>6, <1>7, <2>1, <2>2, <2>3, <3>1, <3>2 DEF ReadStep
    <3> QED BY <3>3 DEF StepOf
  <2>4. CASE ~(input_idx < stop_idx)
    <3>1. ReadStep(c, d)'
      BY <1>1, <1>7, <2>1, <2>2, <2>4 DEF ReadStep
    <3> QED BY <3>1 DEF StepOf
  <2> QED BY <2>3, <2>4
<1>15. TraceInv'
  BY <1>2, <1>3, <1>4, <1>12, <1>14, StepTo
<1> QED BY <1>12, <1>13, <1>15 DEF RunRemembered

(* A text that cannot be read on is refused where it is. *)
LEMMA UnrecognizedKeeps ==
  ASSUME ParserInv, RunRemembered, InterpreterStep, Unrecognized
  PROVE  RunRemembered'
<1>1. PICK next \in 0 .. MaxInput : Recognized(NotExist, next)
  BY DEF Unrecognized
<1>2. /\ run_status = "running" /\ ret_term = NotExist /\ Reading /\ ~Reducing
      /\ run_status' = "UNRECOGNIZED_TERMINAL"
      /\ UNCHANGED <<lalr_stack, stop_idx, ret_term, stop_answer>>
      /\ old_input_idx' = input_idx /\ ReadTo' = ReadTo
  BY <1>1 DEF Recognized, Reading, Reducing, Acting, Unrecognized, ReadTo
<1>3. /\ HistoriesGrow /\ Remembered' = Remembered
      /\ answers' \in Seq(Terminals \union {NotExist}) /\ reductions' \in Seq(Nat)
      /\ HistoryInv /\ TraceInv
  BY <1>2, StepRemembers DEF RunRemembered
<1>4. reductions' = reductions
  BY <1>2 DEF InterpreterStep
<1>5. Remembered /\ input_idx < stop_idx => answers' = Append(answers, NotExist)
  BY <1>2 DEF InterpreterStep
<1>6. Remembered => Len(answers) = input_idx
  BY <1>2, <1>3 DEF HistoryInv
<1>7. answers \in Seq(Terminals \union {NotExist}) /\ input_idx \in Nat
      /\ stop_idx \in Nat
  BY <1>3, StackFacts DEF HistoryInv
<1>8. Remembered /\ input_idx < stop_idx =>
        Len(answers') = input_idx + 1 /\ answers'[input_idx + 1] = NotExist
  BY <1>5, <1>6, <1>7, Appended
<1>9. input_idx >= stop_idx => stop_answer = NotExist
  BY <1>1, <1>7 DEF Recognized
<1>10. EndInv'
  BY <1>2, <1>3, <1>8, <1>9 DEF EndInv
<1>11. HistoryInv'
  BY <1>2, <1>3 DEF HistoryInv
<1>12. TraceInv'
  BY <1>2, <1>3, <1>4, StaysAt
<1> QED BY <1>10, <1>11, <1>12 DEF RunRemembered

LEMMA EndKeeps ==
  ASSUME ParserInv, RunRemembered, InterpreterStep,
         SyntaxError \/ Accept \/ RuleCodeFails \/ Undefined
  PROVE  RunRemembered'
<1>1. /\ run_status = "running" /\ ~Reading
      /\ run_status' \notin {"running", "wait", "UNRECOGNIZED_TERMINAL"}
      /\ UNCHANGED <<inputsOfRun, lalr_stack, input_idx, stop_idx, ret_term, stop_answer>>
  BY DEF SyntaxError, Accept, RuleCodeFails, Undefined, Shifting, Reducing, Acting,
     Reading
<1>2. /\ HistoriesGrow /\ Remembered' = Remembered
      /\ answers' \in Seq(Terminals \union {NotExist}) /\ reductions' \in Seq(Nat)
      /\ HistoryInv /\ TraceInv
  BY <1>1, StepRemembers DEF RunRemembered
<1>3. answers' = answers /\ reductions' = reductions
  BY <1>1 DEF InterpreterStep
<1>4. HistoryInv'
  BY <1>1, <1>2, <1>3 DEF HistoryInv
<1>5. InState' = InState /\ ParseAction' = ParseAction
  BY <1>1, <1>2 DEF InState, ParseAction, LastOf, HistoriesGrow
<1>6. EndInv'
  <2>1. run_status' = "accepted" => Accept
    BY DEF SyntaxError, Accept, RuleCodeFails, Undefined
  <2>2. run_status' = "SYNTAX_ERROR" => SyntaxError
    BY DEF SyntaxError, Accept, RuleCodeFails, Undefined
  <2>3. Accept => ret_term = EndTerminal /\ InState /\ ParseAction \in 1 .. ReduceBase
    BY DEF Accept, Shifting
  <2>4. SyntaxError => ret_term # NotExist /\ InState /\ ParseAction = NotExist
    BY DEF SyntaxError, Acting
  <2> QED BY <1>1, <1>5, <2>1, <2>2, <2>3, <2>4 DEF EndInv
<1>7. TraceInv'
  <2>1. ReadTo' = ReadTo
    BY <1>1 DEF ReadTo
  <2> QED BY <1>1, <1>2, <1>3, <2>1, StaysAt
<1> QED BY <1>4, <1>6, <1>7 DEF RunRemembered

LEMMA ShiftKeeps ==
  ASSUME ParserInv, RunRemembered, InterpreterStep, Shift
  PROVE  RunRemembered'
<1>1. /\ run_status = "running" /\ run_status' = "running" /\ ~Reading /\ ~Reducing
      /\ Acting /\ InState /\ ParseAction \in 1 .. ReduceBase /\ ret_term # EndTerminal
      /\ ret_term' = NotExist /\ ret_term # NotExist /\ input_idx' = input_idx
  BY ReduceBaseAssumption DEF Shift, Shifting, Reducing, Acting, Reading
<1>2. /\ HistoriesGrow /\ Remembered' = Remembered
      /\ answers' \in Seq(Terminals \union {NotExist}) /\ reductions' \in Seq(Nat)
      /\ HistoryInv /\ TraceInv /\ ParserInv'
  BY <1>1, StepRemembers, NextParserInv DEF RunRemembered, InterpreterStep
<1>3. answers' = answers /\ reductions' = reductions
  BY <1>1 DEF InterpreterStep
<1>4. HistoryInv'
  BY <1>1, <1>2, <1>3 DEF HistoryInv
<1>5. EndInv'
  BY <1>1 DEF EndInv
<1>6. PICK e, n : /\ n = Len(lalr_stack)
                  /\ e = [state |-> ParseAction, start |-> old_input_idx,
                          end |-> input_idx, symbol |-> ret_term]
  OBVIOUS
<1>7. /\ lalr_stack \in Seq(StackElement) /\ lalr_stack' \in Seq(StackElement)
      /\ n \in 1 .. Len(lalr_stack) /\ lalr_stack' = Append(lalr_stack, e)
      /\ e.state = ParseAction
  BY <1>1, <1>2, <1>6, StackFacts DEF Shift, ParserInv, RunInv, RunTypeOK
<1>8. e \in StackElement
  <2>1. Len(lalr_stack') = Len(lalr_stack) + 1 /\ lalr_stack'[Len(lalr_stack) + 1] = e
    BY <1>7
  <2> QED BY <1>7, <2>1
<1>9. States \in Seq(Int) /\ Len(States) = n
  BY <1>6, <1>7, ElementStates DEF States
<1>10. States' = Append(States, ParseAction)
  <2>1. lalr_stack' = Append(SubSeq(lalr_stack, 1, n), e)
    BY <1>6, <1>7, WholeSequence
  <2>2. States' = Append(SubSeq(States, 1, n), e.state)
    BY <1>7, <1>8, <2>1, PushedStates DEF States
  <2> QED BY <1>7, <1>9, <2>2, WholeSequence
<1>11. ASSUME Remembered, NEW c, NEW d, c = Now, d = Now' PROVE StepOf(c, d)'
  <2>1. /\ c.term = ret_term /\ c.stack = States /\ c.done = Len(reductions)
        /\ c.idx = input_idx /\ d.idx = input_idx' /\ d.term = NotExist
        /\ d.stack = States' /\ d.done = Len(reductions')
    BY <1>1, <1>11 DEF Now, ReadTo
  <2>2. /\ Len(c.stack) >= 1 /\ TopOf(c.stack) = LastOf(lalr_stack).state
        /\ CellOf(c) = ParseAction
    BY <1>1, <1>2, <1>11, <2>1, NowFacts
  <2>3. CellOf(c)' = ParseAction
    BY <1>2, <2>2 DEF CellOf, TopOf, HistoriesGrow
  <2>4. TopOf(c.stack)' # NotExist
    BY <1>1, <2>2 DEF InState, TopOf
  <2>5. Acts(c, d)'
    BY <1>1, <2>1, <2>2, <2>3, <2>4 DEF Acts
  <2>6. ShiftStep(c, d)'
    BY <1>1, <1>3, <1>10, <2>1, <2>3, <2>5 DEF ShiftStep
  <2> QED BY <2>6 DEF StepOf
<1>12. TraceInv'
  BY <1>1, <1>2, <1>4, <1>11, StepTo
<1> QED BY <1>4, <1>5, <1>12 DEF RunRemembered

LEMMA TableNumbers ==
  ASSUME ParserInv, run_status # "wait", NEW k \in DOMAIN kernels, NEW x \in Symbols
  PROVE  lalr_table[k][x] \in Int
BY TableFacts DEF ParserInv, RunInv, RunStarts, TableTypes

LEMMA ReduceKeeps ==
  ASSUME ParserInv, RunRemembered, InterpreterStep, Reduce
  PROVE  RunRemembered'
<1>1. /\ run_status = "running" /\ run_status' = "running" /\ ~Reading /\ Reducing
      /\ Acting /\ InState /\ ParseAction > ReduceBase
      /\ ret_term' = ret_term /\ ret_term # NotExist /\ input_idx' = input_idx
      /\ Below >= 1
  BY DEF Reduce, Reducing, Acting, Reading
<1>2. /\ HistoriesGrow /\ Remembered' = Remembered
      /\ answers' \in Seq(Terminals \union {NotExist}) /\ reductions' \in Seq(Nat)
      /\ HistoryInv /\ TraceInv /\ ParserInv' /\ reductions \in Seq(Nat)
  BY <1>1, StepRemembers, NextParserInv DEF RunRemembered, InterpreterStep, HistoryInv
<1>3. /\ answers' = answers
      /\ Remembered => reductions' = Append(reductions, ActionRule)
  BY <1>1 DEF InterpreterStep
<1>4. HistoryInv'
  BY <1>1, <1>2, <1>3 DEF HistoryInv
<1>5. EndInv'
  BY <1>1 DEF EndInv
<1>6. /\ ActionRule \in DOMAIN rules /\ Len(ActionBody) \in Nat \ {0}
      /\ ActionHead = rules[ActionRule].head /\ ActionBody = rules[ActionRule].body
      /\ ActionRule = ParseAction - ReduceBase
  BY <1>1, ReducingFacts DEF ActionHead, ActionBody, ActionRule
<1>7. ActionRule \in Nat /\ ParseAction \in Int
  <2>1. LastOf(lalr_stack).state \in DOMAIN kernels /\ ret_term \in Symbols
    BY <1>1, ActionFacts
  <2>2. ParseAction \in Int
    BY <1>1, <2>1, TableNumbers DEF ParseAction
  <2> QED BY <1>6, <2>2, RuleFacts, StackFacts
<1>8. PICK e, n : /\ n = Below
                  /\ e = [state |-> GotoState, start |-> HandleStart,
                          end |-> LastOf(lalr_stack).end, symbol |-> ActionHead]
  OBVIOUS
<1>9. /\ lalr_stack \in Seq(StackElement) /\ Len(lalr_stack) \in Nat
      /\ DOMAIN lalr_stack = 1 .. Len(lalr_stack)
      /\ n \in 1 .. Len(lalr_stack) /\ n < Len(lalr_stack)
      /\ n = Len(lalr_stack) - Len(ActionBody)
  <2>1. /\ lalr_stack \in Seq(StackElement) /\ Len(lalr_stack) \in Nat
        /\ DOMAIN lalr_stack = 1 .. Len(lalr_stack)
    BY StackFacts
  <2>2. n = Len(lalr_stack) - Len(ActionBody) /\ n >= 1
    BY <1>1, <1>8 DEF Below
  <2>3. PICK b : b = Len(ActionBody)
    OBVIOUS
  <2>4. b \in Nat \ {0} /\ n = Len(lalr_stack) - b
    BY <1>6, <2>2, <2>3
  <2> QED BY <2>1, <2>2, <2>4
<1>10. lalr_stack' = Append(SubSeq(lalr_stack, 1, n), e) /\ e.state = GotoState
  BY <1>8 DEF Reduce
<1>11. e \in StackElement
  <2>1. lalr_stack' \in Seq(StackElement) BY <1>2 DEF ParserInv, RunInv, RunTypeOK
  <2>2. SubSeq(lalr_stack, 1, n) \in Seq(StackElement) /\ Len(SubSeq(lalr_stack, 1, n)) = n
    BY <1>9
  <2>3. Len(lalr_stack') = n + 1 /\ lalr_stack'[n + 1] = e
    BY <1>9, <1>10, <2>2
  <2> QED BY <1>9, <2>1, <2>3
<1>12. lalr_stack[n].state \in DOMAIN kernels /\ lalr_stack[n].state # NotExist
  <2>1. StatesInv BY DEF ParserInv, RunInv
  <2>2. lalr_stack[n].state \in DOMAIN kernels
    BY <1>9, <2>1 DEF StatesInv
  <2> QED BY <1>1, <2>2, ActionFacts, MaxKernelsAssumption DEF NotExist
<1>13. GotoState = lalr_table[lalr_stack[n].state][ActionHead] /\ GotoState \in Int
  BY <1>1, <1>8, <1>12, ReducingFacts, TableNumbers, SymbolKinds DEF GotoState
<1>14. States' = Append(SubSeq(States, 1, n), GotoState)
  BY <1>9, <1>10, <1>11, PushedStates DEF States
<1>15. ASSUME Remembered, NEW c, NEW d, c = Now, d = Now' PROVE StepOf(c, d)'
  <2>1. /\ c.term = ret_term /\ c.stack = States /\ c.done = Len(reductions)
        /\ c.idx = input_idx /\ d.idx = input_idx' /\ d.term = ret_term
        /\ d.stack = States' /\ d.done = Len(reductions')
    BY <1>1, <1>15 DEF Now, ReadTo
  <2>2. /\ Len(c.stack) >= 1 /\ TopOf(c.stack) = LastOf(lalr_stack).state
        /\ CellOf(c) = ParseAction /\ Len(c.stack) = Len(lalr_stack)
        /\ c.stack[n] = lalr_stack[n].state
    BY <1>1, <1>2, <1>9, <1>15, <2>1, NowFacts
  <2>3. CellOf(c)' = ParseAction
    BY <1>2, <2>2 DEF CellOf, TopOf, HistoriesGrow
  <2>4. TopOf(c.stack)' # NotExist
    BY <1>1, <2>2 DEF InState, TopOf
  <2>5. Acts(c, d)'
    BY <1>1, <1>7, <2>1, <2>2, <2>3, <2>4 DEF Acts
  <2>6. /\ rules' = rules /\ lalr_table' = lalr_table
        /\ Len(reductions) \in Nat
    BY <1>2 DEF HistoriesGrow
  <2>7. /\ d.done = c.done + 1
        /\ c.done < Len(reductions') /\ reductions'[c.done + 1] = ActionRule
    BY <1>2, <1>3, <1>7, <1>15, <2>1, <2>6, Appended
  <2>8. /\ n \in 1 .. Len(c.stack)
        /\ n = Len(c.stack) - Len(rules[ParseAction - ReduceBase].body)
        /\ c.stack[n] # NotExist
        /\ lalr_table[c.stack[n]][rules[ParseAction - ReduceBase].head] = GotoState
        /\ d.stack = Append(SubSeq(c.stack, 1, n), GotoState)
        /\ ParseAction - ReduceBase \in DOMAIN rules
    BY <1>6, <1>9, <1>12, <1>13, <1>14, <2>1, <2>2
  <2>9. ReduceStep(c, d)'
    BY <1>1, <1>6, <1>13, <2>1, <2>3, <2>5, <2>6, <2>7, <2>8 DEF ReduceStep
  <2> QED BY <2>9 DEF StepOf
<1>16. TraceInv'
  BY <1>1, <1>2, <1>4, <1>15, StepTo
<1> QED BY <1>4, <1>5, <1>16 DEF RunRemembered

(* Before the text is read nothing is remembered, and the trace has one place. *)
LEMMA StartKeeps ==
  ASSUME ParserInv, RunRemembered, InterpreterStep, run_status = "wait"
  PROVE  RunRemembered'
<1>1. ~Reading /\ ~Reducing /\ answers = <<>> /\ reductions = <<>> /\ input_idx = 0
      /\ ret_term = NotExist
  BY DEF Reading, Reducing, Acting, RunRemembered, HistoryInv, ParserInv, RunInv,
     RunStarts
<1>2. answers' = <<>> /\ reductions' = <<>>
  BY <1>1 DEF InterpreterStep
<1>3. \/ run_status' = "wait" /\ UNCHANGED runOwnVars
      \/ StartRun
  BY DEF InterpreterStep, ParserNext, RunNext, SkipTerminal, NextTerminal, Unrecognized,
     SyntaxError, Accept, Shift, Reduce, RuleCodeFails, Undefined, Recognized, Reading,
     Acting, Shifting, Reducing, runOwnVars
<1>4. /\ run_status' \notin {"accepted", "SYNTAX_ERROR", "UNRECOGNIZED_TERMINAL"}
      /\ input_idx' = 0 /\ ret_term' = NotExist
  BY <1>1, <1>3 DEF StartRun, runOwnVars
<1>5. HistoryInv'
  BY <1>2, <1>4 DEF HistoryInv
<1>6. EndInv'
  BY <1>4 DEF EndInv
<1>7. TraceInv'
  <2> SUFFICES ASSUME (run_status # "wait")' PROVE (\E tr, n : IsTrace(tr, n) /\ tr[n] = Now)'
    BY DEF TraceInv
  <2>1. lalr_stack' = << [state |-> 1, start |-> 0, end |-> 0, symbol |-> NotExist] >>
    BY <1>3 DEF StartRun
  <2>2. Len(lalr_stack') = 1 /\ lalr_stack'[1].state = 1
    BY <2>1
  <2>3. States' = <<1>>
    BY <2>2 DEF States
  <2>4. Now' = FirstConfig
    BY <1>2, <1>4, <2>3 DEF Now, ReadTo, FirstConfig
  <2>5. PICK tr : tr = [k \in Nat |-> FirstConfig]
    OBVIOUS
  <2>6. FirstConfig \in Config
    BY DEF FirstConfig, Config, NotExist
  <2>7. tr \in [Nat -> Config] /\ tr[0] = FirstConfig
    BY <2>5, <2>6
  <2>8. FirstConfig.done <= Len(reductions')
    BY <1>2 DEF FirstConfig
  <2>9. IsTrace(tr, 0)'
    BY <2>5, <2>7, <2>8 DEF IsTrace
  <2> QED BY <2>4, <2>7, <2>9
<1> QED BY <1>5, <1>6, <1>7 DEF RunRemembered

LEMMA InterpreterKeeps ==
  ASSUME ParserInv, RunRemembered, InterpreterStep
  PROVE  RunRemembered' /\ run_status \in {"wait", "running"}
<1>1. run_status \in {"wait", "running"}
  BY OnlyOpenRuns DEF InterpreterStep
<1>2. CASE run_status = "wait"
  BY <1>1, <1>2, StartKeeps
<1>3. CASE run_status = "running"
  <2>1. RunNext /\ ~StartRun
    BY <1>3, OnlyOpenRuns DEF InterpreterStep
  <2> QED BY <1>1, <2>1, ReadKeeps, UnrecognizedKeeps, EndKeeps, ShiftKeeps, ReduceKeeps
          DEF RunNext
<1> QED BY <1>1, <1>2, <1>3

-----------------------------------------------------------------------------
(* The stack of a program, over the states that it holds. *)
LEMMA LoopFacts ==
  ASSUME LangInv
  PROVE  /\ Loop.width \in {1, 3} /\ Loop.on_blank \in {"abort", "go_on"}
         /\ Loop.outside \in {"nothing", "endless", "first_state", "first_row"}
BY DEF LangInv, Loop, cc_loop, rust_loop, awk_loop, js_loop, php_loop

LEMMA TopHeld ==
  ASSUME NEW w \in {1, 3}, NEW es, NEW s \in Seq(Int), HeldBy(w, es, s), Len(s) >= 1
  PROVE  es[Len(es) - w + 1] = s[Len(s)]
<1>1. Len(s) \in 1 .. Len(s) /\ Len(s) \in Nat
  OBVIOUS
<1>2. es[w * (Len(s) - 1) + 1] = s[Len(s)] /\ Len(es) = w * Len(s)
  BY <1>1 DEF HeldBy
<1>3. w * (Len(s) - 1) + 1 = w * Len(s) - w + 1
  BY <1>1
<1> QED BY <1>2, <1>3

LEMMA PushHeld ==
  ASSUME NEW w \in {1, 3}, NEW es, NEW s \in Seq(Int), HeldBy(w, es, s), NEW x \in Int
  PROVE  HeldBy(w, es \o <<x>> \o [i \in 1 .. w - 1 |-> NotExist], Append(s, x))
<1>1. PICK n, t, p : /\ n = Len(s) /\ t = Append(s, x)
                     /\ p = <<x>> \o [i \in 1 .. w - 1 |-> NotExist]
  OBVIOUS
<1>2. es \in Seq(Int) /\ Len(es) = w * n /\ n \in Nat
  BY <1>1 DEF HeldBy
<1>3. /\ t \in Seq(Int) /\ Len(t) = n + 1 /\ t[n + 1] = x
      /\ \A i \in 1 .. n : t[i] = s[i]
  BY <1>1, Appended
<1>4. p \in Seq(Int) /\ Len(p) = w /\ p[1] = x
  <2>1. PICK q : q = [i \in 1 .. w - 1 |-> NotExist]
    OBVIOUS
  <2>2. w - 1 \in Nat /\ q \in [1 .. w - 1 -> Int]
    BY <2>1 DEF NotExist
  <2>3. q \in Seq(Int) /\ Len(q) = w - 1
    BY <2>2, SMTT(20)
  <2>4. <<x>> \in Seq(Int) /\ Len(<<x>>) = 1 /\ <<x>>[1] = x
    OBVIOUS
  <2>5. p = <<x>> \o q
    BY <1>1, <2>1
  <2> QED BY <2>3, <2>4, <2>5, ConcatProperties
<1>5. PICK e : e = es \o p
  OBVIOUS
<1>6. /\ e \in Seq(Int) /\ Len(e) = w * n + w
      /\ \A i \in 1 .. w * n : e[i] = es[i]
      /\ e[w * n + 1] = x
  <2>1. w * n \in Nat BY <1>2
  <2> QED BY <1>2, <1>4, <1>5, <2>1, ConcatProperties
<1>7. ASSUME NEW i \in 1 .. n + 1 PROVE e[w * (i - 1) + 1] = t[i]
  <2>1. CASE i = n + 1
    BY <1>2, <1>3, <1>6, <2>1
  <2>2. CASE i # n + 1
    <3>1. i \in 1 .. n BY <1>2, <2>2
    <3>2. w * (i - 1) + 1 \in 1 .. w * n
      BY <1>2, <3>1
    <3>3. es[w * (i - 1) + 1] = s[i]
      BY <1>1, <3>1 DEF HeldBy
    <3> QED BY <1>3, <1>6, <3>1, <3>2, <3>3
  <2> QED BY <2>1, <2>2
<1>8. w * n + w = w * (n + 1)
  BY <1>2
<1>9. HeldBy(w, e, t)
  BY <1>3, <1>6, <1>7, <1>8 DEF HeldBy
<1>10. e = es \o <<x>> \o [i \in 1 .. w - 1 |-> NotExist]
  <2>1. PICK q : q = [i \in 1 .. w - 1 |-> NotExist]
    OBVIOUS
  <2>2. w - 1 \in Nat /\ q \in [1 .. w - 1 -> Int]
    BY <2>1 DEF NotExist
  <2>3. q \in Seq(Int) /\ <<x>> \in Seq(Int)
    BY <2>2, SMTT(20)
  <2>4. es \o (<<x>> \o q) = (es \o <<x>>) \o q
    BY <1>2, <2>3, ConcatAssociative
  <2> QED BY <1>1, <1>5, <2>1, <2>4
<1> QED BY <1>1, <1>9, <1>10

LEMMA CutHeld ==
  ASSUME NEW w \in {1, 3}, NEW es, NEW s \in Seq(Int), HeldBy(w, es, s),
         NEW m \in 1 .. Len(s)
  PROVE  /\ HeldBy(w, SubSeq(es, 1, w * m), SubSeq(s, 1, m))
         /\ Len(SubSeq(es, 1, w * m)) = w * m
<1>1. es \in Seq(Int) /\ Len(es) = w * Len(s) /\ m \in Nat /\ m <= Len(s) /\ Len(s) \in Nat
  BY DEF HeldBy
<1>2. w * m \in Nat /\ w * m <= Len(es) /\ 1 <= w * m /\ w * m \in 1 .. Len(es)
  BY <1>1
<1>3. PICK e, t : e = SubSeq(es, 1, w * m) /\ t = SubSeq(s, 1, m)
  OBVIOUS
<1>4. /\ t \in Seq(Int) /\ Len(t) = m /\ \A i \in 1 .. m : t[i] = s[i]
  BY <1>1, <1>3
<1>5. PICK k : k = w * m
  OBVIOUS
<1>6. /\ e \in Seq(Int) /\ Len(e) = k /\ \A i \in 1 .. k : e[i] = es[i]
  BY <1>1, <1>2, <1>3, <1>5
<1>7. ASSUME NEW i \in 1 .. m PROVE e[w * (i - 1) + 1] = t[i]
  <2>1. w * (i - 1) + 1 \in 1 .. k
    BY <1>1, <1>5
  <2>2. es[w * (i - 1) + 1] = s[i]
    BY <1>1 DEF HeldBy
  <2> QED BY <1>4, <1>6, <2>1, <2>2
<1> QED BY <1>3, <1>4, <1>5, <1>6, <1>7 DEF HeldBy

-----------------------------------------------------------------------------
(* Steps of a program. *)
InputsStay == UNCHANGED <<parserVars, historyVars>>

LEMMA ProgramInputsKept ==
  ASSUME InputsStay
  PROVE  /\ UNCHANGED <<run_status, lalr_stack, old_input_idx, input_idx, stop_idx, ret_term,
                        stop_answer, lalr_table, rules, answers, reductions>>
         /\ Remembered' = Remembered /\ Now' = Now
         /\ \A tr, n : IsTrace(tr, n)' = IsTrace(tr, n)
<1>1. UNCHANGED <<run_status, lalr_stack, old_input_idx, input_idx, input_length, stop_idx,
                  ret_term, stop_answer, lalr_table, rules, answers, reductions>>
  BY DEF InputsStay, parserVars, historyVars, runOwnVars, inputsOfRun, firstVars,
     tableOwnVars
<1>2. Remembered' = Remembered /\ Now' = Now
  BY <1>1 DEF Remembered, Now, ReadTo, States
<1>3. \A c, d : StepOf(c, d)' = StepOf(c, d)
  BY <1>1 DEF StepOf, ReadStep, ShiftStep, ReduceStep, Acts, CellOf, TopOf
<1>4. \A tr, n : IsTrace(tr, n)' = IsTrace(tr, n)
  BY <1>1, <1>3 DEF IsTrace
<1> QED BY <1>1, <1>2, <1>4

(* What the program finds where it follows the run to the place c. *)
LEMMA FollowFacts ==
  ASSUME LangInv, NEW c \in Config, Follows(c)
  PROVE  /\ Len(c.stack) >= 1 => TopState(emit_stack) = TopOf(c.stack)
         /\ Len(c.stack) >= 1 /\ TopOf(c.stack) # NotExist =>
              ~OutsideTable /\ EmitCell = CellOf(c)
         /\ c.stack \in Seq(Int) /\ c.idx \in Nat /\ c.term \in Int /\ c.done \in Nat
<1>1. c.stack \in Seq(Int) /\ c.idx \in Nat /\ c.term \in Int /\ c.done \in Nat
  BY DEF Config
<1>2. HeldBy(Loop.width, emit_stack, c.stack) /\ emit_term = c.term
  BY DEF Follows
<1>3. Len(c.stack) >= 1 => TopState(emit_stack) = TopOf(c.stack)
  BY <1>1, <1>2, LoopFacts, TopHeld DEF TopState, TopOf
<1> QED BY <1>1, <1>2, <1>3 DEF OutsideTable, EmitCell, EmittedAction, TableCell, CellOf

(* Where the run has gone on from c to d, so does the program. *)
LEMMA FollowRead ==
  ASSUME LangInv, InputsStay, ProgramNext, emit_status = "running",
         stop_idx \in Nat, NEW c \in Config, NEW d \in Config,
         ReadStep(c, d), Follows(c)
  PROVE  emit_status' = "running" /\ emit_lang' = emit_lang /\ Follows(d)'
<1>1. PICK t \in Terminals :
        /\ d.term = IF t \in SkipTerminals THEN NotExist ELSE t
        /\ IF c.idx < stop_idx
             THEN c.idx < Len(answers) /\ answers[c.idx + 1] = t /\ d.idx = c.idx + 1
             ELSE stop_answer = t /\ d.idx = c.idx
  BY DEF ReadStep
<1>2. /\ emit_term = NotExist /\ emit_idx = c.idx /\ c.idx \in Nat
      /\ d.stack = c.stack /\ d.done = c.done
      /\ HeldBy(Loop.width, emit_stack, c.stack)
      /\ printed = SubSeq(reductions, 1, c.done)
  BY DEF ReadStep, Follows, Config
<1>3. EmitRead
  BY <1>2 DEF ProgramNext, StartProgram, EmitAbort, EmitEnd, EmitShift, EmitEndless,
     EmitReduce, EmitShifting, HasTerminal
<1>4. EmitAnswers = {t}
  BY <1>1, <1>2 DEF EmitAnswers
<1>5. t # NotExist
  BY NoTerminal
<1>6. /\ emit_term' = d.term /\ emit_status' = "running" /\ emit_idx' = d.idx
      /\ UNCHANGED <<emit_lang, emit_stack, printed>>
  BY <1>1, <1>2, <1>3, <1>4, <1>5 DEF EmitRead
<1>7. reductions' = reductions /\ Loop' = Loop
  BY <1>6, ProgramInputsKept DEF Loop
<1> QED BY <1>2, <1>6, <1>7 DEF Follows

LEMMA FollowShift ==
  ASSUME LangInv, InputsStay, ProgramNext, emit_status = "running",
         NEW c \in Config, NEW d \in Config, ShiftStep(c, d), Follows(c)
  PROVE  emit_status' = "running" /\ emit_lang' = emit_lang /\ Follows(d)'
<1>1. /\ c.term # NotExist /\ Len(c.stack) >= 1 /\ TopOf(c.stack) # NotExist
      /\ d.idx = c.idx /\ CellOf(c) \in 1 .. ReduceBase /\ c.term # EndTerminal
      /\ d.stack = Append(c.stack, CellOf(c)) /\ d.term = NotExist /\ d.done = c.done
  BY DEF ShiftStep, Acts
<1>2. /\ HeldBy(Loop.width, emit_stack, c.stack) /\ emit_idx = c.idx
      /\ emit_term = c.term /\ printed = SubSeq(reductions, 1, c.done)
  BY DEF Follows
<1>3. ~OutsideTable /\ EmitCell = CellOf(c) /\ c.stack \in Seq(Int)
  BY <1>1, FollowFacts
<1>4. CellOf(c) \in Int /\ CellOf(c) # NotExist /\ ~(CellOf(c) > ReduceBase)
  BY <1>1, ReduceBaseAssumption DEF NotExist
<1>5. EmitShift
  BY <1>1, <1>2, <1>3, <1>4 DEF ProgramNext, StartProgram, EmitRead, EmitAbort, EmitEnd,
     EmitEndless, EmitReduce, EmitShifting, NeedsTerminal
<1>6. /\ emit_stack' = Pushed(emit_stack, CellOf(c)) /\ emit_term' = NotExist
      /\ UNCHANGED <<emit_status, emit_lang, emit_idx, printed>>
  BY <1>3, <1>5 DEF EmitShift
<1>7. reductions' = reductions /\ Loop' = Loop
  BY <1>6, ProgramInputsKept DEF Loop
<1>8. HeldBy(Loop.width, emit_stack', d.stack)
  BY <1>1, <1>2, <1>3, <1>4, <1>6, LoopFacts, PushHeld DEF Pushed, Positions
<1> QED BY <1>1, <1>2, <1>6, <1>7, <1>8 DEF Follows

LEMMA FollowReduce ==
  ASSUME LangInv, InputsStay, ProgramNext, emit_status = "running",
         rules \in Grammars, reductions \in Seq(Nat),
         NEW c \in Config, NEW d \in Config, ReduceStep(c, d), Follows(c)
  PROVE  emit_status' = "running" /\ emit_lang' = emit_lang /\ Follows(d)'
<1>0. PICK r, h, b, w, k : /\ r = CellOf(c) - ReduceBase
                           /\ h = rules[r].head /\ b = Len(rules[r].body)
                           /\ w = Loop.width /\ k = c.done
  OBVIOUS
<1>1. /\ c.term # NotExist /\ Len(c.stack) >= 1 /\ TopOf(c.stack) # NotExist
      /\ d.idx = c.idx /\ d.term = c.term /\ CellOf(c) \in Int
      /\ CellOf(c) > ReduceBase /\ r \in DOMAIN rules
      /\ d.done = k + 1 /\ k < Len(reductions) /\ reductions[k + 1] = r
  BY <1>0 DEF ReduceStep, Acts
<1>2. PICK m \in 1 .. Len(c.stack) :
        /\ m = Len(c.stack) - b
        /\ c.stack[m] # NotExist
        /\ lalr_table[c.stack[m]][h] \in Int
        /\ d.stack = Append(SubSeq(c.stack, 1, m), lalr_table[c.stack[m]][h])
  BY <1>0 DEF ReduceStep
<1>3. /\ HeldBy(w, emit_stack, c.stack) /\ emit_idx = c.idx
      /\ emit_term = c.term /\ printed = SubSeq(reductions, 1, k)
  BY <1>0 DEF Follows
<1>4. ~OutsideTable /\ EmitCell = CellOf(c) /\ c.stack \in Seq(Int) /\ k \in Nat
  BY <1>0, <1>1, FollowFacts
<1>5. ~(CellOf(c) <= ReduceBase) /\ CellOf(c) # NotExist
  BY <1>1, ReduceBaseAssumption DEF NotExist
<1>6. EmitReduce
  BY <1>1, <1>3, <1>4, <1>5 DEF ProgramNext, StartProgram, EmitRead, EmitAbort, EmitEnd,
     EmitEndless, EmitShift, EmitShifting, NeedsTerminal
<1>7. PICK below : below = SubSeq(emit_stack, 1, Len(emit_stack) - w * b)
  OBVIOUS
<1>8. w \in {1, 3} /\ b \in Nat /\ Len(c.stack) \in Nat
  BY <1>0, <1>1, <1>4, LoopFacts, RuleFacts
<1>9. below = SubSeq(emit_stack, 1, w * m)
  <2>1. Len(emit_stack) = w * Len(c.stack)
    BY <1>3 DEF HeldBy
  <2>2. PICK n : n = Len(c.stack)
    OBVIOUS
  <2>3. n \in Nat /\ m = n - b
    BY <1>2, <1>8, <2>2
  <2>4. w * n - w * b = w * m
    BY <1>8, <2>3
  <2> QED BY <1>7, <2>1, <2>2, <2>4
<1>10. HeldBy(w, below, SubSeq(c.stack, 1, m))
  BY <1>3, <1>4, <1>8, <1>9, CutHeld
<1>11. SubSeq(c.stack, 1, m) \in Seq(Int) /\ Len(SubSeq(c.stack, 1, m)) = m
       /\ SubSeq(c.stack, 1, m)[m] = c.stack[m] /\ m \in Nat /\ m >= 1
  BY <1>4
<1>12. TopState(below) = c.stack[m]
  BY <1>0, <1>8, <1>10, <1>11, TopHeld DEF TopState
<1>13. EmittedAction(below, h) = lalr_table[c.stack[m]][h]
  BY <1>2, <1>12 DEF EmittedAction, TableCell
<1>14. /\ emit_stack' = Pushed(below, EmittedAction(below, h))
       /\ printed' = Append(printed, r)
       /\ UNCHANGED <<emit_status, emit_lang, emit_idx, emit_term>>
  BY <1>0, <1>4, <1>6, <1>7 DEF EmitReduce, Removed
<1>15. reductions' = reductions /\ Loop' = Loop
  BY <1>14, ProgramInputsKept DEF Loop
<1>16. HeldBy(w, emit_stack', d.stack)
  BY <1>0, <1>2, <1>8, <1>10, <1>11, <1>13, <1>14, PushHeld DEF Pushed, Positions
<1>17. printed' = SubSeq(reductions, 1, k + 1)
  <2>1. PICK R : R = reductions OBVIOUS
  <2>2. R \in Seq(Nat) /\ k \in Nat /\ k < Len(R) /\ R[k + 1] = r /\ Len(R) \in Nat
    BY <1>1, <1>4, <2>1
  <2>3. SubSeq(R, 1, k + 1) = Append(SubSeq(R, 1, k), R[k + 1])
    BY <2>2, SubSeqRecursiveSecond
  <2> QED BY <1>3, <1>14, <2>1, <2>2, <2>3
<1> QED BY <1>0, <1>1, <1>3, <1>14, <1>15, <1>16, <1>17 DEF Follows

Refused == run_status \in {"SYNTAX_ERROR", "UNRECOGNIZED_TERMINAL"}

(* Where the run has ended, the program ends or goes on alone. *)
EndedRight ==
  \/ emit_status = "ended" /\ run_status = "accepted" /\ printed = reductions
  \/ /\ emit_status = "aborted" /\ run_status # "accepted"
     /\ Loop.on_blank = "abort" /\ printed = reductions
  \/ emit_status \notin {"aborted", "idle"} /\ GoneOn

LEMMA EndsRight ==
  ASSUME ParserInv, HistoryInv, EndInv, LangInv, InputsStay, ProgramNext,
         emit_status = "running", Remembered, run_status = "accepted" \/ Refused,
         Follows(Now)
  PROVE  EndedRight' /\ emit_lang' = emit_lang
<1>1. /\ run_status # "wait" /\ reductions \in Seq(Nat)
      /\ ReadTo \in Nat /\ stop_idx \in Nat
  BY StackFacts DEF Refused, HistoryInv, ReadTo
<1>2. /\ Now \in Config /\ Now.stack = States /\ Now.idx = ReadTo
      /\ Now.term = ret_term /\ Now.done = Len(reductions) /\ Len(States) >= 1
      /\ TopOf(States) = LastOf(lalr_stack).state /\ CellOf(Now) = ParseAction
  BY <1>1, NowFacts DEF HistoryInv
<1>3. emit_idx = ReadTo /\ emit_term = ret_term /\ printed = reductions
  BY <1>1, <1>2, WholeSequence DEF Follows
<1>4. InState => ~OutsideTable /\ EmitCell = ParseAction
  BY <1>2, FollowFacts DEF InState
<1>5. UNCHANGED <<run_status, reductions>> /\ emit_lang' = emit_lang /\ Loop' = Loop
  <2>1. emit_lang' = emit_lang
    BY DEF ProgramNext, StartProgram, EmitRead, EmitAbort, EmitEnd, EmitShift,
       EmitEndless, EmitReduce
  <2> QED BY <2>1, ProgramInputsKept DEF Loop
<1>6. Loop.on_blank \in {"abort", "go_on"}
  BY LoopFacts
<1>7. ASSUME printed' = printed, emit_status' \notin {"aborted", "idle"},
             Loop.on_blank = "go_on", Refused
      PROVE  EndedRight'
  <2>1. printed' = reductions' /\ reductions' \in Seq(Nat)
    BY <1>1, <1>3, <1>5, <1>7
  <2>2. SubSeq(printed', 1, Len(reductions')) = reductions'
    BY <2>1, WholeSequence
  <2>3. GoneOn'
    BY <1>5, <1>7, <2>1, <2>2 DEF GoneOn, Refused
  <2> QED BY <1>7, <2>3 DEF EndedRight
<1>8. CASE run_status = "accepted"
  <2>1. ret_term = EndTerminal /\ InState /\ ParseAction \in 1 .. ReduceBase
    BY <1>8 DEF EndInv
  <2>2. ret_term # NotExist /\ ParseAction # NotExist /\ ~(ParseAction > ReduceBase)
    BY <2>1, NoTerminal, ParserRunAssumption, ReduceBaseAssumption DEF NotExist
  <2>3. EmitEnd
    BY <1>3, <1>4, <2>1, <2>2 DEF ProgramNext, StartProgram, EmitRead, EmitAbort,
       EmitShift, EmitEndless, EmitReduce, NeedsTerminal
  <2>4. emit_status' = "ended" /\ printed' = printed
    BY <2>3 DEF EmitEnd
  <2> QED BY <1>3, <1>5, <1>8, <2>4 DEF EndedRight
<1>9. CASE run_status = "SYNTAX_ERROR"
  <2>1. ret_term # NotExist /\ InState /\ ParseAction = NotExist
    BY <1>9 DEF EndInv
  <2>2. ~(EmitCell > ReduceBase) /\ EmitCell = NotExist /\ ~OutsideTable
    BY <1>4, <2>1, ReduceBaseAssumption DEF NotExist
  <2>3. EmitAbort \/ (Loop.on_blank = "go_on" /\ (EmitEnd \/ EmitShift))
    BY <1>3, <2>1, <2>2 DEF ProgramNext, StartProgram, EmitRead, NeedsTerminal,
       EmitEndless, EmitReduce, EmitEnd, EmitShift, EmitShifting
  <2>4. CASE EmitAbort
    <3>1. emit_status' = "aborted" /\ printed' = printed /\ Loop.on_blank = "abort"
      BY <2>4 DEF EmitAbort
    <3> QED BY <1>3, <1>5, <1>9, <3>1 DEF EndedRight
  <2>5. CASE Loop.on_blank = "go_on" /\ (EmitEnd \/ EmitShift)
    <3>1. emit_status' \in {"ended", "running"} /\ printed' = printed
      BY <2>5 DEF EmitEnd, EmitShift
    <3> QED BY <1>5, <1>7, <1>9, <2>5, <3>1 DEF Refused
  <2> QED BY <2>3, <2>4, <2>5
<1>10. CASE run_status = "UNRECOGNIZED_TERMINAL"
  <2>1. /\ ret_term = NotExist
        /\ ReadTo >= stop_idx => stop_answer = NotExist
        /\ ReadTo < stop_idx =>
             Len(answers) = ReadTo + 1 /\ answers[ReadTo + 1] = NotExist
    BY <1>10 DEF EndInv, ReadTo
  <2>2. EmitRead
    BY <1>3, <2>1 DEF ProgramNext, StartProgram, EmitAbort, EmitEnd, EmitShift,
       EmitEndless, EmitReduce, EmitShifting, HasTerminal
  <2>3. EmitAnswers = {NotExist}
    BY <1>1, <1>3, <2>1 DEF EmitAnswers
  <2>4. /\ printed' = printed
        /\ emit_status' = IF Loop.on_blank = "abort" THEN "aborted" ELSE "running"
    BY <2>2, <2>3 DEF EmitRead
  <2>5. CASE Loop.on_blank = "abort"
    BY <1>3, <1>5, <1>10, <2>4, <2>5 DEF EndedRight
  <2>6. CASE Loop.on_blank = "go_on"
    BY <1>5, <1>7, <1>10, <2>4, <2>6 DEF Refused
  <2> QED BY <1>6, <2>5, <2>6
<1> QED BY <1>8, <1>9, <1>10 DEF Refused

(* A program that has gone on alone prints no rule in front of those of the
   run. *)
LEMMA GoesOn ==
  ASSUME InputsStay, ProgramNext, reductions \in Seq(Nat),
         emit_status \notin {"aborted", "idle"}, GoneOn
  PROVE  emit_status' \notin {"aborted", "idle"} /\ GoneOn' /\ emit_lang' = emit_lang
<1>1. Loop.on_blank # "abort"
  BY DEF GoneOn
<1>2. emit_status' \notin {"aborted", "idle"} /\ emit_lang' = emit_lang
  BY <1>1 DEF ProgramNext, StartProgram, EmitRead, EmitAbort, EmitEnd, EmitShift,
     EmitEndless, EmitReduce, Running, HasTerminal, NeedsTerminal, EmitShifting
<1>3. UNCHANGED <<run_status, reductions>> /\ Loop' = Loop
  BY <1>2, ProgramInputsKept DEF Loop
<1>4. \/ printed' = printed
      \/ \E r : printed' = Append(printed, r)
  BY DEF ProgramNext, StartProgram, EmitRead, EmitAbort, EmitEnd, EmitShift,
     EmitEndless, EmitReduce
<1>5. CASE printed' = printed
  BY <1>2, <1>3, <1>5 DEF GoneOn
<1>6. ASSUME NEW r, printed' = Append(printed, r)
      PROVE  GoneOn'
  <2>1. PICK S : printed \in Seq(S)
    BY DEF GoneOn
  <2>2. PICK T, p, n : T = S \union {r} /\ p = printed /\ n = Len(reductions)
    OBVIOUS
  <2>3. /\ p \in Seq(T) /\ r \in T /\ n \in Nat /\ n <= Len(p) /\ Len(p) \in Nat
        /\ SubSeq(p, 1, n) = reductions
    <3>1. S \subseteq T BY <2>2
    <3>2. p \in Seq(T) BY <2>1, <2>2, <3>1, SeqMonotonic
    <3> QED BY <2>2, <3>2 DEF GoneOn
  <2>4. PICK q : q = Append(p, r)
    OBVIOUS
  <2>5. q \in Seq(T) /\ Len(q) = Len(p) + 1 /\ \A i \in 1 .. Len(p) : q[i] = p[i]
    BY <2>3, <2>4, Appended
  <2>6. SubSeq(q, 1, n) = SubSeq(p, 1, n)
    BY <2>3, <2>5
  <2>7. printed' = q /\ n <= Len(q)
    BY <1>6, <2>2, <2>3, <2>4, <2>5
  <2> QED BY <1>3, <2>2, <2>3, <2>5, <2>6, <2>7 DEF GoneOn
<1> QED BY <1>2, <1>4, <1>5, <1>6

LEMMA StartFollows ==
  ASSUME ParserInv, RunRemembered, InputsStay, StartProgram,
         emit_idx = 0, emit_term = NotExist, printed = <<>>
  PROVE  /\ Remembered' /\ LangInv' /\ emit_status' = "running"
         /\ (run_status = "accepted" \/ Refused)' /\ InTrace'
<1>1. /\ Remembered /\ (run_status = "accepted" \/ Refused)
      /\ emit_status' = "running" /\ emit_lang' \in EmitLanguages
      /\ emit_stack' = [i \in 1 .. Loop'.width |-> IF i = 1 THEN 1 ELSE NotExist]
      /\ UNCHANGED <<emit_idx, emit_term, printed>>
  BY DEF StartProgram, Refused
<1>2. /\ UNCHANGED <<run_status, reductions>> /\ Remembered' = Remembered /\ Now' = Now
      /\ \A tr, n : IsTrace(tr, n)' = IsTrace(tr, n)
  BY ProgramInputsKept
<1>3. LangInv'
  BY <1>1, EmittedAssumption DEF LangInv
<1>4. PICK w : w = Loop'.width
  OBVIOUS
<1>5. w \in {1, 3}
  BY <1>3, <1>4 DEF LangInv, Loop, cc_loop, rust_loop, awk_loop, js_loop, php_loop
<1>6. PICK tr, n : IsTrace(tr, n) /\ tr[n] = Now
  BY <1>1 DEF RunRemembered, TraceInv, Refused
<1>7. tr[0] = FirstConfig /\ n \in Nat /\ 0 \in 0 .. n
  BY <1>6 DEF IsTrace
<1>8. PICK es : es = emit_stack'
  OBVIOUS
<1>9. es \in [1 .. w -> Int] /\ es[1] = 1
  BY <1>1, <1>4, <1>5, <1>8 DEF NotExist
<1>10. es \in Seq(Int) /\ Len(es) = w
  BY <1>5, <1>9
<1>11. HeldBy(w, es, <<1>>)
  <2>1. Len(<<1>>) = 1 /\ <<1>>[1] = 1 /\ w * 1 = w /\ w * (1 - 1) + 1 = 1
    BY <1>5
  <2> QED BY <1>9, <1>10, <2>1 DEF HeldBy
<1>12. SubSeq(reductions, 1, 0) = <<>>
  BY DEF RunRemembered, HistoryInv
<1>13. Follows(FirstConfig)'
  BY <1>1, <1>2, <1>4, <1>8, <1>11, <1>12 DEF Follows, FirstConfig
<1>14. InTrace'
  BY <1>1, <1>2, <1>6, <1>7, <1>13 DEF InTrace
<1> QED BY <1>1, <1>2, <1>3, <1>14 DEF Refused

(* A program in the trace goes on to the next place, or ends with the run. *)
LEMMA InTraceGoesOn ==
  ASSUME ParserInv, HistoryInv, EndInv, LangInv, InputsStay, ProgramNext, Remembered,
         run_status = "accepted" \/ Refused, InTrace
  PROVE  (InTrace' \/ EndedRight') /\ emit_lang' = emit_lang
<1>1. PICK tr, n : \E k \in 0 .. n : IsTrace(tr, n) /\ tr[n] = Now /\ Follows(tr[k])
  BY DEF InTrace
<1>2. PICK k \in 0 .. n : IsTrace(tr, n) /\ tr[n] = Now /\ Follows(tr[k])
  BY <1>1
<1>3. tr \in [Nat -> Config] /\ n \in Nat /\ k \in Nat /\ emit_status = "running"
  BY <1>2 DEF IsTrace, InTrace
<1>4. CASE k = n
  BY <1>2, <1>3, <1>4, EndsRight
<1>5. CASE k # n
  <2>1. k \in 0 .. n - 1 /\ k + 1 \in 0 .. n /\ k + 1 \in Nat
    BY <1>3, <1>5
  <2>2. PICK c, d : c = tr[k] /\ d = tr[k + 1]
    OBVIOUS
  <2>3. c \in Config /\ d \in Config /\ StepOf(c, d) /\ Follows(c)
    BY <1>2, <1>3, <2>1, <2>2 DEF IsTrace
  <2>4. stop_idx \in Nat /\ rules \in Grammars /\ reductions \in Seq(Nat)
    BY StackFacts DEF HistoryInv
  <2>5. emit_status' = "running" /\ emit_lang' = emit_lang /\ Follows(d)'
    BY <1>3, <2>3, <2>4, FollowRead, FollowShift, FollowReduce DEF StepOf
  <2>6. IsTrace(tr, n)' /\ tr[n] = Now'
    BY <1>2, ProgramInputsKept
  <2>7. InTrace'
    BY <2>1, <2>2, <2>5, <2>6 DEF InTrace
  <2> QED BY <2>5, <2>7
<1> QED BY <1>4, <1>5

LEMMA ProgramKeeps ==
  ASSUME EmittedInv, ProgramNext, InputsStay
  PROVE  EmittedInv'
<1>0. /\ ParserInv /\ HistoryInv /\ EndInv /\ TraceInv /\ LangInv /\ ProgramInv
      /\ RunRemembered
  BY DEF EmittedInv, RunRemembered
<1>1. /\ UNCHANGED <<run_status, lalr_stack, old_input_idx, input_idx, stop_idx, ret_term,
                     stop_answer, lalr_table, rules, answers, reductions>>
      /\ Remembered' = Remembered /\ Now' = Now
      /\ \A tr, n : IsTrace(tr, n)' = IsTrace(tr, n)
  BY ProgramInputsKept
<1>2. ParserInv'
  BY <1>0, NextParserInv DEF InputsStay
<1>3. HistoryInv' /\ TraceInv'
  BY <1>0, <1>1 DEF HistoryInv, TraceInv
<1>4. EndInv'
  <2>1. InState' = InState /\ ParseAction' = ParseAction
    BY <1>1 DEF InState, ParseAction, LastOf
  <2> QED BY <1>0, <1>1, <2>1 DEF EndInv
<1>5. LangInv' /\ ProgramInv'
  <2>1. CASE emit_status = "idle"
    <3>1. StartProgram /\ emit_idx = 0 /\ emit_term = NotExist /\ printed = <<>>
      BY <1>0, <2>1 DEF ProgramInv, ProgramNext, EmitRead, EmitAbort, EmitEnd, EmitShift,
         EmitEndless, EmitReduce, Running, HasTerminal, NeedsTerminal, EmitShifting
    <3>2. /\ Remembered' /\ LangInv' /\ emit_status' = "running"
          /\ (run_status = "accepted" \/ Refused)' /\ InTrace'
      BY <1>0, <3>1, StartFollows
    <3> QED BY <3>2 DEF ProgramInv, Refused
  <2>2. CASE emit_status # "idle"
    <3>1. Remembered /\ (run_status = "accepted" \/ Refused) /\ (InTrace \/ EndedRight)
      BY <1>0, <2>2 DEF ProgramInv, Refused, EndedRight
    <3>2. (InTrace' \/ EndedRight') /\ emit_lang' = emit_lang
      <4>1. CASE InTrace
        BY <1>0, <3>1, <4>1, InTraceGoesOn
      <4>2. CASE emit_status \notin {"aborted", "idle"} /\ GoneOn
        BY <1>0, <4>2, GoesOn DEF HistoryInv, EndedRight
      <4>3. CASE emit_status \in {"ended", "aborted"}
        BY <2>2, <4>3 DEF ProgramNext, StartProgram, EmitRead, EmitAbort, EmitEnd,
           EmitShift, EmitEndless, EmitReduce, Running, HasTerminal, NeedsTerminal,
           EmitShifting
      <4> QED BY <3>1, <4>1, <4>2, <4>3 DEF EndedRight
    <3>3. emit_status' # "idle"
      BY <3>2 DEF InTrace, EndedRight
    <3>4. Remembered' /\ (run_status = "accepted" \/ Refused)'
      BY <1>1, <3>1 DEF Refused
    <3> QED BY <1>0, <3>2, <3>3, <3>4 DEF ProgramInv, EndedRight, LangInv, Refused
  <2> QED BY <2>1, <2>2
<1> QED BY <1>2, <1>3, <1>4, <1>5 DEF EmittedInv

-----------------------------------------------------------------------------
LEMMA InterpreterKeepsAll ==
  ASSUME EmittedInv, InterpreterStep
  PROVE  EmittedInv'
<1>1. /\ ParserInv /\ RunRemembered /\ LangInv /\ ProgramInv
      /\ UNCHANGED programVars
  BY DEF EmittedInv, RunRemembered, InterpreterStep
<1>2. ParserInv'
  BY <1>1, NextParserInv DEF InterpreterStep
<1>3. RunRemembered' /\ run_status \in {"wait", "running"}
  BY <1>1, InterpreterKeeps
<1>4. emit_status = "idle"
  BY <1>1, <1>3 DEF ProgramInv
<1>5. LangInv' /\ ProgramInv'
  BY <1>1, <1>4 DEF LangInv, ProgramInv, programVars
<1> QED BY <1>2, <1>3, <1>5 DEF EmittedInv, RunRemembered

LEMMA NothingHappens ==
  ASSUME EmittedInv, UNCHANGED emittedVars
  PROVE  EmittedInv'
<1>1. /\ InputsStay /\ UNCHANGED programVars
  BY DEF emittedVars, InputsStay
<1>2. /\ UNCHANGED <<run_status, lalr_stack, old_input_idx, input_idx, stop_idx, ret_term,
                     stop_answer, lalr_table, rules, answers, reductions>>
      /\ Remembered' = Remembered /\ Now' = Now
      /\ \A tr, n : IsTrace(tr, n)' = IsTrace(tr, n)
  BY <1>1, ProgramInputsKept
<1>3. ParserInv'
  BY <1>1, NextParserInv DEF InputsStay, EmittedInv
<1>4. HistoryInv' /\ TraceInv' /\ LangInv'
  BY <1>1, <1>2 DEF EmittedInv, HistoryInv, TraceInv, LangInv, programVars
<1>5. EndInv'
  <2>1. InState' = InState /\ ParseAction' = ParseAction
    BY <1>2 DEF InState, ParseAction, LastOf
  <2> QED BY <1>2, <2>1 DEF EmittedInv, EndInv
<1>6. ProgramInv'
  <2>1. /\ UNCHANGED <<emit_status, emit_lang, emit_stack, emit_idx, emit_term, printed>>
        /\ Loop' = Loop
    BY <1>1 DEF programVars, Loop
  <2>2. \A c : Follows(c)' = Follows(c)
    BY <1>2, <2>1 DEF Follows
  <2>3. InTrace' = InTrace /\ GoneOn' = GoneOn
    BY <1>2, <2>1, <2>2 DEF InTrace, GoneOn
  <2> QED BY <1>2, <2>1, <2>3 DEF EmittedInv, ProgramInv
<1> QED BY <1>3, <1>4, <1>5, <1>6 DEF EmittedInv

LEMMA NextEmittedInv == EmittedInv /\ [EmittedNext]_emittedVars => EmittedInv'
BY InterpreterKeepsAll, ProgramKeeps, NothingHappens DEF EmittedNext, InputsStay

LEMMA InitEmittedInv == EmittedInit => EmittedInv
<1> SUFFICES ASSUME EmittedInit PROVE EmittedInv
  OBVIOUS
<1>1. /\ ParserInit /\ run_status = "wait" /\ answers = <<>> /\ reductions = <<>>
      /\ input_idx = 0
      /\ emit_status = "idle" /\ emit_lang = "cc" /\ emit_idx = 0
      /\ emit_term = NotExist /\ printed = <<>>
  BY DEF EmittedInit, ParserInit, RunInit
<1>2. ParserInv
  BY <1>1, InitParserInv
<1>3. HistoryInv
  BY <1>1 DEF HistoryInv
<1> QED BY <1>1, <1>2, <1>3 DEF EmittedInv, EndInv, TraceInv, LangInv, ProgramInv

(* What a program has done, and what the run it follows has done, at every
   moment of either: the invariant behind ProgramsAgree. *)
THEOREM EmittedInvariant == EmittedSpec => []EmittedInv
<1> QED BY InitEmittedInv, NextEmittedInv, PTL DEF EmittedSpec

LEMMA InvAgrees == EmittedInv => EmittedAgrees
<1> SUFFICES ASSUME EmittedInv PROVE EmittedAgrees
  OBVIOUS
<1>1. ProgramInv /\ reductions \in Seq(Nat) /\ LangInv
  BY DEF EmittedInv, HistoryInv
<1>2. PrefixOf(reductions, reductions) /\ Len(reductions) \in Nat
  BY <1>1, WholeSequence DEF PrefixOf
<1>3. CASE emit_status = "idle"
  <2>1. printed = <<>>
    BY <1>1, <1>3 DEF ProgramInv
  <2>2. PrefixOf(printed, reductions)
    BY <1>1, <2>1 DEF PrefixOf
  <2> QED BY <1>3, <2>2 DEF EmittedAgrees
<1>4. CASE emit_status # "idle" /\ InTrace
  <2>1. emit_status = "running"
    BY <1>4 DEF InTrace
  <2>2. PICK tr, n : \E k \in 0 .. n : IsTrace(tr, n) /\ Follows(tr[k])
    BY <1>4 DEF InTrace
  <2>3. PICK k \in 0 .. n : IsTrace(tr, n) /\ Follows(tr[k])
    BY <2>2
  <2>4. tr[k] \in Config /\ tr[k].done <= Len(reductions)
    BY <2>3 DEF IsTrace
  <2>5. PICK m, R : m = tr[k].done /\ R = reductions
    OBVIOUS
  <2>6. m \in Nat /\ m <= Len(R) /\ R \in Seq(Nat) /\ printed = SubSeq(R, 1, m)
    BY <1>1, <2>3, <2>4, <2>5 DEF Config, Follows
  <2>7. Len(printed) = m
    BY <2>6
  <2>8. PrefixOf(printed, reductions)
    BY <2>5, <2>6, <2>7 DEF PrefixOf
  <2> QED BY <2>1, <2>8 DEF EmittedAgrees
<1>5. CASE emit_status # "idle" /\ GoneOn
  BY <1>5 DEF EmittedAgrees, GoneOn, PrefixOf
<1>6. CASE /\ printed = reductions
           /\ \/ emit_status = "ended" /\ run_status = "accepted"
              \/ /\ emit_status = "aborted" /\ run_status # "accepted"
                 /\ Loop.on_blank = "abort"
  BY <1>2, <1>6 DEF EmittedAgrees
<1> QED BY <1>1, <1>3, <1>4, <1>5, <1>6 DEF ProgramInv

(* A written program of every language does what parse_source_string did on
   the same text: it prints the rules that were reduced, ends where the run
   ended, and refuses what it refused, for every grammar and text. *)
THEOREM ProgramsAgree == EmittedSpec => []EmittedAgrees
<1> QED BY EmittedInvariant, InvAgrees, PTL
=============================================================================
