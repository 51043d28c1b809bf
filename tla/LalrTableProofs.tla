-------------------------- MODULE LalrTableProofs ---------------------------
(***************************************************************************)
(* From the grammar to the table, for every grammar. First come the lemmas *)
(* about grammars, FIRST and derivations that the modules above this one   *)
(* cite.                                                                   *)
(* compute_firsts computes FIRST: its inductive invariant says where the   *)
(* walk over the growing array stands. Everything in front of position     *)
(* fs_idx has had all its rules looked at, position fs_idx has had the     *)
(* rules in front of r_idx, and nothing got into the array but what FIRST  *)
(* allows. Of compute_follows: what its arrays hold may follow their       *)
(* nonterminals, a set marked as created is complete, and so is the set a  *)
(* recursion was started for, although inner calls leave out the heads     *)
(* that the recursion has been in.                                         *)
(* The kernels: the automaton is entered under one symbol per kernel and   *)
(* no move is missing, although kernels grow while they are expanded; a    *)
(* kernel that was expanded does not change. Then the construction of the  *)
(* table in its four steps: the table says what the kernels and the FOLLOW *)
(* sets say, no cell is written twice, and a table that is handed on lacks *)
(* nothing.                                                                *)
(***************************************************************************)
EXTENDS LalrTable, SequenceTheorems, TLAPS

LEMMA SymbolKinds ==
  /\ Symbols = Terminals \union Nonterminals
  /\ Nonterminals \subseteq Int
  /\ \A n \in Nonterminals : n \in Nat /\ n >= TermCount
  /\ TermCount \in Nonterminals
BY CountAssumption DEF Symbols, Terminals, Nonterminals

(* Every rule of a grammar has a head and a body that is not empty. *)
LEMMA RuleFacts ==
  ASSUME NEW g \in Grammars
  PROVE  /\ g \in Seq(Rule)
         /\ Len(g) \in Nat \ {0}
         /\ DOMAIN g = 1 .. Len(g)
         /\ \A r \in 1 .. Len(g) :
              /\ g[r].head \in Nonterminals
              /\ g[r].body \in Seq(Symbols)
              /\ Len(g[r].body) \in Nat \ {0}
              /\ g[r].body[1] \in Symbols
<1>1. /\ g \in Seq(Rule) /\ g # <<>>
      /\ \A r \in DOMAIN g : g[r].body # <<>>
  BY GrammarAssumption DEF IsGrammar
<1>2. Len(g) \in Nat \ {0} /\ DOMAIN g = 1 .. Len(g)
  BY <1>1
<1>3. ASSUME NEW r \in 1 .. Len(g)
      PROVE  /\ g[r].head \in Nonterminals
             /\ g[r].body \in Seq(Symbols)
             /\ Len(g[r].body) \in Nat \ {0}
             /\ g[r].body[1] \in Symbols
  <2>1. g[r] \in Rule /\ g[r].body # <<>>
    BY <1>1, <1>2, <1>3
  <2>2. g[r].head \in Nonterminals /\ g[r].body \in Seq(Symbols)
    BY <2>1 DEF Rule
  <2>3. Len(g[r].body) \in Nat \ {0}
    BY <2>1, <2>2
  <2> QED
    BY <2>2, <2>3
<1> QED
  BY <1>1, <1>2, <1>3

LEMMA FirstSubset ==
  ASSUME NEW g, NEW x
  PROVE  First(g, x) \subseteq Symbols
BY DEF First

LEMMA FirstHoldsSelf ==
  ASSUME NEW g, NEW x \in Symbols
  PROVE  x \in First(g, x)
BY DEF First

(* FIRST is closed under the first body symbols of its members' rules ... *)
LEMMA FirstIsClosed ==
  ASSUME NEW g \in Grammars, NEW x \in Symbols,
         NEW r \in DOMAIN g, g[r].head \in First(g, x)
  PROVE  g[r].body[1] \in First(g, x)
<1>1. g[r].body[1] \in Symbols
  BY RuleFacts
<1>2. ASSUME NEW S \in SUBSET Symbols, x \in S, FirstClosed(g, S)
      PROVE  g[r].body[1] \in S
  <2>1. g[r].head \in S
    BY <1>2 DEF First
  <2> QED
    BY <1>2, <2>1 DEF FirstClosed
<1> QED
  BY <1>1, <1>2 DEF First

(* ... and no larger than any set that is. *)
LEMMA FirstIsLeast ==
  ASSUME NEW g, NEW x, NEW S \in SUBSET Symbols, x \in S, FirstClosed(g, S)
  PROVE  First(g, x) \subseteq S
BY DEF First

LEMMA FirstOfTerminal ==
  ASSUME NEW g \in Grammars, NEW t \in Terminals
  PROVE  First(g, t) = {t}
<1>1. t \in Symbols /\ \A h \in Nonterminals : h # t
  BY SymbolKinds, CountAssumption DEF Terminals, Nonterminals
<1>2. FirstClosed(g, {t})
  BY <1>1, RuleFacts DEF FirstClosed
<1>3. First(g, t) \subseteq {t}
  BY <1>1, <1>2, FirstIsLeast
<1> QED
  BY <1>1, <1>3, FirstHoldsSelf

-----------------------------------------------------------------------------
(* FOLLOW holds what stands behind the nonterminal ... *)
LEMMA FollowHoldsDirect ==
  ASSUME NEW g, NEW n \in Nonterminals
  PROVE  DirectFollow(g, n) \subseteq Follow(g, n)
<1>1. n \in HeadsAbove(g, n)
  BY DEF HeadsAbove
<1> QED
  BY <1>1 DEF Follow

(* ... and all of FOLLOW of the heads of the rules that it ends. *)
LEMMA FollowTakesHeads ==
  ASSUME NEW g, NEW n \in Nonterminals, NEW h \in EndHeads(g, n)
  PROVE  Follow(g, h) \subseteq Follow(g, n)
<1>1. HeadsAbove(g, h) \subseteq HeadsAbove(g, n)
  <2> SUFFICES ASSUME NEW m \in HeadsAbove(g, h),
                      NEW S \in SUBSET Nonterminals, n \in S, EndClosed(g, S)
               PROVE  m \in Nonterminals /\ m \in S
    BY DEF HeadsAbove
  <2>1. h \in S
    BY DEF EndClosed
  <2> QED
    BY <2>1 DEF HeadsAbove
<1> QED
  BY <1>1 DEF Follow

(* It is no larger than a set that holds both for some nonterminals, whose
   heads are among them or have their FOLLOW in the set as well. *)
LEMMA FollowIsLeast ==
  ASSUME NEW g, NEW D, NEW U \in SUBSET Nonterminals, NEW n \in U,
         \A m \in U : DirectFollow(g, m) \subseteq D,
         \A m \in U : \A h \in EndHeads(g, m) :
            h \in U \/ Follow(g, h) \subseteq D
  PROVE  Follow(g, n) \subseteq D
<1> DEFINE Inside == {m \in Nonterminals : Follow(g, m) \subseteq D}
           S == U \union Inside
<1>1. S \in SUBSET Nonterminals /\ n \in S
  OBVIOUS
<1>2. \A m, h : h \in EndHeads(g, m) => h \in Nonterminals
  BY DEF EndHeads
<1>3. EndClosed(g, S)
  <2> SUFFICES ASSUME NEW m \in S, NEW h \in EndHeads(g, m)
               PROVE  h \in S
    BY DEF EndClosed
  <2>1. CASE m \in U
    BY <1>2, <2>1
  <2>2. CASE m \in Inside
    BY <1>2, <2>2, FollowTakesHeads
  <2> QED
    BY <2>1, <2>2
<1>4. HeadsAbove(g, n) \subseteq S
  BY <1>1, <1>3 DEF HeadsAbove
<1>5. \A m \in S : DirectFollow(g, m) \subseteq D
  BY FollowHoldsDirect
<1> QED
  BY <1>4, <1>5 DEF Follow

-----------------------------------------------------------------------------
(* A text derives itself, and a head what its body derives. *)
LEMMA DerivesItself ==
  ASSUME NEW g, NEW w \in Seq(Terminals)
  PROVE  Derives(g, w, w)
BY DEF Derives, DeriveClosed

LEMMA DerivesByRule ==
  ASSUME NEW g, NEW r \in DOMAIN g, NEW a \in Seq(Symbols), NEW z \in Seq(Symbols),
         NEW w \in Seq(Terminals), Derives(g, a \o g[r].body \o z, w)
  PROVE  Derives(g, a \o <<g[r].head>> \o z, w)
BY DEF Derives, DeriveClosed

-----------------------------------------------------------------------------
(* Rule r was looked at while one of its head's positions was expanded. *)
LookedAt(r) ==
  \E j \in DOMAIN first_set :
    /\ first_set[j] = rules[r].head
    /\ j < fs_idx \/ (j = fs_idx /\ r < r_idx)

ScanInv ==
  /\ rules \in Grammars
  /\ non_idx \in Nonterminals
  /\ first_set \in Seq(Symbols)
  /\ fs_idx \in 1 .. Len(first_set) + 1
  /\ r_idx \in 1 .. Len(rules) + 1
  /\ fs_idx > Len(first_set) => r_idx = 1

ScanOrder ==
  /\ Len(first_set) >= 1 /\ first_set[1] = non_idx
  /\ Distinct(first_set)

ScanSound == \A j \in DOMAIN first_set : first_set[j] \in First(rules, non_idx)

ScanComplete ==
  \A r \in DOMAIN rules :
    LookedAt(r) => \E j \in DOMAIN first_set : first_set[j] = rules[r].body[1]

(* The whole invariant of the set, while nonterminals are left. *)
SetInv == ~FirstsDone => ScanInv /\ ScanOrder /\ ScanSound /\ ScanComplete

StoredInv ==
  /\ rules \in Grammars
  /\ non_idx \in TermCount .. (TermCount + NontermCount)
  /\ firsts \in [Nonterminals -> Seq(Symbols)]
  /\ FirstsExact

FirstInv == SetInv /\ StoredInv

-----------------------------------------------------------------------------
LEMMA InitFirstInv == FirstInit => FirstInv
<1> SUFFICES ASSUME FirstInit PROVE FirstInv
  OBVIOUS
<1> USE DEF FirstInit
<1>1. rules \in Grammars /\ Len(rules) \in Nat
  BY RuleFacts
<1>2. TermCount \in Nonterminals /\ TermCount \in Symbols
  BY SymbolKinds
<1>3. /\ first_set \in Seq(Symbols) /\ Len(first_set) = 1
      /\ first_set[1] = TermCount /\ DOMAIN first_set = {1}
  BY <1>2
<1>4. ScanInv /\ ScanOrder
  BY <1>1, <1>2, <1>3 DEF ScanInv, ScanOrder, Distinct
<1>5. ScanSound
  BY <1>2, <1>3, FirstHoldsSelf DEF ScanSound
<1>6. ScanComplete
  BY <1>1, <1>3, RuleFacts DEF ScanComplete, LookedAt
<1>7. StoredInv
  BY <1>1, CountAssumption DEF StoredInv, FirstsExact, Nonterminals
<1> QED
  BY <1>4, <1>5, <1>6, <1>7 DEF FirstInv, SetInv

(* What a turn of the loop over the rules does to the set. *)
LEMMA ScanRuleKeepsSet ==
  ASSUME ScanInv, ScanOrder, ScanSound, ScanComplete, ScanRule
  PROVE  ScanInv' /\ ScanOrder' /\ ScanSound' /\ ScanComplete'
<1> DEFINE rule == rules[r_idx]
           e == rules[r_idx].body[1]
<1> USE DEF ScanInv
<1>1. /\ r_idx \in DOMAIN rules /\ DOMAIN rules = 1 .. Len(rules)
      /\ Len(rules) \in Nat
      /\ e \in Symbols
      /\ fs_idx \in DOMAIN first_set /\ DOMAIN first_set = 1 .. Len(first_set)
      /\ Len(first_set) \in Nat
  BY RuleFacts DEF ScanRule
<1>2. /\ rules' = rules /\ non_idx' = non_idx /\ fs_idx' = fs_idx
      /\ r_idx' = r_idx + 1
  BY DEF ScanRule
<1>3. CASE first_set' = Append(first_set, e)
           /\ rule.head = first_set[fs_idx]
           /\ e \notin ElementsOf(first_set)
  <2>1. /\ Len(first_set') = Len(first_set) + 1
        /\ first_set' \in Seq(Symbols)
        /\ DOMAIN first_set' = 1 .. Len(first_set) + 1
        /\ first_set'[Len(first_set) + 1] = e
        /\ \A j \in 1 .. Len(first_set) : first_set'[j] = first_set[j]
    BY <1>1, <1>3
  <2>2. \A j \in 1 .. Len(first_set) : first_set[j] # e
    BY <1>1, <1>3 DEF ElementsOf
  <2>3. ScanInv'
    BY <1>1, <1>2, <2>1 DEF ScanRule
  <2>4. ScanOrder'
    BY <1>1, <1>2, <2>1, <2>2 DEF ScanOrder, Distinct
  <2>5. e \in First(rules, non_idx)
    BY <1>1, <1>3, FirstIsClosed, SymbolKinds DEF ScanSound
  <2>6. ScanSound'
    BY <1>1, <1>2, <2>1, <2>5 DEF ScanSound
  <2>7. ASSUME NEW r \in DOMAIN rules, LookedAt(r)'
        PROVE  \E j \in DOMAIN first_set' : first_set'[j] = rules[r].body[1]
    <3>1. PICK j \in 1 .. Len(first_set) + 1 :
            /\ first_set'[j] = rules[r].head
            /\ j < fs_idx \/ (j = fs_idx /\ r < r_idx + 1)
      BY <1>2, <2>1, <2>7 DEF LookedAt
    <3>2. j \in DOMAIN first_set /\ first_set[j] = rules[r].head
      BY <1>1, <2>1, <3>1
    <3>3. CASE r = r_idx
      BY <2>1, <3>3, <1>1
    <3>4. CASE r # r_idx
      <4>1. r < r_idx + 1 => r < r_idx
        BY <1>1, <3>4
      <4>2. LookedAt(r)
        BY <3>1, <3>2, <4>1 DEF LookedAt
      <4>3. PICK i \in DOMAIN first_set : first_set[i] = rules[r].body[1]
        BY <4>2 DEF ScanComplete
      <4>4. i \in DOMAIN first_set' /\ first_set'[i] = rules[r].body[1]
        BY <4>3, <1>1, <2>1
      <4> QED
        BY <4>4
    <3> QED
      BY <3>3, <3>4
  <2>8. ScanComplete'
    BY <1>2, <2>7 DEF ScanComplete
  <2> QED
    BY <2>3, <2>4, <2>6, <2>8
<1>4. CASE first_set' = first_set
           /\ (rule.head = first_set[fs_idx] => e \in ElementsOf(first_set))
  <2>1. ScanInv'
    BY <1>1, <1>2, <1>4 DEF ScanRule
  <2>2. ScanOrder' /\ ScanSound'
    BY <1>2, <1>4 DEF ScanOrder, ScanSound, Distinct
  <2>3. ASSUME NEW r \in DOMAIN rules, LookedAt(r)'
        PROVE  \E j \in DOMAIN first_set : first_set[j] = rules[r].body[1]
    <3>1. PICK j \in DOMAIN first_set :
            /\ first_set[j] = rules[r].head
            /\ j < fs_idx \/ (j = fs_idx /\ r < r_idx + 1)
      BY <1>2, <1>4, <2>3 DEF LookedAt
    <3>2. CASE j = fs_idx /\ r = r_idx
      BY <3>1, <3>2, <1>4 DEF ElementsOf
    <3>3. CASE ~(j = fs_idx /\ r = r_idx)
      <4>1. j < fs_idx \/ (j = fs_idx /\ r < r_idx)
        BY <1>1, <3>1, <3>3
      <4>2. LookedAt(r)
        BY <3>1, <4>1 DEF LookedAt
      <4> QED
        BY <4>2 DEF ScanComplete
    <3> QED
      BY <3>2, <3>3
  <2>4. ScanComplete'
    BY <1>2, <1>4, <2>3 DEF ScanComplete
  <2> QED
    BY <2>1, <2>2, <2>4
<1> QED
  BY <1>3, <1>4 DEF ScanRule, AddSymbol, AddRule

(* Moving on to the next element keeps everything looked at so far. *)
LEMMA NextElementKeepsSet ==
  ASSUME ScanInv, ScanOrder, ScanSound, ScanComplete, NextElement
  PROVE  ScanInv' /\ ScanOrder' /\ ScanSound' /\ ScanComplete'
<1> USE DEF ScanInv
<1>1. /\ rules' = rules /\ non_idx' = non_idx /\ first_set' = first_set
      /\ fs_idx' = fs_idx + 1 /\ r_idx' = 1
      /\ fs_idx <= Len(first_set)
      /\ first_set[fs_idx] \in Terminals \/ r_idx > Len(rules)
  BY DEF NextElement
<1>2. /\ DOMAIN first_set = 1 .. Len(first_set) /\ Len(first_set) \in Nat
      /\ DOMAIN rules = 1 .. Len(rules) /\ Len(rules) \in Nat
  BY RuleFacts
<1>3. ScanInv'
  BY <1>1, <1>2
<1>4. ScanOrder' /\ ScanSound'
  BY <1>1 DEF ScanOrder, ScanSound, Distinct
<1>5. ASSUME NEW r \in DOMAIN rules, LookedAt(r)' PROVE LookedAt(r)
  <2>1. PICK j \in DOMAIN first_set :
          /\ first_set[j] = rules[r].head
          /\ j < fs_idx + 1 \/ (j = fs_idx + 1 /\ r < 1)
    BY <1>1, <1>5 DEF LookedAt
  <2>2. rules[r].head \notin Terminals
    BY <1>2, RuleFacts, CountAssumption DEF Terminals, Nonterminals
  <2>3. j < fs_idx \/ (j = fs_idx /\ r < r_idx)
    BY <1>1, <1>2, <2>1, <2>2
  <2> QED
    BY <2>1, <2>3 DEF LookedAt
<1>6. ScanComplete'
  BY <1>1, <1>5 DEF ScanComplete
<1> QED
  BY <1>3, <1>4, <1>6

(* When the walk is over, what it leaves behind is FIRST. *)
LEMMA FinishedSetIsFirst ==
  ASSUME ScanInv, ScanOrder, ScanSound, ScanComplete, fs_idx > Len(first_set)
  PROVE  ElementsOf(first_set) = First(rules, non_idx)
<1> USE DEF ScanInv
<1> DEFINE S == ElementsOf(first_set)
<1>1. /\ DOMAIN first_set = 1 .. Len(first_set) /\ Len(first_set) \in Nat
      /\ S \subseteq Symbols
  BY DEF ElementsOf
<1>2. S \subseteq First(rules, non_idx)
  BY DEF ScanSound, ElementsOf
<1>3. non_idx \in S
  BY <1>1 DEF ScanOrder, ElementsOf
<1>4. FirstClosed(rules, S)
  <2>1. SUFFICES ASSUME NEW r \in DOMAIN rules, rules[r].head \in S
                 PROVE  rules[r].body[1] \in S
    BY DEF FirstClosed
  <2>2. LookedAt(r)
    BY <1>1, <2>1 DEF LookedAt, ElementsOf
  <2> QED
    BY <2>2 DEF ScanComplete, ElementsOf
<1>5. First(rules, non_idx) \subseteq S
  BY <1>1, <1>3, <1>4, FirstIsLeast
<1> QED
  BY <1>2, <1>5

LEMMA StoreFirstKeepsInv == FirstInv /\ StoreFirst => FirstInv'
<1> SUFFICES ASSUME FirstInv, StoreFirst PROVE FirstInv'
  OBVIOUS
<1>1. ScanInv /\ ScanOrder /\ ScanSound /\ ScanComplete /\ StoredInv
  BY DEF FirstInv, SetInv, StoreFirst
<1>2. /\ rules' = rules /\ non_idx' = non_idx + 1
      /\ first_set' = <<non_idx + 1>> /\ fs_idx' = 1 /\ r_idx' = 1
      /\ firsts' = [firsts EXCEPT ![non_idx] = first_set]
      /\ rules \in Grammars /\ non_idx \in Nonterminals
      /\ first_set \in Seq(Symbols)
  BY <1>1 DEF StoreFirst, ScanInv
<1>3. ElementsOf(first_set) = First(rules, non_idx)
  BY <1>1, FinishedSetIsFirst DEF StoreFirst
<1>4. StoredInv'
  <2>1. firsts' \in [Nonterminals -> Seq(Symbols)]
    BY <1>1, <1>2 DEF StoredInv
  <2>2. ASSUME NEW n \in Nonterminals, n < non_idx'
        PROVE  ElementsOf(firsts'[n]) = First(rules', n)
    <3>1. CASE n = non_idx
      BY <1>1, <1>2, <1>3, <3>1 DEF StoredInv
    <3>2. CASE n # non_idx
      <4>1. n < non_idx /\ firsts'[n] = firsts[n]
        BY <1>1, <1>2, <2>2, <3>2, SymbolKinds DEF StoredInv
      <4> QED
        BY <1>1, <1>2, <4>1 DEF StoredInv, FirstsExact
    <3> QED
      BY <3>1, <3>2
  <2>3. FirstsExact'
    BY <2>2 DEF FirstsExact
  <2> QED
    BY <1>2, <2>1, <2>3, CountAssumption DEF StoredInv, Nonterminals
<1>5. SetInv'
  <2> SUFFICES ASSUME ~FirstsDone'
               PROVE  ScanInv' /\ ScanOrder' /\ ScanSound' /\ ScanComplete'
    BY DEF SetInv
  <2>1. non_idx' \in Nonterminals /\ non_idx' \in Symbols
    BY <1>2, CountAssumption DEF FirstsDone, Nonterminals, Symbols
  <2>2. /\ first_set' \in Seq(Symbols) /\ Len(first_set') = 1
        /\ DOMAIN first_set' = {1} /\ first_set'[1] = non_idx'
    BY <1>2, <2>1
  <2>3. ScanInv' /\ ScanOrder'
    BY <1>2, <2>1, <2>2, RuleFacts DEF ScanInv, ScanOrder, Distinct
  <2>4. ScanSound'
    BY <1>2, <2>1, <2>2, FirstHoldsSelf DEF ScanSound
  <2>5. ScanComplete'
    BY <1>2, <2>2, RuleFacts DEF ScanComplete, LookedAt
  <2> QED
    BY <2>3, <2>4, <2>5
<1> QED
  BY <1>4, <1>5 DEF FirstInv

LEMMA NextFirstInv == FirstInv /\ [FirstNext]_firstVars => FirstInv'
<1> SUFFICES ASSUME FirstInv, [FirstNext]_firstVars PROVE FirstInv'
  OBVIOUS
<1>1. CASE ScanRule
  <2>1. SetInv'
    BY <1>1, ScanRuleKeepsSet DEF FirstInv, SetInv, ScanRule
  <2> QED
    BY <1>1, <2>1 DEF FirstInv, StoredInv, FirstsExact, ScanRule
<1>2. CASE NextElement
  <2>1. SetInv'
    BY <1>2, NextElementKeepsSet DEF FirstInv, SetInv, NextElement
  <2> QED
    BY <1>2, <2>1 DEF FirstInv, StoredInv, FirstsExact, NextElement
<1>3. CASE StoreFirst
  BY <1>3, StoreFirstKeepsInv
<1>4. CASE UNCHANGED firstVars
  BY <1>4 DEF FirstInv, SetInv, StoredInv, FirstsExact, FirstsDone, ScanInv,
              ScanOrder, ScanSound, ScanComplete, LookedAt, firstVars, scanVars
<1> QED
  BY <1>1, <1>2, <1>3, <1>4 DEF FirstNext

LEMMA FirstInvHolds == FirstSpec => []FirstInv
BY InitFirstInv, NextFirstInv, PTL DEF FirstSpec

(* Whatever the grammar, a set that compute_firsts stores is FIRST of its
   nonterminal: nothing is missing although the array is extended while the
   loop walks over it, and nothing is there that no derivation begins with. *)
THEOREM FirstsExactTheorem == FirstSpec => []FirstsExact
<1>1. FirstInv => FirstsExact
  BY DEF FirstInv, StoredInv
<1> QED
  BY <1>1, FirstInvHolds, PTL

-----------------------------------------------------------------------------
(* The rule lists beside the set: list j names, once each, the rules that
   were looked at so far and begin with symbol j. *)

Looked == {r \in DOMAIN rules : LookedAt(r)}

ListOK(list, e, L) ==
  /\ list \in Seq(DOMAIN rules)
  /\ Distinct(list)
  /\ ElementsOf(list) = {r \in L : rules[r].body[1] = e}

Lists ==
  /\ first_rule_sets \in Seq(Seq(DOMAIN rules))
  /\ Len(first_rule_sets) = Len(first_set)
  /\ \A j \in 1 .. Len(first_set) :
       ListOK(first_rule_sets[j], first_set[j], Looked)

LEMMA AppendNew ==
  ASSUME NEW S, NEW list \in Seq(S), NEW x \in S,
         Distinct(list), x \notin ElementsOf(list)
  PROVE  /\ Append(list, x) \in Seq(S)
         /\ Distinct(Append(list, x))
         /\ ElementsOf(Append(list, x)) = ElementsOf(list) \union {x}
<1> DEFINE more == Append(list, x)
<1>1. /\ more \in Seq(S)
      /\ Len(list) \in Nat
      /\ DOMAIN list = 1 .. Len(list)
      /\ DOMAIN more = 1 .. Len(list) + 1
      /\ more[Len(list) + 1] = x
      /\ \A i \in 1 .. Len(list) : more[i] = list[i]
  OBVIOUS
<1>2. \A i \in 1 .. Len(list) : list[i] # x
  BY <1>1 DEF ElementsOf
<1> HIDE DEF more
<1>3. \A i \in 1 .. Len(list) + 1 : i = Len(list) + 1 \/ i \in 1 .. Len(list)
  BY <1>1
<1>4. Distinct(more)
  BY <1>1, <1>2, <1>3 DEF Distinct
<1>5. ElementsOf(more) = ElementsOf(list) \union {x}
  <2>1. ElementsOf(more) \subseteq ElementsOf(list) \union {x}
    BY <1>1, <1>3 DEF ElementsOf
  <2>2. ElementsOf(list) \subseteq ElementsOf(more)
    <3>1. 1 .. Len(list) \subseteq 1 .. Len(list) + 1
      BY <1>1
    <3> QED
      BY <1>1, <3>1 DEF ElementsOf
  <2>3. x \in ElementsOf(more)
    BY <1>1 DEF ElementsOf
  <2> QED
    BY <2>1, <2>2, <2>3
<1> QED
  BY <1>1, <1>4, <1>5 DEF more

(* A turn of the rule loop looks at one more rule, for the first time, if
   the rule is one of the element at hand. *)
LEMMA ScanRuleLooksAtOne ==
  ASSUME ScanInv, ScanOrder, ScanRule
  PROVE  IF rules[r_idx].head = first_set[fs_idx]
           THEN Looked' = Looked \union {r_idx} /\ r_idx \notin Looked
           ELSE Looked' = Looked
<1> USE DEF ScanInv
<1>1. /\ DOMAIN rules = 1 .. Len(rules) /\ Len(rules) \in Nat
      /\ DOMAIN first_set = 1 .. Len(first_set) /\ Len(first_set) \in Nat
      /\ fs_idx <= Len(first_set) /\ r_idx <= Len(rules)
      /\ rules' = rules /\ fs_idx' = fs_idx /\ r_idx' = r_idx + 1
  BY RuleFacts DEF ScanRule
<1>2. /\ DOMAIN first_set \subseteq DOMAIN first_set'
      /\ \A j \in DOMAIN first_set' :
           (j < fs_idx \/ j = fs_idx) => j \in DOMAIN first_set
      /\ \A j \in DOMAIN first_set : first_set'[j] = first_set[j]
  <2>1. CASE first_set' = first_set
    BY <2>1
  <2>2. CASE first_set' = Append(first_set, rules[r_idx].body[1])
    BY <1>1, <2>2
  <2> QED
    BY <2>1, <2>2 DEF ScanRule, AddSymbol, AddRule
<1>3. ASSUME NEW r \in DOMAIN rules
      PROVE  LookedAt(r)' <=> \/ LookedAt(r)
                              \/ r = r_idx /\ rules[r].head = first_set[fs_idx]
  <2>1. LookedAt(r)' <=>
          \E j \in DOMAIN first_set :
            /\ first_set[j] = rules[r].head
            /\ j < fs_idx \/ (j = fs_idx /\ r < r_idx + 1)
    BY <1>1, <1>2 DEF LookedAt
  <2>2. r < r_idx + 1 <=> r < r_idx \/ r = r_idx
    BY <1>1
  <2>3. ASSUME LookedAt(r)'
        PROVE  LookedAt(r) \/ (r = r_idx /\ rules[r].head = first_set[fs_idx])
    <3>1. PICK j \in DOMAIN first_set :
            /\ first_set[j] = rules[r].head
            /\ j < fs_idx \/ (j = fs_idx /\ r < r_idx + 1)
      BY <2>1, <2>3
    <3> QED
      BY <2>2, <3>1 DEF LookedAt
  <2>4. ASSUME r = r_idx, rules[r].head = first_set[fs_idx]
        PROVE  LookedAt(r)'
    <3>1. fs_idx \in DOMAIN first_set
      BY <1>1
    <3> QED
      BY <2>1, <2>2, <2>4, <3>1
  <2>5. ASSUME LookedAt(r) PROVE LookedAt(r)'
    BY <2>1, <2>2, <2>5 DEF LookedAt
  <2> QED
    BY <2>3, <2>4, <2>5, Zenon
<1>4. ASSUME rules[r_idx].head = first_set[fs_idx], LookedAt(r_idx)
      PROVE  FALSE
  <2>1. PICK j \in DOMAIN first_set :
          /\ first_set[j] = first_set[fs_idx]
          /\ j < fs_idx \/ (j = fs_idx /\ r_idx < r_idx)
    BY <1>4 DEF LookedAt
  <2>2. j = fs_idx
    BY <1>1, <2>1 DEF ScanOrder, Distinct
  <2> QED
    BY <1>1, <2>1, <2>2
<1>5. r_idx \in DOMAIN rules
  BY <1>1
<1>6. Looked' = {r \in DOMAIN rules :
                   \/ LookedAt(r)
                   \/ r = r_idx /\ rules[r].head = first_set[fs_idx]}
  <2>1. Looked' = {r \in DOMAIN rules : LookedAt(r)'}
    BY <1>1 DEF Looked
  <2> QED
    BY <1>3, <2>1, Zenon
<1>7. CASE rules[r_idx].head = first_set[fs_idx]
  BY <1>4, <1>5, <1>6, <1>7 DEF Looked
<1>8. CASE rules[r_idx].head # first_set[fs_idx]
  BY <1>6, <1>8 DEF Looked
<1> QED
  BY <1>7, <1>8

LEMMA ScanRuleKeepsLists ==
  ASSUME ScanInv, ScanOrder, ScanComplete, Lists, ScanRule
  PROVE  Lists'
<1> DEFINE e == rules[r_idx].body[1]
           n == Len(first_set)
<1> USE DEF ScanInv
<1>1. /\ DOMAIN rules = 1 .. Len(rules)
      /\ DOMAIN first_set = 1 .. n /\ n \in Nat
      /\ r_idx \in DOMAIN rules /\ rules' = rules
      /\ e \in Symbols
      /\ first_rule_sets \in Seq(Seq(DOMAIN rules))
      /\ DOMAIN first_rule_sets = 1 .. n
      /\ Len(first_rule_sets) = n
  BY RuleFacts DEF ScanRule, Lists
<1>2. \A j \in 1 .. n :
        /\ first_rule_sets[j] \in Seq(DOMAIN rules)
        /\ Distinct(first_rule_sets[j])
        /\ ElementsOf(first_rule_sets[j])
             = {r \in Looked : rules[r].body[1] = first_set[j]}
  BY DEF Lists, ListOK
<1>3. CASE rules[r_idx].head # first_set[fs_idx]
  <2>1. UNCHANGED <<first_set, first_rule_sets>>
    BY <1>3 DEF ScanRule
  <2>2. Looked' = Looked
    BY <1>3, ScanRuleLooksAtOne
  <2> QED
    BY <1>1, <2>1, <2>2 DEF Lists, ListOK
<1>4. ASSUME rules[r_idx].head = first_set[fs_idx]
      PROVE  /\ Looked' = Looked \union {r_idx}
             /\ r_idx \notin Looked
  BY <1>4, ScanRuleLooksAtOne
<1>5. CASE rules[r_idx].head = first_set[fs_idx] /\ AddSymbol(e)
  <2>1. /\ first_set' = Append(first_set, e)
        /\ first_rule_sets' = Append(first_rule_sets, <<r_idx>>)
        /\ e \notin ElementsOf(first_set)
    BY <1>5 DEF AddSymbol
  <2>2. <<r_idx>> \in Seq(DOMAIN rules)
    BY <1>1
  <2>3. /\ first_rule_sets' \in Seq(Seq(DOMAIN rules))
        /\ Len(first_rule_sets') = n + 1
        /\ first_rule_sets'[n + 1] = <<r_idx>>
        /\ \A j \in 1 .. n : first_rule_sets'[j] = first_rule_sets[j]
    BY <1>1, <2>1, <2>2
  <2>4. /\ Len(first_set') = n + 1
        /\ first_set'[n + 1] = e
        /\ \A j \in 1 .. n : first_set'[j] = first_set[j]
        /\ \A j \in 1 .. n : first_set[j] # e
    <3>1. \A j \in 1 .. n : first_set[j] # e
      BY <1>1, <2>1 DEF ElementsOf
    <3> QED
      BY <1>1, <2>1, <3>1
  <2>5. ASSUME NEW j \in 1 .. n
        PROVE  ListOK(first_rule_sets[j], first_set[j], Looked')
    BY <1>2, <1>4, <1>5, <2>4 DEF ListOK
  <2>6. ListOK(<<r_idx>>, e, Looked')
    <3>1. ElementsOf(<<r_idx>>) = {r_idx} /\ Distinct(<<r_idx>>)
      BY <1>1 DEF ElementsOf, Distinct
    <3>2. \A r \in Looked : rules[r].body[1] # e
      <4>1. ASSUME NEW r \in Looked PROVE rules[r].body[1] # e
        <5>1. PICK j \in DOMAIN first_set : first_set[j] = rules[r].body[1]
          BY DEF Looked, ScanComplete
        <5> QED
          BY <2>1, <5>1 DEF ElementsOf
      <4> QED
        BY <4>1
    <3>3. {r \in Looked \union {r_idx} : rules[r].body[1] = e} = {r_idx}
      BY <3>2
    <3> QED
      BY <1>4, <1>5, <2>2, <3>1, <3>3 DEF ListOK
  <2>7. \A j \in 1 .. n + 1 : j = n + 1 \/ j \in 1 .. n
    BY <1>1
  <2>8. \A j \in 1 .. n + 1 :
          ListOK(first_rule_sets'[j], first_set'[j], Looked')
    BY <2>3, <2>4, <2>5, <2>6, <2>7
  <2> QED
    BY <1>1, <2>3, <2>4, <2>8 DEF Lists, ListOK
<1>6. CASE rules[r_idx].head = first_set[fs_idx] /\ AddRule(e)
  <2>1. /\ first_set' = first_set
        /\ first_rule_sets' = [i \in 1 .. n |->
                                 IF first_set[i] = e
                                   THEN Append(first_rule_sets[i], r_idx)
                                   ELSE first_rule_sets[i]]
    BY <1>1, <1>6 DEF AddRule
  <2>2. ASSUME NEW j \in 1 .. n
        PROVE  ListOK(first_rule_sets'[j], first_set[j], Looked')
    <3>1. CASE first_set[j] = e
      <4>1. r_idx \notin ElementsOf(first_rule_sets[j])
        BY <1>2, <1>4, <1>6
      <4>2. /\ Append(first_rule_sets[j], r_idx) \in Seq(DOMAIN rules)
            /\ Distinct(Append(first_rule_sets[j], r_idx))
            /\ ElementsOf(Append(first_rule_sets[j], r_idx))
                 = ElementsOf(first_rule_sets[j]) \union {r_idx}
        <5>1. /\ first_rule_sets[j] \in Seq(DOMAIN rules)
              /\ Distinct(first_rule_sets[j])
              /\ r_idx \in DOMAIN rules
          BY <1>1, <1>2
        <5> HIDE DEF ScanInv
        <5> QED
          BY <4>1, <5>1, AppendNew
      <4>3. ElementsOf(first_rule_sets[j]) \union {r_idx}
              = {r \in Looked \union {r_idx} :
                   rules[r].body[1] = first_set[j]}
        BY <1>2, <3>1
      <4> QED
        BY <1>4, <1>6, <2>1, <3>1, <4>2, <4>3 DEF ListOK
    <3>2. CASE first_set[j] # e
      <4>1. first_rule_sets'[j] = first_rule_sets[j]
        BY <2>1, <3>2
      <4> QED
        BY <1>2, <1>4, <1>6, <3>2, <4>1 DEF ListOK
    <3> QED
      BY <3>1, <3>2
  <2>3. /\ \A j \in 1 .. n : first_rule_sets'[j] \in Seq(DOMAIN rules)
        /\ Len(first_rule_sets') = n
        /\ first_rule_sets' \in Seq(Seq(DOMAIN rules))
    <3>1. \A j \in 1 .. n : first_rule_sets'[j] \in Seq(DOMAIN rules)
      BY <2>2 DEF ListOK
    <3>2. first_rule_sets' \in [1 .. n -> Seq(DOMAIN rules)]
      BY <2>1, <3>1
    <3> QED
      BY <1>1, <3>1, <3>2
  <2> QED
    BY <1>1, <2>1, <2>2, <2>3 DEF Lists, ListOK
<1> QED
  BY <1>3, <1>5, <1>6 DEF ScanRule

LEMMA NextElementKeepsLists ==
  ASSUME ScanInv, Lists, NextElement
  PROVE  Lists'
<1> USE DEF ScanInv
<1>1. /\ rules' = rules /\ first_set' = first_set
      /\ first_rule_sets' = first_rule_sets
      /\ fs_idx' = fs_idx + 1 /\ r_idx' = 1
      /\ first_set[fs_idx] \in Terminals \/ r_idx > Len(rules)
      /\ fs_idx \in Nat /\ r_idx \in Nat
      /\ DOMAIN first_set = 1 .. Len(first_set) /\ Len(first_set) \in Nat
      /\ DOMAIN rules = 1 .. Len(rules) /\ Len(rules) \in Nat
  BY RuleFacts DEF NextElement
<1>2. ASSUME NEW r \in DOMAIN rules
      PROVE  LookedAt(r)' <=> LookedAt(r)
  <2>1. LookedAt(r)' <=>
          \E j \in DOMAIN first_set :
            /\ first_set[j] = rules[r].head
            /\ j < fs_idx + 1 \/ (j = fs_idx + 1 /\ r < 1)
    BY <1>1 DEF LookedAt
  <2>2. rules[r].head \notin Terminals /\ r \in Nat /\ ~(r < 1)
    BY <1>1, RuleFacts, CountAssumption DEF Terminals, Nonterminals
  <2>3. ASSUME NEW j \in DOMAIN first_set, first_set[j] = rules[r].head
        PROVE  j < fs_idx + 1 \/ (j = fs_idx + 1 /\ r < 1)
                 <=> j < fs_idx \/ (j = fs_idx /\ r < r_idx)
    BY <1>1, <2>2, <2>3
  <2> QED
    BY <2>1, <2>3 DEF LookedAt
<1>3. Looked' = Looked
  <2>1. Looked' = {r \in DOMAIN rules : LookedAt(r)'}
    BY <1>1 DEF Looked
  <2> QED
    BY <1>2, <2>1, Zenon DEF Looked
<1> QED
  BY <1>1, <1>3 DEF Lists, ListOK

(* When the walk is over, list j is complete. *)
LEMMA FinishedListsAreExact ==
  ASSUME ScanInv, ScanOrder, ScanSound, ScanComplete, Lists,
         fs_idx > Len(first_set)
  PROVE  \A j \in 1 .. Len(first_set) :
           /\ ElementsOf(first_rule_sets[j])
                = RulesBeginningWith(rules, non_idx, first_set[j])
           /\ Distinct(first_rule_sets[j])
<1>1. ElementsOf(first_set) = First(rules, non_idx)
  BY FinishedSetIsFirst
<1>2. Looked = {r \in DOMAIN rules : rules[r].head \in First(rules, non_idx)}
  <2>1. DOMAIN first_set = 1 .. Len(first_set) /\ Len(first_set) \in Nat
    BY DEF ScanInv
  <2>2. ASSUME NEW r \in DOMAIN rules
        PROVE  LookedAt(r) <=> rules[r].head \in ElementsOf(first_set)
    <3>1. \A j \in DOMAIN first_set : j < fs_idx
      BY <2>1 DEF ScanInv
    <3> QED
      BY <3>1 DEF LookedAt, ElementsOf
  <2> QED
    BY <1>1, <2>2 DEF Looked
<1> QED
  BY <1>2 DEF Lists, ListOK, RulesBeginningWith

-----------------------------------------------------------------------------
(* What the arrays hold when no nonterminal is left. *)
AtRest ==
  /\ first_set = <<TermCount + NontermCount>>
  /\ first_rule_sets = << <<>> >>
  /\ fs_idx = 1 /\ r_idx = 1

RuleInv ==
  /\ FirstInv
  /\ IF FirstsDone THEN AtRest ELSE Lists
  /\ first_rules \in [Nonterminals -> Seq(Seq(DOMAIN rules))]
  /\ FirstRulesExact

(* Where the walk for a nonterminal begins. *)
WalkBegins ==
  /\ ScanInv /\ ScanOrder
  /\ fs_idx = 1 /\ r_idx = 1
  /\ first_rule_sets = << <<>> >> /\ Len(first_set) = 1

LEMMA EmptyLists == WalkBegins => Lists
<1> SUFFICES ASSUME WalkBegins PROVE Lists
  OBVIOUS
<1> USE DEF WalkBegins
<1>1. Looked = {}
  <2>1. DOMAIN rules = 1 .. Len(rules) /\ Len(rules) \in Nat
        /\ DOMAIN first_set = {1}
    BY RuleFacts DEF ScanInv
  <2> QED
    BY <2>1 DEF Looked, LookedAt
<1>2. ListOK(<<>>, first_set[1], {})
  BY DEF ListOK, Distinct, ElementsOf
<1>3. << <<>> >> \in Seq(Seq(DOMAIN rules))
  OBVIOUS
<1> QED
  BY <1>1, <1>2, <1>3 DEF Lists

LEMMA InitRuleInv == FirstInit => RuleInv
<1> SUFFICES ASSUME FirstInit PROVE RuleInv
  OBVIOUS
<1>1. FirstInv /\ ~FirstsDone
  BY InitFirstInv, CountAssumption DEF FirstInit, FirstsDone
<1>2. ScanInv /\ ScanOrder
  BY <1>1 DEF FirstInv, SetInv
<1>3. Lists
  BY <1>2, EmptyLists DEF FirstInit, WalkBegins
<1>4. first_rules \in [Nonterminals -> Seq(Seq(DOMAIN rules))]
  BY DEF FirstInit
<1>5. FirstRulesExact
  BY CountAssumption DEF FirstRulesExact, FirstInit, Nonterminals
<1> QED
  BY <1>1, <1>3, <1>4, <1>5 DEF RuleInv

LEMMA StoreFirstKeepsRules == RuleInv /\ StoreFirst => RuleInv'
<1> SUFFICES ASSUME RuleInv, StoreFirst PROVE RuleInv'
  OBVIOUS
<1>1. /\ FirstInv /\ FirstInv' /\ Lists
      /\ ScanInv /\ ScanOrder /\ ScanSound /\ ScanComplete
  BY StoreFirstKeepsInv DEF RuleInv, FirstInv, SetInv, StoreFirst
<1>2. /\ rules' = rules /\ non_idx' = non_idx + 1
      /\ first_set' = <<non_idx + 1>> /\ first_rule_sets' = << <<>> >>
      /\ fs_idx' = 1 /\ r_idx' = 1
      /\ firsts' = [firsts EXCEPT ![non_idx] = first_set]
      /\ first_rules' = [first_rules EXCEPT ![non_idx] = first_rule_sets]
      /\ non_idx \in Nonterminals
      /\ fs_idx > Len(first_set)
      /\ firsts \in [Nonterminals -> Seq(Symbols)]
      /\ first_rules \in [Nonterminals -> Seq(Seq(DOMAIN rules))]
      /\ first_rule_sets \in Seq(Seq(DOMAIN rules))
  BY <1>1 DEF StoreFirst, ScanInv, FirstInv, StoredInv, RuleInv, Lists
<1>3. first_rules' \in [Nonterminals -> Seq(Seq(DOMAIN rules'))]
  BY <1>2
<1>4. ASSUME NEW n \in Nonterminals, n < non_idx'
      PROVE  /\ Parallel(firsts'[n], first_rules'[n])
             /\ firsts'[n] # <<>> /\ firsts'[n][1] = n
             /\ \A i \in DOMAIN firsts'[n] :
                  /\ ElementsOf(first_rules'[n][i])
                       = RulesBeginningWith(rules', n, firsts'[n][i])
                  /\ Distinct(first_rules'[n][i])
  <2>1. CASE n = non_idx
    <3>1. firsts'[n] = first_set /\ first_rules'[n] = first_rule_sets
      BY <1>2, <2>1
    <3>2. /\ DOMAIN first_set = 1 .. Len(first_set)
          /\ DOMAIN first_rule_sets = 1 .. Len(first_set)
          /\ Distinct(first_set) /\ first_set # <<>> /\ first_set[1] = non_idx
      BY <1>1 DEF ScanInv, ScanOrder, Lists
    <3>3. \A j \in 1 .. Len(first_set) :
            /\ ElementsOf(first_rule_sets[j])
                 = RulesBeginningWith(rules, non_idx, first_set[j])
            /\ Distinct(first_rule_sets[j])
      BY <1>1, <1>2, FinishedListsAreExact
    <3> QED
      BY <1>2, <2>1, <3>1, <3>2, <3>3 DEF Parallel
  <2>2. CASE n # non_idx
    <3>1. n < non_idx
      BY <1>2, <1>4, <2>2, SymbolKinds
    <3>2. firsts'[n] = firsts[n] /\ first_rules'[n] = first_rules[n]
      BY <1>2, <2>2
    <3>3. FirstRulesExact
      BY DEF RuleInv
    <3> QED
      BY <1>2, <3>1, <3>2, <3>3 DEF FirstRulesExact
  <2> QED
    BY <2>1, <2>2
<1>5. FirstRulesExact'
  BY <1>4 DEF FirstRulesExact
<1>6. CASE FirstsDone'
  <2>1. non_idx' = TermCount + NontermCount
    BY <1>1, <1>2, <1>6, CountAssumption
       DEF FirstsDone, Nonterminals
  <2>2. AtRest'
    BY <1>2, <2>1 DEF AtRest
  <2> QED
    BY <1>1, <1>3, <1>5, <1>6, <2>2 DEF RuleInv
<1>7. CASE ~FirstsDone'
  <2>1. (ScanInv /\ ScanOrder)'
    BY <1>1, <1>7 DEF FirstInv, SetInv
  <2>2. WalkBegins'
    BY <1>2, <2>1 DEF WalkBegins
  <2>3. Lists'
    BY <2>2, EmptyLists, PTL
  <2> QED
    BY <1>1, <1>3, <1>5, <1>7, <2>3 DEF RuleInv
<1> QED
  BY <1>6, <1>7

LEMMA NextRuleInv == RuleInv /\ [FirstNext]_firstVars => RuleInv'
<1> SUFFICES ASSUME RuleInv, [FirstNext]_firstVars PROVE RuleInv'
  OBVIOUS
<1>1. FirstInv /\ FirstInv'
  BY NextFirstInv DEF RuleInv
<1>2. ASSUME ScanRule \/ NextElement PROVE RuleInv'
  <2>1. ~FirstsDone /\ ~FirstsDone'
    BY <1>2 DEF ScanRule, NextElement, FirstsDone
  <2>2. ScanInv /\ ScanOrder /\ ScanComplete /\ Lists
    BY <1>1, <2>1 DEF FirstInv, SetInv, RuleInv
  <2>3. Lists'
    BY <1>2, <2>2, ScanRuleKeepsLists, NextElementKeepsLists
  <2>4. /\ first_rules' = first_rules /\ firsts' = firsts
        /\ rules' = rules /\ non_idx' = non_idx
    BY <1>2 DEF ScanRule, NextElement
  <2> QED
    BY <1>1, <2>1, <2>3, <2>4 DEF RuleInv, FirstRulesExact
<1>3. CASE StoreFirst
  BY <1>3, StoreFirstKeepsRules
<1>4. CASE UNCHANGED firstVars
  <2>1. UNCHANGED <<rules, non_idx, first_set, first_rule_sets, fs_idx, r_idx, firsts,
                    first_rules>>
    BY <1>4 DEF firstVars, scanVars
  <2>2. Looked' = Looked
    BY <2>1 DEF Looked, LookedAt
  <2>3. (Lists' <=> Lists) /\ (AtRest' <=> AtRest) /\ (FirstsDone' <=> FirstsDone)
    BY <2>1, <2>2 DEF Lists, ListOK, AtRest, FirstsDone
  <2>4. FirstRulesExact'
    BY <2>1 DEF RuleInv, FirstRulesExact
  <2> QED
    BY <1>1, <2>1, <2>3, <2>4 DEF RuleInv
<1> QED
  BY <1>2, <1>3, <1>4 DEF FirstNext

LEMMA RuleInvHolds == FirstSpec => []RuleInv
BY InitRuleInv, NextRuleInv, PTL DEF FirstSpec

(* Beside every symbol of a finished set stand all rules that begin with it
   and whose head is in the set, each once, and the nonterminal itself
   stands in front: compute_kernels goes by both. *)
THEOREM FirstRulesExactTheorem == FirstSpec => []FirstRulesExact
<1>1. RuleInv => FirstRulesExact
  BY DEF RuleInv
<1> QED
  BY <1>1, RuleInvHolds, PTL

(* The two arrays grow together and no symbol enters twice. *)
THEOREM FirstSetParallelTheorem == FirstSpec => []FirstSetParallel
<1>1. RuleInv => FirstSetParallel
  <2> SUFFICES ASSUME RuleInv PROVE FirstSetParallel
    OBVIOUS
  <2>1. CASE FirstsDone
    BY <2>1 DEF RuleInv, AtRest, FirstSetParallel, Parallel, Distinct
  <2>2. CASE ~FirstsDone
    BY <2>2 DEF RuleInv, Lists, FirstInv, SetInv, ScanInv, ScanOrder,
                FirstSetParallel, Parallel
  <2> QED
    BY <2>1, <2>2
<1> QED
  BY <1>1, RuleInvHolds, PTL

LEMMA FirstTypes == RuleInv => FirstTypeOK
<1> SUFFICES ASSUME RuleInv PROVE FirstTypeOK
  OBVIOUS
<1>1. /\ rules \in Grammars
      /\ Len(rules) \in Nat
      /\ non_idx \in TermCount .. (TermCount + NontermCount)
      /\ firsts \in [Nonterminals -> Seq(Symbols)]
      /\ first_rules \in [Nonterminals -> Seq(Seq(DOMAIN rules))]
  BY RuleFacts DEF RuleInv, FirstInv, StoredInv
<1>2. /\ first_set \in Seq(Symbols \union {TermCount + NontermCount})
      /\ first_rule_sets \in Seq(Seq(DOMAIN rules))
      /\ fs_idx \in Nat \ {0} /\ r_idx \in 1 .. (Len(rules) + 1)
  <2>1. CASE FirstsDone
    <3>1. << <<>> >> \in Seq(Seq(DOMAIN rules))
      OBVIOUS
    <3> QED
      <4>1. /\ first_set = <<TermCount + NontermCount>>
            /\ first_rule_sets = << <<>> >>
            /\ fs_idx = 1 /\ r_idx = 1
        BY <2>1 DEF RuleInv, AtRest
      <4>2. first_set \in Seq(Symbols \union {TermCount + NontermCount})
        BY <4>1
      <4> QED
        BY <1>1, <3>1, <4>1, <4>2
  <2>2. CASE ~FirstsDone
    <3>1. ScanInv /\ Lists
      BY <2>2 DEF RuleInv, FirstInv, SetInv
    <3>2. first_set \in Seq(Symbols \union {TermCount + NontermCount})
      BY <3>1 DEF ScanInv
    <3> QED
      BY <3>1, <3>2 DEF ScanInv, Lists
  <2> QED
    BY <2>1, <2>2
<1> QED
  BY <1>1, <1>2 DEF FirstTypeOK

(* Every array and index of compute_firsts keeps to its type. *)
THEOREM FirstTypeOKTheorem == FirstSpec => []FirstTypeOK
<1> QED
  BY FirstTypes, RuleInvHolds, PTL

-----------------------------------------------------------------------------
(* The loops of frame f are past position i of rule r. *)
Passed(f, r, i) == r < f.rule \/ (r = f.rule /\ i < f.pos)

(* What the calls that have not returned hold together.  It ends up in the
   set of the outermost one. *)
Held == UNION {follows[frames[k].nonterm] : k \in DOMAIN frames}

OnStack(m) == \E k \in DOMAIN frames : frames[k].nonterm = m

FrameOK(f) ==
  /\ f.nonterm \in Nonterminals /\ f.clean \in BOOLEAN
  /\ f.rule \in Nat \ {0} /\ f.pos \in Nat \ {0}
  /\ f.rule <= Len(rules) + 1
  /\ f.rule <= Len(rules) => f.pos <= Len(rules[f.rule].body)

FollowTypes ==
  /\ rules \in Grammars
  /\ follow_idx \in TermCount .. (TermCount + NontermCount)
  /\ frames \in Seq(FrameType)
  /\ \A k \in DOMAIN frames : FrameOK(frames[k])
  /\ nonterm_used \subseteq Nonterminals
  /\ follows_created \subseteq Nonterminals
  /\ follows \in [Nonterminals -> SUBSET Symbols]

(* The calls: the outermost for follow_idx, each for a head that is in use,
   called at the end of a rule of that head. *)
StackInv ==
  /\ \A k \in DOMAIN frames : frames[k].nonterm \in nonterm_used
  /\ frames # <<>> =>
       FirstsDone /\ follow_idx \in Nonterminals /\ frames[1].nonterm = follow_idx
  /\ \A k \in DOMAIN frames :
       k < Len(frames) =>
         /\ frames[k].rule <= Len(rules)
         /\ LET rule == rules[frames[k].rule]
            IN  /\ frames[k].pos = Len(rule.body)
                /\ rule.body[frames[k].pos] = frames[k].nonterm
                /\ rule.head = frames[k + 1].nonterm

(* What the loops of a call have made of the positions they are past: heads
   in use were left out, and all others are complete if the call is clean. *)
CallInv ==
  \A k \in DOMAIN frames, r \in DOMAIN rules :
    \A i \in 1 .. Len(rules[r].body) :
      Passed(frames[k], r, i) /\ rules[r].body[i] = frames[k].nonterm =>
        IF i < Len(rules[r].body)
          THEN First(rules, rules[r].body[i + 1]) \subseteq follows[frames[k].nonterm]
          ELSE /\ \/ rules[r].head \in nonterm_used
                  \/ Follow(rules, rules[r].head) \subseteq Held
               /\ frames[k].clean =>
                    Follow(rules, rules[r].head) \subseteq follows[frames[k].nonterm]

(* What the calls that returned have left with those that have not. *)
ReturnedInv ==
  frames # <<>> =>
    \A m \in nonterm_used :
      ~OnStack(m) =>
        /\ DirectFollow(rules, m) \subseteq Held
        /\ \A h \in EndHeads(rules, m) :
             h \in nonterm_used \/ Follow(rules, h) \subseteq Held

FollowInv ==
  /\ FirstInv /\ FollowTypes /\ StackInv /\ FollowsSound
  /\ CreatedComplete /\ CallInv /\ ReturnedInv

-----------------------------------------------------------------------------
LEMMA LastIndex ==
  ASSUME NEW L \in Nat, NEW j \in 1 .. L, j \notin 1 .. L - 1
  PROVE  j = L
OBVIOUS

LEMMA FirstsAreFirst ==
  ASSUME FirstInv, FirstsDone, NEW e \in Symbols
  PROVE  (IF e \in Terminals THEN {e} ELSE ElementsOf(firsts[e]))
           = First(rules, e)
<1>1. rules \in Grammars /\ FirstsExact
  BY DEF FirstInv, StoredInv
<1>2. CASE e \in Terminals
  BY <1>1, <1>2, FirstOfTerminal
<1>3. CASE e \notin Terminals
  <2>1. e \in Nonterminals BY <1>3, SymbolKinds
  <2>2. e < non_idx
    BY <2>1, CountAssumption DEF FirstsDone, Nonterminals, FirstInv, StoredInv
  <2> QED BY <1>1, <1>3, <2>1, <2>2 DEF FirstsExact
<1> QED BY <1>2, <1>3

(* The position behind the one of frame f. *)
LEMMA AdvanceFrame ==
  ASSUME rules \in Grammars, NEW f \in FrameType, FrameOK(f), f.rule <= Len(rules)
  PROVE  /\ Advance(f) \in FrameType /\ FrameOK(Advance(f))
         /\ Advance(f).nonterm = f.nonterm /\ Advance(f).clean = f.clean
         /\ \A r \in DOMAIN rules : \A i \in 1 .. Len(rules[r].body) :
              Passed(Advance(f), r, i) <=>
                Passed(f, r, i) \/ (r = f.rule /\ i = f.pos)
<1>1. /\ Len(rules) \in Nat /\ DOMAIN rules = 1 .. Len(rules)
      /\ \A r \in 1 .. Len(rules) : Len(rules[r].body) \in Nat \ {0}
  BY RuleFacts
<1>2. f = [nonterm |-> f.nonterm, rule |-> f.rule, pos |-> f.pos, clean |-> f.clean]
  BY DEF FrameType
<1>3. /\ f.rule \in 1 .. Len(rules) /\ f.pos \in 1 .. Len(rules[f.rule].body)
      /\ f.nonterm \in Nonterminals /\ f.clean \in BOOLEAN
  BY <1>1 DEF FrameOK, FrameType
<1>4. CASE f.pos < Len(rules[f.rule].body)
  <2>1. Advance(f) = [nonterm |-> f.nonterm, rule |-> f.rule, pos |-> f.pos + 1,
                      clean |-> f.clean]
    BY <1>2, <1>4 DEF Advance
  <2>2. Advance(f) \in FrameType /\ FrameOK(Advance(f))
    BY <1>1, <1>3, <1>4, <2>1 DEF FrameOK, FrameType
  <2> QED BY <1>1, <1>3, <1>4, <2>1, <2>2 DEF Passed
<1>5. CASE ~(f.pos < Len(rules[f.rule].body))
  <2>1. Advance(f) = [nonterm |-> f.nonterm, rule |-> f.rule + 1, pos |-> 1,
                      clean |-> f.clean]
    BY <1>2, <1>5 DEF Advance
  <2>2. Advance(f) \in FrameType /\ FrameOK(Advance(f))
    BY <1>1, <1>3, <2>1 DEF FrameOK, FrameType
  <2>3. f.pos = Len(rules[f.rule].body) BY <1>1, <1>3, <1>5
  <2> QED BY <1>1, <1>3, <2>1, <2>2, <2>3 DEF Passed
<1> QED BY <1>4, <1>5

-----------------------------------------------------------------------------
(* The call at k goes on behind its position: it is the top again, perhaps
   not clean any more, and has X added to its set. *)
MovesOn(k, clean, X) ==
  /\ k \in DOMAIN frames /\ frames[k].rule <= Len(rules)
  /\ clean \in BOOLEAN /\ (clean => frames[k].clean)
  /\ frames' = Append(SubSeq(frames, 1, k - 1),
                      Advance([frames[k] EXCEPT !.clean = clean]))
  /\ X \subseteq Follow(rules, frames[k].nonterm)
  /\ follows' = AddFollows(frames[k].nonterm, X)
  /\ UNCHANGED <<firstVars, follow_idx, nonterm_used>>

LEMMA FollowInSymbols ==
  ASSUME NEW g, NEW n PROVE Follow(g, n) \subseteq Symbols
BY DEF Follow, DirectFollow

LEMMA MovedFrames ==
  ASSUME FollowInv, NEW k, NEW clean, NEW X, MovesOn(k, clean, X)
  PROVE  /\ k \in 1 .. Len(frames) /\ Len(frames) \in Nat
         /\ frames' \in Seq(FrameType)
         /\ Len(frames') = k /\ DOMAIN frames' = 1 .. k
         /\ \A j \in 1 .. k : frames[j] \in FrameType /\ FrameOK(frames[j])
         /\ \A j \in 1 .. k - 1 : frames'[j] = frames[j]
         /\ FrameOK(frames'[k])
         /\ frames'[k].nonterm = frames[k].nonterm
         /\ frames'[k].clean = clean
         /\ \A r \in DOMAIN rules : \A i \in 1 .. Len(rules[r].body) :
              Passed(frames'[k], r, i) <=>
                \/ Passed(frames[k], r, i)
                \/ r = frames[k].rule /\ i = frames[k].pos
<1> DEFINE f == frames[k]
           g == [frames[k] EXCEPT !.clean = clean]
           below == SubSeq(frames, 1, k - 1)
<1>1. /\ FollowTypes /\ rules \in Grammars
      /\ Len(frames) \in Nat /\ DOMAIN frames = 1 .. Len(frames)
      /\ k \in 1 .. Len(frames) /\ f \in FrameType /\ FrameOK(f)
  BY DEF FollowInv, FollowTypes, MovesOn
<1>2. /\ g \in FrameType /\ FrameOK(g) /\ g.rule <= Len(rules)
      /\ g.nonterm = f.nonterm /\ g.clean = clean /\ g.rule = f.rule
      /\ g.pos = f.pos
  <2>1. f = [nonterm |-> f.nonterm, rule |-> f.rule, pos |-> f.pos, clean |-> f.clean]
    BY <1>1 DEF FrameType
  <2>2. g = [nonterm |-> f.nonterm, rule |-> f.rule, pos |-> f.pos, clean |-> clean]
    BY <2>1
  <2>3. clean \in BOOLEAN /\ f.rule <= Len(rules) BY DEF MovesOn
  <2>4. /\ g.nonterm = f.nonterm /\ g.clean = clean /\ g.rule = f.rule
        /\ g.pos = f.pos
    BY <2>2
  <2>5. g \in FrameType BY <1>1, <2>2, <2>3 DEF FrameType
  <2> QED BY <1>1, <2>3, <2>4, <2>5 DEF FrameOK
<1>3. /\ Advance(g) \in FrameType /\ FrameOK(Advance(g))
      /\ Advance(g).nonterm = f.nonterm /\ Advance(g).clean = clean
      /\ \A r \in DOMAIN rules : \A i \in 1 .. Len(rules[r].body) :
           Passed(Advance(g), r, i) <=> Passed(f, r, i) \/ (r = f.rule /\ i = f.pos)
  <2>1. \A r, i : Passed(g, r, i) <=> Passed(f, r, i)
    BY <1>2, Zenon DEF Passed
  <2> HIDE DEF g
  <2>2. /\ Advance(g) \in FrameType /\ FrameOK(Advance(g))
        /\ Advance(g).nonterm = g.nonterm /\ Advance(g).clean = g.clean
        /\ \A r \in DOMAIN rules : \A i \in 1 .. Len(rules[r].body) :
             Passed(Advance(g), r, i) <=>
               Passed(g, r, i) \/ (r = g.rule /\ i = g.pos)
    BY <1>1, <1>2, AdvanceFrame
  <2> QED BY <1>2, <2>1, <2>2, Zenon
<1>4. /\ below \in Seq(FrameType) /\ Len(below) = k - 1
      /\ \A j \in 1 .. k - 1 : below[j] = frames[j]
  BY <1>1 DEF FollowTypes
<1>5. frames' = Append(below, Advance(g))
  BY DEF MovesOn
<1> HIDE DEF below, g
<1>6. /\ frames' \in Seq(FrameType) /\ Len(frames') = k /\ DOMAIN frames' = 1 .. k
      /\ frames'[k] = Advance(g)
      /\ \A j \in 1 .. k - 1 : frames'[j] = frames[j]
  BY <1>1, <1>3, <1>4, <1>5
<1>7. \A j \in 1 .. k : frames[j] \in FrameType /\ FrameOK(frames[j])
  BY <1>1 DEF FollowTypes
<1> QED BY <1>1, <1>3, <1>6, <1>7

LEMMA MovedFollows ==
  ASSUME FollowInv, NEW k, NEW clean, NEW X, MovesOn(k, clean, X)
  PROVE  /\ follows' \in [Nonterminals -> SUBSET Symbols]
         /\ follows'[frames[k].nonterm] = follows[frames[k].nonterm] \union X
         /\ \A n \in Nonterminals : follows[n] \subseteq follows'[n]
         /\ FollowsSound'
<1>1. k \in 1 .. Len(frames) /\ frames[k].nonterm \in Nonterminals
  BY MovedFrames DEF FrameType, FrameOK
<1>2. follows \in [Nonterminals -> SUBSET Symbols] /\ FollowsSound
  BY DEF FollowInv, FollowTypes
<1>3. /\ follows' = [follows EXCEPT ![frames[k].nonterm] = @ \union X]
      /\ rules' = rules /\ X \subseteq Follow(rules, frames[k].nonterm)
  BY DEF MovesOn, AddFollows, firstVars
<1>4. X \subseteq Symbols BY <1>3, FollowInSymbols
<1> HIDE DEF MovesOn
<1>5. \A n \in Nonterminals :
        follows'[n] = IF n = frames[k].nonterm THEN follows[n] \union X ELSE follows[n]
  BY <1>1, <1>2, <1>3
<1>6. follows' \in [Nonterminals -> SUBSET Symbols]
  BY <1>1, <1>2, <1>3, <1>4
<1> QED BY <1>1, <1>2, <1>3, <1>5, <1>6 DEF FollowsSound

(* The promises of the call at k for the position it leaves behind, and for
   the calls above it, which have returned. *)
LEMMA MovesOnInv ==
  ASSUME FollowInv, NEW k, NEW clean, NEW X, MovesOn(k, clean, X),
         (FollowTypes /\ CreatedComplete /\ FirstInv)',
         Held \subseteq Held',
         LET f == frames[k]
             body == rules[f.rule].body
             head == rules[f.rule].head
         IN  body[f.pos] = f.nonterm =>
               IF f.pos < Len(body)
                 THEN First(rules, body[f.pos + 1]) \subseteq follows'[f.nonterm]
                 ELSE /\ \/ head \in nonterm_used
                         \/ Follow(rules, head) \subseteq Held'
                      /\ clean => Follow(rules, head) \subseteq follows'[f.nonterm],
         \A m \in nonterm_used :
           OnStack(m) /\ (\A j \in 1 .. k : frames[j].nonterm # m) =>
             /\ DirectFollow(rules, m) \subseteq Held'
             /\ \A h \in EndHeads(rules, m) :
                  h \in nonterm_used \/ Follow(rules, h) \subseteq Held'
  PROVE  FollowInv'
<1>1. /\ k \in 1 .. Len(frames) /\ Len(frames) \in Nat
      /\ Len(frames') = k /\ DOMAIN frames' = 1 .. k
      /\ DOMAIN frames = 1 .. Len(frames)
      /\ \A j \in 1 .. k - 1 : frames'[j] = frames[j]
      /\ frames'[k].nonterm = frames[k].nonterm
      /\ frames'[k].clean = clean
  BY MovedFrames DEF FollowInv, FollowTypes
<1>2. /\ rules' = rules /\ nonterm_used' = nonterm_used /\ follow_idx' = follow_idx
      /\ FirstsDone' = FirstsDone /\ frames # <<>> /\ frames' # <<>>
  BY <1>1 DEF MovesOn, firstVars, scanVars, FirstsDone
<1>3. \A j \in 1 .. k : frames'[j].nonterm = frames[j].nonterm
  BY <1>1
<1>4. StackInv'
  <2>1. \A j \in 1 .. k : frames'[j].nonterm \in nonterm_used
    BY <1>1, <1>3 DEF FollowInv, StackInv
  <2>2. frames'[1].nonterm = follow_idx /\ FirstsDone /\ follow_idx \in Nonterminals
    BY <1>1, <1>2, <1>3 DEF FollowInv, StackInv
  <2>3. ASSUME NEW j \in 1 .. k, j < k
        PROVE  /\ frames'[j].rule <= Len(rules)
               /\ frames'[j].pos = Len(rules[frames'[j].rule].body)
               /\ rules[frames'[j].rule].body[frames'[j].pos] = frames'[j].nonterm
               /\ rules[frames'[j].rule].head = frames'[j + 1].nonterm
    <3>1. j \in 1 .. k - 1 /\ j + 1 \in 1 .. k /\ j \in DOMAIN frames /\ j < Len(frames)
      BY <1>1, <2>3
    <3>2. frames'[j] = frames[j] /\ frames'[j + 1].nonterm = frames[j + 1].nonterm
      BY <1>1, <1>3, <3>1
    <3> QED BY <3>1, <3>2 DEF FollowInv, StackInv
  <2> QED BY <1>1, <1>2, <2>1, <2>2, <2>3, Zenon DEF StackInv
<1>5. FollowsSound'
  BY MovedFollows
<1>6. CallInv'
  <2> SUFFICES ASSUME NEW j \in 1 .. k, NEW r \in DOMAIN rules,
                      NEW i \in 1 .. Len(rules[r].body),
                      Passed(frames'[j], r, i), rules[r].body[i] = frames[j].nonterm
               PROVE  IF i < Len(rules[r].body)
                        THEN First(rules, rules[r].body[i + 1])
                               \subseteq follows'[frames[j].nonterm]
                        ELSE /\ \/ rules[r].head \in nonterm_used
                                \/ Follow(rules, rules[r].head) \subseteq Held'
                             /\ frames'[j].clean =>
                                  Follow(rules, rules[r].head)
                                    \subseteq follows'[frames[j].nonterm]
    BY <1>1, <1>2, <1>3, Zenon DEF CallInv
  <2>1. CASE Passed(frames[j], r, i)
    <3>1. j \in DOMAIN frames /\ frames[j].nonterm \in Nonterminals
      BY <1>1 DEF FollowInv, FollowTypes, FrameOK
    <3>2. follows[frames[j].nonterm] \subseteq follows'[frames[j].nonterm]
      BY <3>1, MovedFollows
    <3>3. frames'[j].clean => frames[j].clean
      BY <1>1 DEF MovesOn
    <3>4. IF i < Len(rules[r].body)
            THEN First(rules, rules[r].body[i + 1]) \subseteq follows[frames[j].nonterm]
            ELSE /\ \/ rules[r].head \in nonterm_used
                    \/ Follow(rules, rules[r].head) \subseteq Held
                 /\ frames[j].clean =>
                      Follow(rules, rules[r].head) \subseteq follows[frames[j].nonterm]
      BY <2>1, <3>1, Zenon DEF FollowInv, CallInv
    <3> QED BY <3>2, <3>3, <3>4
  <2>2. CASE ~Passed(frames[j], r, i)
    <3>1. j = k BY <1>1, <2>2
    <3>2. r = frames[k].rule /\ i = frames[k].pos
      BY <2>2, <3>1, MovedFrames
    <3>3. rules[r].body \in Seq(Symbols) /\ Len(rules[r].body) \in Nat
      BY RuleFacts DEF FollowInv, FollowTypes
    <3> QED BY <1>1, <3>1, <3>2, <3>3
  <2> QED BY <2>1, <2>2
<1>7. ReturnedInv'
  <2> SUFFICES ASSUME NEW m \in nonterm_used, ~OnStack(m)'
               PROVE  /\ DirectFollow(rules, m) \subseteq Held'
                      /\ \A h \in EndHeads(rules, m) :
                           h \in nonterm_used \/ Follow(rules, h) \subseteq Held'
    BY <1>2 DEF ReturnedInv
  <2>1. \A j \in 1 .. k : frames[j].nonterm # m
    BY <1>1, <1>3 DEF OnStack
  <2>2. CASE OnStack(m) BY <2>1, <2>2
  <2>3. CASE ~OnStack(m)
    BY <1>2, <2>3 DEF FollowInv, ReturnedInv
  <2> QED BY <2>2, <2>3
<1> QED BY <1>4, <1>5, <1>6, <1>7 DEF FollowInv

-----------------------------------------------------------------------------
(* What the state is like while a call is under way. *)
LEMMA CallFacts ==
  ASSUME FollowInv, frames # <<>>
  PROVE  /\ rules \in Grammars /\ Len(rules) \in Nat /\ DOMAIN rules = 1 .. Len(rules)
         /\ frames \in Seq(FrameType) /\ DOMAIN frames = 1 .. Len(frames)
         /\ Len(frames) \in Nat \ {0} /\ Len(frames) \in DOMAIN frames
         /\ Top \in FrameType /\ FrameOK(Top)
         /\ Top.nonterm \in Nonterminals /\ Top.nonterm \in nonterm_used
         /\ follows \in [Nonterminals -> SUBSET Symbols]
         /\ Top.rule <= Len(rules) =>
              /\ Top.rule \in DOMAIN rules
              /\ RuleHead \in Nonterminals
              /\ Body \in Seq(Symbols) /\ Len(Body) \in Nat
              /\ Top.pos \in 1 .. Len(Body)
<1>1. FollowTypes /\ StackInv BY DEF FollowInv
<1>2. /\ rules \in Grammars /\ Len(rules) \in Nat /\ DOMAIN rules = 1 .. Len(rules)
      /\ \A r \in 1 .. Len(rules) :
           /\ rules[r].head \in Nonterminals
           /\ rules[r].body \in Seq(Symbols) /\ Len(rules[r].body) \in Nat \ {0}
  BY <1>1, RuleFacts DEF FollowTypes
<1>3. /\ frames \in Seq(FrameType) /\ DOMAIN frames = 1 .. Len(frames)
      /\ Len(frames) \in Nat \ {0} /\ Len(frames) \in DOMAIN frames
  BY <1>1 DEF FollowTypes
<1>4. /\ Top \in FrameType /\ FrameOK(Top) /\ Top.nonterm \in nonterm_used
  BY <1>1, <1>3 DEF FollowTypes, StackInv, Top
<1>5. /\ Top.nonterm \in Nonterminals
      /\ Top.rule <= Len(rules) =>
           /\ Top.rule \in 1 .. Len(rules)
           /\ Top.pos \in 1 .. Len(rules[Top.rule].body)
  BY <1>2, <1>4 DEF FrameOK, FrameType
<1>6. follows \in [Nonterminals -> SUBSET Symbols]
  BY <1>1 DEF FollowTypes
<1> QED BY <1>2, <1>3, <1>4, <1>5, <1>6 DEF RuleHead, Body

LEMMA TopReplaced ==
  ASSUME FollowInv, frames # <<>>, NEW f \in FrameType
  PROVE  ReplaceTop(f) = Append(SubSeq(frames, 1, Len(frames) - 1), f)
<1>1. frames \in Seq(FrameType) /\ Len(frames) \in Nat \ {0}
  BY CallFacts
<1>2. /\ ReplaceTop(f) \in Seq(FrameType) /\ Len(ReplaceTop(f)) = Len(frames)
      /\ \A i \in 1 .. Len(frames) :
           ReplaceTop(f)[i] = IF i = Len(frames) THEN f ELSE frames[i]
  BY <1>1 DEF ReplaceTop
<1> DEFINE below == SubSeq(frames, 1, Len(frames) - 1)
<1>3. /\ below \in Seq(FrameType) /\ Len(below) = Len(frames) - 1
      /\ \A i \in 1 .. Len(frames) - 1 : below[i] = frames[i]
  <2>1. PICK k \in 1 .. Len(frames) : k = Len(frames) BY <1>1
  <2>2. /\ SubSeq(frames, 1, k - 1) \in Seq(FrameType)
        /\ Len(SubSeq(frames, 1, k - 1)) = k - 1
        /\ \A i \in 1 .. k - 1 : SubSeq(frames, 1, k - 1)[i] = frames[i]
    BY <1>1
  <2> QED BY <2>1, <2>2
<1> HIDE DEF below
<1>4. /\ Append(below, f) \in Seq(FrameType) /\ Len(Append(below, f)) = Len(frames)
      /\ \A i \in 1 .. Len(frames) :
           Append(below, f)[i] = IF i = Len(frames) THEN f ELSE frames[i]
  BY <1>1, <1>3
<1>5. ReplaceTop(f) = Append(below, f)
  BY <1>2, <1>4, SeqEqual
<1> QED BY <1>5 DEF below

LEMMA TopItself ==
  ASSUME FollowInv, frames # <<>>
  PROVE  [frames[Len(frames)] EXCEPT !.clean = Top.clean] = Top
<1>1. Top \in FrameType BY CallFacts
<1> QED BY <1>1 DEF Top, FrameType

(* The top goes on: nothing that the calls hold is lost, and nothing
   returned. *)
LEMMA TopMovesOn ==
  ASSUME FollowInv, frames # <<>>, NEW clean, NEW X,
         MovesOn(Len(frames), clean, X), follows_created' = follows_created,
         Watched =>
           IF Top.pos < Len(Body)
             THEN First(rules, Body[Top.pos + 1]) \subseteq X
             ELSE /\ RuleHead \in nonterm_used \/ Follow(rules, RuleHead) \subseteq X
                  /\ clean => Follow(rules, RuleHead) \subseteq X
  PROVE  FollowInv'
<1> DEFINE n == Top.nonterm
           k == Len(frames)
<1>1. /\ k \in DOMAIN frames /\ DOMAIN frames = 1 .. k /\ n \in Nonterminals
      /\ Top = frames[k]
  BY CallFacts DEF Top
<1>2. /\ DOMAIN frames' = 1 .. k
      /\ \A j \in 1 .. k : frames'[j].nonterm = frames[j].nonterm
      /\ \A j \in 1 .. k : FrameOK(frames'[j])
      /\ frames' \in Seq(FrameType)
  <2>1. /\ DOMAIN frames' = 1 .. k
        /\ \A j \in 1 .. k - 1 : frames'[j] = frames[j]
        /\ \A j \in 1 .. k : FrameOK(frames[j])
        /\ frames'[k].nonterm = frames[k].nonterm /\ FrameOK(frames'[k])
        /\ frames' \in Seq(FrameType) /\ k \in Nat
    BY MovedFrames
  <2> QED BY <2>1
<1>3. /\ follows' \in [Nonterminals -> SUBSET Symbols]
      /\ follows'[n] = follows[n] \union X
      /\ \A m \in Nonterminals : follows[m] \subseteq follows'[m]
  BY <1>1, MovedFollows
<1>4. UNCHANGED <<firstVars, follow_idx, nonterm_used>> /\ rules' = rules
  BY DEF MovesOn, firstVars
<1>5. FollowTypes'
  <2>1. \A j \in 1 .. k : FrameOK(frames[j])'
    BY <1>2, <1>4 DEF FrameOK
  <2> QED BY <1>2, <1>3, <1>4, <2>1 DEF FollowInv, FollowTypes
<1>6. CreatedComplete'
  BY <1>3, <1>4 DEF FollowInv, FollowTypes, CreatedComplete
<1>7. FirstInv'
  BY <1>4 DEF FollowInv, FirstInv, SetInv, StoredInv, FirstsExact, firstVars, scanVars,
     FirstsDone, ScanInv, ScanOrder, ScanSound, ScanComplete, LookedAt
<1>8. \A j \in 1 .. k : frames[j].nonterm \in Nonterminals
  BY <1>1 DEF FollowInv, FollowTypes, FrameOK
<1>9. Held \subseteq Held'
  BY <1>1, <1>2, <1>3, <1>8 DEF Held
<1>10. X \subseteq follows'[n] /\ X \subseteq Held'
  BY <1>1, <1>2, <1>3 DEF Held
<1>11. \A m \in nonterm_used :
         ~(OnStack(m) /\ (\A j \in 1 .. k : frames[j].nonterm # m))
  BY <1>1 DEF OnStack
<1>12. LET f == frames[k]
           body == rules[f.rule].body
           head == rules[f.rule].head
       IN  body[f.pos] = f.nonterm =>
             IF f.pos < Len(body)
               THEN First(rules, body[f.pos + 1]) \subseteq follows'[f.nonterm]
               ELSE /\ \/ head \in nonterm_used
                       \/ Follow(rules, head) \subseteq Held'
                    /\ clean => Follow(rules, head) \subseteq follows'[f.nonterm]
  BY <1>1, <1>10, Zenon DEF Watched, Body, RuleHead
<1> QED BY <1>5, <1>6, <1>7, <1>9, <1>11, <1>12, MovesOnInv

LEMMA SkipSymbolInv ==
  ASSUME FollowInv, SkipSymbol
  PROVE  FollowInv'
<1>1. frames # <<>> /\ Top.rule <= Len(rules) BY DEF SkipSymbol, Scanning
<1>2. MovesOn(Len(frames), Top.clean, {})
  <2>1. follows' = AddFollows(frames[Len(frames)].nonterm, {})
    BY <1>1, CallFacts DEF SkipSymbol, AddFollows, Top
  <2>2. frames' = Append(SubSeq(frames, 1, Len(frames) - 1),
                         Advance([frames[Len(frames)] EXCEPT !.clean = Top.clean]))
    BY <1>1, CallFacts, AdvanceFrame, TopReplaced, TopItself DEF SkipSymbol
  <2> QED
    BY <1>1, <2>1, <2>2, CallFacts DEF MovesOn, SkipSymbol, FrameOK, Top
<1> QED BY <1>1, <1>2, TopMovesOn DEF SkipSymbol

LEMMA FollowInBodyInv ==
  ASSUME FollowInv, FollowInBody
  PROVE  FollowInv'
<1> DEFINE element == Body[Top.pos + 1]
           X == IF element \in Terminals THEN {element} ELSE ElementsOf(firsts[element])
<1>1. /\ frames # <<>> /\ Top.rule <= Len(rules) /\ Watched /\ Top.pos < Len(Body)
  BY DEF FollowInBody, Scanning
<1>2. element \in Symbols
  BY <1>1, CallFacts
<1>3. X = First(rules, element)
  BY <1>1, <1>2, FirstsAreFirst DEF FollowInv, StackInv
<1>4. X \subseteq Follow(rules, Top.nonterm)
  <2>1. Top.pos \in 1 .. Len(Body) - 1 /\ Top.rule \in DOMAIN rules
    BY <1>1, CallFacts
  <2>2. X \subseteq DirectFollow(rules, Top.nonterm)
    BY <1>1, <1>3, <2>1, FirstSubset DEF DirectFollow, Watched, Body
  <2> QED BY <1>1, <2>2, CallFacts, FollowHoldsDirect
<1>5. MovesOn(Len(frames), Top.clean, X)
  <2>1. follows' = AddFollows(frames[Len(frames)].nonterm, X)
    BY DEF FollowInBody, Top
  <2>2. frames' = Append(SubSeq(frames, 1, Len(frames) - 1),
                         Advance([frames[Len(frames)] EXCEPT !.clean = Top.clean]))
    BY <1>1, CallFacts, AdvanceFrame, TopReplaced, TopItself DEF FollowInBody
  <2> HIDE DEF X
  <2> QED
    BY <1>1, <1>4, <2>1, <2>2, CallFacts DEF MovesOn, FollowInBody, FrameOK, Top
<1> HIDE DEF X
<1> QED BY <1>1, <1>3, <1>5, TopMovesOn DEF FollowInBody

LEMMA AtEndFacts ==
  ASSUME FollowInv, AtBodyEnd
  PROVE  /\ frames # <<>> /\ Top.rule <= Len(rules) /\ Watched
         /\ ~(Top.pos < Len(Body)) /\ Top.pos = Len(Body)
         /\ RuleHead \in EndHeads(rules, Top.nonterm)
         /\ Follow(rules, RuleHead) \subseteq Follow(rules, Top.nonterm)
<1>1. frames # <<>> /\ Top.rule <= Len(rules) /\ Watched /\ Top.pos = Len(Body)
  BY DEF AtBodyEnd, Scanning
<1>2. ~(Top.pos < Len(Body))
  BY <1>1, CallFacts
<1>3. RuleHead \in EndHeads(rules, Top.nonterm)
  BY <1>1, CallFacts DEF EndHeads, RuleHead, Body, Watched
<1> QED BY <1>1, <1>2, <1>3, CallFacts, FollowTakesHeads

LEMMA SetClean ==
  ASSUME NEW f \in FrameType, NEW c \in BOOLEAN
  PROVE  LET g == [f EXCEPT !.clean = c]
         IN  /\ g \in FrameType /\ g.nonterm = f.nonterm /\ g.rule = f.rule
             /\ g.pos = f.pos /\ g.clean = c
BY DEF FrameType

LEMMA HeadUsedInv ==
  ASSUME FollowInv, HeadUsed
  PROVE  FollowInv'
<1>1. AtBodyEnd /\ RuleHead \in nonterm_used BY DEF HeadUsed
<1> DEFINE g == [Top EXCEPT !.clean = FALSE]
<1>2. MovesOn(Len(frames), FALSE, {})
  <2>1. follows' = AddFollows(frames[Len(frames)].nonterm, {})
    BY <1>1, AtEndFacts, CallFacts DEF HeadUsed, AddFollows, Top
  <2>2. g \in FrameType /\ FrameOK(g) /\ g.rule <= Len(rules)
    <3>1. Top \in FrameType /\ FALSE \in BOOLEAN
      BY <1>1, AtEndFacts, CallFacts
    <3>2. /\ g \in FrameType /\ g.nonterm = Top.nonterm /\ g.rule = Top.rule
          /\ g.pos = Top.pos
      BY <3>1, SetClean
    <3>3. g.clean \in BOOLEAN BY <3>2 DEF FrameType
    <3> QED BY <1>1, <3>2, <3>3, AtEndFacts, CallFacts DEF FrameOK
  <2>3. Advance(g) \in FrameType
    BY <1>1, <2>2, AtEndFacts, CallFacts, AdvanceFrame
  <2>4. frames' = Append(SubSeq(frames, 1, Len(frames) - 1), Advance(g))
    BY <1>1, <2>3, AtEndFacts, TopReplaced DEF HeadUsed
  <2> QED
    BY <1>1, <2>1, <2>4, AtEndFacts, CallFacts DEF MovesOn, HeadUsed, Top
<1> QED BY <1>1, <1>2, AtEndFacts, TopMovesOn DEF HeadUsed

LEMMA HeadCreatedInv ==
  ASSUME FollowInv, HeadCreated
  PROVE  FollowInv'
<1>1. AtBodyEnd /\ RuleHead \in follows_created BY DEF HeadCreated
<1> DEFINE X == follows[RuleHead]
<1>2. RuleHead \in Nonterminals BY <1>1, AtEndFacts, CallFacts
<1>3. X \subseteq Follow(rules, RuleHead) /\ Follow(rules, RuleHead) \subseteq X
  BY <1>1, <1>2 DEF FollowInv, FollowsSound, CreatedComplete
<1>4. MovesOn(Len(frames), Top.clean, X)
  <2>1. follows' = AddFollows(frames[Len(frames)].nonterm, X)
    BY DEF HeadCreated, Top
  <2>2. frames' = Append(SubSeq(frames, 1, Len(frames) - 1),
                         Advance([frames[Len(frames)] EXCEPT !.clean = Top.clean]))
    BY <1>1, AtEndFacts, CallFacts, AdvanceFrame, TopReplaced, TopItself
    DEF HeadCreated
  <2>3. X \subseteq Follow(rules, Top.nonterm)
    BY <1>1, <1>3, AtEndFacts
  <2> QED
    BY <1>1, <2>1, <2>2, <2>3, AtEndFacts, CallFacts
    DEF MovesOn, HeadCreated, FrameOK, Top
<1> QED BY <1>1, <1>3, <1>4, AtEndFacts, TopMovesOn DEF HeadCreated

-----------------------------------------------------------------------------
(* A call that has been through all rules. *)
LEMMA CompleteCall ==
  ASSUME FollowInv, Returning
  PROVE  /\ DirectFollow(rules, Top.nonterm) \subseteq follows[Top.nonterm]
         /\ \A h \in EndHeads(rules, Top.nonterm) :
              /\ h \in nonterm_used \/ Follow(rules, h) \subseteq Held
              /\ Top.clean => Follow(rules, h) \subseteq follows[Top.nonterm]
         /\ Top.clean => Follow(rules, Top.nonterm) \subseteq follows[Top.nonterm]
         /\ follows[Top.nonterm] \subseteq Held
<1> DEFINE n == Top.nonterm
<1>1. /\ frames # <<>> /\ Top.rule > Len(rules) BY DEF Returning
<1>2. /\ Len(frames) \in DOMAIN frames /\ Top = frames[Len(frames)]
      /\ n \in Nonterminals
      /\ DOMAIN rules = 1 .. Len(rules) /\ Len(rules) \in Nat
      /\ \A r \in DOMAIN rules : Len(rules[r].body) \in Nat \ {0}
  BY <1>1, CallFacts, RuleFacts DEF Top
<1>3. \A r \in DOMAIN rules : \A i \in 1 .. Len(rules[r].body) : Passed(Top, r, i)
  <2>1. Top.rule \in Nat BY <1>1, CallFacts DEF FrameType
  <2> QED BY <1>1, <1>2, <2>1 DEF Passed
<1>4. \A r \in DOMAIN rules : \A i \in 1 .. Len(rules[r].body) :
        rules[r].body[i] = n =>
          IF i < Len(rules[r].body)
            THEN First(rules, rules[r].body[i + 1]) \subseteq follows[n]
            ELSE /\ \/ rules[r].head \in nonterm_used
                    \/ Follow(rules, rules[r].head) \subseteq Held
                 /\ Top.clean => Follow(rules, rules[r].head) \subseteq follows[n]
  BY <1>2, <1>3, Zenon DEF FollowInv, CallInv
<1>5. DirectFollow(rules, n) \subseteq follows[n]
  BY <1>2, <1>4 DEF DirectFollow
<1>6. \A h \in EndHeads(rules, n) :
        /\ h \in nonterm_used \/ Follow(rules, h) \subseteq Held
        /\ Top.clean => Follow(rules, h) \subseteq follows[n]
  BY <1>2, <1>4 DEF EndHeads
<1>7. Top.clean => Follow(rules, n) \subseteq follows[n]
  <2> DEFINE D == follows[n]
             U == {n}
  <2> SUFFICES ASSUME Top.clean PROVE Follow(rules, n) \subseteq D
    OBVIOUS
  <2>1. /\ U \in SUBSET Nonterminals /\ n \in U
        /\ \A m \in U : DirectFollow(rules, m) \subseteq D
        /\ \A m \in U : \A h \in EndHeads(rules, m) :
             h \in U \/ Follow(rules, h) \subseteq D
    BY <1>2, <1>5, <1>6
  <2> HIDE DEF D, U
  <2> QED BY <2>1, FollowIsLeast
<1>8. follows[n] \subseteq Held
  BY <1>2 DEF Held
<1> QED BY <1>5, <1>6, <1>7, <1>8

(* A nested call is for a head that is not in use, so no call that is under
   way loses its set. *)
LEMMA CallHeadInv ==
  ASSUME FollowInv, CallHead
  PROVE  FollowInv'
<1> DEFINE h == RuleHead
           k == Len(frames)
<1>1. /\ AtBodyEnd /\ h \notin nonterm_used /\ h \notin follows_created
      /\ h \in Nonterminals
      /\ nonterm_used' = nonterm_used \union {h}
      /\ follows' = [follows EXCEPT ![h] = {}]
      /\ frames' = Append(frames, Frame(h))
      /\ UNCHANGED <<firstVars, follow_idx, follows_created>>
      /\ rules' = rules
  BY AtEndFacts, CallFacts DEF CallHead, firstVars
<1>2. /\ k \in Nat \ {0} /\ DOMAIN frames = 1 .. k /\ frames \in Seq(FrameType)
      /\ rules \in Grammars /\ Len(rules) \in Nat \ {0} /\ Top = frames[k]
      /\ \A r \in 1 .. Len(rules) : Len(rules[r].body) \in Nat \ {0}
      /\ Top.rule <= Len(rules) /\ Top.pos = Len(Body) /\ Watched
  BY <1>1, AtEndFacts, CallFacts, RuleFacts DEF Top
<1>3. /\ Frame(h) \in FrameType /\ Frame(h).nonterm = h /\ Frame(h).rule = 1
      /\ Frame(h).pos = 1 /\ Frame(h).clean = TRUE
  BY <1>1 DEF Frame, FrameType
<1>4. FrameOK(Frame(h))
  BY <1>1, <1>2, <1>3 DEF FrameOK, FrameType
<1> HIDE DEF h
<1>5. /\ frames' \in Seq(FrameType) /\ Len(frames') = k + 1
      /\ DOMAIN frames' = 1 .. k + 1
      /\ \A j \in 1 .. k : frames'[j] = frames[j]
      /\ frames'[k + 1] = Frame(h)
  BY <1>1, <1>2, <1>3
<1>6. FollowTypes /\ StackInv /\ FollowsSound /\ CreatedComplete /\ CallInv /\ ReturnedInv
  BY DEF FollowInv
<1>7. \A j \in 1 .. k : /\ frames[j].nonterm \in nonterm_used
                          /\ frames[j].nonterm \in Nonterminals
                          /\ frames[j].nonterm # h
                          /\ FrameOK(frames[j])
  BY <1>1, <1>2, <1>6 DEF FollowTypes, StackInv
<1>8. /\ follows' \in [Nonterminals -> SUBSET Symbols]
      /\ \A n \in Nonterminals : follows'[n] = IF n = h THEN {} ELSE follows[n]
  BY <1>1, <1>6 DEF FollowTypes
<1>9. FollowTypes'
  <2>1. \A j \in 1 .. k + 1 : FrameOK(frames'[j])
    BY <1>4, <1>5, <1>7
  <2>2. \A j \in 1 .. k + 1 : FrameOK(frames[j])'
    BY <1>1, <2>1 DEF FrameOK
  <2> QED BY <1>1, <1>5, <1>6, <1>8, <2>2 DEF FollowTypes
<1>10. StackInv'
  <2>1. \A j \in 1 .. k + 1 : frames'[j].nonterm \in nonterm_used'
    BY <1>1, <1>3, <1>5, <1>7
  <2>2. FirstsDone' /\ follow_idx' \in Nonterminals /\ frames'[1].nonterm = follow_idx'
    BY <1>1, <1>2, <1>5, <1>6 DEF StackInv, firstVars, scanVars, FirstsDone
  <2>3. ASSUME NEW j \in 1 .. k + 1, j < k + 1
        PROVE  /\ frames'[j].rule <= Len(rules)
               /\ frames'[j].pos = Len(rules[frames'[j].rule].body)
               /\ rules[frames'[j].rule].body[frames'[j].pos] = frames'[j].nonterm
               /\ rules[frames'[j].rule].head = frames'[j + 1].nonterm
    <3>1. CASE j = k
      BY <1>2, <1>3, <1>5, <2>3, <3>1 DEF Watched, Body, RuleHead, h
    <3>2. CASE j # k
      <4>1. /\ j \in 1 .. Len(frames) /\ j + 1 \in 1 .. Len(frames)
            /\ j < Len(frames)
        <5>1. Len(frames) \in Nat /\ j \in 1 .. Len(frames) + 1
          BY <1>2
        <5>2. j < Len(frames) + 1 /\ j # Len(frames)
          BY <2>3, <3>2
        <5> QED BY <5>1, <5>2
      <4>2. frames'[j] = frames[j] /\ frames'[j + 1] = frames[j + 1]
        BY <1>5, <4>1
      <4> QED BY <1>2, <1>6, <4>1, <4>2 DEF StackInv
    <3> QED BY <3>1, <3>2
  <2> QED BY <1>1, <1>5, <2>1, <2>2, <2>3, Zenon DEF StackInv
<1>11. FollowsSound'
  BY <1>1, <1>6, <1>8 DEF FollowsSound
<1>12. CreatedComplete'
  BY <1>1, <1>6, <1>8 DEF CreatedComplete, FollowTypes
<1>13. Held' = Held
  <2>1. Held' = UNION {follows'[frames'[j].nonterm] : j \in 1 .. k + 1}
    BY <1>5 DEF Held
  <2>2. Held = UNION {follows[frames[j].nonterm] : j \in 1 .. k}
    BY <1>2 DEF Held
  <2>3. follows'[frames'[k + 1].nonterm] = {}
    BY <1>1, <1>3, <1>5, <1>8 DEF h
  <2>4. \A j \in 1 .. k : follows'[frames'[j].nonterm] = follows[frames[j].nonterm]
    BY <1>5, <1>7, <1>8
  <2>5. \A j \in 1 .. k + 1 : j \in 1 .. k \/ j = k + 1
    BY <1>2
  <2>6. \A j \in 1 .. k : j \in 1 .. k + 1
    BY <1>2
  <2> QED BY <2>1, <2>2, <2>3, <2>4, <2>5, <2>6
<1>14. CallInv'
  <2> SUFFICES ASSUME NEW j \in 1 .. k + 1, NEW r \in DOMAIN rules,
                      NEW i \in 1 .. Len(rules[r].body),
                      Passed(frames'[j], r, i),
                      rules[r].body[i] = frames'[j].nonterm
               PROVE  IF i < Len(rules[r].body)
                        THEN First(rules, rules[r].body[i + 1])
                               \subseteq follows'[frames'[j].nonterm]
                        ELSE /\ \/ rules[r].head \in nonterm_used'
                                \/ Follow(rules, rules[r].head) \subseteq Held'
                             /\ frames'[j].clean =>
                                  Follow(rules, rules[r].head)
                                    \subseteq follows'[frames'[j].nonterm]
    BY <1>1, <1>5, Zenon DEF CallInv
  <2>1. j \in 1 .. k
    <3>1. ~Passed(Frame(h), r, i)
      BY <1>2, <1>3, RuleFacts DEF Passed
    <3> QED BY <1>2, <1>5, <3>1
  <2>2. frames'[j] = frames[j] /\ follows'[frames[j].nonterm] = follows[frames[j].nonterm]
    BY <1>5, <1>7, <1>8, <2>1
  <2> QED BY <1>1, <1>2, <1>6, <1>13, <2>1, <2>2, Zenon DEF CallInv
<1>15. ReturnedInv'
  <2> SUFFICES ASSUME NEW m \in nonterm_used', ~OnStack(m)'
               PROVE  /\ DirectFollow(rules, m) \subseteq Held'
                      /\ \A e \in EndHeads(rules, m) :
                           e \in nonterm_used' \/ Follow(rules, e) \subseteq Held'
    BY <1>1, Zenon DEF ReturnedInv
  <2>1. \A j \in 1 .. k + 1 : frames'[j].nonterm # m
    BY <1>5 DEF OnStack
  <2>2. m # h
    BY <1>2, <1>3, <1>5, <2>1
  <2>3. ~OnStack(m)
    BY <1>2, <1>5, <2>1 DEF OnStack
  <2>4. m \in nonterm_used /\ frames # <<>>
    BY <1>1, <1>2, <2>2
  <2> QED BY <1>1, <1>6, <1>13, <2>3, <2>4 DEF ReturnedInv
<1>16. FirstInv'
  BY <1>1 DEF FollowInv, FirstInv, SetInv, StoredInv, FirstsExact, firstVars, scanVars,
     FirstsDone, ScanInv, ScanOrder, ScanSound, ScanComplete, LookedAt
<1> QED BY <1>9, <1>10, <1>11, <1>12, <1>14, <1>15, <1>16 DEF FollowInv

(* The caller takes over what the call holds, as the head's set of the rule
   it was called for. *)
LEMMA ReturnToCallerInv ==
  ASSUME FollowInv, ReturnToCaller
  PROVE  FollowInv'
<1> DEFINE k == Len(frames) - 1
           f == frames[k]
           m == Top.nonterm
           X == follows[m]
           clean == Caller.clean /\ Top.clean
<1>1. /\ Returning /\ frames # <<>> /\ Len(frames) > 1 /\ Len(frames) \in Nat
      /\ rules \in Grammars /\ m \in Nonterminals /\ m \in nonterm_used
      /\ DOMAIN frames = 1 .. Len(frames) /\ Top = frames[Len(frames)]
      /\ frames \in Seq(FrameType) /\ Top \in FrameType
      /\ UNCHANGED <<firstVars, follow_idx, nonterm_used>> /\ rules' = rules
      /\ Caller = f
  BY CallFacts DEF ReturnToCaller, Returning, Top, Caller, firstVars
<1>2. /\ k \in 1 .. Len(frames) /\ k < Len(frames) /\ k + 1 = Len(frames)
      /\ f \in FrameType /\ FrameOK(f) /\ f.nonterm \in Nonterminals
  BY <1>1 DEF FollowInv, FollowTypes, FrameOK
<1>3. /\ f.rule <= Len(rules) /\ f.pos = Len(rules[f.rule].body)
      /\ rules[f.rule].body[f.pos] = f.nonterm
      /\ rules[f.rule].head = m
  BY <1>1, <1>2 DEF FollowInv, StackInv
<1>4. f.rule \in DOMAIN rules /\ f.pos \in 1 .. Len(rules[f.rule].body)
      /\ Len(rules[f.rule].body) \in Nat
  BY <1>1, <1>2, <1>3, RuleFacts DEF FrameOK, FrameType
<1>5. X \subseteq Follow(rules, f.nonterm)
  <2>1. m \in EndHeads(rules, f.nonterm)
    BY <1>1, <1>3, <1>4 DEF EndHeads
  <2>2. X \subseteq Follow(rules, m)
    BY <1>1 DEF FollowInv, FollowsSound
  <2> QED BY <1>2, <2>1, <2>2, FollowTakesHeads
<1>6. clean \in BOOLEAN /\ (clean => f.clean) /\ (clean => Top.clean)
  BY <1>1
<1>7. MovesOn(k, clean, X)
  <2>1. Len(frames) - 2 = k - 1 BY <1>1
  <2>2. frames' = Append(SubSeq(frames, 1, k - 1),
                         Advance([frames[k] EXCEPT !.clean = clean]))
    <3>1. [Caller EXCEPT !.clean = @ /\ Top.clean] = [f EXCEPT !.clean = clean]
      BY <1>1
    <3>2. frames' = Append(SubSeq(frames, 1, Len(frames) - 2),
                           Advance([Caller EXCEPT !.clean = @ /\ Top.clean]))
      BY DEF ReturnToCaller
    <3> HIDE DEF k, f, clean
    <3> QED BY <2>1, <3>1, <3>2 DEF f
  <2>3. follows' = AddFollows(frames[k].nonterm, X)
    BY <1>1 DEF ReturnToCaller
  <2> QED BY <1>1, <1>2, <1>3, <1>5, <1>6, <2>2, <2>3 DEF MovesOn
<1> HIDE DEF clean
<1>8. /\ frames' \in Seq(FrameType) /\ DOMAIN frames' = 1 .. k
      /\ \A j \in 1 .. k - 1 : frames'[j] = frames[j]
      /\ \A j \in 1 .. k : FrameOK(frames[j])
      /\ FrameOK(frames'[k]) /\ frames'[k].nonterm = f.nonterm
  BY <1>7, MovedFrames
<1>9. /\ follows' \in [Nonterminals -> SUBSET Symbols]
      /\ follows'[f.nonterm] = follows[f.nonterm] \union X
      /\ \A n \in Nonterminals : follows[n] \subseteq follows'[n]
  BY <1>7, MovedFollows
<1>10. /\ DirectFollow(rules, m) \subseteq X /\ X \subseteq Held
       /\ \A h \in EndHeads(rules, m) :
            h \in nonterm_used \/ Follow(rules, h) \subseteq Held
       /\ Top.clean => Follow(rules, m) \subseteq X
  BY <1>1, CompleteCall
<1> HIDE DEF X
<1>11. FollowTypes'
  <2>1. \A j \in 1 .. k : FrameOK(frames'[j])
    BY <1>2, <1>8
  <2>2. \A j \in 1 .. k : FrameOK(frames[j])'
    BY <1>1, <2>1 DEF FrameOK
  <2>3. follows_created' \subseteq Nonterminals
    BY <1>1 DEF FollowInv, FollowTypes, ReturnToCaller
  <2> QED BY <1>1, <1>8, <1>9, <2>2, <2>3 DEF FollowInv, FollowTypes
<1>12. CreatedComplete'
  <2> SUFFICES ASSUME NEW n \in follows_created'
               PROVE  Follow(rules, n) \subseteq follows'[n]
    BY <1>1 DEF CreatedComplete
  <2>1. CASE n \in follows_created
    <3>1. n \in Nonterminals /\ Follow(rules, n) \subseteq follows[n]
      BY <2>1 DEF FollowInv, FollowTypes, CreatedComplete
    <3> QED BY <1>9, <3>1
  <2>2. CASE n \notin follows_created
    <3>1. n = m /\ Top.clean BY <2>2 DEF ReturnToCaller
    <3>2. X = follows[m] BY DEF X
    <3> QED BY <1>1, <1>9, <1>10, <3>1, <3>2
  <2> QED BY <2>1, <2>2
<1>13. Held \subseteq Held'
  <2> SUFFICES ASSUME NEW j \in 1 .. Len(frames)
               PROVE  follows[frames[j].nonterm] \subseteq Held'
    BY <1>1 DEF Held
  <2>1. CASE j \in 1 .. k
    <3>1. frames'[j].nonterm = frames[j].nonterm /\ frames[j].nonterm \in Nonterminals
      BY <1>2, <1>8, <2>1 DEF FrameOK
    <3> QED BY <1>8, <1>9, <2>1, <3>1 DEF Held
  <2>2. CASE j \notin 1 .. k
    <3>1. j = Len(frames) BY <1>1, <2>2, LastIndex
    <3>2. follows[frames[j].nonterm] = X BY <1>1, <3>1 DEF X
    <3>3. X \subseteq follows'[frames'[k].nonterm] BY <1>8, <1>9
    <3> QED BY <1>2, <1>8, <3>2, <3>3 DEF Held
  <2> QED BY <2>1, <2>2
<1>14. FirstInv'
  BY <1>1 DEF FollowInv, FirstInv, SetInv, StoredInv, FirstsExact, firstVars, scanVars,
     FirstsDone, ScanInv, ScanOrder, ScanSound, ScanComplete, LookedAt
<1>15. \/ m \in nonterm_used
       \/ Follow(rules, m) \subseteq Held'
  BY <1>1
<1>16. clean => Follow(rules, m) \subseteq follows'[f.nonterm]
  BY <1>6, <1>9, <1>10
<1>17. \A n \in nonterm_used :
         OnStack(n) /\ (\A j \in 1 .. k : frames[j].nonterm # n) =>
           /\ DirectFollow(rules, n) \subseteq Held'
           /\ \A h \in EndHeads(rules, n) :
                h \in nonterm_used \/ Follow(rules, h) \subseteq Held'
  <2> SUFFICES ASSUME NEW n, OnStack(n), \A j \in 1 .. k : frames[j].nonterm # n
               PROVE  n = m
    BY <1>10, <1>13
  <2>1. PICK j \in 1 .. Len(frames) : frames[j].nonterm = n
    BY <1>1 DEF OnStack
  <2>2. j \notin 1 .. k BY <2>1
  <2>3. j = Len(frames) BY <1>1, <2>2, LastIndex
  <2> QED BY <1>1, <2>1, <2>3
<1>18. ~(f.pos < Len(rules[f.rule].body)) BY <1>3, <1>4
<1>19. FollowTypes' /\ CreatedComplete' /\ FirstInv' BY <1>11, <1>12, <1>14
<1> HIDE DEF k
<1> QED BY <1>3, <1>7, <1>13, <1>15, <1>16, <1>17, <1>18, <1>19, MovesOnInv

(* The outermost call returns with everything. *)
LEMMA RootHasAll ==
  ASSUME FollowInv, ReturnToRoot
  PROVE  /\ follow_idx \in Nonterminals
         /\ follows[follow_idx] = Follow(rules, follow_idx)
<1>1. /\ Returning /\ frames # <<>> /\ Len(frames) = 1
      /\ DOMAIN frames = 1 .. 1 /\ Top = frames[1]
      /\ Top.nonterm \in nonterm_used
  BY CallFacts DEF ReturnToRoot, Returning, Top
<1>2. Top.nonterm = follow_idx /\ follow_idx \in Nonterminals
  BY <1>1 DEF FollowInv, StackInv
<1>3. Held = follows[follow_idx]
  BY <1>1, <1>2 DEF Held
<1>4. \A m \in nonterm_used :
        /\ DirectFollow(rules, m) \subseteq Held
        /\ \A h \in EndHeads(rules, m) :
             h \in nonterm_used \/ Follow(rules, h) \subseteq Held
  <2> SUFFICES ASSUME NEW m \in nonterm_used
               PROVE  /\ DirectFollow(rules, m) \subseteq Held
                      /\ \A h \in EndHeads(rules, m) :
                           h \in nonterm_used \/ Follow(rules, h) \subseteq Held
    OBVIOUS
  <2>1. CASE m = Top.nonterm
    BY <1>1, <2>1, CompleteCall
  <2>2. CASE m # Top.nonterm
    <3>1. ~OnStack(m) BY <1>1, <2>2 DEF OnStack
    <3> QED BY <1>1, <3>1 DEF FollowInv, ReturnedInv
  <2> QED BY <2>1, <2>2
<1>5. nonterm_used \in SUBSET Nonterminals /\ follow_idx \in nonterm_used
  BY <1>1, <1>2 DEF FollowInv, FollowTypes
<1>6. Follow(rules, follow_idx) \subseteq Held
  BY <1>4, <1>5, FollowIsLeast
<1> QED BY <1>2, <1>3, <1>6 DEF FollowInv, FollowsSound

LEMMA ReturnToRootInv == FollowInv /\ ReturnToRoot => FollowInv'
<1> SUFFICES ASSUME FollowInv, ReturnToRoot PROVE FollowInv'
  OBVIOUS
<1>1. /\ frames' = <<>> /\ follow_idx' = follow_idx + 1
      /\ UNCHANGED <<firstVars, nonterm_used, follows_created, follows>>
      /\ rules' = rules
  BY DEF ReturnToRoot, firstVars
<1>2. follow_idx + 1 \in TermCount .. (TermCount + NontermCount)
  BY RootHasAll, CountAssumption DEF Nonterminals
<1>3. DOMAIN frames' = {} /\ frames' \in Seq(FrameType)
  BY <1>1
<1>4. FollowTypes'
  BY <1>1, <1>2, <1>3 DEF FollowInv, FollowTypes
<1>5. StackInv' /\ CallInv' /\ ReturnedInv'
  BY <1>1, <1>3 DEF StackInv, CallInv, ReturnedInv
<1>6. FollowsSound' /\ CreatedComplete'
  BY <1>1 DEF FollowInv, FollowsSound, CreatedComplete
<1>7. FirstInv'
  BY <1>1 DEF FollowInv, FirstInv, SetInv, StoredInv, FirstsExact, firstVars, scanVars,
     FirstsDone, ScanInv, ScanOrder, ScanSound, ScanComplete, LookedAt
<1> QED BY <1>4, <1>5, <1>6, <1>7 DEF FollowInv

LEMMA SkipCreatedInv == FollowInv /\ SkipCreated => FollowInv'
<1> SUFFICES ASSUME FollowInv, SkipCreated PROVE FollowInv'
  OBVIOUS
<1>1. /\ frames = <<>> /\ frames' = <<>> /\ follow_idx' = follow_idx + 1
      /\ UNCHANGED <<firstVars, nonterm_used, follows_created, follows>>
      /\ rules' = rules /\ ~FollowsDone
  BY DEF SkipCreated, firstVars
<1>2. follow_idx + 1 \in TermCount .. (TermCount + NontermCount)
  BY <1>1, CountAssumption DEF FollowInv, FollowTypes, FollowsDone
<1>3. DOMAIN frames' = {} /\ frames' \in Seq(FrameType)
  BY <1>1
<1>4. FollowTypes'
  BY <1>1, <1>2, <1>3 DEF FollowInv, FollowTypes
<1>5. StackInv' /\ CallInv' /\ ReturnedInv'
  BY <1>1, <1>3 DEF StackInv, CallInv, ReturnedInv
<1>6. FollowsSound' /\ CreatedComplete'
  BY <1>1 DEF FollowInv, FollowsSound, CreatedComplete
<1>7. FirstInv'
  BY <1>1 DEF FollowInv, FirstInv, SetInv, StoredInv, FirstsExact, firstVars, scanVars,
     FirstsDone, ScanInv, ScanOrder, ScanSound, ScanComplete, LookedAt
<1> QED BY <1>4, <1>5, <1>6, <1>7 DEF FollowInv

(* A recursion starts with an empty set for a nonterminal that is not
   created, and has been in no other. *)
LEMMA CallRootInv == FollowInv /\ CallRoot => FollowInv'
<1> SUFFICES ASSUME FollowInv, CallRoot PROVE FollowInv'
  OBVIOUS
<1> DEFINE n == follow_idx
<1>1. /\ frames' = <<Frame(n)>> /\ nonterm_used' = {n}
      /\ follows' = [follows EXCEPT ![n] = {}]
      /\ n \notin follows_created
      /\ UNCHANGED <<firstVars, follow_idx, follows_created>>
      /\ rules' = rules /\ FirstsDone /\ ~FollowsDone
  BY DEF CallRoot, firstVars
<1>2. n \in Nonterminals
  BY <1>1, CountAssumption DEF FollowInv, FollowTypes, FollowsDone, Nonterminals
<1>3. /\ rules \in Grammars /\ Len(rules) \in Nat \ {0}
      /\ DOMAIN rules = 1 .. Len(rules)
      /\ \A r \in 1 .. Len(rules) : Len(rules[r].body) \in Nat \ {0}
  BY RuleFacts DEF FollowInv, FollowTypes
<1>4. /\ Frame(n) \in FrameType /\ Frame(n).nonterm = n /\ Frame(n).rule = 1
      /\ Frame(n).pos = 1 /\ Frame(n).clean = TRUE
  BY <1>2 DEF Frame, FrameType
<1>5. FrameOK(Frame(n))
  BY <1>2, <1>3, <1>4 DEF FrameOK, FrameType
<1>6. /\ follows' \in [Nonterminals -> SUBSET Symbols]
      /\ \A m \in Nonterminals : follows'[m] = IF m = n THEN {} ELSE follows[m]
  BY <1>1 DEF FollowInv, FollowTypes
<1> HIDE DEF n
<1>7. /\ DOMAIN frames' = {1} /\ frames'[1] = Frame(n) /\ Len(frames') = 1
      /\ frames' \in Seq(FrameType) /\ frames' # <<>>
  BY <1>1, <1>4
<1>8. FollowTypes'
  <2>1. FrameOK(frames[1])'
    BY <1>1, <1>5, <1>7 DEF FrameOK
  <2> QED BY <1>1, <1>2, <1>6, <1>7, <2>1 DEF FollowInv, FollowTypes
<1>9. StackInv'
  <2>1. FirstsDone' /\ follow_idx' = n
    BY <1>1 DEF FirstsDone, firstVars, scanVars, n
  <2> QED BY <1>1, <1>2, <1>4, <1>7, <2>1 DEF StackInv
<1>10. FollowsSound'
  BY <1>1, <1>6 DEF FollowInv, FollowsSound
<1>11. CreatedComplete'
  BY <1>1, <1>6 DEF FollowInv, FollowTypes, CreatedComplete
<1>12. CallInv'
  <2>1. \A r \in DOMAIN rules : \A i \in 1 .. Len(rules[r].body) :
          ~Passed(Frame(n), r, i)
    BY <1>3, <1>4 DEF Passed
  <2>2. \A k \in DOMAIN frames' : frames'[k] = Frame(n)
    BY <1>7
  <2>3. \A k \in DOMAIN frames', r \in DOMAIN rules' :
          \A i \in 1 .. Len(rules'[r].body) : ~Passed(frames'[k], r, i)
    BY <1>1, <2>1, <2>2
  <2> QED BY <2>3, Zenon DEF CallInv
<1>13. ReturnedInv'
  BY <1>1, <1>4, <1>7 DEF ReturnedInv, OnStack
<1>14. FirstInv'
  BY <1>1 DEF FollowInv, FirstInv, SetInv, StoredInv, FirstsExact, firstVars, scanVars,
     FirstsDone, ScanInv, ScanOrder, ScanSound, ScanComplete, LookedAt
<1> QED BY <1>8, <1>9, <1>10, <1>11, <1>12, <1>13, <1>14 DEF FollowInv

(* compute_follows starts only when compute_firsts is through. *)
LEMMA FirstsBeforeFollowsInv == FollowInv /\ FirstsBeforeFollows => FollowInv'
<1> SUFFICES ASSUME FollowInv, FirstsBeforeFollows PROVE FollowInv'
  OBVIOUS
<1>1. /\ FirstNext /\ rules' = rules
      /\ UNCHANGED <<follow_idx, frames, nonterm_used, follows_created, follows>>
  BY DEF FirstsBeforeFollows, followOwnVars, FirstNext, ScanRule, NextElement, StoreFirst
<1>2. FirstInv'
  BY <1>1, NextFirstInv DEF FollowInv
<1>3. frames = <<>> /\ frames' = <<>>
  <2>1. ~FirstsDone BY <1>1 DEF FirstNext, ScanRule, NextElement, StoreFirst
  <2> QED BY <1>1, <2>1 DEF FollowInv, StackInv
<1>4. DOMAIN frames' = {} /\ frames' \in Seq(FrameType)
  BY <1>3
<1>5. FollowTypes'
  BY <1>1, <1>4 DEF FollowInv, FollowTypes
<1>6. StackInv' /\ CallInv' /\ ReturnedInv'
  BY <1>3, <1>4 DEF StackInv, CallInv, ReturnedInv
<1>7. FollowsSound' /\ CreatedComplete'
  BY <1>1 DEF FollowInv, FollowsSound, CreatedComplete
<1> QED BY <1>2, <1>5, <1>6, <1>7 DEF FollowInv

-----------------------------------------------------------------------------
LEMMA InitFollowInv == FollowsInit => FollowInv
<1> SUFFICES ASSUME FollowsInit PROVE FollowInv
  OBVIOUS
<1>1. /\ FirstInit /\ rules \in Grammars /\ frames = <<>>
      /\ follow_idx = TermCount /\ nonterm_used = {} /\ follows_created = {}
      /\ follows = [n \in Nonterminals |-> {}]
  BY DEF FollowsInit, FollowInit, FirstInit
<1>2. DOMAIN frames = {} /\ frames \in Seq(FrameType)
  BY <1>1
<1>3. TermCount \in TermCount .. (TermCount + NontermCount)
  BY CountAssumption
<1>4. FollowTypes
  BY <1>1, <1>2, <1>3 DEF FollowTypes
<1>5. StackInv /\ CallInv /\ ReturnedInv
  BY <1>1, <1>2 DEF StackInv, CallInv, ReturnedInv
<1>6. FollowsSound /\ CreatedComplete
  BY <1>1 DEF FollowsSound, CreatedComplete
<1> QED BY <1>1, <1>4, <1>5, <1>6, InitFirstInv DEF FollowInv

LEMMA StutterFollowInv == FollowInv /\ UNCHANGED followVars => FollowInv'
<1> SUFFICES ASSUME FollowInv, UNCHANGED followVars PROVE FollowInv'
  OBVIOUS
<1>1. /\ UNCHANGED firstVars /\ rules' = rules
      /\ UNCHANGED <<follow_idx, frames, nonterm_used, follows_created, follows>>
  BY DEF followVars, followOwnVars, firstVars
<1>2. FirstInv'
  BY <1>1, NextFirstInv DEF FollowInv
<1>3. FollowTypes'
  BY <1>1 DEF FollowInv, FollowTypes, FrameOK
<1>4. StackInv'
  BY <1>1 DEF FollowInv, StackInv, FirstsDone, firstVars, scanVars
<1>5. FollowsSound' /\ CreatedComplete'
  BY <1>1 DEF FollowInv, FollowsSound, CreatedComplete
<1>6. Held' = Held
  BY <1>1 DEF Held
<1>7. CallInv'
  BY <1>1, <1>6, Zenon DEF FollowInv, CallInv
<1>8. ReturnedInv'
  BY <1>1, <1>6, Zenon DEF FollowInv, ReturnedInv, OnStack
<1> QED BY <1>2, <1>3, <1>4, <1>5, <1>7, <1>8 DEF FollowInv

LEMMA NextFollowInv ==
  FollowInv /\ [FirstsBeforeFollows \/ FollowNext]_followVars => FollowInv'
<1> SUFFICES ASSUME FollowInv, [FirstsBeforeFollows \/ FollowNext]_followVars
             PROVE  FollowInv'
  OBVIOUS
<1>1. CASE FirstsBeforeFollows BY <1>1, FirstsBeforeFollowsInv
<1>2. CASE SkipCreated BY <1>2, SkipCreatedInv
<1>3. CASE CallRoot BY <1>3, CallRootInv
<1>4. CASE SkipSymbol BY <1>4, SkipSymbolInv
<1>5. CASE FollowInBody BY <1>5, FollowInBodyInv
<1>6. CASE HeadUsed BY <1>6, HeadUsedInv
<1>7. CASE HeadCreated BY <1>7, HeadCreatedInv
<1>8. CASE CallHead BY <1>8, CallHeadInv
<1>9. CASE ReturnToCaller BY <1>9, ReturnToCallerInv
<1>10. CASE ReturnToRoot BY <1>10, ReturnToRootInv
<1>11. CASE UNCHANGED followVars BY <1>11, StutterFollowInv
<1> QED
  BY <1>1, <1>2, <1>3, <1>4, <1>5, <1>6, <1>7, <1>8, <1>9, <1>10, <1>11
  DEF FollowNext

(* What the calls of compute_follows_of_nonterminal have put together, the
   sets they hold and the heads they have left out, adds up at every moment. *)
THEOREM FollowInvariant == FollowsSpec => []FollowInv
<1> QED BY InitFollowInv, NextFollowInv, PTL DEF FollowsSpec

(* No FOLLOW array ever holds a symbol that cannot stand behind its
   nonterminal. *)
THEOREM FollowsAreSound == FollowsSpec => []FollowsSound
<1>1. FollowInv => FollowsSound BY DEF FollowInv
<1> QED BY <1>1, FollowInvariant, PTL

(* A set marked in follows_created is complete: the calls that take it
   without looking at the rules lose nothing. *)
THEOREM CreatedAreComplete == FollowsSpec => []CreatedComplete
<1>1. FollowInv => CreatedComplete BY DEF FollowInv
<1> QED BY <1>1, FollowInvariant, PTL

(* When the outermost call returns, the set of the nonterminal it was made
   for is FOLLOW, whatever the calls inside have left out. *)
THEOREM RootIsComplete == FollowsSpec => RootComplete
<1>1. ASSUME FollowInv, FirstsBeforeFollows \/ FollowNext,
             frames # <<>>, frames' = <<>>
      PROVE  ReturnToRoot
  <2>1. Len(frames) \in Nat \ {0} BY <1>1, CallFacts
  <2>2. \A f, s : frames' # Append(s, f)
    BY <1>1
  <2>3. ~FirstsBeforeFollows
    BY <1>1 DEF FirstsBeforeFollows, followOwnVars
  <2>4. \A f : ReplaceTop(f) # <<>>
    BY <1>1, CallFacts DEF ReplaceTop
  <2>5. ~SkipCreated /\ ~CallRoot
    BY <1>1 DEF SkipCreated, CallRoot
  <2>6. ~SkipSymbol /\ ~FollowInBody /\ ~HeadUsed /\ ~HeadCreated
    BY <1>1, <2>4 DEF SkipSymbol, FollowInBody, HeadUsed, HeadCreated
  <2>7. ~CallHead /\ ~ReturnToCaller
    BY <2>2 DEF CallHead, ReturnToCaller
  <2> QED BY <1>1, <2>3, <2>5, <2>6, <2>7 DEF FollowNext
<1>2. FollowInv /\ [FirstsBeforeFollows \/ FollowNext]_followVars =>
        [frames # <<>> /\ frames' = <<>> =>
           follows[follow_idx] = Follow(rules, follow_idx)]_followVars
  BY <1>1, RootHasAll
<1> QED BY <1>2, FollowInvariant, PTL DEF FollowsSpec, RootComplete

(* Every array of compute_follows keeps to its type, and a call that is not
   about to return stands at a position inside a rule body. *)
THEOREM FollowTypeOKTheorem == FollowsSpec => []FollowTypeOK
<1>1. FollowInv => FollowTypeOK
  BY DEF FollowInv, FollowTypes, FollowTypeOK, FrameOK
<1> QED BY <1>1, FollowInvariant, PTL

-----------------------------------------------------------------------------
(* The kernels. *)

DotType == [rule : Nat, dot : Nat]
GotoType == [from : Nat, symbol : Symbols]
KernelType == [dots : Seq(DotType), gotos : Seq(GotoType)]

KernelTypes ==
  /\ kernels \in Seq(KernelType) /\ Len(kernels) \in 1 .. MaxKernels
  /\ k_idx \in 1 .. Len(kernels) + 1
  /\ rd_idx \in Nat \ {0} /\ ef_idx \in Nat \ {0} /\ n_idx \in Nat \ {0}
  /\ merge_k_idx \in 0 .. Len(kernels)

(* No kernel is without dots, and gotos come from kernels that were reached. *)
KernelParts ==
  \A k \in DOMAIN kernels :
    /\ kernels[k].dots # <<>>
    /\ \A i \in DOMAIN kernels[k].dots : ValidDot(kernels[k].dots[i])
    /\ \A i \in DOMAIN kernels[k].gotos :
         kernels[k].gotos[i].from \in DOMAIN kernels
           /\ kernels[k].gotos[i].from <= k_idx

(* The loops stand at a dot that is open while a member of FIRST after it is
   looked at, and while a group is merged into a kernel. *)
AtOpenDot ==
  /\ k_idx \in DOMAIN kernels /\ rd_idx \in DOMAIN kernels[k_idx].dots
  /\ ~AtEnd(CurrentDot)

Merging ==
  /\ FirstsDone /\ AtOpenDot
  /\ ef_idx \in DOMAIN FirstAfter(CurrentDot)
  /\ k_idx <= merge_k_idx
  /\ merge_k_idx \in GotoTargets(Goto)
  /\ \A j \in DOMAIN NewDots :
       j < n_idx => NewDots[j] \in ElementsOf(kernels[merge_k_idx].dots)

PlaceInv ==
  /\ ~FirstsDone => KernelInit
  /\ ef_idx > 1 => AtOpenDot
  /\ merge_k_idx # 0 => Merging

KernelInv ==
  /\ RuleInv /\ KernelTypes /\ KernelParts /\ PlaceInv
  /\ EntrySymbol /\ MovesComplete

-----------------------------------------------------------------------------
(* Every member of FIRST but the nonterminal itself begins a rule of one. *)
LEMMA MemberHasRule ==
  ASSUME NEW g \in Grammars, NEW n \in Symbols, NEW y \in First(g, n), y # n
  PROVE  RulesBeginningWith(g, n, y) # {}
<1> SUFFICES ASSUME RulesBeginningWith(g, n, y) = {} PROVE FALSE
  OBVIOUS
<1> DEFINE S == First(g, n) \ {y}
<1>1. S \in SUBSET Symbols /\ n \in S
  BY FirstSubset, FirstHoldsSelf
<1>2. FirstClosed(g, S)
  <2> SUFFICES ASSUME NEW r \in DOMAIN g, g[r].head \in S
               PROVE  g[r].body[1] \in S
    BY DEF FirstClosed
  <2>1. g[r].body[1] \in First(g, n)
    BY FirstIsClosed
  <2>2. g[r].body[1] # y
    BY DEF RulesBeginningWith
  <2> QED BY <2>1, <2>2
<1> HIDE DEF S
<1>3. First(g, n) \subseteq S
  BY <1>1, <1>2, FirstIsLeast
<1> QED BY <1>3 DEF S

(* A valid dot that is open stands in front of a symbol. *)
LEMMA OpenDot ==
  ASSUME rules \in Grammars, NEW d \in DotType, ValidDot(d), ~AtEnd(d)
  PROVE  /\ SymbolAfter(d) \in Symbols
         /\ MovedOn(d) \in DotType /\ ValidDot(MovedOn(d))
         /\ MovedOn(d) = RuleDot(d.rule, d.dot + 1)
         /\ MovedOn(d).dot = d.dot + 1 /\ MovedOn(d).rule = d.rule
         /\ SymbolBefore(MovedOn(d)) = SymbolAfter(d)
<1>1. /\ d.rule \in DOMAIN rules /\ d.rule \in Nat /\ d.dot \in Nat
      /\ rules[d.rule].body \in Seq(Symbols)
      /\ Len(rules[d.rule].body) \in Nat
      /\ d.dot < Len(rules[d.rule].body)
  BY RuleFacts DEF DotType, ValidDot, AtEnd
<1>2. d = [rule |-> d.rule, dot |-> d.dot]
  BY DEF DotType
<1>3. MovedOn(d) = [rule |-> d.rule, dot |-> d.dot + 1]
  BY <1>2 DEF MovedOn
<1>4. SymbolAfter(d) \in Symbols
  BY <1>1 DEF SymbolAfter
<1>5. MovedOn(d) \in DotType /\ ValidDot(MovedOn(d))
  BY <1>1, <1>3 DEF DotType, ValidDot
<1> QED BY <1>3, <1>4, <1>5 DEF SymbolBefore, SymbolAfter, RuleDot

(* The rule of the dot x begins what may stand at the dot d. *)
Begun(d, x) == rules[x.rule].head \in First(rules, SymbolAfter(d))

(* The members of FIRST behind an open dot, and the group of each: it is not
   empty, and the member stands in front of all its dots. *)
LEMMA GroupFacts ==
  ASSUME RuleInv, FirstsDone, NEW d \in DotType, ValidDot(d), ~AtEnd(d),
         NEW i \in DOMAIN FirstAfter(d)
  PROVE  /\ FirstAfter(d)[i] \in Symbols /\ i \in Nat \ {0}
         /\ Group(d, i) \in Seq(DotType) /\ Group(d, i) # <<>>
         /\ \A j \in DOMAIN Group(d, i) :
              /\ ValidDot(Group(d, i)[j])
              /\ Group(d, i)[j].dot >= 1
              /\ SymbolBefore(Group(d, i)[j]) = FirstAfter(d)[i]
              /\ \/ Group(d, i)[j].dot = 1 /\ Begun(d, Group(d, i)[j])
                 \/ Group(d, i)[j] = MovedOn(d)
<1> DEFINE s == SymbolAfter(d)
           e == FirstAfter(d)[i]
           begun == IF s \in Terminals THEN <<>> ELSE first_rules[s][i]
           A == [j \in 1 .. Len(begun) |-> RuleDot(begun[j], 1)]
           B == IF i = 1 THEN <<MovedOn(d)>> ELSE <<>>
<1>1. /\ rules \in Grammars /\ DOMAIN rules = 1 .. Len(rules) /\ Len(rules) \in Nat
      /\ first_rules \in [Nonterminals -> Seq(Seq(DOMAIN rules))]
      /\ firsts \in [Nonterminals -> Seq(Symbols)]
      /\ FirstRulesExact /\ FirstsExact
  BY RuleFacts DEF RuleInv, FirstInv, StoredInv
<1>2. s \in Symbols
  BY <1>1, OpenDot
<1>3. /\ e \in Symbols /\ i \in Nat \ {0}
      /\ begun \in Seq(DOMAIN rules)
      /\ \A j \in 1 .. Len(begun) :
           rules[begun[j]].body[1] = e /\ rules[begun[j]].head \in First(rules, s)
      /\ i = 1 => e = s
      /\ i # 1 => Len(begun) # 0
  <2>1. CASE s \in Terminals
    <3>1. FirstAfter(d) = <<s>> /\ begun = <<>>
      BY <2>1 DEF FirstAfter
    <3>2. i = 1 /\ e = s BY <3>1
    <3> HIDE DEF begun, e, s
    <3> QED BY <1>2, <3>1, <3>2
  <2>2. CASE s \notin Terminals
    <3>1. s \in Nonterminals /\ s < non_idx
      <4>1. s \in Nonterminals BY <1>2, <2>2, SymbolKinds
      <4>2. non_idx \in Int /\ non_idx > TermCount + NontermCount - 1
        BY CountAssumption DEF FirstsDone, RuleInv, FirstInv, StoredInv
      <4> QED BY <4>1, <4>2, CountAssumption DEF Nonterminals
    <3>2. FirstAfter(d) = firsts[s] /\ begun = first_rules[s][i]
      BY <2>2 DEF FirstAfter
    <3>3. /\ DOMAIN first_rules[s] = DOMAIN firsts[s]
          /\ firsts[s][1] = s
          /\ Distinct(firsts[s])
          /\ ElementsOf(begun) = RulesBeginningWith(rules, s, e)
          /\ first_rules[s] \in Seq(Seq(DOMAIN rules))
          /\ firsts[s] \in Seq(Symbols)
          /\ i \in DOMAIN firsts[s] /\ e = firsts[s][i]
      BY <1>1, <3>1, <3>2 DEF FirstRulesExact, Parallel
    <3>4. /\ i \in 1 .. Len(firsts[s]) /\ Len(firsts[s]) \in Nat
          /\ 1 \in DOMAIN firsts[s]
          /\ e \in Symbols /\ begun \in Seq(DOMAIN rules)
      BY <3>2, <3>3
    <3>5. ElementsOf(firsts[s]) = First(rules, s)
      BY <1>1, <3>1 DEF FirstsExact
    <3>6. i # 1 => e # s
      BY <3>3, <3>4 DEF Distinct
    <3>7. e \in First(rules, s)
      BY <3>3, <3>5 DEF ElementsOf
    <3> HIDE DEF begun, e, s
    <3>8. i # 1 => ElementsOf(begun) # {}
      BY <1>1, <1>2, <3>3, <3>6, <3>7, MemberHasRule
    <3>9. DOMAIN begun = 1 .. Len(begun) /\ Len(begun) \in Nat
      BY <3>4
    <3>10. i # 1 => Len(begun) # 0
      <4> SUFFICES ASSUME i # 1, Len(begun) = 0 PROVE FALSE
        OBVIOUS
      <4>1. PICK x : x \in ElementsOf(begun) BY <3>8
      <4>2. PICK j \in 1 .. 0 : x = begun[j] BY <3>9, <4>1 DEF ElementsOf
      <4> QED BY <4>2
    <3>11. \A j \in 1 .. Len(begun) :
             rules[begun[j]].body[1] = e /\ rules[begun[j]].head \in First(rules, s)
      <4> SUFFICES ASSUME NEW j \in 1 .. Len(begun)
                   PROVE  /\ rules[begun[j]].body[1] = e
                          /\ rules[begun[j]].head \in First(rules, s)
        OBVIOUS
      <4>1. begun[j] \in RulesBeginningWith(rules, s, e)
        BY <3>3, <3>9 DEF ElementsOf
      <4> QED BY <4>1 DEF RulesBeginningWith
    <3>12. (i = 1 => e = s) /\ i \in Nat \ {0}
      BY <3>3, <3>4
    <3> QED BY <3>4, <3>10, <3>11, <3>12, Zenon
  <2> QED BY <2>1, <2>2
<1> HIDE DEF begun
<1>4. /\ A \in Seq(DotType) /\ Len(A) = Len(begun) /\ Len(begun) \in Nat
      /\ DOMAIN A = 1 .. Len(begun)
      /\ \A j \in 1 .. Len(begun) : /\ A[j] = [rule |-> begun[j], dot |-> 1]
                                    /\ begun[j] \in DOMAIN rules
  <2>1. Len(begun) \in Nat /\ \A j \in 1 .. Len(begun) : begun[j] \in 1 .. Len(rules)
    BY <1>1, <1>3
  <2>2. \A j \in 1 .. Len(begun) : RuleDot(begun[j], 1) \in DotType
    BY <1>1, <2>1 DEF RuleDot, DotType
  <2>3. A \in [1 .. Len(begun) -> DotType] /\ DOMAIN A = 1 .. Len(begun)
    BY <2>2
  <2>4. A \in Seq(DotType) /\ Len(A) = Len(begun)
    BY <2>1, <2>3
  <2> QED BY <1>1, <2>1, <2>3, <2>4 DEF RuleDot
<1>5. \A j \in 1 .. Len(begun) :
        /\ ValidDot(A[j]) /\ A[j].dot = 1 /\ SymbolBefore(A[j]) = e
        /\ Begun(d, A[j])
  <2> SUFFICES ASSUME NEW j \in 1 .. Len(begun)
               PROVE  /\ ValidDot(A[j]) /\ A[j].dot = 1 /\ SymbolBefore(A[j]) = e
                      /\ Begun(d, A[j])
    OBVIOUS
  <2>1. A[j].rule = begun[j] /\ A[j].dot = 1 /\ begun[j] \in 1 .. Len(rules)
    BY <1>1, <1>4
  <2>2. Len(rules[begun[j]].body) \in Nat \ {0}
    BY <1>1, <2>1, RuleFacts
  <2>3. /\ rules[begun[j]].head \in First(rules, s)
        /\ rules[begun[j]].body[1] = e
    BY <1>3
  <2> HIDE DEF A, e
  <2>4. Begun(d, A[j])
    BY <2>1, <2>3 DEF Begun
  <2>5. ValidDot(A[j]) /\ SymbolBefore(A[j]) = e
    BY <1>1, <2>1, <2>2, <2>3 DEF ValidDot, SymbolBefore
  <2> QED BY <2>1, <2>4, <2>5
<1>6. /\ B \in Seq(DotType)
      /\ i = 1 => Len(B) = 1 /\ B[1] = MovedOn(d)
      /\ i # 1 => Len(B) = 0
  BY <1>1, OpenDot
<1>7. i = 1 => /\ ValidDot(MovedOn(d)) /\ MovedOn(d).dot >= 1
               /\ SymbolBefore(MovedOn(d)) = e
  <2>1. d.dot \in Nat BY DEF DotType
  <2> QED BY <1>1, <1>3, <2>1, OpenDot
<1>8. Group(d, i) = A \o B
  BY DEF Group, begun
<1> HIDE DEF A, B, e, s
<1>9. /\ Group(d, i) \in Seq(DotType)
      /\ Len(Group(d, i)) = Len(A) + Len(B)
      /\ \A j \in 1 .. Len(A) + Len(B) :
           Group(d, i)[j] = IF j <= Len(A) THEN A[j] ELSE B[j - Len(A)]
  <2>1. A \in Seq(DotType) /\ B \in Seq(DotType) BY <1>4, <1>6
  <2> QED BY <1>8, <2>1, ConcatProperties, Zenon
<1>10. Group(d, i) # <<>>
  BY <1>3, <1>4, <1>6, <1>9
<1>11. ASSUME NEW j \in 1 .. Len(A) + Len(B)
       PROVE  /\ ValidDot(Group(d, i)[j])
              /\ Group(d, i)[j].dot >= 1
              /\ SymbolBefore(Group(d, i)[j]) = e
              /\ \/ Group(d, i)[j].dot = 1 /\ Begun(d, Group(d, i)[j])
                 \/ Group(d, i)[j] = MovedOn(d)
  <2>1. CASE j <= Len(A)
    BY <1>4, <1>5, <1>9, <2>1
  <2>2. CASE ~(j <= Len(A))
    <3>1. Len(A) \in Nat /\ Len(B) \in {0, 1} /\ (i # 1 => Len(B) = 0)
      BY <1>4, <1>6
    <3>2. \A a \in Nat, b \in {0, 1} : \A x \in 1 .. a + b :
            ~(x <= a) => b = 1 /\ x - a = 1
      OBVIOUS
    <3>3. Len(B) = 1 /\ j - Len(A) = 1 BY <2>2, <3>1, <3>2, Zenon
    <3> QED BY <1>6, <1>7, <1>9, <2>2, <3>1, <3>3
  <2> QED BY <2>1, <2>2
<1>12. DOMAIN Group(d, i) = 1 .. Len(A) + Len(B)
  BY <1>9
<1> QED BY <1>3, <1>9, <1>10, <1>11, <1>12 DEF e

LEMMA FirstAfterSeq ==
  ASSUME RuleInv, NEW d \in DotType, ValidDot(d), ~AtEnd(d)
  PROVE  /\ FirstAfter(d) \in Seq(Symbols) /\ Len(FirstAfter(d)) \in Nat
         /\ DOMAIN FirstAfter(d) = 1 .. Len(FirstAfter(d))
<1>1. /\ rules \in Grammars /\ firsts \in [Nonterminals -> Seq(Symbols)]
  BY DEF RuleInv, FirstInv, StoredInv
<1>2. SymbolAfter(d) \in Symbols
  BY <1>1, OpenDot
<1>3. SymbolAfter(d) \notin Terminals => SymbolAfter(d) \in Nonterminals
  BY <1>2, SymbolKinds
<1>4. FirstAfter(d) \in Seq(Symbols)
  BY <1>1, <1>2, <1>3 DEF FirstAfter
<1> QED BY <1>4

LEMMA KernelFacts ==
  ASSUME KernelTypes, KernelParts
  PROVE  /\ DOMAIN kernels = 1 .. Len(kernels) /\ Len(kernels) \in Nat \ {0}
         /\ \A k \in DOMAIN kernels :
              /\ kernels[k] \in KernelType
              /\ kernels[k].dots \in Seq(DotType)
              /\ Len(kernels[k].dots) \in Nat \ {0}
              /\ DOMAIN kernels[k].dots = 1 .. Len(kernels[k].dots)
              /\ kernels[k].gotos \in Seq(GotoType)
              /\ Len(kernels[k].gotos) \in Nat
              /\ DOMAIN kernels[k].gotos = 1 .. Len(kernels[k].gotos)
              /\ \A i \in DOMAIN kernels[k].dots :
                   /\ kernels[k].dots[i] \in DotType
                   /\ ValidDot(kernels[k].dots[i])
<1>1. /\ kernels \in Seq(KernelType) /\ Len(kernels) \in Nat \ {0}
      /\ DOMAIN kernels = 1 .. Len(kernels)
  BY MaxKernelsAssumption DEF KernelTypes
<1>2. ASSUME NEW k \in DOMAIN kernels
      PROVE  /\ kernels[k] \in KernelType
             /\ kernels[k].dots \in Seq(DotType) /\ kernels[k].dots # <<>>
             /\ kernels[k].gotos \in Seq(GotoType)
             /\ \A i \in DOMAIN kernels[k].dots : ValidDot(kernels[k].dots[i])
  <2>1. kernels[k] \in KernelType BY <1>1
  <2>2. kernels[k].dots \in Seq(DotType) /\ kernels[k].gotos \in Seq(GotoType)
    BY <2>1 DEF KernelType
  <2> QED BY <2>1, <2>2 DEF KernelParts
<1>3. ASSUME NEW k \in DOMAIN kernels
      PROVE  /\ Len(kernels[k].dots) \in Nat \ {0}
             /\ DOMAIN kernels[k].dots = 1 .. Len(kernels[k].dots)
             /\ Len(kernels[k].gotos) \in Nat
             /\ DOMAIN kernels[k].gotos = 1 .. Len(kernels[k].gotos)
             /\ \A i \in DOMAIN kernels[k].dots : kernels[k].dots[i] \in DotType
  BY <1>2
<1> QED BY <1>1, <1>2, <1>3

(* What is known where a group of dots is at hand. *)
LEMMA GroupAtHand ==
  ASSUME KernelInv, Expanding \/ merge_k_idx # 0
  PROVE  /\ FirstsDone /\ AtOpenDot /\ ef_idx \in DOMAIN FirstAfter(CurrentDot)
         /\ CurrentDot \in DotType /\ ValidDot(CurrentDot)
         /\ NewDots \in Seq(DotType) /\ NewDots # <<>>
         /\ \A j \in DOMAIN NewDots :
              /\ ValidDot(NewDots[j]) /\ NewDots[j].dot >= 1
              /\ SymbolBefore(NewDots[j]) = Goto.symbol
              /\ \/ NewDots[j].dot = 1 /\ Begun(CurrentDot, NewDots[j])
                 \/ NewDots[j] = MovedOn(CurrentDot)
         /\ Goto \in GotoType /\ Goto.from = k_idx
         /\ Goto.symbol = FirstAfter(CurrentDot)[ef_idx]
         /\ k_idx \in DOMAIN kernels
<1>1. /\ RuleInv /\ KernelTypes /\ KernelParts /\ PlaceInv
  BY DEF KernelInv
<1>2. /\ FirstsDone /\ AtOpenDot
      /\ ef_idx \in Nat \ {0}
      /\ merge_k_idx = 0 => ef_idx <= Len(FirstAfter(CurrentDot))
      /\ merge_k_idx # 0 => ef_idx \in DOMAIN FirstAfter(CurrentDot)
  <2>1. CASE merge_k_idx # 0
    BY <1>1, <2>1 DEF PlaceInv, Merging, KernelTypes
  <2>2. CASE merge_k_idx = 0
    <3>1. Expanding BY <2>2
    <3>2. k_idx \in DOMAIN kernels
      BY <1>1, <3>1, KernelFacts DEF Expanding, KernelsDone, KernelTypes
    <3>3. rd_idx \in DOMAIN kernels[k_idx].dots
      BY <1>1, <3>1, <3>2, KernelFacts DEF Expanding, KernelTypes
    <3> QED BY <1>1, <2>2, <3>1, <3>2, <3>3 DEF Expanding, AtOpenDot, KernelTypes
  <2> QED BY <2>1, <2>2
<1>3. /\ CurrentDot \in DotType /\ ValidDot(CurrentDot) /\ ~AtEnd(CurrentDot)
      /\ k_idx \in DOMAIN kernels /\ k_idx \in Nat
  BY <1>1, <1>2, KernelFacts DEF AtOpenDot, CurrentDot
<1>4. ef_idx \in DOMAIN FirstAfter(CurrentDot)
  BY <1>1, <1>2, <1>3, FirstAfterSeq
<1>5. /\ FirstAfter(CurrentDot)[ef_idx] \in Symbols
      /\ NewDots \in Seq(DotType) /\ NewDots # <<>>
      /\ \A j \in DOMAIN NewDots :
              /\ ValidDot(NewDots[j]) /\ NewDots[j].dot >= 1
              /\ SymbolBefore(NewDots[j]) = FirstAfter(CurrentDot)[ef_idx]
              /\ \/ NewDots[j].dot = 1 /\ Begun(CurrentDot, NewDots[j])
                 \/ NewDots[j] = MovedOn(CurrentDot)
  BY <1>1, <1>2, <1>3, <1>4, GroupFacts DEF NewDots
<1>6. Goto = [from |-> k_idx, symbol |-> FirstAfter(CurrentDot)[ef_idx]]
  BY DEF Goto
<1>7. /\ Goto \in GotoType /\ Goto.from = k_idx
      /\ Goto.symbol = FirstAfter(CurrentDot)[ef_idx]
  BY <1>3, <1>5, <1>6 DEF GotoType
<1> QED BY <1>2, <1>3, <1>4, <1>5, <1>7

-----------------------------------------------------------------------------
(* Steps only add: kernels, dots behind the dots, gotos. *)
Grown ==
  /\ DOMAIN kernels \subseteq DOMAIN kernels'
  /\ \A k \in DOMAIN kernels :
       /\ DOMAIN kernels[k].dots \subseteq DOMAIN kernels'[k].dots
       /\ \A i \in DOMAIN kernels[k].dots :
            kernels'[k].dots[i] = kernels[k].dots[i]
       /\ ElementsOf(kernels[k].gotos) \subseteq ElementsOf(kernels'[k].gotos)

(* MovesComplete, taken apart. *)
Moves(k, d, i) ==
  \E t \in GotoTargets([from |-> k, symbol |-> FirstAfter(d)[i]]) :
    ElementsOf(Group(d, i)) \subseteq ElementsOf(kernels[t].dots)

MovedTo(k, rd, d) ==
  ~AtEnd(d) =>
    \A i \in DOMAIN FirstAfter(d) : Expanded(k, rd, i) => Moves(k, d, i)

AllMoved ==
  \A k \in DOMAIN kernels : \A rd \in DOMAIN kernels[k].dots :
    \A d : d = kernels[k].dots[rd] => MovedTo(k, rd, d)

LEMMA MovesApart == MovesComplete <=> AllMoved
BY Zenon DEF MovesComplete, AllMoved, MovedTo, Moves

LEMMA MovesKept ==
  ASSUME Grown, UNCHANGED firstVars, NEW k, NEW d, NEW i, Moves(k, d, i)
  PROVE  Moves(k, d, i)'
<1>1. rules' = rules /\ firsts' = firsts /\ first_rules' = first_rules
  BY DEF firstVars
<1>2. FirstAfter(d)' = FirstAfter(d) /\ Group(d, i)' = Group(d, i)
  BY <1>1 DEF FirstAfter, Group, SymbolAfter
<1> DEFINE g == [from |-> k, symbol |-> FirstAfter(d)[i]]
<1>3. PICK t \in DOMAIN kernels :
        /\ g \in ElementsOf(kernels[t].gotos)
        /\ ElementsOf(Group(d, i)) \subseteq ElementsOf(kernels[t].dots)
  BY DEF Moves, GotoTargets
<1>4. ElementsOf(kernels[t].dots) \subseteq ElementsOf(kernels'[t].dots)
  BY <1>3 DEF Grown, ElementsOf
<1>5. t \in DOMAIN kernels' /\ g \in ElementsOf(kernels'[t].gotos)
  BY <1>3 DEF Grown
<1>6. ElementsOf(Group(d, i)') \subseteq ElementsOf(kernels'[t].dots)
  BY <1>2, <1>3, <1>4
<1>7. g' = g BY <1>2
<1> HIDE DEF g
<1>8. t \in GotoTargets(g)'
  BY <1>5, <1>7 DEF GotoTargets, ElementsOf
<1> QED BY <1>6, <1>8 DEF Moves, g, ElementsOf

(* The loops go over at most one more place, whose move is there. *)
LEMMA MovesCompleteKept ==
  ASSUME KernelInv, Grown, UNCHANGED firstVars,
         \A k \in DOMAIN kernels' : \A rd \in DOMAIN kernels'[k].dots :
           \A d : d = kernels'[k].dots[rd] /\ ~AtEnd(d) =>
             \A i \in DOMAIN FirstAfter(d) :
               Expanded(k, rd, i)' =>
                 \/ /\ k \in DOMAIN kernels /\ rd \in DOMAIN kernels[k].dots
                    /\ Expanded(k, rd, i)
                 \/ Moves(k, d, i)'
  PROVE  MovesComplete'
<1>1. AllMoved BY MovesApart DEF KernelInv
<1>2. ASSUME NEW k \in DOMAIN kernels', NEW rd \in DOMAIN kernels'[k].dots,
             NEW d, d = kernels'[k].dots[rd]
      PROVE  MovedTo(k, rd, d)'
  <2>1. rules' = rules /\ firsts' = firsts
    BY DEF firstVars
  <2>2. AtEnd(d)' = AtEnd(d) /\ FirstAfter(d)' = FirstAfter(d)
    BY <2>1 DEF AtEnd, FirstAfter, SymbolAfter
  <2> SUFFICES ASSUME ~AtEnd(d), NEW i \in DOMAIN FirstAfter(d), Expanded(k, rd, i)'
               PROVE  Moves(k, d, i)'
    BY <2>2, Zenon DEF MovedTo
  <2>3. \/ /\ k \in DOMAIN kernels /\ rd \in DOMAIN kernels[k].dots
           /\ Expanded(k, rd, i)
        \/ Moves(k, d, i)'
    BY <1>2
  <2>4. CASE /\ k \in DOMAIN kernels /\ rd \in DOMAIN kernels[k].dots
             /\ Expanded(k, rd, i)
    <3>1. d = kernels[k].dots[rd] BY <1>2, <2>4 DEF Grown
    <3>2. Moves(k, d, i) BY <1>1, <2>4, <3>1, Zenon DEF AllMoved, MovedTo
    <3> QED BY <3>2, MovesKept
  <2> QED BY <2>3, <2>4
<1>3. AllMoved'
  BY <1>2, Zenon DEF AllMoved
<1> QED BY <1>3, MovesApart, PTL

LEMMA RuleInvKept ==
  ASSUME RuleInv, UNCHANGED firstVars
  PROVE  /\ RuleInv' /\ rules' = rules /\ FirstsDone' = FirstsDone
         /\ \A d : /\ AtEnd(d)' = AtEnd(d) /\ FirstAfter(d)' = FirstAfter(d)
                   /\ ValidDot(d)' = ValidDot(d)
                   /\ SymbolBefore(d)' = SymbolBefore(d)
<1>1. RuleInv' BY NextRuleInv
<1>2. rules' = rules /\ firsts' = firsts /\ non_idx' = non_idx
  BY DEF firstVars, scanVars
<1> QED
  BY <1>1, <1>2 DEF FirstsDone, AtEnd, FirstAfter, ValidDot, SymbolBefore, SymbolAfter

(* The kernel at k is replaced by one with the same dots and one goto more. *)
LEMMA GotoAdded ==
  ASSUME KernelTypes, KernelParts, NEW k \in DOMAIN kernels, NEW g \in GotoType,
         kernels' = [kernels EXCEPT ![k].gotos = Append(@, g)]
  PROVE  /\ kernels' \in Seq(KernelType) /\ Len(kernels') = Len(kernels)
         /\ DOMAIN kernels' = DOMAIN kernels
         /\ \A j \in DOMAIN kernels : kernels'[j].dots = kernels[j].dots
         /\ \A j \in DOMAIN kernels : j # k => kernels'[j].gotos = kernels[j].gotos
         /\ DOMAIN kernels'[k].gotos = 1 .. Len(kernels[k].gotos) + 1
         /\ kernels'[k].gotos[Len(kernels[k].gotos) + 1] = g
         /\ \A i \in DOMAIN kernels[k].gotos :
              kernels'[k].gotos[i] = kernels[k].gotos[i]
         /\ Grown /\ g \in ElementsOf(kernels'[k].gotos)
<1> DEFINE more == Append(kernels[k].gotos, g)
           new == [dots |-> kernels[k].dots, gotos |-> more]
<1>1. /\ kernels \in Seq(KernelType) /\ Len(kernels) \in Nat
      /\ DOMAIN kernels = 1 .. Len(kernels) /\ k \in 1 .. Len(kernels)
      /\ kernels[k].dots \in Seq(DotType) /\ kernels[k].gotos \in Seq(GotoType)
      /\ Len(kernels[k].gotos) \in Nat
      /\ DOMAIN kernels[k].gotos = 1 .. Len(kernels[k].gotos)
  BY KernelFacts DEF KernelTypes
<1>2. /\ more \in Seq(GotoType) /\ DOMAIN more = 1 .. Len(kernels[k].gotos) + 1
      /\ more[Len(kernels[k].gotos) + 1] = g
      /\ \A i \in DOMAIN kernels[k].gotos : more[i] = kernels[k].gotos[i]
  BY <1>1
<1>3. kernels' = [kernels EXCEPT ![k] = new]
  <2>1. kernels[k] \in KernelType BY KernelFacts
  <2>2. kernels[k] = [dots |-> kernels[k].dots, gotos |-> kernels[k].gotos]
    BY <2>1 DEF KernelType
  <2>3. \A a, b, c : [[dots |-> a, gotos |-> b] EXCEPT !.gotos = c]
                       = [dots |-> a, gotos |-> c]
    OBVIOUS
  <2>4. kernels' = [kernels EXCEPT ![k] = [kernels[k] EXCEPT !.gotos = more]]
    OBVIOUS
  <2> QED BY <2>2, <2>3, <2>4
<1>4. new \in KernelType /\ new.dots = kernels[k].dots /\ new.gotos = more
  BY <1>1, <1>2 DEF KernelType
<1> HIDE DEF new
<1>5. /\ kernels' \in Seq(KernelType) /\ Len(kernels') = Len(kernels)
      /\ \A j \in 1 .. Len(kernels) : kernels'[j] = IF j = k THEN new ELSE kernels[j]
  <2>1. \A e \in KernelType, i \in 1 .. Len(kernels) :
          /\ [kernels EXCEPT ![i] = e] \in Seq(KernelType)
          /\ Len([kernels EXCEPT ![i] = e]) = Len(kernels)
          /\ \A j \in 1 .. Len(kernels) :
               [kernels EXCEPT ![i] = e][j] = IF j = i THEN e ELSE kernels[j]
    BY <1>1, ExceptSeq, Zenon
  <2>2. /\ [kernels EXCEPT ![k] = new] \in Seq(KernelType)
        /\ Len([kernels EXCEPT ![k] = new]) = Len(kernels)
        /\ \A j \in 1 .. Len(kernels) :
             [kernels EXCEPT ![k] = new][j] = IF j = k THEN new ELSE kernels[j]
    BY <1>1, <1>4, <2>1, Zenon
  <2> QED BY <1>3, <2>2
<1>6. /\ DOMAIN kernels' = DOMAIN kernels
      /\ \A j \in DOMAIN kernels : kernels'[j].dots = kernels[j].dots
      /\ \A j \in DOMAIN kernels : j # k => kernels'[j].gotos = kernels[j].gotos
      /\ kernels'[k].gotos = more
  BY <1>1, <1>4, <1>5
<1> HIDE DEF more
<1>7. g \in ElementsOf(kernels'[k].gotos)
  BY <1>1, <1>2, <1>6 DEF ElementsOf
<1>8. ElementsOf(kernels[k].gotos) \subseteq ElementsOf(more)
  BY <1>1, <1>2 DEF ElementsOf
<1>9. Grown
  BY <1>6, <1>8 DEF Grown
<1> QED BY <1>2, <1>5, <1>6, <1>7, <1>9

(* The loops of an open dot go on to the next member of FIRST. *)
LEMMA PlaceGoesOn ==
  ASSUME KernelInv, FirstsDone, AtOpenDot, Grown, merge_k_idx' = 0,
         UNCHANGED <<firstVars, k_idx, rd_idx>>
  PROVE  PlaceInv' /\ CurrentDot' = CurrentDot
<1>1. FirstsDone' /\ \A d : AtEnd(d)' = AtEnd(d)
  BY RuleInvKept DEF KernelInv
<1>2. k_idx \in DOMAIN kernels' /\ rd_idx \in DOMAIN kernels'[k_idx].dots
  BY DEF AtOpenDot, Grown
<1>3. kernels'[k_idx].dots[rd_idx] = CurrentDot
  BY DEF AtOpenDot, Grown, CurrentDot
<1>4. CurrentDot' = CurrentDot
  BY <1>3 DEF CurrentDot
<1>5. ~AtEnd(CurrentDot)'
  <2>1. AtEnd(CurrentDot)' <=> AtEnd(CurrentDot)
    BY <1>4, RuleInvKept DEF KernelInv, AtEnd
  <2> QED BY <2>1 DEF AtOpenDot
<1>6. AtOpenDot'
  BY <1>2, <1>5 DEF AtOpenDot
<1> QED BY <1>1, <1>4, <1>6 DEF PlaceInv

LEMMA GotoAddedInv ==
  ASSUME KernelInv, Expanding \/ merge_k_idx # 0, NEW k \in DOMAIN kernels,
         kernels' = WithGoto(k), ef_idx' = ef_idx + 1, merge_k_idx' = 0,
         n_idx' \in Nat \ {0}, UNCHANGED <<firstVars, k_idx, rd_idx>>,
         ElementsOf(NewDots) \subseteq ElementsOf(kernels[k].dots),
         \A i \in DOMAIN kernels[k].dots :
           /\ kernels[k].dots[i].dot >= 1
           /\ SymbolBefore(kernels[k].dots[i]) = Goto.symbol
  PROVE  KernelInv'
<1>0. PICK g : g = Goto
  OBVIOUS
<1>1. /\ RuleInv /\ KernelTypes /\ KernelParts /\ PlaceInv /\ EntrySymbol
      /\ FirstsDone /\ AtOpenDot /\ g \in GotoType /\ g.from = k_idx
      /\ ef_idx \in DOMAIN FirstAfter(CurrentDot)
      /\ g.symbol = FirstAfter(CurrentDot)[ef_idx] /\ k_idx \in DOMAIN kernels
  BY <1>0, GroupAtHand DEF KernelInv
<1>2. kernels' = [kernels EXCEPT ![k].gotos = Append(@, g)]
  BY <1>0 DEF WithGoto
<1>3. /\ kernels' \in Seq(KernelType) /\ Len(kernels') = Len(kernels)
      /\ DOMAIN kernels' = DOMAIN kernels
      /\ \A j \in DOMAIN kernels : kernels'[j].dots = kernels[j].dots
      /\ \A j \in DOMAIN kernels : j # k => kernels'[j].gotos = kernels[j].gotos
      /\ DOMAIN kernels'[k].gotos = 1 .. Len(kernels[k].gotos) + 1
      /\ kernels'[k].gotos[Len(kernels[k].gotos) + 1] = g
      /\ \A i \in DOMAIN kernels[k].gotos :
           kernels'[k].gotos[i] = kernels[k].gotos[i]
      /\ Grown /\ g \in ElementsOf(kernels'[k].gotos)
  BY <1>1, <1>2, GotoAdded
<1>4. /\ RuleInv' /\ rules' = rules /\ FirstsDone'
      /\ \A d : /\ AtEnd(d)' = AtEnd(d) /\ FirstAfter(d)' = FirstAfter(d)
                /\ ValidDot(d)' = ValidDot(d) /\ SymbolBefore(d)' = SymbolBefore(d)
  BY <1>1, RuleInvKept
<1>5. KernelTypes'
  BY <1>1, <1>3 DEF KernelTypes
<1>6. \A j \in DOMAIN kernels : \A i \in DOMAIN kernels'[j].gotos :
        \/ i \in DOMAIN kernels[j].gotos /\ kernels'[j].gotos[i] = kernels[j].gotos[i]
        \/ j = k /\ kernels'[j].gotos[i] = g
  <2>1. \A j \in DOMAIN kernels : DOMAIN kernels[j].gotos = 1 .. Len(kernels[j].gotos)
                                  /\ Len(kernels[j].gotos) \in Nat
    BY <1>1, KernelFacts
  <2>2. \A i \in 1 .. Len(kernels[k].gotos) + 1 :
          i \in 1 .. Len(kernels[k].gotos) \/ i = Len(kernels[k].gotos) + 1
    BY <2>1
  <2> QED BY <1>3, <2>1, <2>2
<1>7. KernelParts'
  <2> SUFFICES ASSUME NEW j \in DOMAIN kernels
               PROVE  /\ kernels'[j].dots # <<>>
                      /\ \A i \in DOMAIN kernels'[j].dots : ValidDot(kernels'[j].dots[i])
                      /\ \A i \in DOMAIN kernels'[j].gotos :
                           kernels'[j].gotos[i].from \in DOMAIN kernels
                             /\ kernels'[j].gotos[i].from <= k_idx
    BY <1>3, <1>4 DEF KernelParts, ValidDot
  <2>1. k_idx <= k_idx BY <1>1 DEF KernelTypes
  <2> QED BY <1>1, <1>3, <1>6, <2>1 DEF KernelParts
<1>8. PlaceInv'
  BY <1>1, <1>3, PlaceGoesOn
<1>9. EntrySymbol'
  <2> SUFFICES ASSUME NEW j \in DOMAIN kernels, NEW i \in DOMAIN kernels[j].dots,
                      NEW m \in DOMAIN kernels'[j].gotos
               PROVE  /\ kernels[j].dots[i].dot >= 1
                      /\ SymbolBefore(kernels[j].dots[i]) = kernels'[j].gotos[m].symbol
    BY <1>3, <1>4 DEF EntrySymbol, SymbolBefore
  <2>1. CASE m \in DOMAIN kernels[j].gotos /\ kernels'[j].gotos[m] = kernels[j].gotos[m]
    BY <1>1, <2>1 DEF EntrySymbol
  <2>2. CASE j = k /\ kernels'[j].gotos[m] = g
    BY <1>0, <2>2
  <2> QED BY <1>6, <2>1, <2>2
<1>10. MovesComplete'
  <2> SUFFICES ASSUME NEW j \in DOMAIN kernels', NEW rd \in DOMAIN kernels'[j].dots,
                      NEW d, d = kernels'[j].dots[rd], ~AtEnd(d),
                      NEW i \in DOMAIN FirstAfter(d), Expanded(j, rd, i)'
               PROVE  \/ /\ j \in DOMAIN kernels /\ rd \in DOMAIN kernels[j].dots
                         /\ Expanded(j, rd, i)
                      \/ Moves(j, d, i)'
    BY <1>3, MovesCompleteKept
  <2>1. \/ Expanded(j, rd, i)
        \/ j = k_idx /\ rd = rd_idx /\ i = ef_idx
    <3>1. i \in Nat
      <4>1. d \in DotType /\ ValidDot(d) BY <1>1, <1>3, KernelFacts
      <4> QED BY <1>1, <4>1, FirstAfterSeq
    <3>2. ef_idx \in Nat BY <1>1 DEF KernelTypes
    <3> QED BY <3>1, <3>2 DEF Expanded
  <2>2. CASE j = k_idx /\ rd = rd_idx /\ i = ef_idx
    <3>1. d = CurrentDot BY <1>1, <1>3, <2>2 DEF CurrentDot
    <3>2. Group(d, i)' = NewDots /\ FirstAfter(d)' = FirstAfter(d)
      BY <1>4, <2>2, <3>1 DEF Group, NewDots, SymbolAfter, firstVars
    <3>3. [from |-> j, symbol |-> FirstAfter(d)[i]] = g
      BY <1>0, <2>2, <3>1 DEF Goto
    <3>4. k \in GotoTargets(g)'
      BY <1>3 DEF GotoTargets, ElementsOf
    <3>5. ElementsOf(NewDots) \subseteq ElementsOf(kernels'[k].dots)
      BY <1>3
    <3>6. ElementsOf(Group(d, i))' \subseteq ElementsOf(kernels'[k].dots)
      BY <3>2, <3>5 DEF ElementsOf
    <3>7. k \in GotoTargets([from |-> j, symbol |-> FirstAfter(d)[i]])'
      BY <3>2, <3>3, <3>4, <1>3 DEF GotoTargets, ElementsOf
    <3> QED BY <3>6, <3>7 DEF Moves, ElementsOf
  <2> QED BY <1>3, <2>1, <2>2
<1> QED BY <1>4, <1>5, <1>7, <1>8, <1>9, <1>10 DEF KernelInv

LEMMA KnownKernelInv == KernelInv /\ KnownKernel => KernelInv'
<1> SUFFICES ASSUME KernelInv, KnownKernel PROVE KernelInv'
  OBVIOUS
<1>1. PICK k \in SameDots : kernels' = WithGoto(k)
  BY DEF KnownKernel
<1>2. /\ k \in DOMAIN kernels /\ kernels[k].dots = NewDots
  BY <1>1 DEF SameDots
<1>3. /\ Expanding /\ ef_idx' = ef_idx + 1 /\ merge_k_idx' = 0
      /\ n_idx' \in Nat \ {0} /\ UNCHANGED <<firstVars, k_idx, rd_idx>>
  BY DEF KnownKernel, Expanding, KernelInv, KernelTypes
<1> QED BY <1>1, <1>2, <1>3, GroupAtHand, GotoAddedInv

(* The kernel a group was merged into was entered under the same symbol. *)
LEMMA MergeTarget ==
  ASSUME KernelInv, merge_k_idx # 0
  PROVE  /\ merge_k_idx \in DOMAIN kernels /\ Merging
         /\ \A i \in DOMAIN kernels[merge_k_idx].dots :
              /\ kernels[merge_k_idx].dots[i].dot >= 1
              /\ SymbolBefore(kernels[merge_k_idx].dots[i]) = Goto.symbol
         /\ \A i \in DOMAIN kernels[merge_k_idx].gotos :
              kernels[merge_k_idx].gotos[i].symbol = Goto.symbol
<1>1. Merging /\ merge_k_idx \in DOMAIN kernels
  BY DEF KernelInv, PlaceInv, Merging, GotoTargets
<1>2. PICK m \in DOMAIN kernels[merge_k_idx].gotos :
        kernels[merge_k_idx].gotos[m] = Goto
  BY <1>1 DEF Merging, GotoTargets, ElementsOf
<1>3. \A i \in DOMAIN kernels[merge_k_idx].dots :
        /\ kernels[merge_k_idx].dots[i].dot >= 1
        /\ SymbolBefore(kernels[merge_k_idx].dots[i]) = Goto.symbol
  BY <1>1, <1>2 DEF KernelInv, EntrySymbol
<1>4. 1 \in DOMAIN kernels[merge_k_idx].dots
  BY <1>1, KernelFacts DEF KernelInv
<1>5. \A i \in DOMAIN kernels[merge_k_idx].gotos :
        kernels[merge_k_idx].gotos[i].symbol = Goto.symbol
  BY <1>1, <1>3, <1>4 DEF KernelInv, EntrySymbol
<1> QED BY <1>1, <1>3, <1>5

LEMMA EndMergeInv == KernelInv /\ EndMerge => KernelInv'
<1> SUFFICES ASSUME KernelInv, EndMerge PROVE KernelInv'
  OBVIOUS
<1>1. /\ merge_k_idx # 0 /\ kernels' = WithGoto(merge_k_idx)
      /\ ef_idx' = ef_idx + 1 /\ merge_k_idx' = 0 /\ n_idx' \in Nat \ {0}
      /\ UNCHANGED <<firstVars, k_idx, rd_idx>> /\ n_idx > Len(NewDots)
  BY DEF EndMerge
<1>2. /\ NewDots \in Seq(DotType) /\ n_idx \in Nat
  BY <1>1, GroupAtHand DEF KernelInv, KernelTypes
<1>3. \A j \in DOMAIN NewDots : j < n_idx
  BY <1>1, <1>2
<1>4. ElementsOf(NewDots) \subseteq ElementsOf(kernels[merge_k_idx].dots)
  <2>1. \A j \in DOMAIN NewDots : NewDots[j] \in ElementsOf(kernels[merge_k_idx].dots)
    BY <1>1, <1>3, MergeTarget DEF Merging
  <2> QED BY <2>1 DEF ElementsOf
<1> QED BY <1>1, <1>4, MergeTarget, GotoAddedInv

LEMMA NewKernelInv == KernelInv /\ NewKernel => KernelInv'
<1> SUFFICES ASSUME KernelInv, NewKernel PROVE KernelInv'
  OBVIOUS
<1>0. PICK g : g = Goto
  OBVIOUS
<1>1. PICK group : group = NewDots
  OBVIOUS
<1> DEFINE new == [dots |-> group, gotos |-> <<g>>]
           n == Len(kernels)
<1>2. /\ RuleInv /\ KernelTypes /\ KernelParts /\ PlaceInv /\ EntrySymbol
      /\ FirstsDone /\ AtOpenDot /\ g \in GotoType /\ g.from = k_idx
      /\ g.symbol = FirstAfter(CurrentDot)[ef_idx] /\ k_idx \in DOMAIN kernels
      /\ group \in Seq(DotType) /\ group # <<>>
      /\ \A j \in DOMAIN group :
           ValidDot(group[j]) /\ group[j].dot >= 1 /\ SymbolBefore(group[j]) = g.symbol
  BY <1>0, <1>1, GroupAtHand DEF KernelInv, NewKernel
<1>3. /\ kernels' = Append(kernels, new) /\ n < MaxKernels
      /\ ef_idx' = ef_idx + 1 /\ merge_k_idx = 0
      /\ UNCHANGED <<firstVars, k_idx, rd_idx, merge_k_idx, n_idx>>
  BY <1>0, <1>1 DEF NewKernel, Expanding
<1>4. new \in KernelType /\ new.dots = group /\ new.gotos = <<g>>
  BY <1>2 DEF KernelType
<1>5. /\ n \in Nat \ {0} /\ DOMAIN kernels = 1 .. n /\ kernels \in Seq(KernelType)
  BY <1>2, KernelFacts DEF KernelTypes
<1> HIDE DEF new
<1>6. /\ kernels' \in Seq(KernelType) /\ Len(kernels') = n + 1
      /\ DOMAIN kernels' = 1 .. n + 1
      /\ \A j \in 1 .. n : kernels'[j] = kernels[j]
      /\ kernels'[n + 1] = new
  BY <1>3, <1>4, <1>5
<1>7. \A j \in DOMAIN kernels' : j \in DOMAIN kernels \/ j = n + 1
  BY <1>5, <1>6
<1>8. Grown
  BY <1>5, <1>6 DEF Grown
<1>9. /\ RuleInv' /\ rules' = rules /\ FirstsDone'
      /\ \A d : /\ AtEnd(d)' = AtEnd(d) /\ FirstAfter(d)' = FirstAfter(d)
                /\ ValidDot(d)' = ValidDot(d) /\ SymbolBefore(d)' = SymbolBefore(d)
  BY <1>2, <1>3, RuleInvKept
<1>10. KernelTypes'
  <2>1. n + 1 \in 1 .. MaxKernels BY <1>3, <1>5, MaxKernelsAssumption
  <2>2. /\ k_idx' \in 1 .. Len(kernels') + 1 /\ merge_k_idx' \in 0 .. Len(kernels')
        /\ rd_idx' \in Nat \ {0} /\ ef_idx' \in Nat \ {0} /\ n_idx' \in Nat \ {0}
    BY <1>2, <1>3, <1>5, <1>6 DEF KernelTypes
  <2> QED BY <1>6, <2>1, <2>2 DEF KernelTypes
<1>11. KernelParts'
  <2> SUFFICES ASSUME NEW j \in DOMAIN kernels'
               PROVE  /\ kernels'[j].dots # <<>>
                      /\ \A i \in DOMAIN kernels'[j].dots : ValidDot(kernels'[j].dots[i])
                      /\ \A i \in DOMAIN kernels'[j].gotos :
                           kernels'[j].gotos[i].from \in DOMAIN kernels'
                             /\ kernels'[j].gotos[i].from <= k_idx
    BY <1>3, <1>9 DEF KernelParts, ValidDot
  <2>1. CASE j \in DOMAIN kernels
    BY <1>2, <1>5, <1>6, <2>1 DEF KernelParts
  <2>2. CASE j = n + 1
    <3>1. k_idx \in DOMAIN kernels' /\ k_idx <= k_idx
      BY <1>2, <1>8 DEF Grown, KernelTypes
    <3>2. \A i \in DOMAIN <<g>> : <<g>>[i] = g
      OBVIOUS
    <3> QED BY <1>2, <1>4, <1>6, <2>2, <3>1, <3>2
  <2> QED BY <1>7, <2>1, <2>2
<1>12. PlaceInv'
  BY <1>2, <1>3, <1>8, PlaceGoesOn
<1>13. EntrySymbol'
  <2> SUFFICES ASSUME NEW j \in DOMAIN kernels', NEW i \in DOMAIN kernels'[j].dots,
                      NEW m \in DOMAIN kernels'[j].gotos
               PROVE  /\ kernels'[j].dots[i].dot >= 1
                      /\ SymbolBefore(kernels'[j].dots[i]) = kernels'[j].gotos[m].symbol
    BY <1>9 DEF EntrySymbol, SymbolBefore
  <2>1. CASE j \in DOMAIN kernels
    BY <1>2, <1>5, <1>6, <2>1 DEF EntrySymbol
  <2>2. CASE j = n + 1
    <3>1. \A x \in DOMAIN <<g>> : <<g>>[x] = g
      OBVIOUS
    <3> QED BY <1>2, <1>4, <1>6, <2>2, <3>1
  <2> QED BY <1>7, <2>1, <2>2
<1>14. MovesComplete'
  <2> SUFFICES ASSUME NEW j \in DOMAIN kernels', NEW rd \in DOMAIN kernels'[j].dots,
                      NEW d, d = kernels'[j].dots[rd], ~AtEnd(d),
                      NEW i \in DOMAIN FirstAfter(d), Expanded(j, rd, i)'
               PROVE  \/ /\ j \in DOMAIN kernels /\ rd \in DOMAIN kernels[j].dots
                         /\ Expanded(j, rd, i)
                      \/ Moves(j, d, i)'
    BY <1>3, <1>8, MovesCompleteKept
  <2>1. j \in DOMAIN kernels
    <3>1. ~(n + 1 < k_idx) /\ n + 1 # k_idx BY <1>2, <1>5
    <3>2. j # n + 1 BY <1>3, <3>1 DEF Expanded
    <3> QED BY <1>7, <3>2
  <2>2. kernels'[j] = kernels[j] BY <1>5, <1>6, <2>1
  <2>3. \/ Expanded(j, rd, i)
        \/ j = k_idx /\ rd = rd_idx /\ i = ef_idx
    <3>1. i \in Nat
      <4>1. d \in DotType /\ ValidDot(d) BY <1>2, <2>1, <2>2, KernelFacts
      <4> QED BY <1>2, <4>1, FirstAfterSeq
    <3>2. ef_idx \in Nat BY <1>2 DEF KernelTypes
    <3> QED BY <1>3, <3>1, <3>2 DEF Expanded
  <2>4. CASE j = k_idx /\ rd = rd_idx /\ i = ef_idx
    <3>1. d = CurrentDot BY <2>2, <2>4 DEF CurrentDot
    <3>2. Group(d, i)' = group /\ FirstAfter(d)' = FirstAfter(d)
      BY <1>1, <1>3, <1>9, <2>4, <3>1 DEF Group, NewDots, SymbolAfter, firstVars
    <3>3. [from |-> j, symbol |-> FirstAfter(d)[i]] = g
      BY <1>0, <2>4, <3>1 DEF Goto
    <3>4. n + 1 \in DOMAIN kernels' /\ g \in ElementsOf(kernels'[n + 1].gotos)
          /\ kernels'[n + 1].dots = group
      <4>1. <<g>>[1] = g /\ 1 \in DOMAIN <<g>> OBVIOUS
      <4> QED BY <1>4, <1>5, <1>6, <4>1 DEF ElementsOf
    <3>5. n + 1 \in GotoTargets([from |-> j, symbol |-> FirstAfter(d)[i]])'
      BY <3>2, <3>3, <3>4 DEF GotoTargets, ElementsOf
    <3> HIDE DEF n
    <3> QED BY <3>2, <3>4, <3>5 DEF Moves, ElementsOf
  <2> QED BY <2>1, <2>2, <2>3, <2>4
<1> QED BY <1>9, <1>10, <1>11, <1>12, <1>13, <1>14 DEF KernelInv

(* Where only the loops move, the kernels are what they were. *)
LEMMA SameKernels ==
  ASSUME KernelInv, UNCHANGED <<firstVars, kernels>>, k_idx <= k_idx', k_idx' \in Nat
  PROVE  /\ RuleInv' /\ KernelParts' /\ EntrySymbol' /\ Grown
         /\ FirstsDone' = FirstsDone /\ rules' = rules
         /\ kernels \in Seq(KernelType) /\ Len(kernels) \in 1 .. MaxKernels
<1>1. /\ RuleInv' /\ FirstsDone' = FirstsDone /\ rules' = rules
      /\ \A d : ValidDot(d)' = ValidDot(d) /\ SymbolBefore(d)' = SymbolBefore(d)
  BY RuleInvKept DEF KernelInv
<1>2. /\ kernels \in Seq(KernelType) /\ Len(kernels) \in 1 .. MaxKernels
      /\ k_idx \in Nat
  BY KernelFacts DEF KernelInv, KernelTypes
<1>3. KernelParts'
  <2>1. \A k \in DOMAIN kernels :
          /\ kernels[k].dots # <<>>
          /\ \A i \in DOMAIN kernels[k].dots : ValidDot(kernels[k].dots[i])
    BY DEF KernelInv, KernelParts
  <2>2. ASSUME NEW k \in DOMAIN kernels, NEW i \in DOMAIN kernels[k].gotos
        PROVE  /\ kernels[k].gotos[i].from \in DOMAIN kernels
               /\ kernels[k].gotos[i].from <= k_idx'
    <3>1. /\ kernels[k].gotos[i].from \in DOMAIN kernels
          /\ kernels[k].gotos[i].from <= k_idx
      BY DEF KernelInv, KernelParts
    <3>2. kernels[k].gotos[i].from \in Nat
      BY <3>1, KernelFacts DEF KernelInv
    <3> QED BY <1>2, <3>1, <3>2
  <2> QED BY <1>1, <2>1, <2>2 DEF KernelParts, ValidDot
<1>4. EntrySymbol'
  BY <1>1 DEF KernelInv, EntrySymbol, SymbolBefore
<1>5. Grown BY DEF Grown
<1> QED BY <1>1, <1>2, <1>3, <1>4, <1>5

LEMMA BeginMergeInv == KernelInv /\ BeginMerge => KernelInv'
<1> SUFFICES ASSUME KernelInv, BeginMerge PROVE KernelInv'
  OBVIOUS
<1>1. /\ Expanding /\ merge_k_idx = 0 /\ n_idx' = 1
      /\ merge_k_idx' \in GotoTargets(Goto) /\ k_idx <= merge_k_idx'
      /\ UNCHANGED <<firstVars, kernels, k_idx, rd_idx, ef_idx>>
  BY DEF BeginMerge, Expanding, IsLeast
<1>2. /\ FirstsDone /\ AtOpenDot /\ ef_idx \in DOMAIN FirstAfter(CurrentDot)
  BY <1>1, GroupAtHand
<1>3. /\ RuleInv' /\ KernelParts' /\ EntrySymbol' /\ Grown
      /\ FirstsDone' = FirstsDone /\ rules' = rules
      /\ kernels \in Seq(KernelType) /\ Len(kernels) \in 1 .. MaxKernels
      /\ DOMAIN kernels = 1 .. Len(kernels)
  <2>1. k_idx <= k_idx' /\ k_idx' \in Nat
    BY <1>1, KernelFacts DEF KernelInv, KernelTypes
  <2> QED BY <1>1, <2>1, SameKernels, KernelFacts DEF KernelInv
<1>4. /\ AtOpenDot' = AtOpenDot /\ CurrentDot' = CurrentDot
      /\ FirstAfter(CurrentDot)' = FirstAfter(CurrentDot)
      /\ Goto' = Goto /\ GotoTargets(Goto)' = GotoTargets(Goto)
      /\ NewDots' = NewDots
  BY <1>1, <1>3 DEF AtOpenDot, AtEnd, CurrentDot, FirstAfter, SymbolAfter, Goto,
     GotoTargets, NewDots, Group, firstVars, ElementsOf
<1>5. KernelTypes'
  <2>1. merge_k_idx' \in 0 .. Len(kernels) BY <1>1, <1>3 DEF GotoTargets
  <2> QED BY <1>1, <1>3, <2>1 DEF KernelInv, KernelTypes
<1>6. Merging'
  <2>1. \A j \in DOMAIN NewDots' : ~(j < 1)
    <3>1. NewDots \in Seq(DotType) BY <1>1, GroupAtHand
    <3> QED BY <1>4, <3>1
  <2> QED BY <1>1, <1>2, <1>3, <1>4, <2>1 DEF Merging
<1>7. PlaceInv'
  BY <1>2, <1>3, <1>4, <1>6 DEF PlaceInv
<1>8. MovesComplete'
  <2>1. \A j, rd, i : Expanded(j, rd, i)' = Expanded(j, rd, i)
    BY <1>1 DEF Expanded
  <2> QED BY <1>1, <1>3, <2>1, MovesCompleteKept
<1> QED BY <1>3, <1>5, <1>7, <1>8 DEF KernelInv

LEMMA NextDotInv == KernelInv /\ NextDot => KernelInv'
<1> SUFFICES ASSUME KernelInv, NextDot PROVE KernelInv'
  OBVIOUS
<1>1. /\ FirstsDone /\ ~KernelsDone /\ merge_k_idx = 0 /\ merge_k_idx' = 0
      /\ rd_idx <= Len(kernels[k_idx].dots)
      /\ ~AtEnd(CurrentDot) => ef_idx > Len(FirstAfter(CurrentDot))
      /\ rd_idx' = rd_idx + 1 /\ ef_idx' = 1
      /\ UNCHANGED <<firstVars, kernels, k_idx, n_idx>>
  BY DEF NextDot
<1>2. /\ k_idx \in Nat /\ rd_idx \in Nat /\ ef_idx \in Nat /\ k_idx \in DOMAIN kernels
      /\ DOMAIN kernels = 1 .. Len(kernels) /\ RuleInv /\ KernelTypes /\ KernelParts
  BY <1>1, KernelFacts DEF KernelInv, KernelTypes, KernelsDone
<1>3. /\ RuleInv' /\ KernelParts' /\ EntrySymbol' /\ Grown
      /\ FirstsDone' = FirstsDone /\ rules' = rules
      /\ kernels \in Seq(KernelType) /\ Len(kernels) \in 1 .. MaxKernels
  BY <1>1, <1>2, SameKernels
<1>4. KernelTypes'
  BY <1>1, <1>2, <1>3 DEF KernelInv, KernelTypes
<1>5. PlaceInv'
  BY <1>1, <1>3 DEF PlaceInv
<1>6. MovesComplete'
  <2> SUFFICES ASSUME NEW j \in DOMAIN kernels', NEW rd \in DOMAIN kernels'[j].dots,
                      NEW d, d = kernels'[j].dots[rd], ~AtEnd(d),
                      NEW i \in DOMAIN FirstAfter(d), Expanded(j, rd, i)'
               PROVE  /\ j \in DOMAIN kernels /\ rd \in DOMAIN kernels[j].dots
                      /\ Expanded(j, rd, i)
    BY <1>1, <1>3, MovesCompleteKept
  <2>1. /\ j \in DOMAIN kernels /\ rd \in DOMAIN kernels[j].dots
        /\ d = kernels[j].dots[rd]
    BY <1>1
  <2>2. d \in DotType /\ ValidDot(d) /\ rd \in Nat
    BY <1>2, <2>1, KernelFacts
  <2>3. i \in 1 .. Len(FirstAfter(d)) /\ Len(FirstAfter(d)) \in Nat
    BY <1>1, <1>2, <2>2, FirstAfterSeq
  <2>4. CASE j = k_idx /\ rd = rd_idx
    <3>1. d = CurrentDot BY <2>1, <2>4 DEF CurrentDot
    <3>2. i < ef_idx BY <1>1, <1>2, <2>3, <3>1
    <3> QED BY <2>1, <2>4, <3>2 DEF Expanded
  <2>5. CASE ~(j = k_idx /\ rd = rd_idx)
    <3>1. ~(i < 1) BY <2>3
    <3>2. rd < rd_idx + 1 => rd < rd_idx \/ rd = rd_idx BY <1>2, <2>2
    <3> QED BY <1>1, <2>1, <2>5, <3>1, <3>2 DEF Expanded
  <2> QED BY <2>4, <2>5
<1> QED BY <1>3, <1>4, <1>5, <1>6 DEF KernelInv

LEMMA NextKernelInv == KernelInv /\ NextKernel => KernelInv'
<1> SUFFICES ASSUME KernelInv, NextKernel PROVE KernelInv'
  OBVIOUS
<1>1. /\ FirstsDone /\ ~KernelsDone /\ rd_idx > Len(kernels[k_idx].dots)
      /\ k_idx' = k_idx + 1 /\ rd_idx' = 1
      /\ UNCHANGED <<firstVars, kernels, ef_idx, merge_k_idx, n_idx>>
  BY DEF NextKernel
<1>2. /\ k_idx \in Nat /\ rd_idx \in Nat /\ ef_idx \in Nat \ {0} /\ k_idx \in DOMAIN kernels
      /\ DOMAIN kernels = 1 .. Len(kernels) /\ RuleInv /\ KernelTypes /\ KernelParts
  BY <1>1, KernelFacts DEF KernelInv, KernelTypes, KernelsDone
<1>3. /\ RuleInv' /\ KernelParts' /\ EntrySymbol' /\ Grown
      /\ FirstsDone' = FirstsDone /\ rules' = rules
      /\ kernels \in Seq(KernelType) /\ Len(kernels) \in 1 .. MaxKernels
  <2>1. k_idx <= k_idx' /\ k_idx' \in Nat BY <1>1, <1>2
  <2> QED BY <1>1, <2>1, SameKernels
<1>4. ~AtOpenDot
  BY <1>1, <1>2, KernelFacts DEF AtOpenDot
<1>5. ef_idx = 1 /\ merge_k_idx = 0
  BY <1>2, <1>4 DEF KernelInv, PlaceInv, Merging
<1>6. KernelTypes'
  BY <1>1, <1>2, <1>3 DEF KernelInv, KernelTypes
<1>7. PlaceInv'
  BY <1>1, <1>3, <1>5 DEF PlaceInv
<1>8. MovesComplete'
  <2> SUFFICES ASSUME NEW j \in DOMAIN kernels', NEW rd \in DOMAIN kernels'[j].dots,
                      NEW d, d = kernels'[j].dots[rd], ~AtEnd(d),
                      NEW i \in DOMAIN FirstAfter(d), Expanded(j, rd, i)'
               PROVE  /\ j \in DOMAIN kernels /\ rd \in DOMAIN kernels[j].dots
                      /\ Expanded(j, rd, i)
    BY <1>1, <1>3, MovesCompleteKept
  <2>1. /\ j \in DOMAIN kernels /\ rd \in DOMAIN kernels[j].dots
        /\ d = kernels[j].dots[rd]
    BY <1>1
  <2>2. d \in DotType /\ ValidDot(d) /\ j \in Nat
        /\ rd \in 1 .. Len(kernels[j].dots) /\ Len(kernels[j].dots) \in Nat
    BY <1>2, <2>1, KernelFacts
  <2>3. i \in 1 .. Len(FirstAfter(d)) /\ Len(FirstAfter(d)) \in Nat
    BY <1>1, <1>2, <2>2, FirstAfterSeq
  <2>4. j < k_idx + 1
    <3>1. ~(rd < 1) /\ ~(i < 1) BY <2>2, <2>3
    <3> QED BY <1>1, <1>5, <3>1 DEF Expanded
  <2>5. CASE j = k_idx
    <3>1. rd < rd_idx BY <1>1, <1>2, <2>2, <2>5
    <3> QED BY <2>1, <2>5, <3>1 DEF Expanded
  <2>6. CASE j # k_idx
    <3>1. j < k_idx BY <1>2, <2>2, <2>4, <2>6
    <3> QED BY <2>1, <3>1 DEF Expanded
  <2> QED BY <2>5, <2>6
<1> QED BY <1>3, <1>6, <1>7, <1>8 DEF KernelInv

(* The kernel at k gets the dot x behind its dots. *)
LEMMA DotAdded ==
  ASSUME KernelTypes, KernelParts, NEW k \in DOMAIN kernels, NEW x \in DotType,
         kernels' = [kernels EXCEPT ![k].dots = Append(@, x)]
  PROVE  /\ kernels' \in Seq(KernelType) /\ Len(kernels') = Len(kernels)
         /\ DOMAIN kernels' = DOMAIN kernels
         /\ \A j \in DOMAIN kernels : kernels'[j].gotos = kernels[j].gotos
         /\ \A j \in DOMAIN kernels : j # k => kernels'[j].dots = kernels[j].dots
         /\ DOMAIN kernels'[k].dots = 1 .. Len(kernels[k].dots) + 1
         /\ kernels'[k].dots[Len(kernels[k].dots) + 1] = x
         /\ \A i \in DOMAIN kernels[k].dots :
              kernels'[k].dots[i] = kernels[k].dots[i]
         /\ Grown /\ x \in ElementsOf(kernels'[k].dots)
<1> DEFINE more == Append(kernels[k].dots, x)
           new == [dots |-> more, gotos |-> kernels[k].gotos]
<1>1. /\ kernels \in Seq(KernelType) /\ Len(kernels) \in Nat
      /\ DOMAIN kernels = 1 .. Len(kernels) /\ k \in 1 .. Len(kernels)
      /\ kernels[k].dots \in Seq(DotType) /\ kernels[k].gotos \in Seq(GotoType)
      /\ Len(kernels[k].dots) \in Nat
      /\ DOMAIN kernels[k].dots = 1 .. Len(kernels[k].dots)
  BY KernelFacts DEF KernelTypes
<1>2. /\ more \in Seq(DotType) /\ DOMAIN more = 1 .. Len(kernels[k].dots) + 1
      /\ more[Len(kernels[k].dots) + 1] = x
      /\ \A i \in DOMAIN kernels[k].dots : more[i] = kernels[k].dots[i]
  BY <1>1
<1>3. kernels' = [kernels EXCEPT ![k] = new]
  <2>1. kernels[k] \in KernelType BY KernelFacts
  <2>2. kernels[k] = [dots |-> kernels[k].dots, gotos |-> kernels[k].gotos]
    BY <2>1 DEF KernelType
  <2>3. \A a, b, c : [[dots |-> a, gotos |-> b] EXCEPT !.dots = c]
                       = [dots |-> c, gotos |-> b]
    OBVIOUS
  <2>4. kernels' = [kernels EXCEPT ![k] = [kernels[k] EXCEPT !.dots = more]]
    OBVIOUS
  <2> QED BY <2>2, <2>3, <2>4
<1>4. new \in KernelType /\ new.gotos = kernels[k].gotos /\ new.dots = more
  BY <1>1, <1>2 DEF KernelType
<1> HIDE DEF new
<1>5. /\ kernels' \in Seq(KernelType) /\ Len(kernels') = Len(kernels)
      /\ \A j \in 1 .. Len(kernels) : kernels'[j] = IF j = k THEN new ELSE kernels[j]
  <2>1. \A e \in KernelType, i \in 1 .. Len(kernels) :
          /\ [kernels EXCEPT ![i] = e] \in Seq(KernelType)
          /\ Len([kernels EXCEPT ![i] = e]) = Len(kernels)
          /\ \A j \in 1 .. Len(kernels) :
               [kernels EXCEPT ![i] = e][j] = IF j = i THEN e ELSE kernels[j]
    BY <1>1, ExceptSeq, Zenon
  <2>2. /\ [kernels EXCEPT ![k] = new] \in Seq(KernelType)
        /\ Len([kernels EXCEPT ![k] = new]) = Len(kernels)
        /\ \A j \in 1 .. Len(kernels) :
             [kernels EXCEPT ![k] = new][j] = IF j = k THEN new ELSE kernels[j]
    BY <1>1, <1>4, <2>1, Zenon
  <2> QED BY <1>3, <2>2
<1>6. /\ DOMAIN kernels' = DOMAIN kernels
      /\ \A j \in DOMAIN kernels : kernels'[j].gotos = kernels[j].gotos
      /\ \A j \in DOMAIN kernels : j # k => kernels'[j].dots = kernels[j].dots
      /\ kernels'[k].dots = more
  BY <1>1, <1>4, <1>5
<1> HIDE DEF more
<1>7. x \in ElementsOf(kernels'[k].dots)
  BY <1>1, <1>2, <1>6 DEF ElementsOf
<1>8. Grown
  <2> SUFFICES ASSUME NEW j \in DOMAIN kernels
               PROVE  /\ DOMAIN kernels[j].dots \subseteq DOMAIN kernels'[j].dots
                      /\ \A i \in DOMAIN kernels[j].dots :
                           kernels'[j].dots[i] = kernels[j].dots[i]
    BY <1>6 DEF Grown
  <2>1. 1 .. Len(kernels[k].dots) \subseteq 1 .. Len(kernels[k].dots) + 1
    BY <1>1
  <2>2. CASE j = k BY <1>1, <1>2, <1>6, <2>1, <2>2
  <2>3. CASE j # k BY <1>6, <2>3
  <2> QED BY <2>2, <2>3
<1> QED BY <1>2, <1>5, <1>6, <1>7, <1>8

LEMMA MergeDotInv == KernelInv /\ MergeDot => KernelInv'
<1> SUFFICES ASSUME KernelInv, MergeDot PROVE KernelInv'
  OBVIOUS
<1>0. PICK x, m : x = NewDots[n_idx] /\ m = merge_k_idx
  OBVIOUS
<1>1. /\ merge_k_idx # 0 /\ n_idx' = n_idx + 1
      /\ UNCHANGED <<firstVars, k_idx, rd_idx, ef_idx, merge_k_idx>>
      /\ n_idx <= Len(NewDots)
      /\ kernels' = IF x \in ElementsOf(kernels[m].dots)
                      THEN kernels
                      ELSE [kernels EXCEPT ![m].dots = Append(@, x)]
  BY <1>0 DEF MergeDot
<1>2. /\ RuleInv /\ KernelTypes /\ KernelParts /\ EntrySymbol
      /\ FirstsDone /\ AtOpenDot /\ ef_idx \in DOMAIN FirstAfter(CurrentDot)
      /\ NewDots \in Seq(DotType) /\ n_idx \in Nat \ {0}
      /\ k_idx \in DOMAIN kernels
  BY <1>1, GroupAtHand DEF KernelInv, KernelTypes
<1>3. n_idx \in DOMAIN NewDots /\ x \in DotType
  BY <1>0, <1>1, <1>2
<1>4. ValidDot(x) /\ x.dot >= 1 /\ SymbolBefore(x) = Goto.symbol
  BY <1>0, <1>1, <1>3, GroupAtHand
<1>5. /\ m \in DOMAIN kernels /\ Merging /\ k_idx <= m
      /\ \A i \in DOMAIN kernels[m].gotos : kernels[m].gotos[i].symbol = Goto.symbol
  BY <1>0, <1>1, MergeTarget DEF Merging
<1>6. /\ kernels' \in Seq(KernelType) /\ Len(kernels') = Len(kernels)
      /\ DOMAIN kernels' = DOMAIN kernels
      /\ \A j \in DOMAIN kernels : kernels'[j].gotos = kernels[j].gotos
      /\ \A j \in DOMAIN kernels : j # m => kernels'[j].dots = kernels[j].dots
      /\ Grown /\ x \in ElementsOf(kernels'[m].dots)
      /\ \A j \in DOMAIN kernels : \A i \in DOMAIN kernels'[j].dots :
           \/ i \in DOMAIN kernels[j].dots
           \/ /\ j = m /\ kernels'[j].dots[i] = x
              /\ i > Len(kernels[m].dots)
  <2>1. CASE x \in ElementsOf(kernels[m].dots)
    BY <1>1, <1>2, <2>1 DEF KernelTypes, Grown
  <2>2. CASE x \notin ElementsOf(kernels[m].dots)
    <3>1. kernels' = [kernels EXCEPT ![m].dots = Append(@, x)]
      BY <1>1, <2>2
    <3>2. /\ kernels' \in Seq(KernelType) /\ Len(kernels') = Len(kernels)
          /\ DOMAIN kernels' = DOMAIN kernels
          /\ \A j \in DOMAIN kernels : kernels'[j].gotos = kernels[j].gotos
          /\ \A j \in DOMAIN kernels : j # m => kernels'[j].dots = kernels[j].dots
          /\ DOMAIN kernels'[m].dots = 1 .. Len(kernels[m].dots) + 1
          /\ kernels'[m].dots[Len(kernels[m].dots) + 1] = x
          /\ Grown /\ x \in ElementsOf(kernels'[m].dots)
      BY <1>2, <1>3, <1>5, <3>1, DotAdded
    <3>3. /\ DOMAIN kernels[m].dots = 1 .. Len(kernels[m].dots)
          /\ Len(kernels[m].dots) \in Nat
      BY <1>2, <1>5, KernelFacts
    <3>4. \A i \in 1 .. Len(kernels[m].dots) + 1 :
            \/ i \in 1 .. Len(kernels[m].dots)
            \/ i = Len(kernels[m].dots) + 1 /\ i > Len(kernels[m].dots)
      BY <3>3
    <3> QED BY <3>2, <3>3, <3>4
  <2> QED BY <2>1, <2>2
<1>7. /\ RuleInv' /\ rules' = rules /\ FirstsDone'
      /\ \A d : /\ AtEnd(d)' = AtEnd(d) /\ FirstAfter(d)' = FirstAfter(d)
                /\ ValidDot(d)' = ValidDot(d) /\ SymbolBefore(d)' = SymbolBefore(d)
  BY <1>1, <1>2, RuleInvKept
<1>8. KernelTypes'
  BY <1>1, <1>2, <1>6 DEF KernelTypes
<1>9. \A j \in DOMAIN kernels : \A i \in DOMAIN kernels[j].dots :
        kernels'[j].dots[i] = kernels[j].dots[i]
  BY <1>6 DEF Grown
<1>10. KernelParts'
  <2> SUFFICES ASSUME NEW j \in DOMAIN kernels
               PROVE  /\ kernels'[j].dots # <<>>
                      /\ \A i \in DOMAIN kernels'[j].dots : ValidDot(kernels'[j].dots[i])
    BY <1>1, <1>2, <1>6, <1>7 DEF KernelParts, ValidDot
  <2>1. 1 \in DOMAIN kernels'[j].dots
    BY <1>2, <1>6, KernelFacts DEF Grown
  <2> QED BY <1>2, <1>4, <1>6, <1>9, <2>1 DEF KernelParts
<1>11. /\ CurrentDot' = CurrentDot /\ AtOpenDot'
       /\ FirstAfter(CurrentDot)' = FirstAfter(CurrentDot)
       /\ Goto' = Goto /\ NewDots' = NewDots
  <2>1. CurrentDot' = CurrentDot
    BY <1>1, <1>2, <1>9 DEF CurrentDot, AtOpenDot
  <2>2. k_idx \in DOMAIN kernels' /\ rd_idx \in DOMAIN kernels'[k_idx].dots
    BY <1>2, <1>6 DEF AtOpenDot, Grown
  <2>3. AtEnd(CurrentDot)' <=> AtEnd(CurrentDot)
    BY <1>7, <2>1 DEF AtEnd
  <2>4. AtOpenDot'
    BY <1>1, <1>2, <2>2, <2>3 DEF AtOpenDot
  <2> QED
    BY <1>1, <1>7, <2>1, <2>4
    DEF FirstAfter, SymbolAfter, Goto, NewDots, Group, firstVars
<1>12. Merging'
  <2>1. merge_k_idx' \in GotoTargets(Goto)'
    <3>1. merge_k_idx \in GotoTargets(Goto) BY <1>5 DEF Merging
    <3> QED BY <1>1, <1>6, <1>11, <3>1 DEF GotoTargets, ElementsOf
  <2>2. ASSUME NEW j \in DOMAIN NewDots, j < n_idx + 1
        PROVE  NewDots[j] \in ElementsOf(kernels'[m].dots)
    <3>1. CASE j = n_idx
      BY <1>0, <1>6, <3>1
    <3>2. CASE j # n_idx
      <4>1. j < n_idx BY <1>2, <2>2, <3>2
      <4>2. NewDots[j] \in ElementsOf(kernels[m].dots)
        BY <1>0, <1>5, <4>1 DEF Merging
      <4> QED BY <1>5, <1>6, <4>2 DEF Grown, ElementsOf
    <3> QED BY <3>1, <3>2
  <2>3. \A j \in DOMAIN NewDots' :
          j < n_idx' => NewDots'[j] \in ElementsOf(kernels[merge_k_idx].dots)'
    BY <1>0, <1>1, <1>11, <2>2 DEF ElementsOf
  <2> QED BY <1>0, <1>1, <1>2, <1>5, <1>7, <1>11, <2>1, <2>3 DEF Merging, ElementsOf
<1>13. PlaceInv'
  BY <1>7, <1>11, <1>12 DEF PlaceInv
<1>14. EntrySymbol'
  <2> SUFFICES ASSUME NEW j \in DOMAIN kernels, NEW i \in DOMAIN kernels'[j].dots,
                      NEW g \in DOMAIN kernels[j].gotos
               PROVE  /\ kernels'[j].dots[i].dot >= 1
                      /\ SymbolBefore(kernels'[j].dots[i]) = kernels[j].gotos[g].symbol
    BY <1>6, <1>7 DEF EntrySymbol, SymbolBefore
  <2>1. CASE i \in DOMAIN kernels[j].dots
    BY <1>2, <1>9, <2>1 DEF EntrySymbol
  <2>2. CASE j = m /\ kernels'[j].dots[i] = x
    BY <1>4, <1>5, <2>2
  <2> QED BY <1>6, <2>1, <2>2
<1>15. MovesComplete'
  <2> SUFFICES ASSUME NEW j \in DOMAIN kernels', NEW rd \in DOMAIN kernels'[j].dots,
                      NEW i, Expanded(j, rd, i)'
               PROVE  /\ j \in DOMAIN kernels /\ rd \in DOMAIN kernels[j].dots
                      /\ Expanded(j, rd, i)
    BY <1>1, <1>6, MovesCompleteKept
  <2>1. j \in DOMAIN kernels /\ Expanded(j, rd, i)
    BY <1>1, <1>6 DEF Expanded
  <2>2. CASE rd > Len(kernels[m].dots) /\ j = m
    <3>1. rd \in 1 .. Len(kernels'[j].dots)
      <4>1. kernels'[j] \in KernelType BY <1>6
      <4>2. kernels'[j].dots \in Seq(DotType) BY <4>1 DEF KernelType
      <4> QED BY <4>2
    <3>2. m \in Nat /\ k_idx \in Nat /\ rd_idx \in Nat /\ rd \in Nat
      BY <1>2, <1>5, <3>1, KernelFacts DEF KernelTypes
    <3>3. m = k_idx => rd_idx \in 1 .. Len(kernels[m].dots) /\ Len(kernels[m].dots) \in Nat
      BY <1>2, KernelFacts DEF AtOpenDot
    <3>4. ~(m < k_idx) /\ (m = k_idx => ~(rd < rd_idx) /\ rd # rd_idx)
      BY <1>5, <2>2, <3>2, <3>3
    <3> QED BY <2>1, <2>2, <3>4 DEF Expanded
  <2> QED BY <1>6, <2>1, <2>2
<1> QED BY <1>7, <1>8, <1>10, <1>13, <1>14, <1>15 DEF KernelInv

-----------------------------------------------------------------------------
(* compute_kernels begins with the first rule, and has been nowhere. *)
LEMMA KernelInitInv == RuleInv /\ KernelInit => KernelInv
<1> SUFFICES ASSUME RuleInv, KernelInit PROVE KernelInv
  OBVIOUS
<1> DEFINE new == [dots |-> <<RuleDot(1, 0)>>, gotos |-> <<>>]
<1>1. /\ kernels = <<new>> /\ k_idx = 1 /\ rd_idx = 1 /\ ef_idx = 1
      /\ merge_k_idx = 0 /\ n_idx = 1
  BY DEF KernelInit
<1>2. /\ rules \in Grammars /\ 1 \in DOMAIN rules /\ Len(rules[1].body) \in Nat
  BY RuleFacts DEF RuleInv, FirstInv, StoredInv
<1>3. /\ RuleDot(1, 0) \in DotType /\ ValidDot(RuleDot(1, 0))
  BY <1>2 DEF RuleDot, DotType, ValidDot
<1>4. /\ new \in KernelType /\ new.gotos = <<>> /\ new.dots = <<RuleDot(1, 0)>>
  BY <1>3 DEF KernelType
<1> HIDE DEF new
<1>5. /\ kernels \in Seq(KernelType) /\ Len(kernels) = 1 /\ DOMAIN kernels = {1}
      /\ kernels[1] = new
  BY <1>1, <1>4
<1>6. KernelTypes
  BY <1>1, <1>5, MaxKernelsAssumption DEF KernelTypes
<1>7. /\ DOMAIN <<RuleDot(1, 0)>> = {1} /\ <<RuleDot(1, 0)>>[1] = RuleDot(1, 0)
      /\ <<RuleDot(1, 0)>> # <<>> /\ DOMAIN (<<>>) = {}
  OBVIOUS
<1>8. KernelParts
  BY <1>3, <1>4, <1>5, <1>7 DEF KernelParts
<1>9. EntrySymbol
  BY <1>4, <1>5, <1>7 DEF EntrySymbol
<1>10. PlaceInv
  BY <1>1 DEF PlaceInv, KernelInit
<1>11. MovesComplete
  <2> SUFFICES ASSUME NEW i, NEW d, i \in DOMAIN FirstAfter(d), d = RuleDot(1, 0),
                      ~AtEnd(d)
               PROVE  ~Expanded(1, 1, i)
    BY <1>4, <1>5, <1>7 DEF MovesComplete
  <2>1. i \in 1 .. Len(FirstAfter(d)) /\ Len(FirstAfter(d)) \in Nat
    BY <1>3, FirstAfterSeq
  <2>2. ~(i < 1) BY <2>1
  <2> QED BY <1>1, <2>2 DEF Expanded
<1> QED BY <1>6, <1>8, <1>9, <1>10, <1>11 DEF KernelInv

LEMMA NextKernelsInv ==
  KernelInv /\ [KernelNext \/ (FirstNext /\ UNCHANGED kernelOwnVars)]_kernelVars
    => KernelInv'
<1> SUFFICES ASSUME KernelInv,
                    [KernelNext \/ (FirstNext /\ UNCHANGED kernelOwnVars)]_kernelVars
             PROVE  KernelInv'
  OBVIOUS
<1>1. CASE KnownKernel BY <1>1, KnownKernelInv
<1>2. CASE NewKernel BY <1>2, NewKernelInv
<1>3. CASE BeginMerge BY <1>3, BeginMergeInv
<1>4. CASE MergeDot BY <1>4, MergeDotInv
<1>5. CASE EndMerge BY <1>5, EndMergeInv
<1>6. CASE NextDot BY <1>6, NextDotInv
<1>7. CASE NextKernel BY <1>7, NextKernelInv
<1>8. CASE FirstNext /\ UNCHANGED kernelOwnVars
  <2>1. RuleInv' BY <1>8, NextRuleInv DEF KernelInv
  <2>2. ~FirstsDone
    BY <1>8 DEF FirstNext, ScanRule, NextElement, StoreFirst
  <2>3. KernelInit' BY <1>8, <2>2 DEF KernelInv, PlaceInv, KernelInit, kernelOwnVars, RuleDot
  <2> QED BY <2>1, <2>3, KernelInitInv, PTL
<1>9. CASE UNCHANGED kernelVars
  <2>1. UNCHANGED firstVars /\ UNCHANGED kernelOwnVars
    BY <1>9 DEF kernelVars
  <2>2. /\ UNCHANGED <<kernels, k_idx, rd_idx, ef_idx, merge_k_idx, n_idx>>
        /\ k_idx <= k_idx' /\ k_idx' \in Nat
    BY <2>1, KernelFacts DEF kernelOwnVars, KernelInv, KernelTypes
  <2>3. RuleInv' /\ KernelParts' /\ EntrySymbol' /\ Grown
    BY <2>1, <2>2, SameKernels
  <2>4. KernelTypes'
    BY <2>2 DEF KernelInv, KernelTypes
  <2>5. PlaceInv'
    <3>1. /\ AtOpenDot' = AtOpenDot /\ CurrentDot' = CurrentDot
          /\ FirstAfter(CurrentDot)' = FirstAfter(CurrentDot)
          /\ Goto' = Goto /\ GotoTargets(Goto)' = GotoTargets(Goto)
          /\ NewDots' = NewDots /\ FirstsDone' = FirstsDone
      BY <2>1, <2>2 DEF AtOpenDot, AtEnd, CurrentDot, FirstAfter, SymbolAfter, Goto,
         GotoTargets, NewDots, Group, firstVars, scanVars, ElementsOf, FirstsDone
    <3>2. Merging' = Merging
      BY <2>2, <3>1 DEF Merging, ElementsOf
    <3>3. KernelInit' = KernelInit
      BY <2>2 DEF KernelInit, RuleDot
    <3> QED BY <2>2, <3>1, <3>2, <3>3 DEF KernelInv, PlaceInv
  <2>6. MovesComplete'
    <3>1. \A j, rd, i : Expanded(j, rd, i)' = Expanded(j, rd, i)
      BY <2>2 DEF Expanded
    <3> QED BY <2>1, <2>2, <2>3, <3>1, MovesCompleteKept
  <2> QED BY <2>3, <2>4, <2>5, <2>6 DEF KernelInv
<1> QED BY <1>1, <1>2, <1>3, <1>4, <1>5, <1>6, <1>7, <1>8, <1>9 DEF KernelNext

(* A group is merged only into kernels that are yet to be expanded. *)
LEMMA ExpandedFixedStep ==
  KernelInv /\ [KernelNext \/ (FirstNext /\ UNCHANGED kernelOwnVars)]_kernelVars
    => [\A k \in DOMAIN kernels :
          k < k_idx => kernels'[k].dots = kernels[k].dots]_kernelVars
<1> SUFFICES ASSUME KernelInv, KernelNext \/ (FirstNext /\ UNCHANGED kernelOwnVars),
                    NEW k \in DOMAIN kernels, k < k_idx
             PROVE  kernels'[k].dots = kernels[k].dots
  OBVIOUS
<1>0. KernelTypes /\ KernelParts
  BY DEF KernelInv
<1>1. ASSUME NEW j \in DOMAIN kernels, kernels' = WithGoto(j),
             Expanding \/ merge_k_idx # 0
      PROVE  kernels'[k].dots = kernels[k].dots
  <2>1. Goto \in GotoType BY <1>1, GroupAtHand
  <2>2. PICK g : g = Goto OBVIOUS
  <2>3. kernels' = [kernels EXCEPT ![j].gotos = Append(@, g)]
    BY <1>1, <2>2 DEF WithGoto
  <2> QED BY <1>0, <2>1, <2>2, <2>3, GotoAdded
<1>2. CASE KnownKernel
  BY <1>1, <1>2 DEF KnownKernel, SameDots
<1>3. CASE EndMerge
  BY <1>1, <1>3, MergeTarget DEF EndMerge
<1>4. CASE NewKernel
  <2>1. PICK new : kernels' = Append(kernels, new) BY <1>4 DEF NewKernel
  <2> QED BY <1>0, <2>1, KernelFacts DEF KernelTypes
<1>5. CASE MergeDot
  <2>1. /\ merge_k_idx # 0 /\ n_idx <= Len(NewDots) /\ n_idx \in Nat \ {0}
        /\ k_idx <= merge_k_idx /\ merge_k_idx \in DOMAIN kernels
    BY <1>5, MergeTarget DEF MergeDot, Merging, KernelInv, KernelTypes
  <2>2. PICK x : x = NewDots[n_idx] OBVIOUS
  <2>3. CASE x \in ElementsOf(kernels[merge_k_idx].dots)
    BY <1>5, <2>2, <2>3 DEF MergeDot
  <2>4. CASE x \notin ElementsOf(kernels[merge_k_idx].dots)
    <3>1. NewDots \in Seq(DotType) BY <2>1, GroupAtHand
    <3>2. n_idx \in DOMAIN NewDots BY <2>1, <3>1
    <3>3. x \in DotType BY <2>2, <3>1, <3>2
    <3>4. kernels' = [kernels EXCEPT ![merge_k_idx].dots = Append(@, x)]
      BY <1>5, <2>2, <2>4 DEF MergeDot
    <3>5. k # merge_k_idx
      BY <1>0, <2>1, KernelFacts DEF KernelTypes
    <3> QED BY <1>0, <2>1, <3>3, <3>4, <3>5, DotAdded
  <2> QED BY <2>3, <2>4
<1>6. CASE BeginMerge \/ NextDot \/ NextKernel \/ UNCHANGED kernelOwnVars
  BY <1>6 DEF BeginMerge, NextDot, NextKernel, kernelOwnVars
<1> QED BY <1>2, <1>3, <1>4, <1>5, <1>6 DEF KernelNext

-----------------------------------------------------------------------------
(* The table, and the four steps together. *)

(* compute_kernels waits for the FOLLOW sets, the table for the kernels. *)
OrderInv ==
  /\ KernelInit \/ FollowsDone
  /\ table_stage # "wait" => KernelsDone

TableTypes ==
  /\ table_stage \in {"wait", "gotos", "reductions", "created", "failed"}
  /\ create_error \in {"NONE", "SLR1_PARSE_TABLE_CONFLICT"}
  /\ lt_k_idx \in Nat \ {0} /\ lt_idx \in Nat \ {0}
  /\ lt_k_idx \in DOMAIN kernels
  /\ table_stage # "wait" => lalr_table \in [DOMAIN kernels -> [Symbols -> Int]]
  /\ table_stage = "wait" => lt_k_idx = 1 /\ lt_idx = 1

CellTrue(k, s, cell) ==
  \/ cell = NotExist
  \/ cell \in GotoTargets([from |-> k, symbol |-> s])
  \/ /\ s \in Terminals /\ ~Shiftable(k, s)
     /\ \E r \in DOMAIN rules :
          /\ cell = ReduceBase + r
          /\ RuleDot(r, Len(rules[r].body)) \in ElementsOf(kernels[k].dots)
          /\ s \in Follow(rules, rules[r].head)

CellsTrue ==
  table_stage # "wait" =>
    \A k \in DOMAIN kernels : \A s \in Symbols : CellTrue(k, s, lalr_table[k][s])

(* The loops are past entry i of kernel k. *)
Behind(k, i) == k < lt_k_idx \/ (k = lt_k_idx /\ i < lt_idx)

GotosWritten ==
  table_stage \in {"gotos", "reductions", "created"} =>
    \A k \in DOMAIN kernels : \A g \in DOMAIN kernels[k].gotos :
      (table_stage = "gotos" => Behind(k, g)) =>
        lalr_table[kernels[k].gotos[g].from][kernels[k].gotos[g].symbol] = k

ReductionsWritten ==
  table_stage \in {"reductions", "created"} =>
    \A k \in DOMAIN kernels : \A i \in DOMAIN kernels[k].dots :
      AtEnd(kernels[k].dots[i]) /\ (table_stage = "reductions" => Behind(k, i)) =>
        \A t \in ReduceTerminals(kernels[k].dots[i]) :
          \/ Shiftable(k, t)
          \/ lalr_table[k][t] = ReduceBase + kernels[k].dots[i].rule

TableInv == TableTypes /\ CellsTrue /\ GotosWritten /\ ReductionsWritten

CreatorInv == FollowInv /\ KernelInv /\ OrderInv /\ TableInv

-----------------------------------------------------------------------------
(* When the table is made, nothing else is any more. *)
LEMMA AllDone ==
  ASSUME CreatorInv, KernelsDone
  PROVE  /\ FirstsDone /\ FollowsDone /\ frames = <<>> /\ merge_k_idx = 0
         /\ \A k \in DOMAIN kernels : \A rd, i : Expanded(k, rd, i)
<1>1. /\ k_idx > Len(kernels) /\ DOMAIN kernels = 1 .. Len(kernels)
      /\ Len(kernels) \in Nat \ {0} /\ k_idx \in Nat
  BY KernelFacts DEF KernelsDone, CreatorInv, KernelInv, KernelTypes
<1>2. ~KernelInit
  <2> SUFFICES ASSUME KernelInit PROVE FALSE
    OBVIOUS
  <2>1. k_idx = 1 /\ Len(kernels) \in Nat \ {0} BY <1>1 DEF KernelInit
  <2> QED BY <1>1, <2>1
<1>3. FirstsDone /\ FollowsDone
  BY <1>2 DEF CreatorInv, KernelInv, PlaceInv, OrderInv
<1>4. k_idx \notin DOMAIN kernels
  BY <1>1
<1>5. merge_k_idx = 0
  BY <1>4 DEF CreatorInv, KernelInv, PlaceInv, Merging, AtOpenDot
<1>6. frames = <<>>
  BY <1>3, CountAssumption
  DEF FollowsDone, Nonterminals, CreatorInv, FollowInv, FollowTypes, StackInv
<1>7. \A k \in DOMAIN kernels : k < k_idx
  BY <1>1
<1> QED BY <1>3, <1>5, <1>6, <1>7 DEF Expanded

LEMMA NothingElse ==
  ASSUME CreatorInv, KernelsDone
  PROVE  ~FirstNext /\ ~FollowNext /\ ~KernelNext
<1>1. /\ FirstsDone /\ FollowsDone /\ frames = <<>> /\ merge_k_idx = 0
  BY AllDone
<1>2. ~FirstNext
  BY <1>1 DEF FirstNext, ScanRule, NextElement, StoreFirst
<1>3. ~FollowNext
  BY <1>1 DEF FollowNext, SkipCreated, CallRoot, SkipSymbol, FollowInBody, HeadUsed,
     HeadCreated, CallHead, ReturnToCaller, ReturnToRoot, Scanning, AtBodyEnd, Returning
<1>4. ~KernelNext
  BY <1>1 DEF KernelNext, KnownKernel, NewKernel, BeginMerge, MergeDot, EndMerge,
     NextDot, NextKernel, Expanding
<1> QED BY <1>2, <1>3, <1>4

LEMMA InputsKept ==
  ASSUME CreatorInv, UNCHANGED inputsOfTable
  PROVE  /\ FollowInv' /\ KernelInv' /\ KernelsDone' = KernelsDone
         /\ KernelInit' = KernelInit /\ FollowsDone' = FollowsDone
         /\ kernels' = kernels /\ rules' = rules /\ follows' = follows
         /\ \A k, t : Shiftable(k, t)' = Shiftable(k, t)
         /\ \A d : AtEnd(d)' = AtEnd(d) /\ ReduceTerminals(d)' = ReduceTerminals(d)
         /\ \A k, s, c : CellTrue(k, s, c)' = CellTrue(k, s, c)
<1>1. UNCHANGED firstVars /\ UNCHANGED followOwnVars /\ UNCHANGED kernelOwnVars
  BY DEF inputsOfTable
<1>2. /\ kernels' = kernels /\ k_idx' = k_idx /\ rd_idx' = rd_idx /\ ef_idx' = ef_idx
      /\ merge_k_idx' = merge_k_idx /\ n_idx' = n_idx
      /\ rules' = rules /\ firsts' = firsts /\ first_rules' = first_rules
      /\ follows' = follows /\ follow_idx' = follow_idx
  BY <1>1 DEF firstVars, followOwnVars, kernelOwnVars
<1>3. FollowInv'
  BY <1>1, StutterFollowInv DEF CreatorInv, followVars
<1>4. KernelInv'
  BY <1>1, NextKernelsInv DEF CreatorInv, kernelVars
<1>5. \A d : AtEnd(d)' = AtEnd(d) /\ ReduceTerminals(d)' = ReduceTerminals(d)
              /\ SymbolAfter(d)' = SymbolAfter(d)
  BY <1>2 DEF AtEnd, ReduceTerminals, SymbolAfter
<1>6. \A k, t : Shiftable(k, t)' = Shiftable(k, t)
  BY <1>2 DEF Shiftable, AtEnd, SymbolAfter
<1>7. \A k, s, c : CellTrue(k, s, c)' = CellTrue(k, s, c)
  BY <1>2, <1>6, Zenon DEF CellTrue, GotoTargets, RuleDot, ElementsOf
<1>8. KernelsDone' = KernelsDone /\ KernelInit' = KernelInit /\ FollowsDone' = FollowsDone
  BY <1>2 DEF KernelsDone, KernelInit, FollowsDone, RuleDot
<1> QED BY <1>2, <1>3, <1>4, <1>5, <1>6, <1>7, <1>8

-----------------------------------------------------------------------------
(* One cell, or one row, of the table replaced. *)
LEMMA CellReplaced ==
  ASSUME NEW D, NEW T \in [D -> [Symbols -> Int]], NEW a \in D, NEW x \in Symbols,
         NEW v \in Int, NEW U, U = [T EXCEPT ![a][x] = v]
  PROVE  /\ U \in [D -> [Symbols -> Int]]
         /\ \A k \in D : \A s \in Symbols :
              U[k][s] = IF k = a /\ s = x THEN v ELSE T[k][s]
OBVIOUS

LEMMA RowReplaced ==
  ASSUME NEW D, NEW T \in [D -> [Symbols -> Int]], NEW a \in D, NEW R, NEW v \in Int,
         NEW U, U = [T EXCEPT ![a] = [s \in Symbols |-> IF s \in R THEN v ELSE @[s]]]
  PROVE  /\ U \in [D -> [Symbols -> Int]]
         /\ \A k \in D : \A s \in Symbols :
              U[k][s] = IF k = a /\ s \in R THEN v ELSE T[k][s]
OBVIOUS

(* What every step of create_lalr_table may use. *)
LEMMA TableFacts ==
  ASSUME CreatorInv
  PROVE  /\ TableTypes /\ CellsTrue /\ GotosWritten /\ ReductionsWritten
         /\ KernelTypes /\ KernelParts /\ rules \in Grammars
         /\ DOMAIN kernels = 1 .. Len(kernels) /\ Len(kernels) \in Nat \ {0}
         /\ lt_k_idx \in Nat /\ lt_idx \in Nat /\ 1 \in DOMAIN kernels
         /\ \A k \in DOMAIN kernels : k \in Nat \ {0}
<1>1. KernelTypes /\ KernelParts /\ TableTypes /\ rules \in Grammars
  BY DEF CreatorInv, KernelInv, TableInv, RuleInv, FirstInv, StoredInv
<1>2. DOMAIN kernels = 1 .. Len(kernels) /\ Len(kernels) \in Nat \ {0}
  BY <1>1, KernelFacts
<1> QED BY <1>1, <1>2 DEF CreatorInv, TableInv, TableTypes

LEMMA CreateTableInv == CreatorInv /\ CreateTable => TableInv'
<1> SUFFICES ASSUME CreatorInv, CreateTable PROVE TableInv'
  OBVIOUS
<1>1. /\ UNCHANGED inputsOfTable /\ table_stage = "wait" /\ table_stage' = "gotos"
      /\ lt_k_idx' = lt_k_idx /\ lt_idx' = lt_idx /\ create_error' = create_error
      /\ lalr_table' = [k \in DOMAIN kernels |-> [s \in Symbols |-> NotExist]]
  BY DEF CreateTable
<1>2. /\ lt_k_idx = 1 /\ lt_idx = 1 /\ TableTypes
      /\ DOMAIN kernels = 1 .. Len(kernels) /\ Len(kernels) \in Nat \ {0}
      /\ KernelTypes /\ KernelParts
  BY <1>1, TableFacts DEF TableTypes
<1>3. kernels' = kernels
  BY <1>1, InputsKept
<1>4. TableTypes'
  BY <1>1, <1>2, <1>3 DEF TableTypes, NotExist
<1>5. CellsTrue'
  BY <1>1, <1>3 DEF CellsTrue, CellTrue
<1>6. GotosWritten'
  <2> SUFFICES ASSUME NEW k \in DOMAIN kernels, NEW g \in DOMAIN kernels[k].gotos
               PROVE  ~Behind(k, g)'
    BY <1>1, <1>3 DEF GotosWritten
  <2>1. k \in Nat /\ k >= 1 /\ g \in Nat /\ g >= 1 BY <1>2, KernelFacts
  <2>2. ~(k < 1 \/ (k = 1 /\ g < 1)) BY <2>1
  <2> QED BY <1>1, <1>2, <2>2 DEF Behind
<1>7. ReductionsWritten'
  BY <1>1 DEF ReductionsWritten
<1> QED BY <1>4, <1>5, <1>6, <1>7 DEF TableInv

(* The goto at hand is one of a kernel, from a kernel. *)
LEMMA GotoInHand ==
  ASSUME CreatorInv, AtGoto
  PROVE  /\ lt_idx \in DOMAIN kernels[lt_k_idx].gotos
         /\ CurrentGoto.from \in DOMAIN kernels /\ CurrentGoto.symbol \in Symbols
         /\ lt_k_idx \in GotoTargets([from |-> CurrentGoto.from,
                                      symbol |-> CurrentGoto.symbol])
<1>1. /\ lt_k_idx \in DOMAIN kernels /\ lt_idx \in Nat \ {0}
      /\ KernelTypes /\ KernelParts
  BY TableFacts DEF TableTypes
<1>2. /\ kernels[lt_k_idx].gotos \in Seq(GotoType)
      /\ lt_idx \in DOMAIN kernels[lt_k_idx].gotos
  BY <1>1, KernelFacts DEF AtGoto
<1>3. CurrentGoto \in GotoType
  BY <1>2 DEF CurrentGoto
<1>4. /\ CurrentGoto = [from |-> CurrentGoto.from, symbol |-> CurrentGoto.symbol]
      /\ CurrentGoto.symbol \in Symbols
  BY <1>3 DEF GotoType
<1>5. CurrentGoto.from \in DOMAIN kernels
  BY <1>1, <1>2 DEF CurrentGoto, KernelParts
<1>6. CurrentGoto \in ElementsOf(kernels[lt_k_idx].gotos)
  BY <1>2 DEF CurrentGoto, ElementsOf
<1> QED BY <1>1, <1>2, <1>4, <1>5, <1>6 DEF GotoTargets

(* Only an empty cell is written, or one that holds the kernel already. *)
LEMMA WriteGotoInv == CreatorInv /\ WriteGoto => TableInv'
<1> SUFFICES ASSUME CreatorInv, WriteGoto PROVE TableInv'
  OBVIOUS
<1>0. PICK a, x : a = CurrentGoto.from /\ x = CurrentGoto.symbol
  OBVIOUS
<1>1. /\ UNCHANGED inputsOfTable /\ table_stage = "gotos" /\ table_stage' = "gotos"
      /\ lt_k_idx' = lt_k_idx /\ lt_idx' = lt_idx + 1 /\ create_error' = create_error
      /\ lalr_table' = [lalr_table EXCEPT ![a][x] = lt_k_idx]
      /\ lalr_table[a][x] \in {NotExist, lt_k_idx} /\ AtGoto
  BY <1>0 DEF WriteGoto, AtGoto, GotoCell
<1>2. /\ TableTypes /\ CellsTrue /\ GotosWritten /\ KernelTypes /\ KernelParts
      /\ lt_k_idx \in DOMAIN kernels /\ lt_k_idx \in Nat \ {0} /\ lt_idx \in Nat \ {0}
      /\ lalr_table \in [DOMAIN kernels -> [Symbols -> Int]]
      /\ \A k \in DOMAIN kernels : k \in Nat \ {0}
  BY <1>1, TableFacts DEF TableTypes
<1>3. /\ kernels' = kernels
      /\ \A k, s, c : CellTrue(k, s, c)' = CellTrue(k, s, c)
  BY <1>1, InputsKept
<1>4. /\ a \in DOMAIN kernels /\ x \in Symbols
      /\ lt_k_idx \in GotoTargets([from |-> a, symbol |-> x])
      /\ lt_idx \in DOMAIN kernels[lt_k_idx].gotos
  BY <1>0, <1>1, GotoInHand
<1>5. PICK T : T = lalr_table'
  OBVIOUS
<1>6. /\ T \in [DOMAIN kernels -> [Symbols -> Int]]
      /\ \A k \in DOMAIN kernels : \A s \in Symbols :
           T[k][s] = IF k = a /\ s = x THEN lt_k_idx ELSE lalr_table[k][s]
  BY <1>1, <1>2, <1>4, <1>5, CellReplaced
<1>7. TableTypes'
  BY <1>1, <1>2, <1>3, <1>5, <1>6 DEF TableTypes
<1>8. CellsTrue'
  <2> SUFFICES ASSUME NEW k \in DOMAIN kernels, NEW s \in Symbols
               PROVE  CellTrue(k, s, T[k][s])
    BY <1>3, <1>5 DEF CellsTrue
  <2>1. CASE k = a /\ s = x
    BY <1>4, <1>6, <2>1 DEF CellTrue
  <2>2. CASE ~(k = a /\ s = x)
    BY <1>1, <1>2, <1>6, <2>2 DEF CellsTrue
  <2> QED BY <2>1, <2>2
<1>9. GotosWritten'
  <2> SUFFICES ASSUME NEW k \in DOMAIN kernels, NEW g \in DOMAIN kernels[k].gotos,
                      Behind(k, g)'
               PROVE  T[kernels[k].gotos[g].from][kernels[k].gotos[g].symbol] = k
    BY <1>1, <1>3, <1>5 DEF GotosWritten
  <2>1. g \in Nat BY <1>2, KernelFacts
  <2>2. Behind(k, g) \/ (k = lt_k_idx /\ g = lt_idx)
    <3>1. k < lt_k_idx \/ (k = lt_k_idx /\ g < lt_idx + 1)
      BY <1>1 DEF Behind
    <3> QED BY <1>2, <2>1, <3>1 DEF Behind
  <2>3. CASE k = lt_k_idx /\ g = lt_idx
    BY <1>0, <1>4, <1>6, <2>3 DEF CurrentGoto
  <2>4. CASE Behind(k, g)
    <3>1. PICK b, y : b = kernels[k].gotos[g].from /\ y = kernels[k].gotos[g].symbol
      OBVIOUS
    <3>2. b \in DOMAIN kernels /\ y \in Symbols
      <4>1. kernels[k].gotos[g] \in GotoType BY <1>2, KernelFacts
      <4> QED BY <1>2, <3>1, <4>1 DEF KernelParts, GotoType
    <3>3. lalr_table[b][y] = k
      BY <1>1, <1>2, <2>4, <3>1 DEF GotosWritten
    <3>4. CASE b = a /\ y = x
      <4>1. k \in {NotExist, lt_k_idx} BY <1>1, <3>3, <3>4
      <4>2. k = lt_k_idx BY <1>2, <4>1 DEF NotExist
      <4> QED BY <1>6, <3>1, <3>2, <3>4, <4>2
    <3>5. CASE ~(b = a /\ y = x)
      BY <1>6, <3>1, <3>2, <3>3, <3>5
    <3> QED BY <3>4, <3>5
  <2> QED BY <2>2, <2>3, <2>4
<1>10. ReductionsWritten'
  BY <1>1 DEF ReductionsWritten
<1> QED BY <1>7, <1>8, <1>9, <1>10 DEF TableInv

LEMMA FailInv ==
  ASSUME CreatorInv, UNCHANGED inputsOfTable, table_stage # "wait",
         Fail("SLR1_PARSE_TABLE_CONFLICT")
  PROVE  TableInv'
<1>1. /\ kernels' = kernels /\ \A k, s, c : CellTrue(k, s, c)' = CellTrue(k, s, c)
  BY InputsKept
<1>2. /\ create_error' = "SLR1_PARSE_TABLE_CONFLICT" /\ table_stage' = "failed"
      /\ UNCHANGED <<lalr_table, lt_k_idx, lt_idx>>
  BY DEF Fail
<1>3. TableTypes /\ CellsTrue
  BY TableFacts
<1>4. TableTypes'
  BY <1>1, <1>2, <1>3 DEF TableTypes
<1>5. CellsTrue'
  BY <1>1, <1>2, <1>3 DEF CellsTrue
<1> QED BY <1>2, <1>4, <1>5 DEF TableInv, GotosWritten, ReductionsWritten

LEMMA NextGotoKernelInv == CreatorInv /\ NextGotoKernel => TableInv'
<1> SUFFICES ASSUME CreatorInv, NextGotoKernel PROVE TableInv'
  OBVIOUS
<1>1. /\ UNCHANGED inputsOfTable /\ table_stage = "gotos" /\ lt_idx' = 1
      /\ lt_idx > Len(kernels[lt_k_idx].gotos)
      /\ lalr_table' = lalr_table /\ create_error' = create_error
      /\ \/ /\ lt_k_idx < Len(kernels) /\ lt_k_idx' = lt_k_idx + 1
            /\ table_stage' = "gotos"
         \/ /\ ~(lt_k_idx < Len(kernels)) /\ lt_k_idx' = 1
            /\ table_stage' = "reductions"
  BY DEF NextGotoKernel
<1>2. /\ TableTypes /\ CellsTrue /\ GotosWritten /\ KernelTypes /\ KernelParts
      /\ lt_k_idx \in DOMAIN kernels /\ lt_k_idx \in Nat \ {0} /\ lt_idx \in Nat \ {0}
      /\ DOMAIN kernels = 1 .. Len(kernels) /\ Len(kernels) \in Nat \ {0}
      /\ \A k \in DOMAIN kernels : k \in Nat \ {0}
  BY <1>1, TableFacts DEF TableTypes
<1>3. /\ kernels' = kernels
      /\ \A k, s, c : CellTrue(k, s, c)' = CellTrue(k, s, c)
  BY <1>1, InputsKept
<1>4. lt_k_idx' \in DOMAIN kernels
  BY <1>1, <1>2
<1>5. TableTypes'
  BY <1>1, <1>2, <1>3, <1>4 DEF TableTypes
<1>6. CellsTrue'
  BY <1>1, <1>2, <1>3 DEF CellsTrue
<1>7. GotosWritten'
  <2> SUFFICES ASSUME NEW k \in DOMAIN kernels, NEW g \in DOMAIN kernels[k].gotos,
                      table_stage' = "gotos" => Behind(k, g)'
               PROVE  Behind(k, g)
    BY <1>1, <1>2, <1>3 DEF GotosWritten
  <2>1. g \in 1 .. Len(kernels[k].gotos) /\ Len(kernels[k].gotos) \in Nat
    BY <1>2, KernelFacts
  <2>2. k < lt_k_idx \/ k = lt_k_idx
    <3>1. CASE lt_k_idx' = lt_k_idx + 1 /\ table_stage' = "gotos"
      <4>1. k < lt_k_idx + 1 \/ (k = lt_k_idx + 1 /\ g < 1)
        BY <1>1, <3>1 DEF Behind
      <4> QED BY <1>2, <2>1, <4>1
    <3>2. CASE ~(lt_k_idx < Len(kernels))
      BY <1>2, <3>2
    <3> QED BY <1>1, <3>1, <3>2
  <2>3. CASE k < lt_k_idx BY <2>3 DEF Behind
  <2>4. CASE k = lt_k_idx
    <3>1. g <= Len(kernels[lt_k_idx].gotos) /\ Len(kernels[lt_k_idx].gotos) \in Nat
      BY <2>1, <2>4
    <3>2. g < lt_idx BY <1>1, <1>2, <2>1, <3>1
    <3> QED BY <2>4, <3>2 DEF Behind
  <2> QED BY <2>2, <2>3, <2>4
<1>8. ReductionsWritten'
  <2> SUFFICES ASSUME table_stage' = "reductions", NEW k \in DOMAIN kernels,
                      NEW i \in DOMAIN kernels[k].dots
               PROVE  ~Behind(k, i)'
    BY <1>1, <1>3 DEF ReductionsWritten
  <2>1. lt_k_idx' = 1 /\ lt_idx' = 1 BY <1>1
  <2>2. k \in Nat /\ k >= 1 /\ i \in Nat /\ i >= 1 BY <1>2, KernelFacts
  <2>3. ~(k < 1 \/ (k = 1 /\ i < 1)) BY <2>2
  <2> QED BY <2>1, <2>3 DEF Behind
<1> QED BY <1>5, <1>6, <1>7, <1>8 DEF TableInv

-----------------------------------------------------------------------------
LEMMA DotInHand ==
  ASSUME CreatorInv, AtDot
  PROVE  /\ lt_idx \in DOMAIN kernels[lt_k_idx].dots
         /\ TableDot \in DotType /\ ValidDot(TableDot)
         /\ TableDot = RuleDot(TableDot.rule, TableDot.dot)
         /\ TableDot \in ElementsOf(kernels[lt_k_idx].dots)
         /\ ReduceTerminals(TableDot) \subseteq Terminals
         /\ \A t \in ReduceTerminals(TableDot) :
              t \in Follow(rules, rules[TableDot.rule].head)
<1>1. /\ lt_k_idx \in DOMAIN kernels /\ lt_idx \in Nat \ {0}
      /\ KernelTypes /\ KernelParts /\ rules \in Grammars
  BY TableFacts DEF TableTypes
<1>2. lt_idx \in DOMAIN kernels[lt_k_idx].dots
  BY <1>1, KernelFacts DEF AtDot
<1>3. TableDot \in DotType /\ ValidDot(TableDot)
  BY <1>1, <1>2, KernelFacts DEF TableDot
<1>4. TableDot = RuleDot(TableDot.rule, TableDot.dot)
  BY <1>3 DEF DotType, RuleDot
<1>5. TableDot \in ElementsOf(kernels[lt_k_idx].dots)
  BY <1>2 DEF TableDot, ElementsOf
<1>6. rules[TableDot.rule].head \in Nonterminals
  BY <1>1, <1>3, RuleFacts DEF ValidDot
<1>7. FollowsSound
  BY DEF CreatorInv, FollowInv
<1>8. follows[rules[TableDot.rule].head]
        \subseteq Follow(rules, rules[TableDot.rule].head)
  BY <1>6, <1>7 DEF FollowsSound
<1> QED BY <1>2, <1>3, <1>4, <1>5, <1>8 DEF ReduceTerminals

(* The reduction goes into empty cells only, so that the gotos and the
   reductions of the dots before it stay. *)
LEMMA WriteReductionInv == CreatorInv /\ WriteReduction => TableInv'
<1> SUFFICES ASSUME CreatorInv, WriteReduction PROVE TableInv'
  OBVIOUS
<1>0. PICK a, d, R, v : /\ a = lt_k_idx /\ d = TableDot
                        /\ R = Reducible(lt_k_idx, TableDot)
                        /\ v = ReduceBase + TableDot.rule
  OBVIOUS
<1>1. /\ UNCHANGED inputsOfTable /\ table_stage = "reductions"
      /\ table_stage' = "reductions" /\ AtDot /\ AtEnd(d) /\ ReductionFits
      /\ lt_k_idx' = lt_k_idx /\ lt_idx' = lt_idx + 1 /\ create_error' = create_error
      /\ lalr_table' = [lalr_table EXCEPT ![a] =
                          [s \in Symbols |-> IF s \in R THEN v ELSE @[s]]]
  BY <1>0 DEF WriteReduction, AtDot
<1>2. /\ TableTypes /\ CellsTrue /\ GotosWritten /\ ReductionsWritten
      /\ KernelTypes /\ KernelParts
      /\ a \in DOMAIN kernels /\ a \in Nat /\ lt_idx \in Nat \ {0}
      /\ lalr_table \in [DOMAIN kernels -> [Symbols -> Int]]
      /\ \A k \in DOMAIN kernels : k \in Nat \ {0}
  BY <1>0, <1>1, TableFacts DEF TableTypes
<1>3. /\ kernels' = kernels /\ rules' = rules
      /\ \A k, s, c : CellTrue(k, s, c)' = CellTrue(k, s, c)
      /\ \A k, t : Shiftable(k, t)' = Shiftable(k, t)
      /\ \A e : AtEnd(e)' = AtEnd(e) /\ ReduceTerminals(e)' = ReduceTerminals(e)
  BY <1>1, InputsKept
<1>4. /\ d \in DotType /\ ValidDot(d) /\ d = RuleDot(d.rule, d.dot)
      /\ lt_idx \in DOMAIN kernels[a].dots /\ kernels[a].dots[lt_idx] = d
      /\ d \in ElementsOf(kernels[a].dots)
      /\ R = {t \in ReduceTerminals(d) : ~Shiftable(a, t)}
      /\ ReduceTerminals(d) \subseteq Terminals
      /\ \A t \in R : t \in Follow(rules, rules[d.rule].head)
      /\ v = ReduceBase + d.rule
  BY <1>0, <1>1, DotInHand DEF Reducible, TableDot
<1>5. \A t \in R : lalr_table[a][t] = NotExist
  BY <1>0, <1>1 DEF ReductionFits, Occupied
<1>6. v \in Int /\ d.rule \in DOMAIN rules /\ d.dot = Len(rules[d.rule].body)
  BY <1>1, <1>4, ReduceBaseAssumption DEF DotType, ValidDot, AtEnd
<1>7. PICK T : T = lalr_table'
  OBVIOUS
<1>8. /\ T \in [DOMAIN kernels -> [Symbols -> Int]]
      /\ \A k \in DOMAIN kernels : \A s \in Symbols :
           T[k][s] = IF k = a /\ s \in R THEN v ELSE lalr_table[k][s]
  BY <1>1, <1>2, <1>6, <1>7, RowReplaced
<1>9. TableTypes'
  BY <1>1, <1>2, <1>3, <1>7, <1>8 DEF TableTypes
<1>10. CellsTrue'
  <2> SUFFICES ASSUME NEW k \in DOMAIN kernels, NEW s \in Symbols
               PROVE  CellTrue(k, s, T[k][s])
    BY <1>3, <1>7 DEF CellsTrue
  <2>1. CASE k = a /\ s \in R
    <3>1. /\ s \in Terminals /\ ~Shiftable(k, s) /\ T[k][s] = ReduceBase + d.rule
          /\ RuleDot(d.rule, Len(rules[d.rule].body)) \in ElementsOf(kernels[k].dots)
          /\ s \in Follow(rules, rules[d.rule].head)
      BY <1>4, <1>6, <1>8, <2>1
    <3> QED BY <1>6, <3>1 DEF CellTrue
  <2>2. CASE ~(k = a /\ s \in R)
    BY <1>1, <1>2, <1>8, <2>2 DEF CellsTrue
  <2> QED BY <2>1, <2>2
<1>11. GotosWritten'
  <2> SUFFICES ASSUME NEW k \in DOMAIN kernels, NEW g \in DOMAIN kernels[k].gotos
               PROVE  T[kernels[k].gotos[g].from][kernels[k].gotos[g].symbol] = k
    BY <1>1, <1>3, <1>7 DEF GotosWritten
  <2>1. PICK b, y : b = kernels[k].gotos[g].from /\ y = kernels[k].gotos[g].symbol
    OBVIOUS
  <2>2. b \in DOMAIN kernels /\ y \in Symbols
    <3>1. kernels[k].gotos[g] \in GotoType BY <1>2, KernelFacts
    <3> QED BY <1>2, <2>1, <3>1 DEF KernelParts, GotoType
  <2>3. lalr_table[b][y] = k
    BY <1>1, <1>2, <2>1 DEF GotosWritten
  <2>4. lalr_table[b][y] # NotExist
    BY <1>2, <2>3 DEF NotExist
  <2> QED BY <1>5, <1>8, <2>1, <2>2, <2>3, <2>4
<1>12. ReductionsWritten'
  <2> SUFFICES ASSUME NEW k \in DOMAIN kernels, NEW i \in DOMAIN kernels[k].dots,
                      AtEnd(kernels[k].dots[i]), Behind(k, i)',
                      NEW t \in ReduceTerminals(kernels[k].dots[i]), ~Shiftable(k, t)
               PROVE  T[k][t] = ReduceBase + kernels[k].dots[i].rule
    BY <1>1, <1>3, <1>7 DEF ReductionsWritten
  <2>1. i \in Nat BY <1>2, KernelFacts
  <2>2. Behind(k, i) \/ (k = lt_k_idx /\ i = lt_idx)
    <3>1. k < lt_k_idx \/ (k = lt_k_idx /\ i < lt_idx + 1)
      BY <1>1 DEF Behind
    <3> QED BY <1>2, <2>1, <3>1 DEF Behind
  <2>3. t \in Symbols
    BY SymbolKinds DEF ReduceTerminals
  <2>4. CASE k = lt_k_idx /\ i = lt_idx
    BY <1>0, <1>4, <1>8, <2>3, <2>4
  <2>5. CASE Behind(k, i)
    <3>1. lalr_table[k][t] = ReduceBase + kernels[k].dots[i].rule
      BY <1>1, <1>2, <2>5 DEF ReductionsWritten
    <3>2. kernels[k].dots[i].rule \in Nat
      <4>1. kernels[k].dots[i] \in DotType BY <1>2, KernelFacts
      <4> QED BY <4>1 DEF DotType
    <3>3. lalr_table[k][t] # NotExist
      BY <3>1, <3>2, ReduceBaseAssumption DEF NotExist
    <3> QED BY <1>5, <1>8, <2>3, <3>1, <3>3
  <2> QED BY <2>2, <2>4, <2>5
<1> QED BY <1>9, <1>10, <1>11, <1>12 DEF TableInv

(* A terminal that a dot of the kernel stands in front of has its goto. *)
LEMMA ShiftsWritten ==
  ASSUME CreatorInv, KernelsDone, table_stage \in {"reductions", "created"},
         NEW k \in DOMAIN kernels, NEW t \in Terminals, Shiftable(k, t)
  PROVE  lalr_table[k][t] # NotExist
<1>1. /\ KernelTypes /\ KernelParts /\ RuleInv /\ MovesComplete /\ GotosWritten
      /\ \A m \in DOMAIN kernels : m \in Nat \ {0}
  BY TableFacts DEF CreatorInv, KernelInv
<1>2. PICK i \in DOMAIN kernels[k].dots :
        ~AtEnd(kernels[k].dots[i]) /\ SymbolAfter(kernels[k].dots[i]) = t
  BY DEF Shiftable
<1>3. PICK d : d = kernels[k].dots[i]
  OBVIOUS
<1>4. FirstAfter(d) = <<t>>
  BY <1>2, <1>3 DEF FirstAfter
<1>5. 1 \in DOMAIN FirstAfter(d) /\ FirstAfter(d)[1] = t
  BY <1>4
<1>6. Expanded(k, i, 1)
  BY AllDone
<1>7. PICK m \in GotoTargets([from |-> k, symbol |-> t]) : TRUE
  BY <1>1, <1>2, <1>3, <1>5, <1>6 DEF MovesComplete
<1>8. m \in DOMAIN kernels /\ [from |-> k, symbol |-> t] \in ElementsOf(kernels[m].gotos)
  BY <1>7 DEF GotoTargets
<1>9. PICK g \in DOMAIN kernels[m].gotos :
        kernels[m].gotos[g] = [from |-> k, symbol |-> t]
  BY <1>8 DEF ElementsOf
<1>10. lalr_table[kernels[m].gotos[g].from][kernels[m].gotos[g].symbol] = m
  BY <1>1, <1>8 DEF GotosWritten
<1>11. lalr_table[k][t] = m
  BY <1>9, <1>10
<1> QED BY <1>1, <1>8, <1>11 DEF NotExist

(* So the only error of create_lalr_table is the conflict. *)
LEMMA ReductionFailsInv == CreatorInv /\ ReductionFails => TableInv'
<1> SUFFICES ASSUME CreatorInv, ReductionFails PROVE TableInv'
  OBVIOUS
<1>1. AtDot /\ UNCHANGED inputsOfTable /\ table_stage = "reductions"
  BY DEF ReductionFails, AtDot
<1>2. PICK t \in Occupied(lt_k_idx, Reducible(lt_k_idx, TableDot))
             \union (Premature(lt_k_idx, TableDot)
                      \ Occupied(lt_k_idx, Premature(lt_k_idx, TableDot))) :
        Fail(IF Shiftable(lt_k_idx, t)
               THEN "CANNOT_RESOLVE_RULE_HEAD_FOR_SHIFT_ACTION"
               ELSE "SLR1_PARSE_TABLE_CONFLICT")
  BY DEF ReductionFails
<1>3. KernelsDone /\ lt_k_idx \in DOMAIN kernels
  BY <1>1, TableFacts DEF CreatorInv, OrderInv, TableTypes
<1>4. ~Shiftable(lt_k_idx, t)
  <2> SUFFICES ASSUME Shiftable(lt_k_idx, t) PROVE FALSE
    OBVIOUS
  <2>1. t \in ReduceTerminals(TableDot) /\ lalr_table[lt_k_idx][t] = NotExist
    BY <1>2 DEF Occupied, Reducible, Premature
  <2>2. t \in Terminals
    BY <2>1 DEF ReduceTerminals
  <2> QED BY <1>1, <1>3, <2>1, <2>2, ShiftsWritten
<1> QED BY <1>1, <1>2, <1>4, FailInv

LEMMA SkipOpenDotInv == CreatorInv /\ SkipOpenDot => TableInv'
<1> SUFFICES ASSUME CreatorInv, SkipOpenDot PROVE TableInv'
  OBVIOUS
<1>1. /\ UNCHANGED inputsOfTable /\ table_stage = "reductions" /\ AtDot
      /\ table_stage' = "reductions" /\ ~AtEnd(TableDot) /\ lt_idx' = lt_idx + 1
      /\ UNCHANGED <<lalr_table, lt_k_idx, create_error>>
  BY DEF SkipOpenDot, AtDot
<1>2. /\ TableTypes /\ CellsTrue /\ GotosWritten /\ ReductionsWritten
      /\ KernelTypes /\ KernelParts /\ lt_idx \in Nat \ {0} /\ lt_k_idx \in Nat
      /\ \A k \in DOMAIN kernels : k \in Nat \ {0}
  BY TableFacts DEF TableTypes
<1>3. /\ kernels' = kernels /\ rules' = rules
      /\ \A k, s, c : CellTrue(k, s, c)' = CellTrue(k, s, c)
      /\ \A k, t : Shiftable(k, t)' = Shiftable(k, t)
      /\ \A e : AtEnd(e)' = AtEnd(e) /\ ReduceTerminals(e)' = ReduceTerminals(e)
  BY <1>1, InputsKept
<1>4. TableTypes'
  BY <1>1, <1>2, <1>3 DEF TableTypes
<1>5. CellsTrue'
  BY <1>1, <1>2, <1>3 DEF CellsTrue
<1>6. GotosWritten'
  BY <1>1, <1>2, <1>3 DEF GotosWritten
<1>7. ReductionsWritten'
  <2> SUFFICES ASSUME NEW k \in DOMAIN kernels, NEW i \in DOMAIN kernels[k].dots,
                      AtEnd(kernels[k].dots[i]), Behind(k, i)',
                      NEW t \in ReduceTerminals(kernels[k].dots[i]), ~Shiftable(k, t)
               PROVE  lalr_table[k][t] = ReduceBase + kernels[k].dots[i].rule
    BY <1>1, <1>3 DEF ReductionsWritten
  <2>1. i \in Nat BY <1>2, KernelFacts
  <2>2. ~(k = lt_k_idx /\ i = lt_idx)
    BY <1>1 DEF TableDot
  <2>3. k < lt_k_idx \/ (k = lt_k_idx /\ i < lt_idx + 1)
    BY <1>1 DEF Behind
  <2>4. Behind(k, i)
    BY <1>2, <2>1, <2>2, <2>3 DEF Behind
  <2> QED BY <1>1, <1>2, <2>4 DEF ReductionsWritten
<1> QED BY <1>4, <1>5, <1>6, <1>7 DEF TableInv

LEMMA NextReduceKernelInv == CreatorInv /\ NextReduceKernel => TableInv'
<1> SUFFICES ASSUME CreatorInv, NextReduceKernel PROVE TableInv'
  OBVIOUS
<1>1. /\ UNCHANGED inputsOfTable /\ table_stage = "reductions"
      /\ lt_idx > Len(kernels[lt_k_idx].dots)
      /\ lalr_table' = lalr_table /\ create_error' = create_error
      /\ \/ /\ lt_k_idx < Len(kernels) /\ lt_k_idx' = lt_k_idx + 1 /\ lt_idx' = 1
            /\ table_stage' = "reductions"
         \/ /\ ~(lt_k_idx < Len(kernels)) /\ table_stage' = "created"
            /\ lt_k_idx' = lt_k_idx /\ lt_idx' = lt_idx
  BY DEF NextReduceKernel
<1>2. /\ TableTypes /\ CellsTrue /\ GotosWritten /\ ReductionsWritten
      /\ KernelTypes /\ KernelParts
      /\ lt_k_idx \in DOMAIN kernels /\ lt_k_idx \in Nat \ {0} /\ lt_idx \in Nat \ {0}
      /\ DOMAIN kernels = 1 .. Len(kernels) /\ Len(kernels) \in Nat \ {0}
      /\ \A k \in DOMAIN kernels : k \in Nat \ {0}
  BY <1>1, TableFacts DEF TableTypes
<1>3. /\ kernels' = kernels /\ rules' = rules
      /\ \A k, s, c : CellTrue(k, s, c)' = CellTrue(k, s, c)
      /\ \A k, t : Shiftable(k, t)' = Shiftable(k, t)
      /\ \A e : AtEnd(e)' = AtEnd(e) /\ ReduceTerminals(e)' = ReduceTerminals(e)
  BY <1>1, InputsKept
<1>4. lt_k_idx' \in DOMAIN kernels /\ lt_idx' \in Nat \ {0}
  BY <1>1, <1>2
<1>5. TableTypes'
  BY <1>1, <1>2, <1>3, <1>4 DEF TableTypes
<1>6. CellsTrue'
  BY <1>1, <1>2, <1>3 DEF CellsTrue
<1>7. GotosWritten'
  BY <1>1, <1>2, <1>3 DEF GotosWritten
<1>8. ReductionsWritten'
  <2> SUFFICES ASSUME NEW k \in DOMAIN kernels, NEW i \in DOMAIN kernels[k].dots,
                      AtEnd(kernels[k].dots[i]),
                      table_stage' = "reductions" => Behind(k, i)'
               PROVE  Behind(k, i)
    BY <1>1, <1>2, <1>3 DEF ReductionsWritten
  <2>1. i \in 1 .. Len(kernels[k].dots) /\ Len(kernels[k].dots) \in Nat
    BY <1>2, KernelFacts
  <2>2. k < lt_k_idx \/ k = lt_k_idx
    <3>1. CASE /\ lt_k_idx' = lt_k_idx + 1 /\ lt_idx' = 1
               /\ table_stage' = "reductions"
      <4>1. k < lt_k_idx + 1 \/ (k = lt_k_idx + 1 /\ i < 1)
        BY <3>1 DEF Behind
      <4> QED BY <1>2, <2>1, <4>1
    <3>2. CASE ~(lt_k_idx < Len(kernels))
      BY <1>2, <3>2
    <3> QED BY <1>1, <3>1, <3>2
  <2>3. CASE k < lt_k_idx BY <2>3 DEF Behind
  <2>4. CASE k = lt_k_idx
    <3>1. i <= Len(kernels[lt_k_idx].dots) /\ Len(kernels[lt_k_idx].dots) \in Nat
      BY <2>1, <2>4
    <3>2. i < lt_idx BY <1>1, <1>2, <2>1, <3>1
    <3> QED BY <2>4, <3>2 DEF Behind
  <2> QED BY <2>2, <2>3, <2>4
<1> QED BY <1>5, <1>6, <1>7, <1>8 DEF TableInv

-----------------------------------------------------------------------------
(* The four steps of create_from_rule_string, one after the other. *)
LEMMA TableNextInv == CreatorInv /\ TableNext => CreatorInv'
<1> SUFFICES ASSUME CreatorInv, TableNext PROVE CreatorInv'
  OBVIOUS
<1>1. TableInv'
  <2>1. CASE CreateTable BY <2>1, CreateTableInv
  <2>2. CASE WriteGoto BY <2>2, WriteGotoInv
  <2>3. CASE GotoConflict
    BY <2>3, FailInv DEF GotoConflict, AtGoto
  <2>4. CASE NextGotoKernel BY <2>4, NextGotoKernelInv
  <2>5. CASE WriteReduction BY <2>5, WriteReductionInv
  <2>6. CASE ReductionFails BY <2>6, ReductionFailsInv
  <2>7. CASE SkipOpenDot BY <2>7, SkipOpenDotInv
  <2>8. CASE NextReduceKernel BY <2>8, NextReduceKernelInv
  <2> QED BY <2>1, <2>2, <2>3, <2>4, <2>5, <2>6, <2>7, <2>8 DEF TableNext
<1>2. UNCHANGED inputsOfTable /\ KernelsDone
  <2>1. OrderInv BY DEF CreatorInv
  <2> QED
    BY <2>1 DEF OrderInv, TableNext, CreateTable, WriteGoto, GotoConflict,
       NextGotoKernel, WriteReduction, ReductionFails, SkipOpenDot, NextReduceKernel,
       AtGoto, AtDot
<1>3. /\ FollowInv' /\ KernelInv' /\ KernelsDone' = KernelsDone
      /\ KernelInit' = KernelInit /\ FollowsDone' = FollowsDone
  BY <1>2, InputsKept
<1>4. OrderInv'
  BY <1>2, <1>3, Zenon DEF CreatorInv, OrderInv
<1> QED BY <1>1, <1>3, <1>4 DEF CreatorInv

LEMMA FirstKernel == KernelInv => 1 \in DOMAIN kernels
<1>1. KernelInv => KernelTypes /\ KernelParts BY DEF KernelInv
<1> QED BY <1>1, KernelFacts

(* As long as the table waits, nothing is said of it. *)
LEMMA TableWaits ==
  ASSUME CreatorInv, ~KernelsDone, UNCHANGED tableOwnVars, KernelInv'
  PROVE  table_stage = "wait" /\ table_stage' = "wait" /\ TableInv'
<1>1. /\ table_stage = "wait" /\ TableTypes
  BY TableFacts DEF CreatorInv, OrderInv
<1>2. UNCHANGED <<table_stage, lalr_table, lt_k_idx, lt_idx, create_error>>
  BY DEF tableOwnVars
<1>4. 1 \in DOMAIN kernels'
  <2>1. KernelInv' BY Zenon
  <2>2. (1 \in DOMAIN kernels)' BY <2>1, FirstKernel, PTL
  <2> QED BY <2>2
<1>5. lt_k_idx = 1 /\ lt_idx = 1
  BY <1>1 DEF TableTypes
<1>6. TableTypes'
  BY <1>1, <1>2, <1>4, <1>5 DEF TableTypes
<1> QED
  BY <1>1, <1>2, <1>6 DEF TableInv, CellsTrue, GotosWritten, ReductionsWritten

LEMMA NextCreatorInv == CreatorInv /\ [CreatorNext]_creatorVars => CreatorInv'
<1> SUFFICES ASSUME CreatorInv, [CreatorNext]_creatorVars PROVE CreatorInv'
  OBVIOUS
<1>0. FollowInv /\ KernelInv /\ OrderInv /\ TableInv
  BY DEF CreatorInv
<1>1. CASE TableNext
  BY <1>1, TableNextInv
<1>2. CASE FirstNext /\ UNCHANGED <<followOwnVars, kernelOwnVars, tableOwnVars>>
  <2>1. ~KernelsDone BY <1>2, NothingElse
  <2>2. FollowInv'
    BY <1>0, <1>2, NextFollowInv DEF FirstsBeforeFollows
  <2>3. KernelInv'
    BY <1>0, <1>2, NextKernelsInv
  <2>4. TableInv' /\ table_stage' = "wait"
    BY <1>2, <2>1, <2>3, TableWaits
  <2>5. KernelInit' = KernelInit /\ FollowsDone' = FollowsDone
    BY <1>2 DEF KernelInit, FollowsDone, kernelOwnVars, followOwnVars, RuleDot
  <2>6. OrderInv'
    BY <1>0, <2>4, <2>5 DEF OrderInv
  <2> QED BY <2>2, <2>3, <2>4, <2>6 DEF CreatorInv
<1>3. CASE FollowNext /\ UNCHANGED <<kernelOwnVars, tableOwnVars>>
  <2>1. ~KernelsDone BY <1>3, NothingElse
  <2>2. UNCHANGED firstVars
    BY <1>3 DEF FollowNext, SkipCreated, CallRoot, SkipSymbol, FollowInBody, HeadUsed,
       HeadCreated, CallHead, ReturnToCaller, ReturnToRoot
  <2>3. FollowInv'
    BY <1>0, <1>3, NextFollowInv
  <2>4. KernelInv'
    BY <1>0, <1>3, <2>2, NextKernelsInv DEF kernelVars
  <2>5. TableInv' /\ table_stage' = "wait"
    BY <1>3, <2>1, <2>4, TableWaits
  <2>6. ~FollowsDone
    <3> SUFFICES ASSUME FollowsDone PROVE FALSE
      OBVIOUS
    <3>1. frames = <<>>
      BY <1>0, CountAssumption
      DEF FollowsDone, Nonterminals, FollowInv, FollowTypes, StackInv
    <3> QED
      BY <1>3, <3>1 DEF FollowNext, SkipCreated, CallRoot, SkipSymbol, FollowInBody,
         HeadUsed, HeadCreated, CallHead, ReturnToCaller, ReturnToRoot, Scanning,
         AtBodyEnd, Returning
  <2>7. KernelInit' = KernelInit
    BY <1>3 DEF KernelInit, kernelOwnVars, RuleDot
  <2>8. OrderInv'
    BY <1>0, <2>5, <2>6, <2>7 DEF OrderInv
  <2> QED BY <2>3, <2>4, <2>5, <2>8 DEF CreatorInv
<1>4. CASE FollowsDone /\ KernelNext /\ UNCHANGED <<followOwnVars, tableOwnVars>>
  <2>1. ~KernelsDone BY <1>4, NothingElse
  <2>2. UNCHANGED firstVars
    BY <1>4 DEF KernelNext, KnownKernel, NewKernel, BeginMerge, MergeDot, EndMerge,
       NextDot, NextKernel
  <2>3. FollowInv'
    BY <1>0, <1>4, <2>2, NextFollowInv DEF followVars
  <2>4. KernelInv'
    <3>1. [KernelNext \/ (FirstNext /\ UNCHANGED kernelOwnVars)]_kernelVars
      BY <1>4
    <3> QED BY <1>0, <3>1, NextKernelsInv
  <2>5. TableInv' /\ table_stage' = "wait"
    BY <1>4, <2>1, <2>4, TableWaits
  <2>6. FollowsDone'
    BY <1>4 DEF FollowsDone, followOwnVars
  <2>7. OrderInv'
    BY <2>5, <2>6 DEF OrderInv
  <2> QED BY <2>3, <2>4, <2>5, <2>7 DEF CreatorInv
<1>5. CASE UNCHANGED creatorVars
  <2>1. UNCHANGED inputsOfTable /\ UNCHANGED tableOwnVars
    BY <1>5 DEF creatorVars, inputsOfTable
  <2>2. /\ FollowInv' /\ KernelInv' /\ KernelsDone' = KernelsDone
        /\ KernelInit' = KernelInit /\ FollowsDone' = FollowsDone
        /\ kernels' = kernels
        /\ \A k, t : Shiftable(k, t)' = Shiftable(k, t)
        /\ \A d : AtEnd(d)' = AtEnd(d) /\ ReduceTerminals(d)' = ReduceTerminals(d)
        /\ \A k, s, c : CellTrue(k, s, c)' = CellTrue(k, s, c)
    BY <2>1, InputsKept
  <2>3. UNCHANGED <<table_stage, lalr_table, lt_k_idx, lt_idx, create_error>>
    BY <2>1 DEF tableOwnVars
  <2>4. OrderInv'
    BY <1>0, <2>2, <2>3, Zenon DEF OrderInv
  <2>5. \A k, i : Behind(k, i)' = Behind(k, i)
    BY <2>3 DEF Behind
  <2>6. TableTypes' /\ CellsTrue'
    BY <1>0, <2>2, <2>3 DEF TableInv, TableTypes, CellsTrue
  <2>7. GotosWritten'
    BY <1>0, <2>2, <2>3, <2>5 DEF TableInv, GotosWritten
  <2>8. ReductionsWritten'
    BY <1>0, <2>2, <2>3, <2>5 DEF TableInv, ReductionsWritten
  <2> QED BY <2>2, <2>4, <2>6, <2>7, <2>8 DEF CreatorInv, TableInv
<1> QED BY <1>1, <1>2, <1>3, <1>4, <1>5 DEF CreatorNext

LEMMA InitCreatorInv == CreatorInit => CreatorInv
<1> SUFFICES ASSUME CreatorInit PROVE CreatorInv
  OBVIOUS
<1>1. FirstInit /\ FollowInit /\ KernelInit /\ TableInit
  BY DEF CreatorInit
<1>2. FollowInv
  BY <1>1, InitFollowInv DEF FollowsInit
<1>3. KernelInv
  BY <1>1, InitRuleInv, KernelInitInv
<1>4. 1 \in DOMAIN kernels
  BY <1>3, FirstKernel
<1>5. TableInv
  BY <1>1, <1>4
  DEF TableInit, TableInv, TableTypes, CellsTrue, GotosWritten, ReductionsWritten
<1>6. OrderInv
  BY <1>1 DEF OrderInv, TableInit
<1> QED BY <1>2, <1>3, <1>5, <1>6 DEF CreatorInv

(* What the three arrays of a grammar, FIRST, FOLLOW and kernels, and its
   table are known to be at every moment of create_from_rule_string. *)
THEOREM CreatorInvariant == CreatorSpec => []CreatorInv
<1> QED BY InitCreatorInv, NextCreatorInv, PTL DEF CreatorSpec

(* Every kernel is entered under the one symbol that stands before all its
   dots, and no move that an expanded dot needs is missing, although groups of
   dots are merged into kernels that exist. *)
THEOREM KernelsAreLinked == CreatorSpec => []KernelsLinked
<1>1. CreatorInv => KernelsLinked BY DEF CreatorInv, KernelInv, KernelsLinked
<1> QED BY <1>1, CreatorInvariant, PTL

(* compute_kernels never adds a dot to a kernel whose loop is over. *)
THEOREM ExpandedAreFixed == CreatorSpec => ExpandedFixed
<1>1. CreatorInv /\ [CreatorNext]_creatorVars
        => [\A k \in DOMAIN kernels :
              k < k_idx => kernels'[k].dots = kernels[k].dots]_kernelVars
  <2> SUFFICES ASSUME CreatorInv, [CreatorNext]_creatorVars
               PROVE  [\A k \in DOMAIN kernels :
                         k < k_idx => kernels'[k].dots = kernels[k].dots]_kernelVars
    OBVIOUS
  <2>0. KernelInv BY DEF CreatorInv
  <2>1. CASE KernelNext
    BY <2>0, <2>1, ExpandedFixedStep
  <2>2. CASE UNCHANGED kernelOwnVars
    <3>1. kernels' = kernels BY <2>2 DEF kernelOwnVars
    <3> QED BY <3>1
  <2>3. KernelNext \/ UNCHANGED kernelOwnVars
    BY DEF CreatorNext, creatorVars, TableNext, CreateTable, WriteGoto, GotoConflict,
       NextGotoKernel, WriteReduction, ReductionFails, SkipOpenDot, NextReduceKernel,
       inputsOfTable
  <2> QED BY <2>1, <2>2, <2>3
<1> QED BY <1>1, CreatorInvariant, PTL DEF CreatorSpec, ExpandedFixed

(* CANNOT_RESOLVE_RULE_HEAD_FOR_SHIFT_ACTION is never reported. *)
THEOREM ShiftsAreResolved == CreatorSpec => []ShiftsResolved
<1>1. CreatorInv => ShiftsResolved
  BY DEF CreatorInv, TableInv, TableTypes, ShiftsResolved
<1> QED BY <1>1, CreatorInvariant, PTL

(* Every cell of the table is a goto of the kernels, or the reduction of a
   complete rule on a terminal that may follow its head. *)
THEOREM CellsAreJustified == CreatorSpec => []CellsJustified
<1>1. CreatorInv => CellsJustified
  <2> SUFFICES ASSUME CreatorInv,
                      table_stage \in {"gotos", "reductions", "created"},
                      NEW k \in DOMAIN kernels, NEW s \in Symbols
               PROVE  LET cell == lalr_table[k][s]
                      IN  \/ cell = NotExist
                          \/ /\ cell < ReduceBase
                             /\ [from |-> k, symbol |-> s]
                                  \in ElementsOf(kernels[cell].gotos)
                          \/ /\ cell > ReduceBase
                             /\ LET r == cell - ReduceBase
                                IN  /\ RuleDot(r, Len(rules[r].body))
                                         \in ElementsOf(kernels[k].dots)
                                    /\ s \in Follow(rules, rules[r].head)
                                    /\ ~Shiftable(k, s)
    BY DEF CellsJustified
  <2>1. /\ KernelTypes /\ DOMAIN kernels = 1 .. Len(kernels) /\ rules \in Grammars
        /\ CellsTrue
    BY TableFacts
  <2>2. PICK cell : cell = lalr_table[k][s]
    OBVIOUS
  <2>3. CellTrue(k, s, cell)
    BY <2>1, <2>2 DEF CellsTrue
  <2>4. CASE cell = NotExist
    BY <2>2, <2>4
  <2>5. CASE cell \in GotoTargets([from |-> k, symbol |-> s])
    <3>1. /\ cell \in 1 .. Len(kernels)
          /\ [from |-> k, symbol |-> s] \in ElementsOf(kernels[cell].gotos)
      BY <2>1, <2>5 DEF GotoTargets
    <3>2. cell < ReduceBase
      BY <2>1, <3>1, ReduceBaseAssumption, MaxKernelsAssumption DEF KernelTypes
    <3> QED BY <2>2, <3>1, <3>2
  <2>6. CASE /\ ~Shiftable(k, s)
             /\ \E r \in DOMAIN rules :
                  /\ cell = ReduceBase + r
                  /\ RuleDot(r, Len(rules[r].body)) \in ElementsOf(kernels[k].dots)
                  /\ s \in Follow(rules, rules[r].head)
    <3>1. PICK r \in DOMAIN rules :
             /\ cell = ReduceBase + r
             /\ RuleDot(r, Len(rules[r].body)) \in ElementsOf(kernels[k].dots)
             /\ s \in Follow(rules, rules[r].head)
      BY <2>6
    <3>2. r \in Nat \ {0}
      BY <2>1, RuleFacts
    <3>3. cell > ReduceBase /\ cell - ReduceBase = r
      BY <3>1, <3>2, ReduceBaseAssumption
    <3> QED BY <2>2, <2>6, <3>1, <3>3
  <2> QED BY <2>3, <2>4, <2>5, <2>6 DEF CellTrue
<1> QED BY <1>1, CreatorInvariant, PTL

(* A table that is handed to the parser has the goto of every symbol that may
   come next in a kernel, and every reduction the kernel does not shift. *)
THEOREM CreatedTableIsComplete == CreatorSpec => []CreatedTableComplete
<1>1. CreatorInv => CreatedTableComplete
  <2> SUFFICES ASSUME CreatorInv, table_stage = "created",
                      NEW k \in DOMAIN kernels, NEW rd \in DOMAIN kernels[k].dots,
                      NEW d, d = kernels[k].dots[rd]
               PROVE  IF AtEnd(d)
                        THEN \A t \in ReduceTerminals(d) :
                               Shiftable(k, t) \/ lalr_table[k][t] = ReduceBase + d.rule
                        ELSE \A i \in DOMAIN FirstAfter(d) :
                               LET cell == lalr_table[k][FirstAfter(d)[i]]
                               IN  /\ cell \in DOMAIN kernels
                                   /\ ElementsOf(Group(d, i))
                                        \subseteq ElementsOf(kernels[cell].dots)
    BY Zenon DEF CreatedTableComplete
  <2>1. GotosWritten /\ ReductionsWritten /\ KernelsDone /\ MovesComplete
    BY TableFacts DEF CreatorInv, KernelInv, OrderInv
  <2>2. CASE AtEnd(d)
    BY <2>1, <2>2 DEF ReductionsWritten
  <2>3. CASE ~AtEnd(d)
    <3> SUFFICES ASSUME NEW i \in DOMAIN FirstAfter(d)
                 PROVE  LET cell == lalr_table[k][FirstAfter(d)[i]]
                        IN  /\ cell \in DOMAIN kernels
                            /\ ElementsOf(Group(d, i))
                                 \subseteq ElementsOf(kernels[cell].dots)
      BY <2>3
    <3>1. Expanded(k, rd, i)
      BY <2>1, AllDone
    <3>2. PICK m \in GotoTargets([from |-> k, symbol |-> FirstAfter(d)[i]]) :
            ElementsOf(Group(d, i)) \subseteq ElementsOf(kernels[m].dots)
      BY <2>1, <2>3, <3>1 DEF MovesComplete
    <3>3. /\ m \in DOMAIN kernels
          /\ [from |-> k, symbol |-> FirstAfter(d)[i]] \in ElementsOf(kernels[m].gotos)
      BY <3>2 DEF GotoTargets
    <3>4. PICK g \in DOMAIN kernels[m].gotos :
            kernels[m].gotos[g] = [from |-> k, symbol |-> FirstAfter(d)[i]]
      BY <3>3 DEF ElementsOf
    <3>5. lalr_table[kernels[m].gotos[g].from][kernels[m].gotos[g].symbol] = m
      BY <2>1, <3>3 DEF GotosWritten
    <3>6. lalr_table[k][FirstAfter(d)[i]] = m
      BY <3>4, <3>5
    <3> QED BY <3>2, <3>3, <3>6
  <2> QED BY <2>2, <2>3
<1> QED BY <1>1, CreatorInvariant, PTL

(* No step of create_lalr_table changes a cell that was written. *)
THEOREM CellsAreWrittenOnce == CreatorSpec => CellsWrittenOnce
<1>1. CreatorInv /\ [CreatorNext]_creatorVars
        => [(table_stage \in {"gotos", "reductions"}) =>
              \A k \in DOMAIN kernels, s \in Symbols :
                lalr_table[k][s] # NotExist
                  => lalr_table'[k][s] = lalr_table[k][s]]_creatorVars
  <2> SUFFICES ASSUME CreatorInv, CreatorNext,
                      table_stage \in {"gotos", "reductions"},
                      NEW k \in DOMAIN kernels, NEW s \in Symbols,
                      lalr_table[k][s] # NotExist
               PROVE  lalr_table'[k][s] = lalr_table[k][s]
    OBVIOUS
  <2>1. /\ KernelsDone /\ lt_k_idx \in DOMAIN kernels
        /\ lalr_table \in [DOMAIN kernels -> [Symbols -> Int]]
    BY TableFacts DEF CreatorInv, OrderInv, TableTypes
  <2>2. TableNext
    BY <2>1, NothingElse DEF CreatorNext
  <2>3. CASE UNCHANGED lalr_table
    BY <2>3
  <2>4. CASE WriteGoto
    <3>1. PICK a, x : a = CurrentGoto.from /\ x = CurrentGoto.symbol
      OBVIOUS
    <3>2. /\ lalr_table' = [lalr_table EXCEPT ![a][x] = lt_k_idx] /\ AtGoto
          /\ lalr_table[a][x] \in {NotExist, lt_k_idx}
      BY <2>4, <3>1 DEF WriteGoto, GotoCell
    <3>3. a \in DOMAIN kernels /\ x \in Symbols
      BY <3>1, <3>2, GotoInHand
    <3> QED BY <2>1, <3>2, <3>3
  <2>5. CASE WriteReduction
    <3>1. PICK a, R, v : /\ a = lt_k_idx /\ R = Reducible(lt_k_idx, TableDot)
                         /\ v = ReduceBase + TableDot.rule
      OBVIOUS
    <3>2. /\ lalr_table' = [lalr_table EXCEPT ![a] =
                              [y \in Symbols |-> IF y \in R THEN v ELSE @[y]]]
          /\ Occupied(a, R) = {}
      BY <2>5, <3>1 DEF WriteReduction, ReductionFits
    <3>3. ~(k = a /\ s \in R)
      BY <3>2 DEF Occupied
    <3> QED BY <2>1, <3>1, <3>2, <3>3
  <2>6. UNCHANGED lalr_table \/ WriteGoto \/ WriteReduction
    BY <2>2 DEF TableNext, CreateTable, GotoConflict, NextGotoKernel, ReductionFails,
       SkipOpenDot, NextReduceKernel, Fail
  <2> QED BY <2>3, <2>4, <2>5, <2>6
<1> QED BY <1>1, CreatorInvariant, PTL DEF CreatorSpec, CellsWrittenOnce
=============================================================================
