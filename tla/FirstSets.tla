----------------------------- MODULE FirstSets -----------------------------
(***************************************************************************)
(* p_creat_descr_s::compute_firsts (parser_code.cc:3786-3863).             *)
(*                                                                         *)
(* For every nonterminal the code grows an array of symbols, first_set,    *)
(* while it walks over it, and beside it an array of rule lists that says  *)
(* which rules put, or would have put, each symbol there.  Both arrays are *)
(* read by compute_kernels by position, so their order and the rule lists  *)
(* matter as much as the set itself.                                       *)
(***************************************************************************)
EXTENDS Grammar

VARIABLES
  rules,            (* the loaded grammar, never written here              *)
  non_idx,          (* nonterminal whose set is computed                   *)
  first_set,        (* its set so far, in the order of discovery           *)
  first_rule_sets,  (* first_rule_idxs_sets: rules per element of the set  *)
  fs_idx,           (* element of first_set that is being expanded         *)
  r_idx,            (* rule that is looked at next                         *)
  firsts,           (* finished sets, per nonterminal                      *)
  first_rules       (* finished rule lists, per nonterminal                *)

scanVars == <<non_idx, first_set, first_rule_sets, fs_idx, r_idx>>
firstVars == <<rules, scanVars, firsts, first_rules>>

FirstsDone == non_idx > TermCount + NontermCount - 1

FirstInit ==
  /\ rules \in Grammars
  /\ non_idx = TermCount
  /\ first_set = <<TermCount>>
  /\ first_rule_sets = << <<>> >>
  /\ fs_idx = 1
  /\ r_idx = 1
  /\ firsts = [n \in Nonterminals |-> <<>>]
  /\ first_rules = [n \in Nonterminals |-> <<>>]

(* The rule of r_idx begins with a symbol the set does not hold yet. *)
AddSymbol(e) ==
  /\ e \notin ElementsOf(first_set)
  /\ first_set' = Append(first_set, e)
  /\ first_rule_sets' = Append(first_rule_sets, <<r_idx>>)

(* Mutant: the rule is only recorded where the symbol is new. *)
AddRuleForgets(e) ==
  /\ e \in ElementsOf(first_set)
  /\ UNCHANGED <<first_set, first_rule_sets>>

(* It is there already: the rule joins the rules of that element. *)
AddRule(e) ==
  /\ e \in ElementsOf(first_set)
  /\ first_rule_sets' = [i \in DOMAIN first_rule_sets |->
                            IF first_set[i] = e
                              THEN Append(first_rule_sets[i], r_idx)
                              ELSE first_rule_sets[i]]
  /\ UNCHANGED first_set

(* One turn of the loop over all rules for the element of fs_idx. *)
ScanRule ==
  /\ ~FirstsDone
  /\ fs_idx <= Len(first_set)
  /\ first_set[fs_idx] \in Nonterminals
  /\ r_idx <= Len(rules)
  /\ IF rules[r_idx].head = first_set[fs_idx]
       THEN \/ AddSymbol(rules[r_idx].body[1])
            \/ AddRule(rules[r_idx].body[1])
       ELSE UNCHANGED <<first_set, first_rule_sets>>
  /\ r_idx' = r_idx + 1
  /\ UNCHANGED <<rules, non_idx, fs_idx, firsts, first_rules>>

(* Mutant: the next element goes on with the rule the last one ended at. *)
NextElementKeepsRule ==
  /\ ~FirstsDone
  /\ fs_idx <= Len(first_set)
  /\ \/ first_set[fs_idx] \in Terminals
     \/ r_idx > Len(rules)
  /\ fs_idx' = fs_idx + 1
  /\ UNCHANGED <<rules, non_idx, first_set, first_rule_sets, r_idx,
                 firsts, first_rules>>

(* A terminal, or a nonterminal whose rules were all looked at. *)
NextElement ==
  /\ ~FirstsDone
  /\ fs_idx <= Len(first_set)
  /\ \/ first_set[fs_idx] \in Terminals
     \/ r_idx > Len(rules)
  /\ fs_idx' = fs_idx + 1
  /\ r_idx' = 1
  /\ UNCHANGED <<rules, non_idx, first_set, first_rule_sets,
                 firsts, first_rules>>

(* The set has no further element: store it, begin with the next one. *)
StoreFirst ==
  /\ ~FirstsDone
  /\ fs_idx > Len(first_set)
  /\ firsts' = [firsts EXCEPT ![non_idx] = first_set]
  /\ first_rules' = [first_rules EXCEPT ![non_idx] = first_rule_sets]
  /\ non_idx' = non_idx + 1
  /\ first_set' = <<non_idx + 1>>
  /\ first_rule_sets' = << <<>> >>
  /\ fs_idx' = 1
  /\ r_idx' = 1
  /\ UNCHANGED rules

FirstNext == ScanRule \/ NextElement \/ StoreFirst

FirstSpec == FirstInit /\ [][FirstNext]_firstVars /\ WF_firstVars(FirstNext)

-----------------------------------------------------------------------------
(* Types of the arrays and indices of compute_firsts. *)
FirstTypeOK ==
  /\ rules \in Grammars
  /\ non_idx \in TermCount .. (TermCount + NontermCount)
  /\ first_set \in Seq(Symbols \union {TermCount + NontermCount})
  /\ first_rule_sets \in Seq(Seq(DOMAIN rules))
  /\ fs_idx \in Nat \ {0}
  /\ r_idx \in 1 .. (Len(rules) + 1)
  /\ firsts \in [Nonterminals -> Seq(Symbols)]
  /\ first_rules \in [Nonterminals -> Seq(Seq(DOMAIN rules))]

(* The set being built never lists a symbol twice and its rule lists stay
   parallel to it: compute_kernels indexes both arrays with ef_idx. *)
Parallel(set, ruleSets) == DOMAIN ruleSets = DOMAIN set /\ Distinct(set)

FirstSetParallel == Parallel(first_set, first_rule_sets)

(* Every stored set is exactly FIRST of its nonterminal: no symbol that
   grows into the array while it is walked over is left unexpanded, and
   none is in it that no derivation begins with. *)
FirstsExact ==
  \A n \in Nonterminals :
    n < non_idx => ElementsOf(firsts[n]) = First(rules, n)

(* Position 1 of the array, which compute_kernels takes for "the element
   itself" (ef_idx == 0), is the nonterminal itself and every position
   lists all rules that derive it, each once: none is lost when two rules of
   different nonterminals begin with the same symbol. *)
FirstRulesExact ==
  \A n \in Nonterminals :
    n < non_idx =>
      /\ Parallel(firsts[n], first_rules[n])
      /\ firsts[n] # <<>> /\ firsts[n][1] = n
      /\ \A i \in DOMAIN firsts[n] :
           /\ ElementsOf(first_rules[n][i])
                = RulesBeginningWith(rules, n, firsts[n][i])
           /\ Distinct(first_rules[n][i])

=============================================================================
