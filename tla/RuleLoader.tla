---------------------------- MODULE RuleLoader -----------------------------
(***************************************************************************)
(* parser_s::create_from_rule_string (parser_code.cc:4374-4462) as far as  *)
(* the tables: load_from_rule_char_ptr (3264-3694) reads the rule file     *)
(* token by token, find_key_terminals (3696-3742) picks the end and skip   *)
(* terminals, and every failure leaves an error type.                      *)
(*                                                                         *)
(* What rule_file_fa.recognize returns next is any token; the file is what *)
(* it has returned so far.  A name is a sequence of the pieces that        *)
(* key_terminals_fa tells apart: "_", "SKIP", "END" and other text.        *)
(***************************************************************************)
EXTENDS Integers, Sequences, SequencesExt

CONSTANTS
  TerminalNames,     (* names an identifier token may have                 *)
  NonterminalNames,  (* names a nonterm_id token may have                  *)
  MaxTokens          (* bound: tokens of the file                          *)

ASSUME RuleLoaderAssumption ==
  MaxTokens \in Nat /\ \A name \in TerminalNames : name \in Seq(STRING)

NotExist == -1       (* c_idx_not_exist *)

(* Tokens of the rule file.  White space and comments, which every loop passes
   over (ret_term <= rt_sec_comment), change nothing and are left out. *)
Marks == {"unrecognized", "input_end", "init_code", "terminals",
          "nonterminals", "rules", "div_0", "div_1", "code"}
Token == [term : Marks, name : {NotExist}]
           \union [term : {"identifier"}, name : TerminalNames]
           \union [term : {"nonterm_id"}, name : NonterminalNames]

VARIABLES
  load_stage,      (* the loop of the loader, "keys", "tables", "created"  *)
                   (* or "failed"                                          *)
  file,            (* history: the tokens read                             *)
  terminal_state,  (* 1 when a name waits for its expression               *)
  new_terminal,    (* that name                                            *)
  terminals,       (* the names, in order                                  *)
  nonterminals,
  rule_state,      (* how far the rule is read: 0 .. 3                     *)
  new_rule,        (* the rule being read: [head, body]                    *)
  rules,
  rule_codes,      (* count of the semantic codes stored                   *)
  t_idx,           (* the terminal find_key_terminals looks at             *)
  end_terminal,
  skip_terminals,
  error_type       (* error.type                                           *)

declVars == <<terminal_state, new_terminal, terminals, nonterminals>>
ruleVars == <<rule_state, new_rule, rules, rule_codes>>
keyVars == <<t_idx, end_terminal, skip_terminals>>
loadVars == <<load_stage, file, declVars, ruleVars, keyVars, error_type>>

BlankRule == [head |-> NotExist, body |-> <<>>]

LoadInit ==
  /\ load_stage = "init_flag"
  /\ file = <<>>
  /\ terminal_state = 0 /\ new_terminal = NotExist
  /\ terminals = <<>> /\ nonterminals = <<>>
  /\ rule_state = 0 /\ new_rule = BlankRule
  /\ rules = <<>> /\ rule_codes = 0
  /\ t_idx = 1 /\ end_terminal = NotExist /\ skip_terminals = <<>>
  /\ error_type = "NONE"

-----------------------------------------------------------------------------
IndexOf(s, name) == SelectInSeq(s, LAMBDA e : e = name)
Known(s, name) == name \in ToSet(s)

(* The symbol numbers of rules: terminals from 0, nonterminals behind. *)
TerminalIdx(name) == IndexOf(terminals, name) - 1
NonterminalIdx(name) == Len(terminals) + IndexOf(nonterminals, name) - 1

(* A loop of the loader takes the token tok. *)
Take(stage, tok) ==
  /\ load_stage = stage
  /\ Len(file) < MaxTokens
  /\ file' = Append(file, tok)

(* The loader returns false; an error it does not name becomes unspecified. *)
FailWith(error) ==
  /\ load_stage' = "failed"
  /\ error_type' = IF error = "NONE" THEN "CREATE_UNSPECIFIED_ERROR" ELSE error

Syntax == "CREATE_RULES_SYNTAX_ERROR"

(* The three loops in front of the terminals wait for one token each. *)
Awaited == [init_flag |-> <<"init_code", "init_code">>,
            init_code |-> <<"code", "terminals_flag">>,
            terminals_flag |-> <<"terminals", "terminals">>]

AwaitToken ==
  \E stage \in DOMAIN Awaited, tok \in Token :
    /\ Take(stage, tok)
    /\ tok.term = Awaited[stage][1]
    /\ load_stage' = Awaited[stage][2]
    /\ UNCHANGED <<declVars, ruleVars, keyVars, error_type>>

WrongToken ==
  \E stage \in DOMAIN Awaited, tok \in Token :
    /\ Take(stage, tok)
    /\ tok.term # Awaited[stage][1]
    /\ FailWith(Syntax)
    /\ UNCHANGED <<declVars, ruleVars, keyVars>>

-----------------------------------------------------------------------------
(* terminals: *)

TerminalName ==
  \E tok \in Token :
    /\ Take("terminals", tok)
    /\ terminal_state = 0 /\ tok.term = "identifier"
    /\ new_terminal' = tok.name
    /\ IF Known(terminals, tok.name)
         THEN /\ FailWith("CREATE_RULES_DUPLICATE_TERMINAL")
              /\ UNCHANGED terminal_state
         ELSE /\ terminal_state' = 1
              /\ UNCHANGED <<load_stage, error_type>>
    /\ UNCHANGED <<terminals, nonterminals, ruleVars, keyVars>>

TerminalExpression ==
  \E tok \in Token :
    /\ Take("terminals", tok)
    /\ terminal_state = 1 /\ tok.term = "code"
    /\ terminals' = Append(terminals, new_terminal)
    /\ new_terminal' = NotExist
    /\ terminal_state' = 0
    /\ UNCHANGED <<load_stage, nonterminals, ruleVars, keyVars, error_type>>

TerminalError ==
  \E tok \in Token :
    /\ Take("terminals", tok)
    /\ tok.term \notin {"nonterminals",
                        IF terminal_state = 0 THEN "identifier" ELSE "code"}
    /\ FailWith(Syntax)
    /\ UNCHANGED <<declVars, ruleVars, keyVars>>

(* The loop ends at "nonterminals:", wherever it stands. *)
TerminalsDone ==
  \E tok \in Token :
    /\ Take("terminals", tok)
    /\ tok.term = "nonterminals"
    /\ IF terminals = <<>> THEN FailWith("CREATE_RULES_NO_TERMINALS_DEFINED")
       ELSE load_stage' = "nonterminals" /\ UNCHANGED error_type
    /\ UNCHANGED <<declVars, ruleVars, keyVars>>

(* nonterminals: *)

NonterminalName ==
  \E tok \in Token :
    /\ Take("nonterminals", tok)
    /\ tok.term = "nonterm_id"
    /\ IF Known(nonterminals, tok.name)
         THEN /\ FailWith("CREATE_RULES_DUPLICATE_NONTERMINAL")
              /\ UNCHANGED nonterminals
         ELSE /\ nonterminals' = Append(nonterminals, tok.name)
              /\ UNCHANGED <<load_stage, error_type>>
    /\ UNCHANGED <<terminal_state, new_terminal, terminals, ruleVars, keyVars>>

NonterminalError ==
  \E tok \in Token :
    /\ Take("nonterminals", tok)
    /\ tok.term \notin {"rules", "nonterm_id"}
    /\ FailWith(Syntax)
    /\ UNCHANGED <<declVars, ruleVars, keyVars>>

NonterminalsDone ==
  \E tok \in Token :
    /\ Take("nonterminals", tok)
    /\ tok.term = "rules"
    /\ IF nonterminals = <<>>
         THEN FailWith("CREATE_RULES_NO_NONTERMINALS_DEFINED")
         ELSE load_stage' = "rules" /\ UNCHANGED error_type
    /\ UNCHANGED <<declVars, ruleVars, keyVars>>

-----------------------------------------------------------------------------
(* rules: <head> -> <item> ... ->> {code} *)

RuleHead ==
  \E tok \in Token :
    /\ Take("rules", tok)
    /\ rule_state = 0 /\ tok.term = "nonterm_id"
    /\ IF Known(nonterminals, tok.name)
         THEN /\ new_rule' = [new_rule EXCEPT !.head = NonterminalIdx(tok.name)]
              /\ rule_state' = 1
              /\ UNCHANGED <<load_stage, error_type>>
         ELSE /\ FailWith("CREATE_RULES_UNDEFINED_NONTERMINAL")
              /\ UNCHANGED <<new_rule, rule_state>>
    /\ UNCHANGED <<declVars, rules, rule_codes, keyVars>>

RuleArrow ==
  \E tok \in Token :
    /\ Take("rules", tok)
    /\ rule_state = 1 /\ tok.term = "div_0"
    /\ new_rule' = [new_rule EXCEPT !.body = <<>>]
    /\ rule_state' = 2
    /\ UNCHANGED <<load_stage, declVars, rules, rule_codes, keyVars, error_type>>

(* Mutant: the body is built backwards. *)
RuleItemInFront ==
  \E tok \in Token :
    LET known == IF tok.term = "identifier" THEN Known(terminals, tok.name)
                                            ELSE Known(nonterminals, tok.name)
        idx == IF tok.term = "identifier" THEN TerminalIdx(tok.name)
                                          ELSE NonterminalIdx(tok.name)
    IN
    /\ Take("rules", tok)
    /\ rule_state = 2 /\ tok.term \in {"identifier", "nonterm_id"}
    /\ known
    /\ new_rule' = [new_rule EXCEPT !.body = <<idx>> \o @]
    /\ UNCHANGED <<load_stage, declVars, rule_state, rules, rule_codes, keyVars,
                   error_type>>

RuleItem ==
  \E tok \in Token :
    LET known == IF tok.term = "identifier" THEN Known(terminals, tok.name)
                                            ELSE Known(nonterminals, tok.name)
        idx == IF tok.term = "identifier" THEN TerminalIdx(tok.name)
                                          ELSE NonterminalIdx(tok.name)
    IN
    /\ Take("rules", tok)
    /\ rule_state = 2 /\ tok.term \in {"identifier", "nonterm_id"}
    /\ IF known
         THEN /\ new_rule' = [new_rule EXCEPT !.body = Append(@, idx)]
              /\ UNCHANGED <<load_stage, error_type>>
         ELSE /\ FailWith(IF tok.term = "identifier"
                            THEN "CREATE_RULES_UNDEFINED_TERMINAL"
                            ELSE "CREATE_RULES_UNDEFINED_NONTERMINAL")
              /\ UNCHANGED new_rule
    /\ UNCHANGED <<declVars, rule_state, rules, rule_codes, keyVars>>

RuleBodyDone ==
  \E tok \in Token :
    /\ Take("rules", tok)
    /\ rule_state = 2 /\ tok.term = "div_1" /\ new_rule.body # <<>>
    /\ rule_state' = 3
    /\ UNCHANGED <<load_stage, declVars, new_rule, rules, rule_codes, keyVars,
                   error_type>>

(* The code is stored before the rule is compared with the others. *)
RuleCode ==
  \E tok \in Token :
    /\ Take("rules", tok)
    /\ rule_state = 3 /\ tok.term = "code"
    /\ rule_codes' = rule_codes + 1
    /\ IF Known(rules, new_rule)
         THEN /\ FailWith("CREATE_RULES_DUPLICATE_RULE")
              /\ UNCHANGED <<rules, new_rule, rule_state>>
         ELSE /\ rules' = Append(rules, new_rule)
              /\ new_rule' = BlankRule
              /\ rule_state' = 0
              /\ UNCHANGED <<load_stage, error_type>>
    /\ UNCHANGED <<declVars, keyVars>>

(* An empty body returns without an error type. *)
EmptyBody ==
  \E tok \in Token :
    /\ Take("rules", tok)
    /\ rule_state = 2 /\ new_rule.body = <<>>
    /\ tok.term \notin {"input_end", "identifier", "nonterm_id"}
    /\ FailWith("NONE")
    /\ UNCHANGED <<declVars, ruleVars, keyVars>>

RuleExpects ==
  CASE rule_state = 0 -> {"nonterm_id"}
    [] rule_state = 1 -> {"div_0"}
    [] rule_state = 2 -> {"identifier", "nonterm_id", "div_1"}
    [] rule_state = 3 -> {"code"}

RuleError ==
  \E tok \in Token :
    /\ Take("rules", tok)
    /\ tok.term \notin RuleExpects \union {"input_end"}
    /\ rule_state = 2 => new_rule.body # <<>>
    /\ FailWith(Syntax)
    /\ UNCHANGED <<declVars, ruleVars, keyVars>>

(* The loop ends at the end of the file, wherever it is in a rule. *)
RulesDone ==
  \E tok \in Token :
    /\ Take("rules", tok)
    /\ tok.term = "input_end"
    /\ IF rules = <<>> THEN FailWith("CREATE_RULES_NO_RULES_DEFINED")
       ELSE load_stage' = "keys" /\ UNCHANGED error_type
    /\ UNCHANGED <<declVars, ruleVars, keyVars>>

-----------------------------------------------------------------------------
(* Mutant: any number of underscores may be in front of END. *)
KeyMoveAnyUnderscores(q, piece) ==
  CASE q = "start" /\ piece = "_" -> "one"
    [] q \in {"one", "more"} /\ piece = "_" -> "more"
    [] q \in {"start", "one", "more"} /\ piece = "SKIP" -> "skip"
    [] q = "skip" /\ piece = "_" -> "skip"
    [] q \in {"one", "more"} /\ piece = "END" -> "almost"
    [] q = "almost" /\ piece = "_" -> "end"
    [] OTHER -> "none"

(* key_terminals_fa on a name: the automaton of  '_'*."SKIP".'_'*  and
   "_END_", left at the first piece it has no move for. *)

KeyMove(q, piece) ==
  CASE q = "start" /\ piece = "_" -> "one"
    [] q \in {"one", "more"} /\ piece = "_" -> "more"
    [] q \in {"start", "one", "more"} /\ piece = "SKIP" -> "skip"
    [] q = "skip" /\ piece = "_" -> "skip"
    [] q = "one" /\ piece = "END" -> "almost"
    [] q = "almost" /\ piece = "_" -> "end"
    [] OTHER -> "none"

KeyOf(name) ==
  FoldLeft(LAMBDA at, piece :
             IF at.left \/ KeyMove(at.state, piece) = "none"
               THEN [at EXCEPT !.left = TRUE]
               ELSE [at EXCEPT !.state = KeyMove(at.state, piece)],
           [state |-> "start", left |-> FALSE], name).state

NextKey == t_idx' = t_idx + 1

KeyTerminal ==
  /\ load_stage = "keys" /\ t_idx <= Len(terminals)
  /\ LET key == KeyOf(terminals[t_idx])
     IN  \/ /\ key \notin {"skip", "end"}
            /\ NextKey
            /\ UNCHANGED <<load_stage, end_terminal, skip_terminals, error_type>>
         \/ /\ key = "skip"
            /\ skip_terminals' = Append(skip_terminals, t_idx - 1)
            /\ NextKey
            /\ UNCHANGED <<load_stage, end_terminal, error_type>>
         \/ /\ key = "end" /\ end_terminal = NotExist
            /\ end_terminal' = t_idx - 1
            /\ NextKey
            /\ UNCHANGED <<load_stage, skip_terminals, error_type>>
         \/ /\ key = "end" /\ end_terminal # NotExist
            /\ FailWith("CREATE_MULTIPLE_PARSE_END_TERMINALS")
            /\ UNCHANGED keyVars
  /\ UNCHANGED <<file, declVars, ruleVars>>

KeysDone ==
  /\ load_stage = "keys" /\ t_idx > Len(terminals)
  /\ load_stage' = "tables"
  /\ UNCHANGED <<file, declVars, ruleVars, keyVars, error_type>>

(* create_final_automata_new, compute_firsts, compute_follows,
   compute_kernels and create_lalr_table succeed, or one returns false. *)
TableErrors == {"CREATE_TERMINAL_REGULAR_EXPRESSION_PARSE_ERROR",
                "CREATE_SLR1_PARSE_TABLE_CONFLICT",
                "CREATE_CANNOT_RESOLVE_RULE_HEAD_FOR_SHIFT_ACTION"}

MakeTables ==
  /\ load_stage = "tables"
  /\ \/ load_stage' = "created" /\ UNCHANGED error_type
     \/ \E error \in TableErrors : FailWith(error)
  /\ UNCHANGED <<file, declVars, ruleVars, keyVars>>

LoadNext ==
  \/ AwaitToken \/ WrongToken
  \/ TerminalName \/ TerminalExpression \/ TerminalError \/ TerminalsDone
  \/ NonterminalName \/ NonterminalError \/ NonterminalsDone
  \/ RuleHead \/ RuleArrow \/ RuleItem \/ RuleBodyDone \/ RuleCode
  \/ EmptyBody \/ RuleError \/ RulesDone
  \/ KeyTerminal \/ KeysDone \/ MakeTables

LoadSpec == LoadInit /\ [][LoadNext]_loadVars
-----------------------------------------------------------------------------
Loaded == load_stage \in {"keys", "tables", "created"}

Symbols == 0 .. (Len(terminals) + Len(nonterminals) - 1)
Heads == Len(terminals) .. (Len(terminals) + Len(nonterminals) - 1)

(* What the loader hands on is a grammar, as the construction of the tables
   takes for granted (its cassert at 3788): there are terminals,
   nonterminals and rules, names are told apart, no rule is there twice,
   every head is a nonterminal and no body is empty or has a symbol that was
   not declared.  The codes are found by the number of their rule
   (parser_run.cc): each rule has its own, though a code is stored before it
   is known whether its rule will be. *)
LoadedIsGrammar ==
  Loaded =>
    /\ terminals # <<>> /\ nonterminals # <<>> /\ rules # <<>>
    /\ IsInjective(terminals) /\ IsInjective(nonterminals) /\ IsInjective(rules)
    /\ \A r \in ToSet(rules) :
         /\ r.head \in Heads
         /\ r.body # <<>> /\ ToSet(r.body) \subseteq Symbols
    /\ rule_codes = Len(rules)

Mark(t) == <<[term |-> t, name |-> NotExist]>>
SymbolToken(x) ==
  IF x < Len(terminals)
    THEN <<[term |-> "identifier", name |-> terminals[x + 1]]>>
    ELSE <<[term |-> "nonterm_id", name |-> nonterminals[x - Len(terminals) + 1]]>>
WrittenTerminal(x) == SymbolToken(x) \o Mark("code")
WrittenRule(r) ==
  SymbolToken(r.head) \o Mark("div_0")
    \o FlattenSeq([i \in DOMAIN r.body |-> SymbolToken(r.body[i])])
    \o Mark("div_1") \o Mark("code")

(* The file that would be written for what was loaded. *)
Written ==
  Mark("init_code") \o Mark("code")
    \o Mark("terminals")
    \o FlattenSeq([i \in DOMAIN terminals |-> WrittenTerminal(i - 1)])
    \o Mark("nonterminals")
    \o FlattenSeq([i \in DOMAIN nonterminals |->
                     SymbolToken(Len(terminals) + i - 1)])
    \o Mark("rules") \o FlattenSeq([i \in DOMAIN rules |-> WrittenRule(rules[i])])
    \o Mark("input_end")

(* A file whose last terminal and last rule are complete is loaded as it is
   written: writing out the terminals, nonterminals and rules, with the names
   that the numbers in bodies stand for, gives the file back. *)
LoadedIsWritten ==
  Loaded /\ terminal_state = 0 /\ rule_state = 0 => file = Written

(* What was loaded is a grammar, and the one of the file. *)
LoadedRight == LoadedIsGrammar /\ LoadedIsWritten

BeginsWith(name, piece) ==
  \E n \in DOMAIN name : name[n] = piece /\ \A i \in 1 .. n - 1 : name[i] = "_"

NamesEnd(name) == IsPrefix(<<"_", "END", "_">>, name)

(* find_key_terminals looks at the beginning of a name alone: the terminals
   that are skipped are those whose name has "SKIP" behind nothing but
   underscores, and the end terminal is the only one whose name begins with
   "_END_".  A file is refused for several end terminals only if two names
   begin so.  This is the rule of the code, not the one of the documentation:
   see KeyNamesMarked. *)
KeysMarked ==
  /\ load_stage \in {"tables", "created"} =>
       /\ ToSet(skip_terminals) =
            {i - 1 : i \in {i \in DOMAIN terminals : BeginsWith(terminals[i], "SKIP")}}
       /\ {i - 1 : i \in {i \in DOMAIN terminals : NamesEnd(terminals[i])}}
            = {end_terminal} \ {NotExist}
  /\ error_type = "CREATE_MULTIPLE_PARSE_END_TERMINALS" =>
       \E i, j \in DOMAIN terminals :
         i < j /\ NamesEnd(terminals[i]) /\ NamesEnd(terminals[j])

(* What doc/intro.md:60-61 says of the skip terminals: "Terminal symbols which
   name contains substring _SKIP_ are marked as ignored".  key_terminals_fa
   does not find one behind any other text than underscores. *)
SkipNamesMarked ==
  \A i \in DOMAIN terminals :
    <<"_", "SKIP", "_">> \in SubSeqs(terminals[i]) => i - 1 \in ToSet(skip_terminals)

(* What doc/intro.md:64-65 says of the end terminals: "Terminal symbols which
   name contains substring _END_ are marked as parse terminating terminals".
   key_terminals_fa finds it at the beginning of a name alone. *)
EndNamesMarked ==
  \A i \in DOMAIN terminals :
    <<"_", "END", "_">> \in SubSeqs(terminals[i]) => end_terminal = i - 1

(* The documentation says both of every file.  It is less that of each file at
   least one of them is true, and there are files of which neither is. *)
KeyNamesMarked ==
  load_stage \in {"tables", "created"} => SkipNamesMarked \/ EndNamesMarked
=============================================================================
