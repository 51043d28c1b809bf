# yapgen in TLA+

yapgen reads a rule file (regular expressions of terminals, an SLR(1) grammar,
Lua codes), builds a lexical automaton and a parse table from it, and then
either parses a source text with them or writes them out as a parser in C++,
JavaScript, Rust, AWK or PHP.  This directory models that way from end to end:
the command line, reading the rule file, the text of regular expressions, the
lexical automaton, the parse table, the parser that runs on it, the lexers and
parsers that are written out, and where an error is shown.

The program is sequential.  What is hard about it is not concurrency but
*order*: arrays that grow while a loop walks over them, sets that are cached
as complete in the middle of a recursion, states that are merged and looked up
before they are known in full, conflicts that must be noticed whichever of two
loops meets them first, a parser that goes wrong only after a long sequence of
correct steps.

## 1. Inventory

Sources are under `src/yapgen/source_files` and `src/yapgen/header_files`.

| part | where | state | operations | interacts with |
|---|---|---|---|---|
| strings, containers | `ucl_string.cc`, `struct.cc`, `basic.cc` | arrays with `used` and `data` | push, swap, compare; lines and columns of a position, load_text_file | everything |
| generated lexers of yapgen | `parser_code.cc:814-2345`, `parser_code.h:674-772`; 89-330, 3209-3260 | state (a label), input position | recognize_terminal, process_char; the automata of the rule file and of names are tables | regular expression parser, loader |
| regular expression parser | `parser_code.cc:2347-2807` (`reg_parser_s`) | LALR stack, NFA states | parse_reg_exp | tokens of recognize_terminal, generated table `reg_lalr_table` |
| NFA to DFA | `parser_code.cc:2809-3080` | closures, state sets | NKA_to_DKA, process_reg_exps | regular expression parser |
| final automaton | `parser_code.cc:331-807` (`final_automata_s`) | states, per state 256 successors | create_new, recognize | DFAs in, terminal numbers out |
| rule file loader | `parser_code.cc:3208-3742` | terminals, nonterminals, rules, codes | load_from_rule_char_ptr, find_key_terminals | lexer of the rule file |
| FIRST sets | `parser_code.cc:3786-3863` | `firsts`, `first_rules` | compute_firsts | rules in |
| FOLLOW sets | `parser_code.cc:3865-3993` | `follows`, `follows_created`, `nonterm_used` | compute_follows and its recursion | `firsts` |
| kernels | `parser_code.cc:3995-4208` | `kernels` (rule dots, incoming gotos) | compute_kernels | `firsts`, `first_rules` |
| parse table | `parser_code.cc:4210-4352` | `lalr_table`, `error` | create_lalr_table | `kernels`, `follows` |
| parser run | `parser_run.cc` | `lalr_stack`, input positions, terminal at hand | parse_source_string, rule_body | table, recognize, Lua |
| code generators | `*_creator.h` | output buffer | one `process_code` per language: lexer, table, parse loop | table, automaton |
| program | `yapgen.cc`, `print_error*` | options, files, exit status | parse_arguments, main | all of the above |

The construction steps call each other in one order only
(`create_from_rule_string`, `parser_code.cc:4374-4462`): load the rules, find
the key terminals, create the lexical automaton, then compute_firsts,
compute_follows, compute_kernels, create_lalr_table.  Any step may report an
error, which ends the construction.  The parser run is the only reader of the
finished table.  `PROJECT.json` lists what can go wrong, line by line, under
`hazards`.

What makes each part correct:

* tokens of expressions: each is the longest one, and its characters are the
  ones that were written.
* regular expressions: exactly the well formed ones are taken, and the automaton
  accepts the words they denote, before and after it is made deterministic.
* final automaton: a row leads to the state of just the positions that the
  character reaches; recognize returns the terminal of the longest text that
  any terminal goes on with.
* loader: what it hands on is a grammar, the one that was written, with a code
  for every rule.
* written lexers: every character is tested as its row says, and a run of the
  code is a run of recognize.
* written parsers: they reduce by the rules that parser_run_s reduces by.
* program: exit status 0 means that every option was carried out, a file holds
  what the last option for it left, and an error is shown where it is.
* FIRST: the stored set is the least closed one and each symbol carries exactly
  the rules that begin with it.
* FOLLOW: nothing is added that may not follow; a set marked complete is.
* kernels: one entry symbol per kernel; no possible move is missing; every dot
  was earned by a dot one symbol back in every predecessor.
* table: each cell is justified by the kernels, nothing is overwritten, no cell
  is missing when no error was reported.
* run: the stack is a path of the automaton, spans do not overlap, every
  reduction rewrites a handle, what is accepted is a sentence, what is refused
  cannot be continued to one, and a text gets an answer unless the run comes to a
  place where a skip terminal takes no character.

## 2. Modules

```
Characters         characters, the blank
  Recognizer       final_automata_s::recognize
  RegTerminals     the terminals and placeholders of expressions
    RegTokens      recognize_terminal, process_char
      RegTokenRules  what the tokens are, and their characters (reference)
        RegTokensProofs   (with SequenceLemmas)
    RegParser      parse_reg_exp
      NkaToDka       NKA_to_DKA, process_reg_exps
        AutomatonWords  words that an automaton accepts (reference)
          RegExpProofs    (with SequenceLemmas)
          RegReference    trees and words of expressions (reference)
        FinalAutomata   create_final_automata_new, create_new (with Recognizer)
          FinalAutomataProofs   (with RegExpProofs)
  CodeGen          the lexers of the *_creator.h (implements Recognizer)
    CodeGenProofs
RuleLoader         load_from_rule_char_ptr, find_key_terminals,
                     create_from_rule_string
ErrorReport        print_error_show_line, print_error_line, lines and columns
  Program          parse_arguments, main
    Yapgen         main that calls the loader (with RuleLoader)
      ProgramProofs    program and loader (with SequenceLemmas)

Grammar            rules; FIRST and FOLLOW as least closed sets (reference)
  FirstSets        compute_firsts
    FollowSets     compute_follows, compute_follows_of_nonterminal
    KernelSets     compute_kernels, get_idx_by_rule_dots
      LalrTable    create_lalr_table; the four steps in sequence
        ParserRun  parse_source_string
          EmittedParser   table and loop of the parsers of the *_creator.h
BottomUp           what a run promises: rewriting a sentential form
LalrTableProofs, ParserRunProofs     proofs: FIRST, FOLLOW, kernels and tables;
                                       on them, runs and written parsers
SequenceLemmas                        induction over numbers, arrays built by loops
MC*                grammars, expressions, names, automata, command lines of the runs
```

The two halves meet in the code at two arrays: `terminals`, which the loader
fills and FinalAutomata takes, and `rules`, which the loader fills and FirstSets
takes.  `LoadedIsGrammar` is what the second half assumes (`GrammarAssumption`).
ParserRun takes from the lexical automaton that a call of recognize either moves
and returns a terminal or blank, or does not move, and then answers what state 0
is final for, now and ever after; that is so for any automaton (see ParserRun
below).  That the loader guarantees
`LoadedIsGrammar` for every file is proved.

`LalrTable` extends `FollowSets` and `KernelSets` (which share the variables of
`FirstSets`) and lets each step begin when the one before has finished.
`ParserRun` extends `LalrTable`: a behaviour of it chooses a grammar, constructs
the table step by step and runs the parser on some text.

How state and actions correspond to the code:

* Variables have the names of the code's variables.  Loop indices are variables
  and one turn of a loop is one action, because the loops read what they write.
  Sequences begin at 1 where arrays begin at 0.
* **RegTokens**: texts are bytes.  `lex_state` is the number of the label in
  recognize_terminal, one action takes one character, and the move of each of the
  78 states is read off its tests.  Behind a token, one action is one call of
  process_char; the code makes these calls in the reduction, on the same text.
* **RegParser**: the text is a sequence of such tokens with their characters;
  skipped tokens are there.  One action per reduction adds states and moves in the
  order of the code, with its stacks `begin_idxs` and `end_idxs`.  Characters
  are 0 .. c_base_char_cnt - 1, placeholders and excepted characters are the
  numbers behind them, as in the code.
* **NkaToDka**: one action per element taken off the closure's stack and off the
  queue of state sets.  State sets are arrays: `SetCompare` is the comparison
  that get_idx_by_mul_state makes with set_compare.
* **FinalAutomata**: the same reg_parser processes one terminal after the other;
  then one action per description taken out of `fa_queue`, one per transition
  row, and Recognizer on a text.  `FillRow` keeps the order in which
  characters, placeholders and exceptions are entered (595-700).
* **RuleLoader**: one action per token of the file.  The file is chosen while it
  is read: any token may come next.  Names are sequences of the pieces that
  key_terminals_fa tells apart.  White space and comments are left out.
* **CodeGen**: one action per turn of the loop over the characters of a row, for
  the five PROCESS_STATE macros at once; then the emitted code runs: `TestChar`
  is the code of a state behind its label, `Close` what stands at the label.
* **Program**: one action per argument and per option.  A scenario is a command
  line, the files there are, and those that cannot be opened for writing.  Whether
  a text is a rule file, and whether the parser accepts a source, is left open.
  **Yapgen** puts the loader into it: where main calls create_from_rule_string
  (yapgen.cc:102) the tokens of RuleLoader are read, and `parser_exist` becomes
  what the loader answers.  It does so in the scenarios of `ReadScenarios`; in
  the others the answer stays open.
  `ErrorReport` has the functions of string_s that find line, begin, end and
  column of a position, as they are written: off by one where the loops are.
* **FirstSets**: `ScanRule` is one turn of the rule loop (with its alternatives
  `AddSymbol` and `AddRule`), `NextElement` one step of `fs_idx`, `StoreFirst`
  the swap into `firsts` and the step of `non_idx`.
* **FollowSets**: `frames` is the call stack of
  compute_follows_of_nonterminal with its locals `r_idx`, `rb_idx` and `clean`.
  `ret_follows` is a reference to an entry of `follows`, so frames write there.
  A FOLLOW array is read as a set: all pushes are guarded and nothing depends on
  its order except which of two errors is reported first (see LalrTable).
* **KernelSets**: `Group` is `new_kernel`; the three branches after the lookup
  are `KnownKernel`, `BeginMerge`/`MergeDot`/`EndMerge` and `NewKernel`.
* **LalrTable**: `WriteGoto`, `GotoConflict`, `WriteReduction`,
  `ReductionFails`.  A rule dot's reductions are written in one step: the loop
  over FOLLOW reads only cells of the row that the same dot does not write.
  A failing step may report any of its failing terminals, since the order of
  FOLLOW is not modelled.
* **ParserRun**: one action per way through the loop body.  Lua codes succeed or
  fail.  `recognize` is seen from outside.  Where it moves it returns any terminal
  or the blank, for one character, which stands for the text of a terminal.  It
  begins in state 0 each time; when the character there leads nowhere it answers
  what state 0 is final for and has not moved (parser_code.cc:801-804).  This
  happens at the end of the text and also inside it, at the first character with
  which no terminal begins (`stop_idx`), if some terminal matches the empty
  string: `stop_answer`, which stays the answer, as nothing moves on from there.  Indexing the table with the blank state or
  popping more than the stack holds is undefined behaviour in the code: the run
  goes to the state "undefined" and is not followed further.
* **EmittedParser**: when the run of ParserRun is over, the program written in one
  of the languages runs on the same text.  The five loops are one action system;
  `cc_loop` ... `php_loop` say in what they differ: how many numbers an element of
  the stack takes, whether a blank ends the program, and what the table yields
  behind the state -1.  The programs print the numbers of the rules.

Abstract specification: `BottomUp` knows no states and no table.  The sentential
form is extended by a terminal, a rule is undone at its end, or the form is
accepted.  `RunIsDerivation` is the refinement: `ParserRun` implements
`BottomUp!DerivationSpec` with the symbols on the stack as the form.  It holds
for the two real grammars and not for every grammar, because of the mixed up
kernels of finding 2.  `Recognizer` is the other one: `RunsRecognize` says that
`CodeGen` implements `Recognizer!RecSpec`, as long as the text and the automaton
are `Faithful` for the language: only C++ reads texts with zeros in them, JS and
AWK know the lower half of the characters only (Int8Array; `_ord_` ends at 127),
and PHP must not come into a state by a zero that a zero leads on from.
Otherwise the mapping stays at the beginning, and nothing is claimed.

The operators named "Mutant: ..." are broken variants of the operator that
follows them; no specification uses them.  They document which defect each
property would notice.

## 3. Runs

| run | specification, inputs | shows |
|---|---|---|
| first_and_follow | FollowsSpec, `Start -> X 0` and any three different rules of all three nonterminals that end with X or Y | FIRST and its rule lists are exact; the recursion ends, adds nothing false; sets marked complete are; the root's set is |
| parser | ParserSpec, all 552 grammars with two rules of X and Y with any body of one or two symbols and 336 with three; a terminal that is skipped; any text up to four characters, any answer where recognize does not move | one entry symbol per kernel and no move lost (`KernelsLinked`), expanded kernels fixed; cells justified, complete, written once; spans, stack, handles |
| languages | EmittedSpec, `build/rules/demo_exp.rules` with one kind of number and two operators, and the list part of `build/rules/json.rules`; texts up to seven terminals; the written parsers in all five languages on those up to four | exactly the sentences are accepted; a refused text has no continuation; the run is a derivation and ends, or stands at a skip terminal for ever; the written parsers print the same rules and end |
| regexp | ExpressionsSpec: all sequences of up to four of nine tokens, and the expressions of up to seven tokens over two characters, with ranges, strings, alternatives and exceptions among them; then the automata of all lists of one and two of ten terminals, on texts of up to three of six characters | refused exactly where there is no tree; words as denoted; stacks in step; closures and subsets of the deterministic automaton exact (`SetsExact`); same words; rows exact; recognize reads as far as the terminals' automata go and returns what the longest common text says; the construction ends |
| reg_tokens | TokensSpec, all texts of up to four of sixteen bytes, and every kind of token with up to two characters written in sixteen ways | tokens are the longest ones; their characters are those written |
| code_gen | CodeSpec, all rows of five characters over two targets as the first state, four second states, three kinds of finals, a comment; five languages; texts of up to two characters | tests exact, no character falls through; runs implement Recognizer |
| program | YapgenSpec, all command lines of up to two options, some of four, bad ones; files missing, empty, locked, named twice; an error at every position of every text of up to four bytes; on one command line, all rule files of up to 19 tokens, four terminal names, two nonterminals | exit status, files left, line and caret of an error; a grammar is loaded, the written one, with its codes (`LoadedRight`); skip and end terminals by the beginnings of their names, which is the rule of the code (the documented one: finding 5) |
| follows_incomplete | FollowsSpec, the 552 grammars | finding 1 |
| shared_kernel | ParserSpec, five rules | finding 2 |
| iteration_repeats | RegExpSpec, one expression | finding 3 |
| php_comment | CodeSpec, the automaton of a comment, PHP | finding 4 |
| key_names | LoadSpec, all files of up to 16 tokens, the names x_SKIP_ and __END_ | finding 5 |

Bounds and why they are enough:

* Two-symbol bodies show a dot in front, in the middle and at the end, and a
  nonterminal at the beginning and at the end of a body.  Three rules over X and
  Y give direct, mutual and hidden left and right recursion; three nonterminals
  give the recursion of FOLLOW its cycles.
* `MaxKernels` bounds `NewKernel`, which the code does not bound.  The grammars
  that reach it are ones whose construction does not end in the code either
  (see 4); their behaviours are checked up to the bound.
* `ReduceBase` is 0x80000000 in the code; any number above `MaxKernels` keeps
  states and reductions apart.
* `MaxInput` bounds the text and `MaxStack` the stack, for texts behind which a
  terminal other than the end terminal is read for ever.  Where RunsEnd is checked
  `MaxStack` is not reached: a stack of 12 holds every prefix of a sentence of
  seven terminals.  `MaxUnread` is how many characters may stand behind
  `stop_idx`.  None of them is ever looked at, so one shows what several would
  (`languages`), and all that a run does is done without any too (`parser`).
  `StopAnswers` holds all answers in `parser`, and in `languages` the end
  terminal, blank and the skip terminal.  `EmitMax` is the length up to which the
  written parsers run.
* The sentences of the two real grammars are computed from the rules alone in
  `MCParserRun`, by saturation.
* `WordMax` = 4 bounds the words that an expression and its automaton are
  compared on: each iteration is gone round at least twice over one character,
  each alternative and each concatenation of three parts is passed.
* `TextMax`, and the characters of the run regexp: one for each kind (two
  letters, a digit, a white one, another, and the zero that ends the text).
  Pairs of terminals are enough to have two of them begin, go on and end
  together, in both orders.  `MaxFaStates` stops a construction that does not
  end (see 4) and is not reached by these terminals.
* `ShortMax` = 4 and `InsideMax` = 2: four bytes hold the shortest token of every
  kind and a character behind it, and of every escape the first part; the texts of
  one token have every escape in front of and behind every other one.
* The command lines have two options at most where order does not matter more, and
  the rule file with three further ones; the texts for errors have up to four bytes out
  of tabulator, new line, a letter, and bytes that begin and go on with characters
  of two and three bytes.
* `MaxTokens` = 19 is the shortest file with two rules, which is also long
  enough for one rule of six body symbols or three terminals.  main is followed
  further behind files of up to `MaxAnswerTokens` = 14, the shortest that can be
  loaded.
* `c_base_char_cnt` is 256 in the code and in `reg_tokens`.  Elsewhere nothing but
  the sizes of arrays depends on it; five characters have runs at both ends, in the
  middle, and adjacent, and `EmittedIsExact` is proved for any number of them.

The model of the construction was compared with the compiled source of
compute_firsts ... create_lalr_table on the 552 grammars with two rules of `parser`:
kernels, FOLLOW sets and the reported error agree.

Fairness: weak fairness of the next-state relation only, in `languages` of the
interpreter's and of the written program's each.  The code is one thread whose
loops have no waiting; it stops when it returns, so the runs do not check
deadlock.  `FollowsTerminate`, `LexerEnds`, `RunsEnd` and `ProgramsEnd` need it, the
loader, the tokens and the refinements do not.  `RunsEnd` has an assumption
on the terminals, `StopLeaves`: where recognize does not move it answers the end
terminal or blank, which holds when no other terminal matches the empty string.
It is not redundant.  With `_SKIP_ {w*}` the loop of parser_run.cc:126-148 does not
end at a character with which no terminal begins, nor behind the text if the end
terminal takes none; the second half of `RunsEnd`, `SkipsForEver`, says so: such a
run stands there for ever, and the theorem StandingRunsStand proves it.  The
documentation says nothing of such terminals, so this is no finding.  Any other
terminal answered without moving is handed to the table again and again.  `ProgramsEnd` is claimed for C++, Rust and AWK: the assertions
of the other two are not in force, and a refused text may keep them running.

## 4. Findings

1. `FollowsComplete` fails.  A nested call that skips a head in use leaves a
   partial set; it is not marked complete, but if its nonterminal was a root
   before, nobody computes it again.  Its last computation, the partial one,
   is what the table is made from: valid texts are refused.
2. `AcceptedAreSentences` fails for a grammar whose kernels get mixed up: the
   text `a x y` is accepted though the grammar does not derive it.
3. `IterationRepeats` fails.  `('a'*.'b')*` accepts `a`: an iteration whose
   operand begins with an iteration shares its begin, which is also its end.
   AutomatonDenotes holds of all expressions without that (`IterationsApart`).
4. `CodeAnswers` fails.  In PHP the return at the end of the text is inside a
   function of its own; an unterminated comment loops for ever.

5. `KeyNamesMarked` fails.  doc/intro.md:60-61, 64-65 and 285-288 say that a name
   that contains `_SKIP_` marks a terminal as skipped, and one that contains
   `_END_` as the end of the parse.  The code asks how the name begins
   (parser_code.cc:89-90): of `x_SKIP_` and `__END_` neither is marked.  That is
   how the two sentences are tested together (`SkipNamesMarked` or
   `EndNamesMarked`): the run shows one file of which both are false.  The other
   way round, `SKIPPED` is skipped though it does not contain `_SKIP_`; and the
   documentation allows several end terminals, the code refuses a second one
   (3721-3728).  `KeysMarked` states the rule of the code.

Findings 1 and 2 were reproduced with the compiled source.  The shift that
silently wins over a reduction (4297-4339) is intended: yapgen's own grammar of
regular expressions relies on it.

Other disagreements that the modelling met and no run checks:

* an SLR(1) grammar such as `T -> a a | a T` is refused with
  SLR1_PARSE_TABLE_CONFLICT, because a group of dots that equals a kernel gets
  its goto there although the symbol leads elsewhere already (4191);
* merged kernels are never found again by get_idx_by_rule_dots, and for two
  right recursive lists with a common first terminal compute_kernels goes on
  creating kernels for ever (parser_code.cc:4096);
* a placeholder's move may follow an exception `!'x'` although x is one of the
  placeholder's characters (531); `ExceptionsApart` is the condition under which
  RowsExact, RecognizesLongest and RecognizesFarthest hold;
* an exception of the last character writes behind the row (675); the assumption
  `ExceptAssumption` leaves it out;
* a skip terminal that matches the empty string is skipped for ever where no
  terminal begins (`SkipsForEver`);
* a file may end in the middle of a rule, which is then dropped (3509);
  LoadedIsWritten says so in its hypothesis;
* a Rust `match` is written without its arm `_` for a state that is not final
  and whose last run goes to character 255, gaps or not (rust_creator.h:262):
  rustc refuses it.  `Compiles` is the condition; only such lexers run;
* the generators other than C++ read states[1] of an automaton that has one
  state only (`CodeGenAssumption`);
* for `('5'+d)*` create_new makes states for ever: descriptions of states are
  arrays with positions in them several times (parser_code.cc:386, 576);
* some ranges are ambiguous: `<\60>`, `<\123>` and `<\x3a>` are tokens, but
  process_char takes both characters for the first (`RangeApart`);
* octal numbers from `\400` on are no characters but placeholders
  (parser_code.h:694), where doc/intro.md:86 promises the character with that
  number (`OctalFits`);
* a zero in the text of an expression ends it;
* at a new line get_character_line_begin answers the begin of the next line, so
  print_error_show_line prints the rest of the text; and of a text that begins
  with a new line get_character_line says that its first character is on line 2
  (ucl_string.cc:305, 321).  `ReportsShowPosition` leaves out errors at new lines;
* utf8_to_utf32 decodes characters of three and more bytes to wrong numbers and
  reads behind a text that ends within one;
* an empty file cannot be loaded, since fread of no bytes answers zero; and the
  result of fwrite is not looked at, so that a full disk leaves exit status 0;
* the assertions of the written JavaScript parser are comments, and PHP's
  `assert(parse_action ...)` lacks the `$`: both go on with a blank action.

## 5. Proofs

Proved for every grammar, text, command line and automaton, not only for those of
the runs:

| module | theorems |
|---|---|
| RegTokensProofs | TokensInvariant, **TokensLongest**, **CharsWritten** |
| RegExpProofs | RegExpInvariant, **PartsOnStack**; WordInvariant, **SetsExact** (ClosuresExact and SubsetsExact), **SameWords** |
| FinalAutomataProofs | LexerInvariant, **RowsExact**; RecognizeInvariant, **RecognizesFarthest** |
| LalrTableProofs | FirstTypeOK, FirstSetParallel, **FirstsExact**, **FirstRulesExact**; FollowTypeOK, **FollowsSound**, **CreatedComplete**, **RootComplete**; **KernelsLinked**, **ExpandedFixed**, **ShiftsResolved**, **CellsJustified**, **CreatedTableComplete**, **CellsWrittenOnce** |
| ParserRunProofs | ParserTypeOK, **SpansOrdered**, **StackFollowsGotos**, **SoundKernelsHaveHandle**; StandingRunsStand (`SkipsForEver`); for parsers that are not mixed up **RunIsDerivation** (ParserRun implements BottomUp) and AcceptedIsDerived; **EmittedAgrees** |
| CodeGenProofs | **EmittedExact**, **RunsRecognize** (CodeGen implements Recognizer) |
| ProgramProofs | **ExitStatus**, **FilesExact**, **ReportsShowPosition**; of the loader **LoadedRight**, **KeysMarked**; all five of main with the loader in it (YapgenIsBoth, YapgenIsRight) |

SequenceLemmas holds lemmas only.

Assumptions, all of them on constants: `CountAssumption` (at least one terminal and
one nonterminal) and `GrammarAssumption` (rules are well formed and no body is
empty), which the loader refuses otherwise (`LoadedIsGrammar`) and the code asserts
at the head of compute_firsts; `MaxKernelsAssumption` (any bound) and
`ReduceBaseAssumption` (reductions are told from states); `RuleLoaderAssumption`
(names are sequences of pieces), `RegExpAssumption` (a token carries as many
characters as its terminal has), `ParserRunAssumption`, `EmittedAssumption`,
`ProgramAssumption`, `CharCountAssumption`, `ByteAssumption` (256 characters, for the
tokens of expressions only), `RegTextsAssumption`, `CodeGenAssumption`,
`TextMaxAssumption`, `WordMaxAssumption` and `FinalAutomataAssumption` (w, d and l
stand for different characters), which type the constants of their modules.
`WordMax` bounds the words that `SameWords` compares; it is proved for every bound.

Two theorems of ParserRunProofs have a hypothesis on the parser, `[]SoundParser`.
They would be false without it (finding 2).  It says that the end terminal stands
at the end of outermost rules only (`EndsText`, a property of the grammar that
the `languages` run assumes of its two grammars and TLC evaluates), and that no
two kernels were mixed up (`PredecessorsHoldDot`).  The kernels of the two real
grammars of `languages` satisfy it in every state, so there the theorems are not
vacuous.

The arguments, one for each inductive invariant:

* **FIRST.**  `FirstsExact` speaks of stored sets only and is not inductive.  The
  strengthening follows the walk: `ScanInv` types the indices, `ScanOrder` says
  that no symbol is there twice and the nonterminal is first, `ScanSound` that all
  symbols are in FIRST, and `ScanComplete` that every rule that was looked at
  (`LookedAt`: its head is in front of `fs_idx`, or at it and the rule in front of
  `r_idx`) has its first symbol in the array.  When `fs_idx` has passed the end,
  every rule of every member was looked at, so the array is closed
  (`FinishedSetIsFirst`).  For the rule lists, `Lists` says that list j names, once
  each, the rules looked at that begin with symbol j; a turn of the rule loop adds
  exactly one rule to what was looked at (`ScanRuleLooksAtOne`), and never one that
  was there before because no symbol is there twice.
* **FOLLOW** (`FollowInv`).  A call that meets a head in use leaves it out, so no
  call by itself has what it ought to have.  What is kept is `Held`, the union of
  the sets of all open calls: a call that has returned has left its own part there
  (`ReturnedInv`), and an open call has what the positions it is past give it, but
  for heads in use (`CallInv`).  When the outermost call returns, Held is its set
  and all heads that were left out are among those that returned: the set is
  closed, and FOLLOW is the least closed one.  A clean call has left nothing out,
  which is why `CreatedComplete` holds of inner calls too.  `FollowsComplete` is
  not a theorem (finding 1): it would say the same of calls that are not clean.
* **Kernels** (`KernelInv`).  `PlaceInv` says where the loops stand, and of a merge
  (`Merging`) that it goes into a kernel at or behind the one that is expanded,
  has the goto already, and holds the dots in front of `n_idx`.  So no dot is added
  to a kernel whose loop is over, and `MovesComplete` (every dot that was looked at
  has all its moves) is kept although kernels grow.
* **Table** (`CreatorInv`, of all four steps together).  `CellsTrue` gives every
  cell its reason; `GotosWritten` and `ReductionsWritten` say that all entries
  `Behind` the loop indices are in the table.  A shift that a reduction gives way to
  is there because the terminal is `Shiftable` (`MovesComplete`: there is a goto)
  and all gotos were written before: CANNOT_RESOLVE_RULE_HEAD_FOR_SHIFT_ACTION is
  never reported.
* **Run** (`ParserInv`).  `SpansInv` adds that the terminal at hand lies behind the
  stack; `StatesInv` that only the top may be a blank state.  Under
  `PredecessorsHoldDot` (every dot of a kernel was earned in each kernel that leads
  there), `SpelledInv` says that the symbols up to a state end with what stands in
  front of each of its dots; a push keeps it by looking one element back, so no
  induction over the stack is needed.  Where kernels are mixed up (finding 2) the
  hypothesis fails.
* **Derivation.**  `RunIsDerivation` maps each step of the loop to one of BottomUp.
  What that takes is the handle (`SpelledInv`), and for the shift of the end
  terminal, which accepts, that nothing but the body of an outermost rule is on the
  stack: `OuterInv` has it from the kernels, where the dots behind the first symbol
  of such a rule are entered from the first kernel only (`BegunFirst`).  `DerivedInv` adds that what is on the
  stack derives what was read; so an accepted text is derived from the head of the
  first rule.
* **Written parsers** (`EmittedInv`).  A run of parser_run_s is kept as its trace,
  the sequence of its configurations (states, position, terminal, reductions).
  `TraceInv`: each follows from the one before by a step that the table and the
  remembered answers of the lexer determine.  `HistoryInv` and `EndInv` say what the
  last one is.  `ProgramInv`: a written program, which reads the same table and gets
  the same answers, is at one of them, or the text was refused and the program is
  one that does not check for blanks.
* **Written lexers** (`EmissionInv`).  The characters in front of the run at hand
  are tested right, those of it and behind it by no test, and those in front of
  `f_idx` by some test: so a test without lower bound, behind the others, changes
  nothing for the characters it should not hold for (`LeadingKept`), and a return
  is left out only where every character is tested.  In a run (`RunInvariant`) the
  label is the state that Recognizer is in (`here`), and once a test has held, the
  one where the character at hand leads from there (`AtWorkInv`; in PHP the zero at
  the end of the text may have been taken a step early).  Closing the character is
  then a step of Recognizer, and a return its last.
* **Program** (`ProgramInv`).  `LastMentions`: while the arguments are taken, each
  option has the word behind its last mention so far.  `StatusInv` and `FilesInv`
  say of the options that are done what the two theorems say of all.
* **Reports** (`ReportInv`).  What was told is made of a text and a position
  (`ToldRight`), so `ReportsShowPosition` is a fact about the functions of string_s
  (`ReportShows`).  The print size is a sum from the end of the line backwards: a
  well-formed line is cut into characters (`CutAt`), behind each of them is another
  (`NextStart`), and utf8_to_utf32 takes as many bytes as its lead says
  (`TrailingIs`), so each turn adds one character or a tabulator.

* **Loader** (`LoaderInv`).  `TextInv` says at every stage which text the tokens
  read so far are, in terms of what is stored: the terminals, nonterminals and rules
  (`RulesText`), and the rule that was begun (`RuleSoFar`).  So a token that is
  taken and not stored, stored twice, or under another number breaks it.
  `NamesInv` and `RulesInv` keep names and rules apart and numbers declared;
  numbers mean the same as names because both lists only grow while none is used.
  `KeysInv` is about the names in front of `t_idx`, and `KeyOfName` about one name:
  where the key automaton stands behind each of its pieces (`KeyPlace`).
* **Tokens of expressions** (`TokensInv`).  `TokensLongest` speaks of tokens that were
  taken; `Place` says where the automaton is before that.  Each of its states within
  the signs of a token is a spot in the writing of a character (`Spots`: in front of
  it, behind the backslash, behind one octal digit ...), with how many characters
  were read; the rows of the 78 states are read off once (`BaseRows` ...
  `OneHexRows`), and the rest is argued by spot and not by state.  A character
  written with digits may end earlier than the automaton goes, which takes the
  longest (`Behind`).  That nothing longer is missed: all readings from the begin of
  a list go through the position where the last character ends (`Cut`), for what
  lies in between are digits of it (`BetweenDigits`), and none of them closes a
  token.  A range is the exception: its second character may be the last digit of
  the first one, and state 71 stands for both ways (`SignTwice`).  `CharsWritten`:
  process_char takes the longest way too, so it goes from cut to cut
  (`ReadUpTo`) and meets the closing sign, as long as the characters of a range are
  apart; its numbers are bytes unless three octal digits exceed them (`CodeIs`).
* **Expressions** (`ParseInv` of `RegExpInv`).  begin_idxs and end_idxs are popped by
  each reduction by itself, so `PartsOnStack` hangs on what is on lalr_stack below
  its top.  `GoodStack`: each state may follow the one before it (`Leads`, read off
  the 23 rows of the table).  From it the last two or three states before a
  reduction are known, as many operands are popped as the rule takes parts, and the
  goto is there; at the end one part is left.  `PartInv`: moves and parts stay
  within the automaton, so that the states the closures run into exist.
* **Sets of states** (`ClosureInv` and `SubsetInv` of `RegExpInv`).  `SubsetsExact`
  alone is not inductive: SetCompare finds two arrays equal if they are equally long
  and one holds all of the other, which is equality of sets only as long as no
  array holds a state twice (`IsInjective`).  In closures that is so because what is
  in the closure under construction was processed.  `MovesRight` writes one state's
  part of `MovesExact` as a fact about the arrays; a step changes it for the state
  that gets the move and, if the set is new, for the new state, whose moves all
  wait in the queue (`NewMovesRight`).
* **Closures** (`LookInv`).  That a closure is complete is known only when the stack
  is empty.  Until then (`Looking`) nothing wrong is in it, and from each state that
  was processed the moves without a character lead to one on the stack, to one that
  was processed, or to one that is `Covered`: its own closure is in this one already,
  since that of an earlier state was put in as a whole.  With an empty stack the
  states that were processed or are covered are closed, so they are all that can be
  reached (`EpsReach` is the least closed set: `ReachLeast`, `ReachClosed`, the
  latter by counting states).  States that do not matter are in no closure and lead
  on all the same.
* **Words** (`SetsInv`).  A state of the deterministic automaton stands for the
  states that a word leads to (`Stand`): its set holds those of them that matter.
  With `SubsetsExact` and `ClosuresExact` both sides go on with the same letters to
  states that stand for one another (`StandFurther`), and one is final if the other
  is, because a final state matters.  `SameWords` follows by induction over the
  length of the word (`WaysAgree`).
* **Automaton of the terminals** (`LexerInv`).  `RegExpInv` holds of the expression
  at hand, which starts afresh each time, and what is left of it is an automaton
  whose moves lead to its own states and have numbers of characters or placeholders
  (`ArraysInv`).  `MovesLinked`: a move of a state leads to the state whose array of
  positions is the one that its number leads to (`TargetRegs`), or an element of
  the queue waits for it, and `QueueRight` says that the element has that array.
  Moves stand in ascending order (`ElementsAscend`), so each entry of a row comes
  from the least of the moves that stand for the character (`RowFirst`), and the
  moves that follow this one (`FollowsMove`) are just those that stand for the
  character (`FollowersStand`).  That is where `ExceptionsApart` is needed: a
  placeholder follows an exception of a character that it stands for.
* **Recognizer** (`RecognizeInv`).  `RecognizesFarthest` speaks of the end of a run
  only.  On the way (`TextInv`) recognize is in the state of just those positions
  that the characters it has read lead the automata of the terminals to, each on its
  own (`ReadTo`); a row leads it on to the next such state by `RowsExact`, which is
  shown for what a finished row needs, and is blank where no position goes on.  Who
  wins in a state is a fold over its array of positions, in the order of the array:
  that it is the last terminal that cannot go on, or else the first one
  (`WinnerIs`), holds since positions stand in the order of their terminals
  (`Ordered`), which closing over a move keeps (`TargetsOrdered`, `PlacedInv`).

The text of a list is a FlattenSeq and the automaton of a name a FoldLeft.  The
induction theorems of the library cannot be used, since they take a predicate; but
that finite sets are well-founded under inclusion can be cited, and from it follows
that a set of numbers with 0 and all successors has all numbers (`SetInduction`).
With it a function that refers to itself is shown to exist and to be unique
(`FlattenIs`, `KeyOfFolds`), and then to do at the end of a sequence what it
should (`FlattenAppend`).  In the same way the loops of the expressions' automata
that take elements out of an array, or append what is not there yet, are functions
that refer to themselves (`ElementsIn`, `Distinct`) instead of SelectSeq, which has
no definition for the prover.

Only model-checked: all liveness properties (out of the prover's reach);
`AcceptedAreSentences` and `RefusedAreNot`, whose sentences are computed by a
recursive operator (`AcceptedIsDerived` is what is proved of the first one; the
second one needs that the kernels have every prefix of a sentence); and
`AutomatonDenotes`, `RefusesTheRest` and `RecognizesLongest`, whose references (trees
and what they denote) are recursive operators too.  Of `RecognizesLongest`, which compares recognize with the trees of
the expressions, `RecognizesFarthest` is the part that is proved: it compares it with
the automata of the expressions.

## 6. Not modelled

* The automata of the rule file and of the names of terminals
  (load_final_automata_set_new and its tables, parser_code.cc:89-330, 3209-3260):
  numbers without code.  What they recognize is any token in RuleLoader, and the
  pieces of names are told apart by `KeyMove`.  White space, comments and the texts
  of codes change nothing but positions.
* In the generators: layout, and how the source text gets into the program.
* Substring search, join, split and replace of string_s: of the modelled parts only
  the texts of codes, which are left out, go through one of them (replace, 3321,
  3650).  The containers made by the external tool cont.
* Pointers and reallocation, memory, and Lua itself: a rule code succeeds or fails.

## 7. Plan

1. FinalAutomata and LalrTable composed with RuleLoader: one construction of one
   small rule file, with the error that comes first.
2. Theorems: that what is refused cannot be continued (the written form of `RefusedAreNot`) for
   grammars without conflict whose FOLLOW sets are complete.
3. A condition on grammars under which compute_kernels comes to an end.
