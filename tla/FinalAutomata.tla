--------------------------- MODULE FinalAutomata ---------------------------
(***************************************************************************)
(* The lexical automaton of a parser: create_final_automata_new            *)
(* (parser_code.cc:3744-3784) makes an automaton of the regular expression *)
(* of every terminal, final_automata_s::create_new (331-756) one automaton *)
(* of them all, which Recognizer runs.                                     *)
(***************************************************************************)
EXTENDS NkaToDka, Recognizer

CONSTANTS
  TerminalLists,   (* the arrays "terminals" (their expressions) considered *)
  WhiteChars, DigitChars, LetterChars,  (* what w, d and l stand for       *)
  MaxFaStates      (* bound: states of the automaton                       *)

ASSUME FinalAutomataAssumption ==
  /\ TerminalLists \subseteq Seq(RegExps) \ {<<>>}
  /\ WhiteChars \union DigitChars \union LetterChars \subseteq Chars \ {0}
  /\ WhiteChars \intersect DigitChars = {}
  /\ (WhiteChars \union DigitChars) \intersect LetterChars = {}

(* The loop over the characters behind an excepted one (666-675) must find
   one: the last character is not excepted. *)
ASSUME ExceptAssumption ==
  \A e \in RegExps : \A i \in DOMAIN e :
    e[i].term = char_no_char => e[i].chars[1] < c_base_char_cnt - 1

VARIABLES
  fa_stage,      (* "terminals", "product", "rows", "ready" or "failed"    *)
  terminals,     (* the expressions of the terminals                       *)
  t_idx,         (* the terminal whose expression is processed             *)
  states_array,  (* the automata of the terminals before                   *)
  fa_queue,      (* [from, char, regs]: regs is an array of positions      *)
                 (* <<terminal, state of its automaton>>                   *)
  state_descrs   (* the positions that each of fa_states stands for        *)

productVars == <<fa_states, fa_queue, state_descrs>>
faVars == <<fa_stage, terminals, t_idx, states_array, productVars,
            state_moves, textVars>>
lexerVars == <<regExpVars, faVars>>

FaInit ==
  /\ fa_stage = "terminals"
  /\ terminals \in TerminalLists
  /\ t_idx = 1
  /\ states_array = <<>>
  /\ fa_states = <<>> /\ fa_queue = <<>> /\ state_descrs = <<>>
  /\ state_moves = <<>>
  /\ RecInit

-----------------------------------------------------------------------------
(* create_final_automata_new: the same reg_parser takes one expression after
   the other. *)

NextTerminal ==
  /\ fa_stage = "terminals" /\ reg_stage = "done"
  /\ t_idx < Len(terminals)
  /\ states_array' = Append(states_array, states)
  /\ t_idx' = t_idx + 1
  /\ reg_stage' = "parse"
  /\ reg_exp' = terminals[t_idx + 1] /\ reg_idx' = 1 /\ reg_term' = NotExist
  /\ reg_stack' = <<[state |-> 0, chars |-> <<>>]>>
  /\ states' = <<>> /\ begin_idxs' = <<>> /\ end_idxs' = <<>> /\ fas_idx' = 1
  /\ nka_states' = <<>> /\ nka_fas_idx' = NotExist /\ eps_closures' = <<>>
  /\ s_idx' = 1 /\ state_idx_stack' = <<>> /\ processed_states' = {}
  /\ msm_queue' = <<>> /\ ms_map_array' = <<>>
  /\ UNCHANGED <<fa_stage, terminals, productVars, state_moves, textVars>>

(* An expression that cannot be parsed ends the construction. *)
RegExpError ==
  /\ fa_stage = "terminals" /\ reg_stage = "failed"
  /\ fa_stage' = "failed"
  /\ UNCHANGED <<regExpVars, terminals, t_idx, states_array, productVars,
                 state_moves, textVars>>

(* The first state of the product is at the first state of every automaton. *)
StartProduct ==
  /\ fa_stage = "terminals" /\ reg_stage = "done"
  /\ t_idx = Len(terminals)
  /\ states_array' = Append(states_array, states)
  /\ fa_queue' = <<[from |-> NotExist, char |-> EpsMove,
                    regs |-> [r \in 1 .. Len(terminals) |-> <<r, 1>>]]>>
  /\ fa_stage' = "product"
  /\ UNCHANGED <<regExpVars, terminals, t_idx, fa_states, state_descrs,
                 state_moves, textVars>>

-----------------------------------------------------------------------------
(* create_new: one action for each element of the queue. *)

PosState(p) == states_array[p[1]][p[2]]

(* Mutant: a digit is not taken for what d stands for. *)
FollowsMoveNoDigit(idx, m) ==
  \/ idx = m
  \/ /\ idx > m
     /\ \/ idx >= c_no_char_base /\ m # idx - c_no_char_base
        \/ idx = reg_char_letter /\ m \in LetterChars
        \/ idx = reg_char_white /\ m \in WhiteChars

(* Does a move with the number m follow a move with the number idx?  Moves
   are taken in ascending order, and those with a number that was taken are
   deleted. *)
FollowsMove(idx, m) ==
  \/ idx = m
  \/ /\ idx > m
     /\ \/ idx >= c_no_char_base /\ m # idx - c_no_char_base
        \/ idx = reg_char_digit /\ m \in DigitChars
        \/ idx = reg_char_letter /\ m \in LetterChars
        \/ idx = reg_char_white /\ m \in WhiteChars

TargetRegs(regs, m) ==
  FlattenSeq([i \in DOMAIN regs |->
    LET moves == PosState(regs[i]).moves
        followed == ElementsIn(moves, {mv \in ToSet(moves) : FollowsMove(mv.idx, m)})
    IN  [j \in DOMAIN followed |-> <<regs[i][1], followed[j].value>>]])

(* The numbers of the moves at the positions P, and those of an array of
   positions in ascending order. *)
IdxsAt(P) == {m.idx : m \in UNION {ToSet(PosState(p).moves) : p \in P}}

MoveChars(regs) ==
  ElementsIn([i \in 1 .. c_no_char_base + c_base_char_cnt |-> i - 1],
             IdxsAt(ToSet(regs)))

(* Mutant: the first final position wins, whatever the later ones are. *)
FinalOfFirst(regs) ==
  FoldLeft(LAMBDA final, p :
             IF PosState(p).final /\ final = NotExist THEN p[1] ELSE final,
           NotExist, regs)

(* The terminal of the first final position, unless a later one has nowhere
   to go on. *)
FinalOf(regs) ==
  FoldLeft(LAMBDA final, p :
             IF PosState(p).final
                  /\ (final = NotExist \/ PosState(p).moves = <<>>)
               THEN p[1] ELSE final,
           NotExist, regs)

(* The move that led here gets its target. *)
LinkFrom(st, q, target) ==
  IF q.from = NotExist THEN st
  ELSE [st EXCEPT ![q.from].moves =
          [i \in DOMAIN @ |-> IF @[i].idx = q.char
                                THEN Move(q.char, target) ELSE @[i]]]

(* The first state with the same array of positions, or 0. *)
KnownState(regs) == SelectInSeq(state_descrs, LAMBDA d : d = regs)

InProduct == fa_stage = "product" /\ fa_queue # <<>>

TakeKnownState ==
  /\ InProduct
  /\ KnownState(Head(fa_queue).regs) # 0
  /\ fa_states' = LinkFrom(fa_states, Head(fa_queue),
                           KnownState(Head(fa_queue).regs))
  /\ fa_queue' = Tail(fa_queue)
  /\ UNCHANGED <<regExpVars, fa_stage, terminals, t_idx, states_array,
                 state_descrs, state_moves, textVars>>

TakeNewState ==
  /\ InProduct
  /\ Len(fa_states) < MaxFaStates
  /\ KnownState(Head(fa_queue).regs) = 0
  /\ LET q == Head(fa_queue)
         new == Len(fa_states) + 1
         chars == MoveChars(q.regs)
         state == [final |-> FinalOf(q.regs),
                   moves |-> [i \in DOMAIN chars |-> Move(chars[i], NotExist)]]
     IN  /\ fa_states' = LinkFrom(Append(fa_states, state), q, new)
         /\ fa_queue' = Tail(fa_queue) \o
              [i \in DOMAIN chars |-> [from |-> new, char |-> chars[i],
                                       regs |-> TargetRegs(q.regs, chars[i])]]
         /\ state_descrs' = Append(state_descrs, q.regs)
  /\ UNCHANGED <<regExpVars, fa_stage, terminals, t_idx, states_array,
                 state_moves, textVars>>

StartRows ==
  /\ fa_stage = "product" /\ fa_queue = <<>>
  /\ fa_stage' = "rows"
  /\ UNCHANGED <<regExpVars, terminals, t_idx, states_array, productVars,
                 state_moves, textVars>>

-----------------------------------------------------------------------------
(* The transition rows: one action for each state. *)

(* The characters a placeholder is entered at, where no earlier move has
   been.  The loop before an excepted character (657-664) tests its end only
   after the first turn. *)
RowChars(idx) ==
  CASE idx >= c_no_char_base ->
         IF idx = c_no_char_base THEN Chars ELSE Chars \ {idx - c_no_char_base}
    [] idx = reg_char_white -> WhiteChars
    [] idx = reg_char_digit -> DigitChars
    [] idx = reg_char_letter -> LetterChars

EnterMove(row, m) ==
  IF m.idx < c_base_char_cnt THEN [row EXCEPT ![m.idx] = m.value]
  ELSE [c \in Chars |-> IF c \in RowChars(m.idx) /\ row[c] = NotExist
                          THEN m.value ELSE row[c]]

Row(moves) ==
  LET upto[n \in 0 .. Len(moves)] ==
        IF n = 0 THEN [c \in Chars |-> NotExist]
        ELSE EnterMove(upto[n - 1], moves[n])
  IN  upto[Len(moves)]

FillRow ==
  /\ fa_stage = "rows"
  /\ Len(state_moves) < Len(fa_states)
  /\ state_moves' = Append(state_moves, Row(fa_states[Len(state_moves) + 1].moves))
  /\ UNCHANGED <<regExpVars, fa_stage, terminals, t_idx, states_array,
                 productVars, textVars>>

(* Mutant: waits for one row more than there are states. *)
RowsDoneLate ==
  /\ fa_stage = "rows"
  /\ Len(state_moves) > Len(fa_states)
  /\ fa_stage' = "ready"
  /\ UNCHANGED <<regExpVars, terminals, t_idx, states_array, productVars,
                 state_moves, textVars>>

RowsDone ==
  /\ fa_stage = "rows"
  /\ Len(state_moves) = Len(fa_states)
  /\ fa_stage' = "ready"
  /\ UNCHANGED <<regExpVars, terminals, t_idx, states_array, productVars,
                 state_moves, textVars>>

-----------------------------------------------------------------------------
(* The finished automaton recognizes a terminal. *)
Recognize ==
  /\ fa_stage = "ready"
  /\ RecNext
  /\ UNCHANGED <<regExpVars, fa_stage, terminals, t_idx, states_array,
                 fa_queue, state_descrs>>

FaNext ==
  \/ NextTerminal \/ RegExpError \/ StartProduct
  \/ TakeKnownState \/ TakeNewState \/ StartRows
  \/ FillRow \/ RowsDone
  \/ Recognize

LexerInit == FaInit /\ RegExpInit /\ reg_exp = terminals[1]
LexerNext == (RegExpNext /\ UNCHANGED faVars) \/ FaNext
LexerSpec == LexerInit /\ [][LexerNext]_lexerVars /\ WF_lexerVars(LexerNext)

-----------------------------------------------------------------------------
(* What a move stands for: doc/intro.md:74-152. *)
Stands(idx, c) ==
  CASE idx < c_base_char_cnt -> c = idx
    [] idx = reg_char_white -> c \in WhiteChars
    [] idx = reg_char_digit -> c \in DigitChars
    [] idx = reg_char_letter -> c \in LetterChars
    [] OTHER -> c # idx - c_no_char_base

(* Every character that is excepted at one of the positions P is there on its
   own, or no placeholder that may be taken for it reaches it. *)
ExceptionsApart(P) ==
  LET idxs == IdxsAt(P)
      taken(idx, x) == Stands(idx, x) /\ idx >= c_base_char_cnt
  IN  /\ c_no_char_base \in idxs => 0 \in idxs
      /\ \A x \in Chars :
           c_no_char_base + x \in idxs =>
             x \in idxs \/ \A idx \in idxs :
                             taken(idx, x) => idx > c_no_char_base + x

StepFrom(P, c) ==
  UNION {{<<p[1], m.value>> : m \in {m \in ToSet(PosState(p).moves) :
                                       Stands(m.idx, c)}} : p \in P}

AllApart == \A s \in DOMAIN state_descrs : ExceptionsApart(ToSet(state_descrs[s]))

RowExact(s, c) ==
  LET next == state_moves[s][c]
      reached == StepFrom(ToSet(state_descrs[s]), c)
  IN  IF next = NotExist THEN reached = {}
                         ELSE ToSet(state_descrs[next]) = reached

(* A finished transition row leads, for every character, to the state that
   stands for just the positions its moves lead to: characters, placeholders
   and exceptions of several terminals that overlap are told apart, as long
   as ExceptionsApart. *)
RowsExact ==
  \A s \in DOMAIN state_moves : \A c \in Chars :
    ExceptionsApart(ToSet(state_descrs[s])) => RowExact(s, c)

-----------------------------------------------------------------------------
(* The positions that the automata of all the terminals are at together,
   each on its own, when they have read the characters w. *)
ReadTo(w) ==
  LET upto[n \in 0 .. Len(w)] ==
        IF n = 0 THEN {<<t, 1>> : t \in DOMAIN terminals}
        ELSE StepFrom(upto[n - 1], w[n])
  IN  upto[Len(w)]

(* The last terminal that is at its end and cannot go on, or else the first
   that is at its end. *)
WinnerAt(P) ==
  LET ends == {p \in P : PosState(p).final}
      stuck == {p \in ends : PosState(p).moves = <<>>}
  IN  IF ends = {} THEN NotExist
      ELSE IF stuck # {} THEN Max({p[1] : p \in stuck})
      ELSE Min({p[1] : p \in ends})

(* recognize reads the text, and a zero behind it, just as long as the
   automaton of some terminal goes on, and returns the terminal that wins
   where they stand then: the one automaton in place of them all, its numbered
   arrays of positions and its rows, makes no difference. *)
RecognizesFarthest ==
  LET seen == Append(text, 0)
      after(n) == ReadTo(SubSeq(seen, 1, n))
  IN  read_stage = "returned" /\ AllApart =>
        \E n \in 0 .. Len(seen) :
          /\ text_idx = (IF n = Len(seen) THEN Len(text) ELSE n)
          /\ after(n) # {} /\ (n < Len(seen) => after(n + 1) = {})
          /\ recognized = WinnerAt(after(n))

=============================================================================
