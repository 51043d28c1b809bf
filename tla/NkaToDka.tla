------------------------------ MODULE NkaToDka -----------------------------
(***************************************************************************)
(* reg_parser_s::NKA_to_DKA (parser_code.cc:2809-3052) behind              *)
(* parse_reg_exp, which together are process_reg_exp (parser_code.h:774):  *)
(* the epsilon closure of every state, then the states of the              *)
(* deterministic automaton, one for each set of states that can be         *)
(* reached.  ui_array_set_s is kept as the array it is: the order of its   *)
(* elements decides the order of moves and states.                         *)
(***************************************************************************)
EXTENDS RegParser

VARIABLES
  nka_states,        (* the automaton of parse_reg_exp                     *)
  nka_fas_idx,       (* its first state                                    *)
  eps_closures,      (* closures of the states before s_idx, and so much   *)
                     (* as is known of the closure of s_idx                *)
  s_idx,
  state_idx_stack,   (* states the closure of s_idx still has to look at   *)
  processed_states,  (* ... and those it need not                          *)
  msm_queue,         (* moves not yet made: [char, from, set]              *)
  ms_map_array       (* ms_map_array[i]: the set that states[i] stands for *)

closureVars == <<s_idx, state_idx_stack, processed_states>>
nkaVars == <<nka_states, nka_fas_idx, eps_closures, closureVars, msm_queue,
             ms_map_array>>
parseOnlyVars == <<lexVars, reg_stack, begin_idxs, end_idxs>>
regExpVars == <<regVars, nkaVars>>

NkaInit ==
  /\ nka_states = <<>> /\ nka_fas_idx = NotExist
  /\ eps_closures = <<>>
  /\ s_idx = 1 /\ state_idx_stack = <<>> /\ processed_states = {}
  /\ msm_queue = <<>> /\ ms_map_array = <<>>

(* The states are swapped into a local variable. *)
StartClosures ==
  /\ reg_stage = "closures" /\ nka_states = <<>>
  /\ nka_states' = states /\ states' = <<>>
  /\ nka_fas_idx' = fas_idx /\ fas_idx' = 1
  /\ eps_closures' = <<<<>>>>
  /\ state_idx_stack' = <<1>>
  /\ UNCHANGED <<reg_stage, parseOnlyVars, s_idx, processed_states, msm_queue,
                 ms_map_array>>

-----------------------------------------------------------------------------
(* ui_array_set_s *)

(* The elements of s, each where it is first. *)
Distinct(s) ==
  LET upto[t \in Seq(ToSet(s))] ==
        IF t = <<>> THEN <<>>
        ELSE IF Last(t) \in ToSet(Front(t)) THEN upto[Front(t)]
        ELSE Append(upto[Front(t)], Last(t))
  IN  upto[s]

AddToSet(set, more) == Distinct(set \o more)

(* Mutant: compares the arrays in order. *)
SetCompareOrdered(set, second) == set = second

SetCompare(set, second) ==
  Len(set) = Len(second) /\ ToSet(set) \subseteq ToSet(second)

(* The closures: one action for each state taken from the stack. *)

MovesWith(C) == [idx : C, value : Nat]

EpsTargets(s) ==
  LET eps == ElementsIn(nka_states[s].moves, MovesWith({EpsMove}))
  IN  [i \in DOMAIN eps |-> eps[i].value]

CharMoves(s) == ElementsIn(nka_states[s].moves, MovesWith(Nat \ {EpsMove}))

(* A state that only leads on without a character is left out. *)
Matters(s) == CharMoves(s) # <<>> \/ nka_states[s].final

InClosures ==
  reg_stage = "closures" /\ nka_states # <<>> /\ state_idx_stack # <<>>
TakenState == Last(state_idx_stack)

(* Mutant: the known closure is appended as it is. *)
JoinClosureAppends ==
  /\ InClosures
  /\ TakenState < s_idx
  /\ LET known == eps_closures[TakenState]
     IN  /\ eps_closures' = [eps_closures EXCEPT ![s_idx] = @ \o known]
         /\ processed_states' = processed_states \union ToSet(known)
  /\ state_idx_stack' = Front(state_idx_stack)
  /\ UNCHANGED <<regVars, nka_states, nka_fas_idx, s_idx, msm_queue,
                 ms_map_array>>

(* The closure of an earlier state is known. *)
JoinClosure ==
  /\ InClosures
  /\ TakenState < s_idx
  /\ LET known == eps_closures[TakenState]
     IN  /\ eps_closures' = [eps_closures EXCEPT ![s_idx] = AddToSet(@, known)]
         /\ processed_states' = processed_states \union ToSet(known)
  /\ state_idx_stack' = Front(state_idx_stack)
  /\ UNCHANGED <<regVars, nka_states, nka_fas_idx, s_idx, msm_queue,
                 ms_map_array>>

ProcessState ==
  /\ InClosures
  /\ TakenState >= s_idx
  /\ IF TakenState \in processed_states
       THEN /\ state_idx_stack' = Front(state_idx_stack)
            /\ UNCHANGED <<eps_closures, processed_states>>
       ELSE /\ state_idx_stack' =
                 Front(state_idx_stack) \o EpsTargets(TakenState)
            /\ eps_closures' =
                 IF Matters(TakenState)
                   THEN [eps_closures EXCEPT ![s_idx] = Append(@, TakenState)]
                   ELSE eps_closures
            /\ processed_states' = processed_states \union {TakenState}
  /\ UNCHANGED <<regVars, nka_states, nka_fas_idx, s_idx, msm_queue,
                 ms_map_array>>

ClosureDone ==
  reg_stage = "closures" /\ nka_states # <<>> /\ state_idx_stack = <<>>

NextClosure ==
  /\ ClosureDone
  /\ s_idx < Len(nka_states)
  /\ s_idx' = s_idx + 1
  /\ state_idx_stack' = <<s_idx + 1>>
  /\ processed_states' = {}
  /\ eps_closures' = Append(eps_closures, <<>>)
  /\ UNCHANGED <<regVars, nka_states, nka_fas_idx, msm_queue, ms_map_array>>

(* The first state of the new automaton has no move into it. *)
StartSubsets ==
  /\ ClosureDone
  /\ s_idx = Len(nka_states)
  /\ reg_stage' = "subsets"
  /\ msm_queue' = <<[char |-> EpsMove, from |-> NotExist,
                     set |-> eps_closures[nka_fas_idx]]>>
  /\ UNCHANGED <<parseOnlyVars, states, fas_idx, nka_states, nka_fas_idx,
                 eps_closures, closureVars, ms_map_array>>

-----------------------------------------------------------------------------
(* The deterministic automaton: one action for each element of the queue. *)

InSubsets == reg_stage = "subsets" /\ msm_queue # <<>>
TakenMove == Head(msm_queue)

WithMove(st, m, target) ==
  IF m.from = NotExist THEN st ELSE AddMove(st, m.from, m.char, target)

TakeKnownSet ==
  /\ InSubsets
  /\ \E i \in DOMAIN ms_map_array :
       /\ SetCompare(ms_map_array[i], TakenMove.set)
       /\ \A j \in 1 .. i - 1 : ~SetCompare(ms_map_array[j], TakenMove.set)
       /\ states' = WithMove(states, TakenMove, i)
  /\ msm_queue' = Tail(msm_queue)
  /\ UNCHANGED <<reg_stage, parseOnlyVars, fas_idx, nka_states, nka_fas_idx,
                 eps_closures, closureVars, ms_map_array>>

(* The closures of all the targets of a character. *)
TargetSet(moves, c) ==
  LET its == ElementsIn(moves, MovesWith({c}))
  IN  Distinct(FlattenSeq([i \in DOMAIN its |-> eps_closures[its[i].value]]))

CharMovesOf(set) == FlattenSeq([i \in DOMAIN set |-> CharMoves(set[i])])

(* new_mul_state_moves: one move for each character, in the order they turn
   up. *)
NewMoves(moves, chars, from) ==
  [k \in DOMAIN chars |->
     [char |-> chars[k], from |-> from, set |-> TargetSet(moves, chars[k])]]

(* Mutant: final only if all its members are. *)
AreAllFinal(set) == \A s \in ToSet(set) : nka_states[s].final

IsFinal(set) == \E s \in ToSet(set) : nka_states[s].final

TakeNewSet ==
  /\ InSubsets
  /\ \A i \in DOMAIN ms_map_array : ~SetCompare(ms_map_array[i], TakenMove.set)
  /\ LET new == Len(states) + 1
         state == [final |-> IsFinal(TakenMove.set), moves |-> <<>>]
     IN  /\ states' = WithMove(Append(states, state), TakenMove, new)
         /\ \E moves \in {CharMovesOf(TakenMove.set)} :
            \E chars \in {Distinct([i \in DOMAIN moves |-> moves[i].idx])} :
              msm_queue' = Tail(msm_queue) \o NewMoves(moves, chars, new)
  /\ ms_map_array' = Append(ms_map_array, TakenMove.set)
  /\ UNCHANGED <<reg_stage, parseOnlyVars, fas_idx, nka_states, nka_fas_idx,
                 eps_closures, closureVars>>

SubsetsDone ==
  /\ reg_stage = "subsets" /\ msm_queue = <<>>
  /\ reg_stage' = "done"
  /\ UNCHANGED <<parseOnlyVars, states, fas_idx, nkaVars>>

NkaNext ==
  \/ StartClosures \/ JoinClosure \/ ProcessState \/ NextClosure
  \/ StartSubsets \/ TakeKnownSet \/ TakeNewSet \/ SubsetsDone

RegExpInit == ParseInit /\ NkaInit
RegExpNext == (ParseNext /\ UNCHANGED nkaVars) \/ NkaNext
RegExpSpec ==
  RegExpInit /\ [][RegExpNext]_regExpVars /\ WF_regExpVars(RegExpNext)
-----------------------------------------------------------------------------
(* A set of states has one state in the new automaton, in whatever order its
   elements were collected. *)
SetsDistinct ==
  \A i, j \in DOMAIN ms_map_array :
    i # j => ToSet(ms_map_array[i]) # ToSet(ms_map_array[j])

TargetsOf(set, c) ==
  UNION {ToSet(eps_closures[m.value]) :
           m \in {m \in UNION {ToSet(CharMoves(s)) : s \in set} : m.idx = c}}

(* A move leads to the state whose set is all that its character leads to
   from the members of the set it starts at; a move that is still missing
   waits in the queue. *)
MovesExact ==
  \A s \in DOMAIN ms_map_array :
    LET set == ToSet(ms_map_array[s])
        made == ToSet(states[s].moves)
        waiting == {m \in ToSet(msm_queue) : m.from = s}
    IN  /\ \A m \in made : ToSet(ms_map_array[m.value]) = TargetsOf(set, m.idx)
        /\ \A m \in waiting : ToSet(m.set) = TargetsOf(set, m.char)
        /\ {m.idx : m \in made} \union {m.char : m \in waiting} =
             {m.idx : m \in UNION {ToSet(CharMoves(r)) : r \in set}}

(* The new automaton is that of the sets of states, each set once. *)
SubsetsExact == SetsDistinct /\ MovesExact

=============================================================================
