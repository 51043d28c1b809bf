--------------------------- MODULE AutomatonWords --------------------------
(***************************************************************************)
(* The words that the automata of process_reg_exp accept, up to a length.  *)
(* The letters of words are characters and placeholders; what characters a *)
(* placeholder stands for is not looked at.                                *)
(***************************************************************************)
EXTENDS NkaToDka

CONSTANT WordMax     (* bound: length of the words that are compared *)

ASSUME WordMaxAssumption == WordMax \in Nat

MovesFrom(aut, S) == UNION {ToSet(aut[s].moves) : s \in S}

LeadTo(aut, S, c) == {m.value : m \in {m \in MovesFrom(aut, S) : m.idx = c}}

(* The states that are reached from S without a character: no way is longer
   than there are states. *)
EpsReach(aut, S) ==
  LET grown[n \in 0 .. Len(aut)] ==
        IF n = 0 THEN S
        ELSE LET T == grown[n - 1] IN T \union LeadTo(aut, T, EpsMove)
  IN  grown[Len(aut)]

Letters(aut, S) == {m.idx : m \in MovesFrom(aut, S)} \ {EpsMove}

(* Accepted words, found by going on from those that are one letter shorter:
   [word, at], where "at" is where the word leads. *)
Accepted(aut, first) ==
  LET ways[n \in 0 .. WordMax] ==
        IF n = 0 THEN {[word |-> <<>>, at |-> EpsReach(aut, {first})]}
        ELSE UNION {{[word |-> Append(w.word, c),
                      at |-> EpsReach(aut, LeadTo(aut, w.at, c))] :
                        c \in Letters(aut, w.at)} : w \in ways[n - 1]}
      accepting == {w \in UNION {ways[n] : n \in 0 .. WordMax} :
                      \E s \in w.at : aut[s].final}
  IN  {w.word : w \in accepting}

-----------------------------------------------------------------------------
(* Making the automaton deterministic keeps the words it accepts. *)
SameWords ==
  reg_stage = "done" =>
    Accepted(states, fas_idx) = Accepted(nka_states, nka_fas_idx)

(* A finished closure holds, once each, just the states that are reached
   without a character and matter, also where it was put together from the
   closures of earlier states (2850-2864). *)
ClosuresExact ==
  ClosureDone =>
    /\ ToSet(eps_closures[s_idx]) =
         {r \in EpsReach(nka_states, {s_idx}) : Matters(r)}
    /\ IsInjective(eps_closures[s_idx])

(* The sets of states that the new automaton stands for: what a finished
   closure holds, and which state stands for which set. *)
SetsExact == ClosuresExact /\ SubsetsExact
=============================================================================
