---------------------------- MODULE RegExpProofs ----------------------------
(***************************************************************************)
(* process_reg_exp, for every regular expression. The states on lalr_stack *)
(* follow one another as the table lets them (Leads), so what a reduction  *)
(* pops is the body of its rule, and the number of parts changes as the    *)
(* number of operands on the stack does: that is PartsOnStack. All moves   *)
(* lead to states that exist, so the automaton that is handed to           *)
(* NKA_to_DKA has a closure for each of its states. Closures and sets      *)
(* repeat no state, or two sets of the same states could differ in length  *)
(* and would not be found equal. What the sets in the queue and the states *)
(* made from it say of the moves is kept row by row (MovesRight). In the   *)
(* closure that is collected nothing is wrong, and what it lacks is still  *)
(* reached from the stack (Looking). A state of the deterministic          *)
(* automaton stands for all states a word leads to (Stand), so the words   *)
(* it accepts are the same. The sequences the code builds by appending     *)
(* what is not there yet are functions that refer to themselves: what they *)
(* compute is shown by induction over the length, for sets of numbers.     *)
(***************************************************************************)
EXTENDS AutomatonWords, SequenceLemmas

(* What ElementsIn and Distinct make of a sequence. *)

LEMMA OwnSeq ==
  ASSUME NEW T, NEW s \in Seq(T)
  PROVE  s \in Seq(ToSet(s)) /\ ToSet(s) \subseteq T
BY DEF ToSet

AmongStep(d, t, S) ==
  IF t = <<>> THEN <<>>
  ELSE IF Last(t) \in S THEN Append(d[Front(t)], Last(t)) ELSE d[Front(t)]

UptoStep(d, t) ==
  IF t = <<>> THEN <<>>
  ELSE IF Last(t) \in ToSet(Front(t)) THEN d[Front(t)]
  ELSE Append(d[Front(t)], Last(t))

LEMMA AmongIs ==
  ASSUME NEW T, NEW s \in Seq(T), NEW S
  PROVE  \E d : /\ ElementsIn(s, S) = d[s]
                /\ \A t \in Seq(ToSet(s)) : d[t] = AmongStep(d, t, S)
<1> DEFINE R == ToSet(s)
           Is(d) == d = [t \in Seq(R) |-> AmongStep(d, t, S)]
           K == {t \in Seq(R) : Last(t) \in S}
           d == CHOOSE d : Is(d)
<1>1. PICK e : Keeps(e, Seq(R), K)
  BY KeepsExists
<1>2. \A t \in Seq(R) : KeepStep(e, t, K) = AmongStep(e, t, S)
  BY DEF KeepStep, AmongStep
<1>3. Is(e)
  BY <1>1, <1>2 DEF Keeps
<1>4. Is(d)
  BY <1>3
<1>5. ElementsIn(s, S) = d[s]
  BY DEF ElementsIn, AmongStep
<1>6. ASSUME NEW f, Is(f), NEW t \in Seq(R)
      PROVE  f[t] = AmongStep(f, t, S)
  <2> DEFINE G(h) == [u \in Seq(R) |-> AmongStep(h, u, S)]
  <2>1. f = G(f)
    BY <1>6
  <2>2. G(f)[t] = AmongStep(f, t, S)
    OBVIOUS
  <2> HIDE DEF G
  <2> QED
    BY <2>1, <2>2
<1> HIDE DEF d, Is
<1> QED
  BY <1>4, <1>5, <1>6

LEMMA ElementsInIs ==
  ASSUME NEW T, NEW s \in Seq(T), NEW S
  PROVE  /\ ElementsIn(s, S) \in Seq(T)
         /\ ToSet(ElementsIn(s, S)) = ToSet(s) \cap S
<1> DEFINE R == ToSet(s)
<1>1. PICK d : /\ ElementsIn(s, S) = d[s]
               /\ \A t \in Seq(R) : d[t] = AmongStep(d, t, S)
  BY AmongIs
<1>2. s \in Seq(R) /\ R \subseteq T
  BY OwnSeq
<1> DEFINE P == {n \in Nat : \A t \in Seq(R) : Len(t) = n =>
                   d[t] \in Seq(T) /\ ToSet(d[t]) = ToSet(t) \cap S}
<1> HIDE DEF R
<1>3. ToSet(<<>>) = {} /\ <<>> \in Seq(T)
  BY DEF ToSet
<1>4. 0 \in P
  <2>1. ASSUME NEW t \in Seq(R), Len(t) = 0
        PROVE  d[t] \in Seq(T) /\ ToSet(d[t]) = ToSet(t) \cap S
    <3>1. t = <<>>
      BY <2>1
    <3>2. d[t] = AmongStep(d, t, S)
      BY <1>1
    <3>3. d[t] = <<>>
      BY <3>1, <3>2 DEF AmongStep
    <3> QED
      BY <1>3, <3>1, <3>3
  <2> QED
    BY <2>1
<1>5. ASSUME NEW n \in Nat, n \in P
      PROVE  n + 1 \in P
  <2>1. ASSUME NEW t \in Seq(R), Len(t) = n + 1
        PROVE  d[t] \in Seq(T) /\ ToSet(d[t]) = ToSet(t) \cap S
    <3>1. PICK u, e : /\ u = Front(t) /\ e = Last(t) /\ t # <<>>
                      /\ u \in Seq(R) /\ e \in R /\ Len(u) = n /\ t = Append(u, e)
      BY <2>1, FrontAndLast
    <3>2. d[u] \in Seq(T) /\ ToSet(d[u]) = ToSet(u) \cap S
      BY <1>5, <3>1
    <3>3. ToSet(t) = ToSet(u) \cup {e}
      BY <3>1, ToSetAppend
    <3>4. CASE e \in S
      <4>1. d[t] = Append(d[u], e)
        BY <1>1, <3>1, <3>4 DEF AmongStep
      <4>2. d[t] \in Seq(T) /\ ToSet(d[t]) = ToSet(d[u]) \cup {e}
        <5>1. e \in T
          BY <1>2, <3>1
        <5>2. d[u] \in Seq(T)
          BY <3>2
        <5>3. /\ Append(d[u], e) \in Seq(T)
              /\ ToSet(Append(d[u], e)) = ToSet(d[u]) \cup {e}
          BY ONLY <5>1, <5>2, ToSetAppend, AppendOne
        <5> QED
          BY <4>1, <5>3
      <4> QED
        BY <3>2, <3>3, <3>4, <4>2
    <3>5. CASE e \notin S
      <4>1. d[t] = d[u]
        BY <1>1, <3>1, <3>5 DEF AmongStep
      <4> QED
        BY <3>2, <3>3, <3>5, <4>1
    <3> QED
      BY <3>4, <3>5
  <2> QED
    BY <2>1
<1> HIDE DEF P
<1>6. \A n \in Nat : n \in P
  BY <1>4, <1>5, SetInduction
<1>7. Len(s) \in P
  BY <1>6
<1> QED
  BY <1>1, <1>2, <1>7 DEF P, R

LEMMA UptoIs ==
  ASSUME NEW T, NEW s \in Seq(T)
  PROVE  \E d : /\ Distinct(s) = d[s]
                /\ \A t \in Seq(ToSet(s)) : d[t] = UptoStep(d, t)
<1> DEFINE R == ToSet(s)
           Is(d) == d = [t \in Seq(R) |-> UptoStep(d, t)]
           K == {t \in Seq(R) : Last(t) \notin ToSet(Front(t))}
           d == CHOOSE d : Is(d)
<1>1. PICK e : Keeps(e, Seq(R), K)
  BY KeepsExists
<1>2. \A t \in Seq(R) : KeepStep(e, t, K) = UptoStep(e, t)
  BY DEF KeepStep, UptoStep
<1>3. Is(e)
  BY <1>1, <1>2 DEF Keeps
<1>4. Is(d)
  BY <1>3
<1>5. Distinct(s) = d[s]
  BY DEF Distinct, UptoStep
<1>6. ASSUME NEW f, Is(f), NEW t \in Seq(R)
      PROVE  f[t] = UptoStep(f, t)
  <2> DEFINE G(h) == [u \in Seq(R) |-> UptoStep(h, u)]
  <2>1. f = G(f)
    BY <1>6
  <2>2. G(f)[t] = UptoStep(f, t)
    OBVIOUS
  <2> HIDE DEF G
  <2> QED
    BY <2>1, <2>2
<1> HIDE DEF d, Is
<1> QED
  BY <1>4, <1>5, <1>6

LEMMA DistinctIs ==
  ASSUME NEW T, NEW s \in Seq(T)
  PROVE  /\ Distinct(s) \in Seq(T) /\ IsInjective(Distinct(s))
         /\ ToSet(Distinct(s)) = ToSet(s)
<1> DEFINE R == ToSet(s)
<1>1. PICK d : /\ Distinct(s) = d[s]
               /\ \A t \in Seq(R) : d[t] = UptoStep(d, t)
  BY UptoIs
<1>2. s \in Seq(R) /\ R \subseteq T
  BY OwnSeq
<1> DEFINE Good(t) == d[t] \in Seq(T) /\ IsInjective(d[t]) /\ ToSet(d[t]) = ToSet(t)
           P == {n \in Nat : \A t \in Seq(R) : Len(t) = n => Good(t)}
<1> HIDE DEF R
<1>3. ToSet(<<>>) = {} /\ <<>> \in Seq(T) /\ IsInjective(<<>>)
  BY DEF ToSet, IsInjective
<1>4. 0 \in P
  <2>1. ASSUME NEW t \in Seq(R), Len(t) = 0
        PROVE  Good(t)
    <3>1. t = <<>>
      BY <2>1
    <3>2. d[t] = UptoStep(d, t)
      BY <1>1
    <3>3. d[t] = <<>>
      BY <3>1, <3>2 DEF UptoStep
    <3> QED
      BY <1>3, <3>1, <3>3
  <2> HIDE DEF Good
  <2> QED
    BY <2>1
<1>5. ASSUME NEW n \in Nat, n \in P
      PROVE  n + 1 \in P
  <2>1. ASSUME NEW t \in Seq(R), Len(t) = n + 1
        PROVE  Good(t)
    <3>1. PICK u, e : /\ u = Front(t) /\ e = Last(t) /\ t # <<>>
                      /\ u \in Seq(R) /\ e \in R /\ Len(u) = n /\ t = Append(u, e)
      BY <2>1, FrontAndLast
    <3>2. d[u] \in Seq(T) /\ IsInjective(d[u]) /\ ToSet(d[u]) = ToSet(u)
      BY <1>5, <3>1
    <3>3. ToSet(t) = ToSet(u) \cup {e}
      BY <3>1, ToSetAppend
    <3>4. CASE e \notin ToSet(u)
      <4>1. d[t] = Append(d[u], e)
        BY <1>1, <3>1, <3>4 DEF UptoStep
      <4>2. d[t] \in Seq(T) /\ ToSet(d[t]) = ToSet(d[u]) \cup {e}
        <5>1. e \in T
          BY <1>2, <3>1
        <5>2. d[u] \in Seq(T)
          BY <3>2
        <5>3. /\ Append(d[u], e) \in Seq(T)
              /\ ToSet(Append(d[u], e)) = ToSet(d[u]) \cup {e}
          BY ONLY <5>1, <5>2, ToSetAppend, AppendOne
        <5> QED
          BY <4>1, <5>3
      <4>3. IsInjective(d[t])
        BY <1>2, <3>1, <3>2, <3>4, <4>1, InjectiveAppend
      <4> QED
        BY <3>2, <3>3, <4>2, <4>3
    <3>5. CASE e \in ToSet(u)
      <4>1. d[t] = d[u]
        BY <1>1, <3>1, <3>5 DEF UptoStep
      <4> QED
        BY <3>2, <3>3, <3>5, <4>1
    <3> QED
      BY <3>4, <3>5
  <2> HIDE DEF Good
  <2> QED
    BY <2>1
<1> HIDE DEF P
<1>6. \A n \in Nat : n \in P
  BY <1>4, <1>5, SetInduction
<1>7. Len(s) \in P
  BY <1>6
<1> QED
  BY <1>1, <1>2, <1>7 DEF P, R

-----------------------------------------------------------------------------
(* The states that may follow one another on lalr_stack. *)
Leads(s, t) ==
  \/ s = 0 /\ t = 1
  \/ s \in {0, 14, 15} /\ t = 2
  \/ s \in ExpectsAtom /\ t \in 3 .. 14
  \/ s \in {1, 19, 20} /\ t = 15
  \/ s \in {2, 21} /\ t = 17
  \/ s = 3 /\ t = 18
  \/ s = 14 /\ t = 19
  \/ s = 15 /\ t = 20
  \/ s = 17 /\ t = 21
  \/ s = 19 /\ t = 22

(* An element of lalr_stack has the characters that its state needs. *)
StackElement ==
  {e \in [state : 0 .. 22, chars : Seq(Chars)] :
     /\ e.state \in {5, 9} => Len(e.chars) = 1
     /\ e.state = 11 => Len(e.chars) = 2}

(* Numbers of the moves: a character, a placeholder, an excepted character. *)
CharIdx == 0 .. c_no_char_base + c_base_char_cnt - 1
MoveIdx == CharIdx \union {EpsMove}

MoveOver(n) == [idx : MoveIdx, value : 1 .. n]
StateOver(n) == [final : BOOLEAN, moves : Seq(MoveOver(n))]

(* The moves of an automaton lead to its states. *)
IsAutomaton(st) == st \in Seq(StateOver(Len(st)))

ReadInv ==
  /\ reg_exp \in RegExps
  /\ reg_idx \in Nat \ {0}
  /\ reg_term \in NotExist .. reg_end /\ reg_term # skip
  /\ reg_term \notin {NotExist, reg_end} =>
       reg_idx - 1 \in DOMAIN reg_exp /\ reg_exp[reg_idx - 1].term = reg_term

GoodStack(s) ==
  /\ s \in Seq(StackElement) /\ s # <<>>
  /\ s[1].state = 0
  /\ \A i \in 1 .. Len(s) - 1 : Leads(s[i].state, s[i + 1].state)

PartInv ==
  /\ IsAutomaton(states)
  /\ begin_idxs \in Seq(1 .. Len(states))
  /\ end_idxs \in Seq(1 .. Len(states))

Stages == {"parse", "closures", "subsets", "done", "failed"}

(* Nothing of NKA_to_DKA has begun. *)
NkaUntouched ==
  /\ nka_states = <<>> /\ eps_closures = <<>>
  /\ s_idx = 1 /\ processed_states = {}
  /\ msm_queue = <<>>

ParseInv ==
  reg_stage = "parse" => ReadInv /\ GoodStack(reg_stack) /\ PartInv /\ NkaUntouched

StartInv ==
  reg_stage = "closures" /\ nka_states = <<>> =>
    /\ IsAutomaton(states) /\ fas_idx \in DOMAIN states
    /\ NkaUntouched

NkaSet == Seq(1 .. Len(nka_states))

NkaInv ==
  /\ IsAutomaton(nka_states)
  /\ nka_fas_idx \in DOMAIN nka_states
  /\ eps_closures \in Seq(NkaSet)
  /\ \A i \in DOMAIN eps_closures : IsInjective(eps_closures[i])

ClosureInv ==
  reg_stage = "closures" /\ nka_states # <<>> =>
    /\ NkaInv
    /\ states = <<>> /\ msm_queue = <<>>
    /\ s_idx \in DOMAIN nka_states /\ Len(eps_closures) = s_idx
    /\ state_idx_stack \in NkaSet
    /\ ToSet(eps_closures[s_idx]) \subseteq processed_states

QueueElement ==
  [char : MoveIdx, from : {NotExist} \union (1 .. Len(states)), set : NkaSet]

(* The set of the first state waits, or has its state. *)
FirstSet == ms_map_array # <<>> \/ (reg_stage = "subsets" /\ msm_queue # <<>>)

SubsetTypes ==
  /\ NkaInv
  /\ Len(eps_closures) = Len(nka_states)
  /\ IsAutomaton(states) /\ Len(states) = Len(ms_map_array)
  /\ ms_map_array \in Seq(NkaSet)
  /\ \A i \in DOMAIN ms_map_array : IsInjective(ms_map_array[i])
  /\ FirstSet
  /\ msm_queue \in Seq(QueueElement)
  /\ \A i \in DOMAIN msm_queue : IsInjective(msm_queue[i].set)

InDka == reg_stage \in {"subsets", "done"}
SubsetInv == InDka => SubsetTypes

RegExpInv ==
  /\ reg_stage \in Stages
  /\ ParseInv /\ PartsOnStack
  /\ StartInv /\ ClosureInv /\ SubsetInv
  /\ ~InDka => ms_map_array = <<>>
  /\ SetsDistinct /\ MovesExact

LEMMA MoveIdxs ==
  /\ Chars \subseteq CharIdx /\ CharIdx \subseteq MoveIdx /\ MoveIdx \subseteq Nat
  /\ EpsMove \in MoveIdx \ CharIdx
  /\ {reg_char_white, reg_char_digit, reg_char_letter} \subseteq CharIdx
  /\ \A c \in Chars : c_no_char_base + c \in CharIdx
BY CharCountAssumption
   DEF Chars, CharIdx, MoveIdx, EpsMove, reg_char_white, reg_char_digit,
       reg_char_letter, c_no_char_base

-----------------------------------------------------------------------------
(* lalr_stack. *)

Weight(e) == IF e.state \in OperandStates THEN 1 ELSE 0

OperandCount(s) == Cardinality(Operands(s))

LEMMA OperandsAppend ==
  ASSUME NEW s \in Seq(StackElement), NEW e \in StackElement
  PROVE  /\ OperandCount(s) \in Nat
         /\ OperandCount(Append(s, e)) = OperandCount(s) + Weight(e)
<1>0. PICK n, more : n = Len(s) /\ more = Append(s, e)
  OBVIOUS
<1>1. n = Len(s) /\ more = Append(s, e) /\ n \in Nat
  BY <1>0
<1>2. /\ DOMAIN s = 1 .. n /\ DOMAIN more = 1 .. n + 1
      /\ more[n + 1] = e /\ \A i \in 1 .. n : more[i] = s[i]
  BY <1>1
<1>3. Operands(s) \subseteq 1 .. n
  BY <1>2 DEF Operands
<1>4. IsFiniteSet(Operands(s)) /\ Cardinality(Operands(s)) \in Nat
  <2>1. IsFiniteSet(1 .. n)
    BY <1>1, FS_Interval
  <2>2. IsFiniteSet(Operands(s))
    BY <1>3, <2>1, FS_Subset
  <2> QED
    BY <2>2, FS_CardinalityType
<1>5. n + 1 \notin Operands(s)
  BY <1>1, <1>3
<1>6. CASE e.state \in OperandStates
  <2>1. Operands(more) = Operands(s) \cup {n + 1}
    BY <1>1, <1>2, <1>6 DEF Operands
  <2>2. Cardinality(Operands(more)) = Cardinality(Operands(s)) + 1
    BY <1>4, <1>5, <2>1, FS_AddElement
  <2> QED
    BY <1>1, <1>4, <1>6, <2>2 DEF OperandCount, Weight
<1>7. CASE e.state \notin OperandStates
  <2>1. Operands(more) = Operands(s)
    BY <1>1, <1>2, <1>7 DEF Operands
  <2> QED
    BY <1>1, <1>4, <1>7, <2>1 DEF OperandCount, Weight
<1> QED
  BY <1>6, <1>7

(* What is above the first element can be taken from the stack ... *)
LEMMA Pop ==
  ASSUME NEW s, GoodStack(s), Last(s).state # 0
  PROVE  /\ GoodStack(Front(s)) /\ Last(s) \in StackElement
         /\ Leads(Last(Front(s)).state, Last(s).state)
         /\ OperandCount(s) = OperandCount(Front(s)) + Weight(Last(s))
         /\ OperandCount(Front(s)) \in Nat
         /\ Len(s) \in Nat /\ Len(Front(s)) = Len(s) - 1
<1>1. PICK n : n = Len(s) /\ n \in Nat \ {0} /\ s \in Seq(StackElement)
  BY DEF GoodStack
<1>2. n # 1
  BY <1>1 DEF GoodStack, Last
<1>3. PICK f : f = Front(s)
  OBVIOUS
<1>4. /\ f \in Seq(StackElement) /\ Last(s) \in StackElement
      /\ Len(f) = n - 1 /\ s = Append(f, Last(s))
  BY <1>1, <1>3, FrontAndLast DEF GoodStack
<1>5. \A i \in 1 .. n - 1 : f[i] = s[i]
  BY <1>1, <1>3 DEF Front
<1>6. GoodStack(f)
  <2>1. f # <<>> /\ f[1].state = 0
    BY <1>1, <1>2, <1>4, <1>5 DEF GoodStack
  <2>2. ASSUME NEW i \in 1 .. Len(f) - 1
        PROVE  Leads(f[i].state, f[i + 1].state)
    <3>1. i \in 1 .. n - 1 /\ i + 1 \in 1 .. n - 1 /\ i \in 1 .. Len(s) - 1
      BY <1>1, <1>4
    <3>2. Leads(s[i].state, s[i + 1].state)
      BY <3>1 DEF GoodStack
    <3> QED
      BY <1>5, <3>1, <3>2
  <2> QED
    BY <1>4, <2>1, <2>2 DEF GoodStack
<1>7. Leads(Last(f).state, Last(s).state)
  <2>1. n - 1 \in 1 .. Len(s) - 1 /\ (n - 1) + 1 = n /\ n - 1 \in 1 .. n - 1
    BY <1>1, <1>2
  <2>2. Leads(s[n - 1].state, s[n].state)
    BY <2>1 DEF GoodStack
  <2>3. Last(f) = s[n - 1] /\ Last(s) = s[n]
    BY <1>1, <1>4, <1>5, <2>1 DEF Last
  <2> QED
    BY <2>2, <2>3
<1>8. OperandCount(s) = OperandCount(f) + Weight(Last(s)) /\ OperandCount(f) \in Nat
  BY <1>4, OperandsAppend
<1> QED
  BY <1>1, <1>3, <1>4, <1>6, <1>7, <1>8

(* ... and what may follow its last can be put there. *)
LEMMA Push ==
  ASSUME NEW s, GoodStack(s), NEW e \in StackElement, Leads(Last(s).state, e.state)
  PROVE  /\ GoodStack(Append(s, e))
         /\ OperandCount(Append(s, e)) = OperandCount(s) + Weight(e)
         /\ OperandCount(s) \in Nat
<1>1. PICK n, more : n = Len(s) /\ more = Append(s, e)
  OBVIOUS
<1>2. s \in Seq(StackElement) /\ n \in Nat \ {0}
  BY <1>1 DEF GoodStack
<1>3. /\ more \in Seq(StackElement) /\ Len(more) = n + 1 /\ more[n + 1] = e
      /\ \A i \in 1 .. n : more[i] = s[i]
  BY <1>1, <1>2
<1>4. ASSUME NEW i \in 1 .. n
      PROVE  Leads(more[i].state, more[i + 1].state)
  <2>1. CASE i = n
    <3>1. more[i] = Last(s) /\ more[i + 1] = e
      BY <1>1, <1>2, <1>3, <2>1 DEF Last
    <3> QED
      BY <3>1
  <2>2. CASE i # n
    <3>1. i \in 1 .. Len(s) - 1 /\ i + 1 \in 1 .. n
      BY <1>1, <1>2, <2>2
    <3>2. Leads(s[i].state, s[i + 1].state)
      BY <3>1 DEF GoodStack
    <3> QED
      BY <1>3, <3>1, <3>2
  <2> QED
    BY <2>1, <2>2
<1>5. more # <<>> /\ more[1].state = 0
  <2>1. s[1].state = 0
    BY DEF GoodStack
  <2> QED
    BY <1>2, <1>3, <2>1
<1>6. GoodStack(more)
  <2>1. Len(more) - 1 = n
    BY <1>2, <1>3
  <2> QED
    BY <1>3, <1>4, <1>5, <2>1 DEF GoodStack
<1> QED
  BY <1>1, <1>2, <1>6, OperandsAppend

-----------------------------------------------------------------------------
(* The table. *)

LEMMA RuleTables ==
  /\ \A r \in 1 .. 16 :
       reg_rule_body_lengths[r] = IF r \in {1, 3, 16} THEN 3 ELSE IF r = 5 THEN 2 ELSE 1
  /\ \A r \in 1 .. 16 :
       reg_rule_head_idxs[r] = IF r <= 2 THEN 18 ELSE IF r <= 4 THEN 19 ELSE 20
<1>1. PICK a, b, c : a = <<3, 1, 3, 1, 2>> /\ b = [i \in 1 .. 10 |-> 1] /\ c = <<3>>
  OBVIOUS
<1>2. PICK S : a \in Seq(S) /\ b \in Seq(S) /\ c \in Seq(S)
  <2>1. a \in Seq(Nat) /\ c \in Seq(Nat)
    BY <1>1
  <2>2. b \in Seq(Nat)
    BY <1>1
  <2> QED
    BY <2>1, <2>2
<1>3. PICK ab : ab = a \o b
  OBVIOUS
<1>4. /\ ab \in Seq(S) /\ Len(ab) = 15
      /\ \A i \in 1 .. 5 : ab[i] = a[i]
      /\ \A i \in 6 .. 15 : ab[i] = b[i - 5]
  <2>1. /\ ab \in Seq(S) /\ Len(ab) = Len(a) + Len(b)
        /\ \A i \in 1 .. Len(a) : ab[i] = a[i]
        /\ \A i \in 1 .. Len(b) : ab[Len(a) + i] = b[i]
    BY <1>2, <1>3, ConcatAt
  <2>2. Len(a) = 5 /\ Len(b) = 10
    BY <1>1
  <2>3. ASSUME NEW i \in 6 .. 15
        PROVE  ab[i] = b[i - 5]
    <3>1. i - 5 \in 1 .. 10 /\ 5 + (i - 5) = i
      OBVIOUS
    <3> QED
      BY <2>1, <2>2, <3>1
  <2> QED
    BY <2>1, <2>2, <2>3
<1>5. PICK abc : abc = ab \o c
  OBVIOUS
<1>6. /\ \A i \in 1 .. 15 : abc[i] = ab[i]
      /\ abc[16] = c[1]
  <2>0. ab \in Seq(S)
    BY <1>4
  <2>1. /\ \A i \in 1 .. Len(ab) : abc[i] = ab[i]
        /\ \A i \in 1 .. Len(c) : abc[Len(ab) + i] = c[i]
    BY <1>2, <1>5, <2>0, ConcatAt
  <2>2. Len(c) = 1
    BY <1>1
  <2> QED
    BY <1>4, <2>1, <2>2
<1>7. reg_rule_body_lengths = abc
  BY <1>1, <1>3, <1>5 DEF reg_rule_body_lengths
<1>8. \A i \in 6 .. 15 : ab[i] = 1
  BY <1>1, <1>4
<1>9. ab[1] = 3 /\ ab[2] = 1 /\ ab[3] = 3 /\ ab[4] = 1 /\ ab[5] = 2
  BY <1>1, <1>4
<1>10. abc[16] = 3
  BY <1>1, <1>6
<1>11. PICK d, e, h : d = <<18, 18, 19, 19>> /\ e = [i \in 1 .. 12 |-> 20] /\ h = d \o e
  OBVIOUS
<1>12. d \in Seq(Nat) /\ e \in Seq(Nat) /\ Len(d) = 4 /\ Len(e) = 12
  BY <1>11
<1>13. /\ \A i \in 1 .. 4 : h[i] = d[i]
       /\ \A i \in 5 .. 16 : h[i] = e[i - 4]
  BY <1>11, <1>12
<1>14. h = reg_rule_head_idxs
  BY <1>11 DEF reg_rule_head_idxs
<1>15. \A r \in 1 .. 16 : h[r] = IF r <= 2 THEN 18 ELSE IF r <= 4 THEN 19 ELSE 20
  BY <1>11, <1>13
<1>16. \A r \in 1 .. 16 :
         abc[r] = IF r \in {1, 3, 16} THEN 3 ELSE IF r = 5 THEN 2 ELSE 1
  BY <1>6, <1>8, <1>9, <1>10
<1> QED
  BY <1>7, <1>14, <1>15, <1>16

(* The state that a rule is reduced in. *)
LEMMA ReduceIn ==
  ASSUME NEW s \in 0 .. 22, NEW t, RegReduce(s, t) # NotExist
  PROVE  /\ RegReduce(s, t) \in 1 .. 16
         /\ RegReduce(s, t) = 1 => s = 20
         /\ RegReduce(s, t) = 2 => s = 2
         /\ RegReduce(s, t) = 3 => s = 21
         /\ RegReduce(s, t) = 4 => s = 3
         /\ RegReduce(s, t) = 5 => s = 18
         /\ RegReduce(s, t) = 16 => s = 22
         /\ RegReduce(s, t) \in 6 .. 15 => s = RegReduce(s, t) - 2
BY DEF RegReduce, NotExist

(* A token is shifted where its state may be, and brings the characters. *)
LEMMA ShiftTo ==
  ASSUME NEW s \in 0 .. 22, NEW t \in char_eps .. skip, RegShift(s, t) # NotExist
  PROVE  /\ RegShift(s, t) \in 0 .. 22
         /\ Leads(s, RegShift(s, t)) /\ RegShift(s, t) \notin OperandStates
         /\ RegShift(s, t) \in {5, 9} => t \in {char, char_no_char}
         /\ RegShift(s, t) = 11 => t = char_range
<1>1. CASE s \in ExpectsAtom /\ t \in char_eps .. lr_br
  <2>1. RegShift(s, t) = AtomState[t + 1] /\ t \in 0 .. 10
    <3>1. t \in 0 .. 10
      BY <1>1 DEF char_eps, lr_br
    <3>2. /\ ~(s = 1 /\ t = reg_end)
          /\ ~(s \in {1, 19, 20} /\ t = alter)
          /\ ~(s \in {2, 21} /\ t = conc)
          /\ ~(s = 3 /\ t = iter)
          /\ ~(s = 19 /\ t = rr_br)
      BY <3>1 DEF reg_end, alter, conc, iter, rr_br
    <3> QED
      BY <1>1, <3>1, <3>2 DEF RegShift
  <2>2. /\ AtomState[t + 1] \in 4 .. 14
        /\ AtomState[t + 1] \in {5, 9} => t \in {4, 5}
        /\ AtomState[t + 1] = 11 => t = 7
    BY <2>1 DEF AtomState
  <2> QED
    BY <1>1, <2>1, <2>2 DEF Leads, OperandStates, char, char_no_char, char_range
<1>2. CASE ~(s \in ExpectsAtom /\ t \in char_eps .. lr_br)
  <2>1. t # reg_end
    BY DEF char_eps, skip, reg_end
  <2>2. \/ s \in {1, 19, 20} /\ RegShift(s, t) = 15
        \/ s \in {2, 21} /\ RegShift(s, t) = 17
        \/ s = 3 /\ RegShift(s, t) = 18
        \/ s = 19 /\ RegShift(s, t) = 22
    BY <1>2, <2>1 DEF RegShift, NotExist
  <2> QED
    BY <2>2 DEF Leads, OperandStates
<1> QED
  BY <1>1, <1>2

LEMMA FrontIs ==
  ASSUME NEW S, NEW s \in Seq(S), s # <<>>
  PROVE  /\ Front(s) = SubSeq(s, 1, Len(s) - 1)
         /\ Front(s) # <<>> =>
              /\ Front(Front(s)) = SubSeq(s, 1, Len(s) - 2)
              /\ Front(Front(s)) # <<>> =>
                   Front(Front(Front(s))) = SubSeq(s, 1, Len(s) - 3)
<1>1. ASSUME NEW n \in Nat, NEW k \in Nat, k < n, n <= Len(s)
      PROVE  SubSeq(SubSeq(s, 1, n), 1, k) = SubSeq(s, 1, k)
  <2>1. PICK t : t = SubSeq(s, 1, n)
    OBVIOUS
  <2>2. t \in Seq(S) /\ Len(t) = n /\ \A i \in 1 .. n : t[i] = s[i]
    BY <1>1, <2>1
  <2>3. PICK u, v : u = SubSeq(t, 1, k) /\ v = SubSeq(s, 1, k)
    OBVIOUS
  <2>4. /\ u \in Seq(S) /\ Len(u) = k /\ \A i \in 1 .. k : u[i] = s[i]
    BY <1>1, <2>2, <2>3
  <2>5. /\ v \in Seq(S) /\ Len(v) = k /\ \A i \in 1 .. k : v[i] = s[i]
    BY <1>1, <2>3
  <2>6. u = v
    BY <1>1, <2>4, <2>5
  <2> QED
    BY <2>1, <2>3, <2>6
<1>2. PICK n : n = Len(s) /\ n \in Nat \ {0}
  OBVIOUS
<1>3. Front(s) = SubSeq(s, 1, n - 1)
  BY <1>2 DEF Front
<1>4. Len(Front(s)) = n - 1 /\ Front(s) \in Seq(S)
  BY <1>2, <1>3
<1>5. ASSUME Front(s) # <<>>
      PROVE  /\ n - 2 \in Nat /\ Front(Front(s)) = SubSeq(s, 1, n - 2)
             /\ Front(Front(s)) # <<>> =>
                   Front(Front(Front(s))) = SubSeq(s, 1, n - 3)
  <2>1. n - 2 \in Nat
    BY <1>2, <1>4, <1>5
  <2>2. Front(Front(s)) = SubSeq(Front(s), 1, n - 2)
    BY <1>2, <1>4 DEF Front
  <2>3. Front(Front(s)) = SubSeq(s, 1, n - 2)
    BY <1>1, <1>2, <1>3, <2>1, <2>2
  <2>4. ASSUME Front(Front(s)) # <<>>
        PROVE  Front(Front(Front(s))) = SubSeq(s, 1, n - 3)
    <3>1. Len(Front(Front(s))) = n - 2 /\ Front(Front(s)) \in Seq(S)
      BY <1>2, <2>1, <2>3
    <3>2. n - 3 \in Nat
      BY <1>2, <2>1, <2>4, <3>1
    <3>3. Front(Front(Front(s))) = SubSeq(Front(Front(s)), 1, n - 3)
      BY <1>2, <3>1 DEF Front
    <3> QED
      BY <1>1, <1>2, <2>1, <2>3, <3>2, <3>3
  <2> QED
    BY <2>1, <2>3, <2>4
<1> QED
  BY <1>2, <1>3, <1>5

(* A reduction puts a nonterminal in the place of the body of its rule. *)
Reduced(s, r) ==
  LET below == SubSeq(s, 1, Len(s) - reg_rule_body_lengths[r])
  IN  Append(below, [state |-> RegGoto(Last(below).state, reg_rule_head_idxs[r]),
                     chars |-> <<>>])

LEMMA GotoIs ==
  /\ RegGoto(0, 18) = 1 /\ RegGoto(14, 18) = 19 /\ RegGoto(15, 18) = 20
  /\ \A x \in ExpectsAtom : RegGoto(x, 19) = IF x = 17 THEN 21 ELSE 2
  /\ \A x \in ExpectsAtom : RegGoto(x, 20) = 3
<1>1. RegGoto(0, 18) = 1
  BY DEF RegGoto
<1>2. RegGoto(14, 18) = 19
  BY DEF RegGoto
<1>3. RegGoto(15, 18) = 20
  BY DEF RegGoto
<1>4. ASSUME NEW x \in ExpectsAtom
      PROVE  RegGoto(x, 19) = IF x = 17 THEN 21 ELSE 2
  BY DEF RegGoto
<1>5. ASSUME NEW x \in ExpectsAtom
      PROVE  RegGoto(x, 20) = 3
  BY DEF RegGoto
<1> QED
  BY <1>1, <1>2, <1>3, <1>4, <1>5

LEMMA GotoElement ==
  ASSUME NEW g \in 0 .. 22, g \notin {5, 9, 11}
  PROVE  [state |-> g, chars |-> <<>>] \in StackElement
<1>1. <<>> \in Seq(Chars)
  OBVIOUS
<1> QED
  BY <1>1 DEF StackElement

(* s is the stack below a body of one element ... *)
LEMMA ReduceOne ==
  ASSUME NEW s, GoodStack(s), NEW t, RegReduce(Last(s).state, t) # NotExist,
         NEW r, r = RegReduce(Last(s).state, t), r \notin {1, 3, 5, 16}
  PROVE  /\ GoodStack(Reduced(s, r)) /\ OperandCount(s) \in Nat
         /\ OperandCount(Reduced(s, r)) =
              OperandCount(s) + (IF r \in {2, 4} THEN 0 ELSE 1)
<1>1. Last(s) \in StackElement
  BY FrontAndLast DEF GoodStack
<1>2. PICK top : top = Last(s).state /\ top \in 0 .. 22
  BY <1>1 DEF StackElement
<1>3. /\ r \in 1 .. 16
      /\ r = 2 => top = 2
      /\ r = 4 => top = 3
      /\ r \in 6 .. 15 => top = r - 2
  BY <1>2, ReduceIn
<1>4. PICK f, x : f = Front(s) /\ x = Last(f).state
  OBVIOUS
<1>5. /\ GoodStack(f) /\ Leads(x, top)
      /\ OperandCount(s) = OperandCount(f) + Weight(Last(s))
      /\ OperandCount(f) \in Nat
  <2>1. top # 0
    BY <1>3
  <2> QED
    BY <1>2, <1>4, <2>1, Pop
<1>6. SubSeq(s, 1, Len(s) - reg_rule_body_lengths[r]) = f
  <2>1. reg_rule_body_lengths[r] = 1
    BY <1>3, RuleTables
  <2> QED
    BY <1>4, <2>1, FrontIs DEF GoodStack
<1>7. PICK h, g : h = reg_rule_head_idxs[r] /\ g = RegGoto(x, h)
  OBVIOUS
<1>8. /\ g \in 0 .. 22 /\ g \notin {5, 9, 11} /\ Leads(x, g)
      /\ g \in OperandStates
  <2>1. CASE r = 2
    <3>1. x \in {0, 14, 15}
      BY <1>3, <1>5, <2>1 DEF Leads, ExpectsAtom
    <3>2. h = 18
      BY <1>3, <1>7, <2>1, RuleTables
    <3>3. (x = 0 /\ g = 1) \/ (x = 14 /\ g = 19) \/ (x = 15 /\ g = 20)
      <4>1. g = RegGoto(x, 18)
        BY <1>7, <3>2
      <4> QED
        BY <3>1, <4>1, GotoIs
    <3> QED
      BY <3>3 DEF Leads, OperandStates
  <2>2. CASE r = 4
    <3>1. x \in {0, 14, 15, 17}
      BY <1>3, <1>5, <2>2 DEF Leads, ExpectsAtom
    <3>2. h = 19
      BY <1>3, <1>7, <2>2, RuleTables
    <3>3. (x \in {0, 14, 15} /\ g = 2) \/ (x = 17 /\ g = 21)
      <4>1. g = RegGoto(x, 19) /\ x \in ExpectsAtom
        BY <1>7, <3>1, <3>2 DEF ExpectsAtom
      <4>2. RegGoto(x, 19) = IF x = 17 THEN 21 ELSE 2
        BY <4>1, GotoIs
      <4> QED
        BY <3>1, <4>1, <4>2
    <3> QED
      BY <3>3 DEF Leads, OperandStates
  <2>3. CASE r \in 6 .. 15
    <3>1. x \in {0, 14, 15, 17}
      BY <1>3, <1>5, <2>3 DEF Leads, ExpectsAtom
    <3>2. h = 20
      BY <1>3, <1>7, <2>3, RuleTables
    <3>3. g = 3
      BY <1>7, <3>1, <3>2, GotoIs DEF ExpectsAtom
    <3> QED
      BY <3>1, <3>3 DEF Leads, OperandStates, ExpectsAtom
  <2> QED
    BY <1>3, <2>1, <2>2, <2>3
<1>9. PICK e : e = [state |-> g, chars |-> <<>>]
  OBVIOUS
<1>10. e \in StackElement /\ e.state = g /\ Weight(e) = 1
  BY <1>8, <1>9, GotoElement DEF Weight
<1>11. Reduced(s, r) = Append(f, e)
  BY <1>4, <1>6, <1>7, <1>9 DEF Reduced
<1>12. GoodStack(Append(f, e)) /\ OperandCount(Append(f, e)) = OperandCount(f) + 1
  BY <1>4, <1>5, <1>8, <1>10, Push
<1>13. Weight(Last(s)) = IF r \in {2, 4} THEN 1 ELSE 0
  BY <1>2, <1>3 DEF Weight, OperandStates
<1> QED
  BY <1>3, <1>5, <1>11, <1>12, <1>13

(* ... of two ... *)
LEMMA ReduceTwo ==
  ASSUME NEW s, GoodStack(s), NEW t, RegReduce(Last(s).state, t) # NotExist,
         NEW r, r = RegReduce(Last(s).state, t), r = 5
  PROVE  /\ GoodStack(Reduced(s, r)) /\ OperandCount(s) \in Nat \ {0}
         /\ OperandCount(Reduced(s, r)) = OperandCount(s)
<1>1. Last(s) \in StackElement
  BY FrontAndLast DEF GoodStack
<1>2. PICK top : top = Last(s).state /\ top \in 0 .. 22
  BY <1>1 DEF StackElement
<1>3. top = 18
  BY <1>2, ReduceIn
<1>4. PICK f, y : f = Front(s) /\ y = Last(f).state
  OBVIOUS
<1>5. /\ GoodStack(f) /\ Leads(y, top)
      /\ OperandCount(s) = OperandCount(f) + Weight(Last(s))
  <2>1. Last(s).state # 0
    BY <1>2, <1>3
  <2> QED
    BY <1>2, <1>4, <2>1, Pop
<1>6. y = 3
  BY <1>3, <1>5 DEF Leads
<1>7. PICK ff, x : ff = Front(f) /\ x = Last(ff).state
  OBVIOUS
<1>8. /\ GoodStack(ff) /\ Leads(x, 3)
      /\ OperandCount(f) = OperandCount(ff) + Weight(Last(f))
      /\ OperandCount(ff) \in Nat
  <2>1. Last(f).state = 3
    BY <1>4, <1>6
  <2> QED
    BY <1>5, <1>7, <2>1, Pop
<1>9. SubSeq(s, 1, Len(s) - reg_rule_body_lengths[r]) = ff
  <2>1. reg_rule_body_lengths[r] = 2
    BY RuleTables
  <2>2. f # <<>>
    BY <1>5 DEF GoodStack
  <2> QED
    BY <1>4, <1>7, <2>1, <2>2, FrontIs DEF GoodStack
<1>10. x \in ExpectsAtom
  BY <1>8 DEF Leads
<1>11. RegGoto(x, reg_rule_head_idxs[r]) = 3
  <2>1. reg_rule_head_idxs[r] = 20
    BY RuleTables
  <2> QED
    BY <1>10, <2>1, GotoIs
<1>12. PICK e : e = [state |-> 3, chars |-> <<>>]
  OBVIOUS
<1>13. e \in StackElement /\ e.state = 3 /\ Weight(e) = 1
  BY <1>12, GotoElement DEF Weight, OperandStates
<1>14. Reduced(s, r) = Append(ff, e)
  BY <1>7, <1>9, <1>11, <1>12 DEF Reduced
<1>15. GoodStack(Append(ff, e)) /\ OperandCount(Append(ff, e)) = OperandCount(ff) + 1
  BY <1>7, <1>8, <1>13, Push
<1>16. Weight(Last(s)) = 0 /\ Weight(Last(f)) = 1
  BY <1>2, <1>3, <1>4, <1>6 DEF Weight, OperandStates
<1>17. PICK n : n = OperandCount(ff) /\ n \in Nat
  BY <1>8
<1>18. OperandCount(s) = n + 1
  BY <1>5, <1>8, <1>16, <1>17
<1>19. OperandCount(s) \in Nat \ {0}
  BY <1>17, <1>18
<1>20. OperandCount(Reduced(s, r)) = n + 1
  BY <1>14, <1>15, <1>17
<1> QED
  BY <1>14, <1>15, <1>18, <1>19, <1>20

(* ... and of three. *)
LEMMA ReduceThree ==
  ASSUME NEW s, GoodStack(s), NEW t, RegReduce(Last(s).state, t) # NotExist,
         NEW r, r = RegReduce(Last(s).state, t), r \in {1, 3, 16}
  PROVE  /\ GoodStack(Reduced(s, r)) /\ OperandCount(s) \in Nat
         /\ r \in {1, 3} => /\ OperandCount(s) >= 2
                            /\ OperandCount(Reduced(s, r)) = OperandCount(s) - 1
         /\ r = 16 => OperandCount(Reduced(s, r)) = OperandCount(s)
<1>1. Last(s) \in StackElement
  BY FrontAndLast DEF GoodStack
<1>2. PICK top : top = Last(s).state /\ top \in 0 .. 22
  BY <1>1 DEF StackElement
<1>3. (r = 1 => top = 20) /\ (r = 3 => top = 21) /\ (r = 16 => top = 22)
  BY <1>2, ReduceIn
<1>4. PICK f, z : f = Front(s) /\ z = Last(f).state
  OBVIOUS
<1>5. /\ GoodStack(f) /\ Leads(z, top)
      /\ OperandCount(s) = OperandCount(f) + Weight(Last(s))
  BY <1>2, <1>3, <1>4, Pop
<1>6. (r = 1 => z = 15) /\ (r = 3 => z = 17) /\ (r = 16 => z = 19)
  BY <1>3, <1>5 DEF Leads
<1>7. PICK ff, y : ff = Front(f) /\ y = Last(ff).state
  OBVIOUS
<1>8. /\ GoodStack(ff) /\ Leads(y, z)
      /\ OperandCount(f) = OperandCount(ff) + Weight(Last(f))
  BY <1>4, <1>5, <1>6, <1>7, Pop
<1>9. (r = 1 => y \in {1, 19, 20}) /\ (r = 3 => y \in {2, 21}) /\ (r = 16 => y = 14)
  BY <1>6, <1>8 DEF Leads, ExpectsAtom
<1>10. PICK fff, x : fff = Front(ff) /\ x = Last(fff).state
  OBVIOUS
<1>11. /\ GoodStack(fff) /\ Leads(x, y)
       /\ OperandCount(ff) = OperandCount(fff) + Weight(Last(ff))
       /\ OperandCount(fff) \in Nat
  BY <1>7, <1>8, <1>9, <1>10, Pop
<1>12. SubSeq(s, 1, Len(s) - reg_rule_body_lengths[r]) = fff
  <2>1. reg_rule_body_lengths[r] = 3
    BY RuleTables
  <2>2. f # <<>> /\ ff # <<>>
    BY <1>5, <1>8 DEF GoodStack
  <2> QED
    BY <1>4, <1>7, <1>10, <2>1, <2>2, FrontIs DEF GoodStack
<1>13. PICK h, g : h = reg_rule_head_idxs[r] /\ g = RegGoto(x, h)
  OBVIOUS
<1>14. /\ g \in 0 .. 22 /\ g \notin {5, 9, 11} /\ Leads(x, g)
       /\ g \in OperandStates
  <2>1. CASE r = 1
    <3>1. (x = 0 /\ y = 1) \/ (x = 14 /\ y = 19) \/ (x = 15 /\ y = 20)
      BY <1>9, <1>11, <2>1 DEF Leads
    <3>2. g = RegGoto(x, 18)
      BY <1>13, <2>1, RuleTables
    <3>3. g = y
      BY <3>1, <3>2, GotoIs
    <3> QED
      BY <1>11, <3>1, <3>3 DEF OperandStates
  <2>2. CASE r = 3
    <3>1. x \in {0, 14, 15, 17}
      BY <1>9, <1>11, <2>2 DEF Leads
    <3>2. g = RegGoto(x, 19) /\ x \in ExpectsAtom
      BY <1>13, <2>2, <3>1, RuleTables DEF ExpectsAtom
    <3>3. g = IF x = 17 THEN 21 ELSE 2
      BY <3>2, GotoIs
    <3> QED
      BY <3>1, <3>3 DEF Leads, OperandStates
  <2>3. CASE r = 16
    <3>1. x \in {0, 14, 15, 17}
      BY <1>9, <1>11, <2>3 DEF Leads, ExpectsAtom
    <3>2. g = RegGoto(x, 20) /\ x \in ExpectsAtom
      BY <1>13, <2>3, <3>1, RuleTables DEF ExpectsAtom
    <3>3. g = 3
      BY <3>2, GotoIs
    <3> QED
      BY <3>1, <3>3 DEF Leads, OperandStates, ExpectsAtom
  <2> QED
    BY <2>1, <2>2, <2>3
<1>15. PICK e : e = [state |-> g, chars |-> <<>>]
  OBVIOUS
<1>16. e \in StackElement /\ e.state = g /\ Weight(e) = 1
  BY <1>14, <1>15, GotoElement DEF Weight
<1>17. Reduced(s, r) = Append(fff, e)
  BY <1>10, <1>12, <1>13, <1>15 DEF Reduced
<1>18. GoodStack(Append(fff, e)) /\ OperandCount(Append(fff, e)) = OperandCount(fff) + 1
  BY <1>10, <1>11, <1>14, <1>16, Push
<1>19. /\ r \in {1, 3} => Weight(Last(s)) = 1 /\ Weight(Last(f)) = 0 /\ Weight(Last(ff)) = 1
       /\ r = 16 => Weight(Last(s)) = 0 /\ Weight(Last(f)) = 1 /\ Weight(Last(ff)) = 0
  BY <1>2, <1>3, <1>4, <1>6, <1>7, <1>9 DEF Weight, OperandStates
<1> QED
  BY <1>5, <1>8, <1>11, <1>17, <1>18, <1>19

(* What a step does to the stack and the number of its operands. *)
Change(r) == IF r \in {1, 3} THEN -1 ELSE IF r \in {2, 4, 5, 16} THEN 0 ELSE 1

LEMMA ReducedStack ==
  ASSUME NEW s, GoodStack(s), NEW t, RegReduce(Last(s).state, t) # NotExist,
         NEW r, r = RegReduce(Last(s).state, t)
  PROVE  /\ r \in 1 .. 16
         /\ GoodStack(Reduced(s, r)) /\ OperandCount(s) \in Nat
         /\ OperandCount(Reduced(s, r)) = OperandCount(s) + Change(r)
         /\ r \in {1, 3} => OperandCount(s) >= 2
         /\ r = 5 => OperandCount(s) >= 1
<1>1. Last(s).state \in 0 .. 22
  <2>1. Last(s) \in StackElement
    BY FrontAndLast DEF GoodStack
  <2> QED
    BY <2>1 DEF StackElement
<1>2. r \in 1 .. 16
  BY <1>1, ReduceIn
<1>3. CASE r \in {1, 3, 16}
  BY <1>3, ReduceThree DEF Change
<1>4. CASE r = 5
  <2>1. /\ GoodStack(Reduced(s, r)) /\ OperandCount(s) \in Nat \ {0}
        /\ OperandCount(Reduced(s, r)) = OperandCount(s)
    BY <1>4, ReduceTwo
  <2>2. Change(r) = 0
    BY <1>4 DEF Change
  <2> QED
    BY <1>2, <1>4, <2>1, <2>2
<1>5. CASE r \notin {1, 3, 5, 16}
  <2>1. /\ GoodStack(Reduced(s, r)) /\ OperandCount(s) \in Nat
        /\ OperandCount(Reduced(s, r)) =
              OperandCount(s) + (IF r \in {2, 4} THEN 0 ELSE 1)
    BY <1>5, ReduceOne
  <2> QED
    BY <1>2, <1>5, <2>1 DEF Change
<1> QED
  BY <1>2, <1>3, <1>4, <1>5

-----------------------------------------------------------------------------
(* The parts of the automaton. *)

LEMMA SeqWider ==
  ASSUME NEW S, NEW T, S \subseteq T, NEW s \in Seq(S)
  PROVE  s \in Seq(T)
OBVIOUS

LEMMA StatesWider ==
  ASSUME NEW n \in Nat, NEW m \in Nat, n <= m, NEW e \in StateOver(n)
  PROVE  e \in StateOver(m)
<1>1. MoveOver(n) \subseteq MoveOver(m)
  BY DEF MoveOver
<1>2. e.moves \in Seq(MoveOver(m))
  BY <1>1, SeqWider DEF StateOver
<1> QED
  BY <1>2 DEF StateOver

LEMMA AutomatonLen ==
  ASSUME NEW st, IsAutomaton(st)
  PROVE  Len(st) \in Nat
<1>1. PICK S : st \in Seq(S)
  BY DEF IsAutomaton
<1> QED
  BY <1>1

LEMMA MoreStates ==
  ASSUME NEW st, IsAutomaton(st), NEW n \in Nat, n = Len(st),
         NEW more, NEW m \in Nat, more \in Seq(StateOver(n + m)), Len(more) = m
  PROVE  IsAutomaton(st \o more) /\ Len(st \o more) = n + m
<1>1. st \in Seq(StateOver(n))
  BY DEF IsAutomaton
<1>2. StateOver(n) \subseteq StateOver(n + m)
  BY StatesWider
<1>3. PICK S : S = StateOver(n + m)
  OBVIOUS
<1>4. st \in Seq(S) /\ more \in Seq(S)
  BY <1>1, <1>2, <1>3, SeqWider
<1>5. st \o more \in Seq(S) /\ Len(st \o more) = Len(st) + Len(more)
  BY <1>4, ConcatAt
<1> QED
  BY <1>3, <1>5 DEF IsAutomaton

LEMMA NewStateIs ==
  ASSUME NEW n \in Nat, NEW moves \in Seq(MoveOver(n))
  PROVE  NewState(moves) \in StateOver(n)
BY DEF NewState, StateOver

LEMMA MoveIs ==
  ASSUME NEW n \in Nat, NEW c \in MoveIdx, NEW target \in 1 .. n
  PROVE  Move(c, target) \in MoveOver(n)
BY DEF Move, MoveOver

LEMMA AddMoveIs ==
  ASSUME NEW st, IsAutomaton(st), NEW n \in Nat, n = Len(st),
         NEW s \in 1 .. n, NEW c \in MoveIdx, NEW target \in 1 .. n
  PROVE  IsAutomaton(AddMove(st, s, c, target)) /\ Len(AddMove(st, s, c, target)) = n
<1>1. PICK m : m = Move(c, target) /\ m \in MoveOver(n)
  BY MoveIs
<1>2. PICK e : e = st[s] /\ e \in StateOver(n)
  BY DEF IsAutomaton
<1>3. PICK ms : ms = Append(e.moves, m) /\ ms \in Seq(MoveOver(n))
  <2>1. e.moves \in Seq(MoveOver(n))
    BY <1>2 DEF StateOver
  <2>2. Append(e.moves, m) \in Seq(MoveOver(n))
    BY <1>1, <2>1, AppendOne
  <2> QED
    BY <2>2
<1>4. PICK f : f = [e EXCEPT !.moves = ms] /\ f \in StateOver(n)
  <2>1. [e EXCEPT !.moves = ms] \in StateOver(n)
    BY <1>2, <1>3 DEF StateOver
  <2> QED
    BY <2>1
<1>5. AddMove(st, s, c, target) = [st EXCEPT ![s] = f]
  BY <1>1, <1>2, <1>3, <1>4 DEF AddMove
<1>6. PICK S : S = StateOver(n)
  OBVIOUS
<1>7. st \in Seq(S) /\ f \in S
  BY <1>4, <1>6 DEF IsAutomaton
<1>8. [st EXCEPT ![s] = f] \in Seq(S) /\ Len([st EXCEPT ![s] = f]) = n
  BY <1>7
<1> QED
  BY <1>5, <1>6, <1>8 DEF IsAutomaton

LEMMA DropIs ==
  ASSUME NEW S, NEW s \in Seq(S), NEW k \in Nat, k <= Len(s)
  PROVE  Drop(s, k) \in Seq(S) /\ Len(Drop(s, k)) = Len(s) - k
BY DEF Drop

LEMMA FromEndIs ==
  ASSUME NEW S, NEW s \in Seq(S), NEW k \in Nat, k < Len(s)
  PROVE  FromEnd(s, k) \in S
BY DEF FromEnd

(* One part more, of the states new. *)
LEMMA PartAdded ==
  ASSUME PartInv, NEW new, NEW k \in Nat \ {0},
         new \in Seq(StateOver(Len(states) + k)), Len(new) = k,
         AddPart(new, Len(states) + k)
  PROVE  /\ PartInv'
         /\ Len(begin_idxs)' = Len(begin_idxs) + 1
         /\ Len(end_idxs)' = Len(end_idxs) + 1
<1>1. PICK n : n = Len(states) /\ n \in Nat
  BY AutomatonLen DEF PartInv
<1>2. IsAutomaton(states') /\ Len(states') = n + k
  <2>1. IsAutomaton(states \o new) /\ Len(states \o new) = n + k
    <3>1. new \in Seq(StateOver(n + k)) /\ k \in Nat /\ Len(new) = k
      BY <1>1
    <3>2. IsAutomaton(states)
      BY DEF PartInv
    <3> QED
      BY <1>1, <3>1, <3>2, MoreStates
  <2> QED
    BY <2>1 DEF AddPart
<1>3. PICK S : S = 1 .. n + k
  OBVIOUS
<1>4. begin_idxs \in Seq(S) /\ end_idxs \in Seq(S)
  <2>1. 1 .. n \subseteq S
    BY <1>1, <1>3
  <2> QED
    BY <1>1, <2>1, SeqWider DEF PartInv
<1>5. n + 1 \in S /\ n + k \in S
  BY <1>1, <1>3
<1>6. /\ Append(begin_idxs, n + 1) \in Seq(S) /\ Append(end_idxs, n + k) \in Seq(S)
      /\ Len(Append(begin_idxs, n + 1)) = Len(begin_idxs) + 1
      /\ Len(Append(end_idxs, n + k)) = Len(end_idxs) + 1
  BY <1>4, <1>5
<1>7. begin_idxs' = Append(begin_idxs, n + 1) /\ end_idxs' = Append(end_idxs, n + k)
  BY <1>1 DEF AddPart, Count
<1> QED
  BY <1>2, <1>3, <1>6, <1>7 DEF PartInv

LEMMA MovesAdded ==
  ASSUME PartInv, NEW cs \in Seq(MoveIdx), AddMoves(cs)
  PROVE  /\ PartInv'
         /\ Len(begin_idxs)' = Len(begin_idxs) + 1
         /\ Len(end_idxs)' = Len(end_idxs) + 1
<1>1. PICK n : n = Len(states) /\ n \in Nat
  BY AutomatonLen DEF PartInv
<1>2. PICK ms : ms = [i \in DOMAIN cs |-> Move(cs[i], n + 2)]
  OBVIOUS
<1>3. ms \in Seq(MoveOver(n + 2))
  <2>1. \A i \in DOMAIN cs : Move(cs[i], n + 2) \in MoveOver(n + 2)
    BY <1>1, MoveIs
  <2>2. DOMAIN cs = 1 .. Len(cs) /\ Len(cs) \in Nat
    OBVIOUS
  <2> QED
    BY <1>2, <2>1, <2>2
<1>4. NewState(ms) \in StateOver(n + 2) /\ NewState(<<>>) \in StateOver(n + 2)
  <2>1. <<>> \in Seq(MoveOver(n + 2))
    OBVIOUS
  <2> QED
    <3>1. n + 2 \in Nat
      BY <1>1
    <3> QED
      BY <1>3, <2>1, <3>1, NewStateIs
<1>5. PICK new : new = <<NewState(ms), NewState(<<>>)>>
  OBVIOUS
<1>6. new \in Seq(StateOver(n + 2)) /\ Len(new) = 2
  BY <1>4, <1>5
<1>7. AddPart(new, n + 2)
  BY <1>1, <1>2, <1>5 DEF AddMoves, Count
<1> QED
  <2>1. 2 \in Nat \ {0}
    OBVIOUS
  <2>2. new \in Seq(StateOver(Len(states) + 2)) /\ AddPart(new, Len(states) + 2)
    BY <1>1, <1>6, <1>7
  <2> QED
    BY <1>6, <2>1, <2>2, PartAdded

-----------------------------------------------------------------------------
(* The steps of parse_reg_exp. *)

ReduceStrPart ==
  LET n == Len(Top.chars)
  IN  AddPart([i \in 1 .. n |-> NewState(<<Move(Top.chars[i], Count + i + 1)>>)]
                \o <<NewState(<<>>)>>, Count + n + 1)

LEMMA StrAdded ==
  ASSUME PartInv, Top.chars \in Seq(MoveIdx), ReduceStrPart
  PROVE  /\ PartInv'
         /\ Len(begin_idxs)' = Len(begin_idxs) + 1
         /\ Len(end_idxs)' = Len(end_idxs) + 1
<1>1. PICK n : n = Len(states) /\ n \in Nat
  BY AutomatonLen DEF PartInv
<1>2. PICK cs, k : cs = Top.chars /\ k = Len(cs) /\ cs \in Seq(MoveIdx) /\ k \in Nat
  OBVIOUS
<1>3. PICK chain : chain = [i \in 1 .. k |-> NewState(<<Move(cs[i], n + i + 1)>>)]
  OBVIOUS
<1>4. PICK S : S = StateOver(n + (k + 1))
  OBVIOUS
<1>5. ASSUME NEW i \in 1 .. k
      PROVE  NewState(<<Move(cs[i], n + i + 1)>>) \in S
  <2>1. n + (k + 1) \in Nat /\ cs[i] \in MoveIdx /\ n + i + 1 \in 1 .. n + (k + 1)
    BY <1>1, <1>2
  <2>2. Move(cs[i], n + i + 1) \in MoveOver(n + (k + 1))
    BY <2>1, MoveIs
  <2>3. <<Move(cs[i], n + i + 1)>> \in Seq(MoveOver(n + (k + 1)))
    BY <2>2
  <2> QED
    BY <1>4, <2>1, <2>3, NewStateIs
<1>6. chain \in Seq(S) /\ Len(chain) = k
  BY <1>2, <1>3, <1>5
<1>7. NewState(<<>>) \in S
  <2>1. <<>> \in Seq(MoveOver(n + (k + 1))) /\ n + (k + 1) \in Nat
    BY <1>1, <1>2
  <2> QED
    BY <1>4, <2>1, NewStateIs
<1>8. PICK new : new = chain \o <<NewState(<<>>)>>
  OBVIOUS
<1>9. new \in Seq(S) /\ Len(new) = k + 1
  BY <1>2, <1>6, <1>7, <1>8
<1>10. AddPart(new, n + (k + 1))
  <2>1. AddPart(new, n + k + 1)
    BY <1>1, <1>2, <1>3, <1>8 DEF ReduceStrPart, Count
  <2>2. n + k + 1 = n + (k + 1)
    BY <1>1, <1>2
  <2> QED
    BY <2>1, <2>2
<1>11. k + 1 \in Nat \ {0}
  BY <1>2
<1>12. new \in Seq(StateOver(Len(states) + (k + 1))) /\ AddPart(new, Len(states) + (k + 1))
  BY <1>1, <1>4, <1>9, <1>10
<1> QED
  BY <1>9, <1>11, <1>12, PartAdded

LEMMA AlterAdded ==
  ASSUME PartInv, Len(begin_idxs) >= 2, Len(end_idxs) >= 2, ReduceAlter
  PROVE  /\ PartInv'
         /\ Len(begin_idxs)' = Len(begin_idxs) - 1
         /\ Len(end_idxs)' = Len(end_idxs) - 1
<1>1. PICK n : n = Len(states) /\ n \in Nat
  BY AutomatonLen DEF PartInv
<1>2. PICK m : m = n + 2 /\ m \in Nat
  BY <1>1
<1>3. PICK S : S = 1 .. n
  OBVIOUS
<1>4. begin_idxs \in Seq(S) /\ end_idxs \in Seq(S)
  BY <1>1, <1>3 DEF PartInv
<1>5. PICK b0, b1, e0, e1 :
         /\ b0 = FromEnd(begin_idxs, 0) /\ b1 = FromEnd(begin_idxs, 1)
         /\ e0 = FromEnd(end_idxs, 0) /\ e1 = FromEnd(end_idxs, 1)
  OBVIOUS
<1>6. b0 \in 1 .. m /\ b1 \in 1 .. m /\ e0 \in 1 .. m /\ e1 \in 1 .. m
  <2>1. b0 \in S /\ b1 \in S /\ e0 \in S /\ e1 \in S
    BY <1>4, <1>5, FromEndIs
  <2> QED
    BY <1>1, <1>2, <1>3, <2>1
<1>7. EpsMove \in MoveIdx
  BY DEF MoveIdx
<1>8. PICK begin : begin = NewState(<<Move(EpsMove, b1), Move(EpsMove, b0)>>)
  OBVIOUS
<1>9. PICK new : new = <<begin, NewState(<<>>)>>
  OBVIOUS
<1>10. new \in Seq(StateOver(m)) /\ Len(new) = 2
  <2>1. Move(EpsMove, b1) \in MoveOver(m) /\ Move(EpsMove, b0) \in MoveOver(m)
    BY <1>2, <1>6, <1>7, MoveIs
  <2>2. /\ <<Move(EpsMove, b1), Move(EpsMove, b0)>> \in Seq(MoveOver(m))
        /\ <<>> \in Seq(MoveOver(m))
    BY <2>1
  <2>3. begin \in StateOver(m) /\ NewState(<<>>) \in StateOver(m)
    BY <1>2, <1>8, <2>2, NewStateIs
  <2> QED
    BY <1>9, <2>3
<1>11. PICK grown : grown = states \o new
  OBVIOUS
<1>12. IsAutomaton(grown) /\ Len(grown) = m
  <2>0. PICK k : k = 2
    OBVIOUS
  <2>1. k \in Nat /\ new \in Seq(StateOver(n + k)) /\ Len(new) = k
    BY <1>2, <1>10, <2>0
  <2>2. IsAutomaton(states)
    BY DEF PartInv
  <2>3. IsAutomaton(states \o new) /\ Len(states \o new) = n + k
    BY <1>1, <2>1, <2>2, MoreStates
  <2> QED
    BY <1>2, <1>11, <2>0, <2>3
<1>13. m \in 1 .. m /\ n + 1 \in 1 .. m
  BY <1>1, <1>2
<1>14. PICK second : second = AddMove(grown, e0, EpsMove, m)
  OBVIOUS
<1>15. IsAutomaton(second) /\ Len(second) = m
  BY <1>2, <1>6, <1>7, <1>12, <1>13, <1>14, AddMoveIs
<1>16. PICK third : third = AddMove(second, e1, EpsMove, m)
  OBVIOUS
<1>17. IsAutomaton(third) /\ Len(third) = m
  BY <1>2, <1>6, <1>7, <1>13, <1>15, <1>16, AddMoveIs
<1>18. states' = third
  BY <1>1, <1>2, <1>5, <1>8, <1>9, <1>11, <1>14, <1>16 DEF ReduceAlter, Count
<1>19. PICK T : T = 1 .. m /\ S \subseteq T
  BY <1>1, <1>2, <1>3
<1>20. begin_idxs' \in Seq(T) /\ Len(begin_idxs') = Len(begin_idxs) - 1
  <2>1. begin_idxs \in Seq(T)
    BY <1>4, <1>19, SeqWider
  <2>2. PICK d : /\ d = Drop(begin_idxs, 2) /\ d \in Seq(T)
                 /\ Len(d) = Len(begin_idxs) - 2
    BY <2>1, DropIs
  <2>3. begin_idxs' = Append(d, n + 1)
    BY <1>1, <2>2 DEF ReduceAlter, Count
  <2> QED
    BY <1>13, <1>19, <2>1, <2>2, <2>3
<1>21. end_idxs' \in Seq(T) /\ Len(end_idxs') = Len(end_idxs) - 1
  <2>1. end_idxs \in Seq(T)
    BY <1>4, <1>19, SeqWider
  <2>2. PICK d : /\ d = Drop(end_idxs, 2) /\ d \in Seq(T)
                 /\ Len(d) = Len(end_idxs) - 2
    BY <2>1, DropIs
  <2>3. end_idxs' = Append(d, m)
    BY <1>1, <1>2, <2>2 DEF ReduceAlter, Count
  <2> QED
    BY <1>13, <1>19, <2>1, <2>2, <2>3
<1> QED
  BY <1>17, <1>18, <1>19, <1>20, <1>21 DEF PartInv

LEMMA ConcJoined ==
  ASSUME PartInv, Len(begin_idxs) >= 2, Len(end_idxs) >= 2, ReduceConc
  PROVE  /\ PartInv'
         /\ Len(begin_idxs)' = Len(begin_idxs) - 1
         /\ Len(end_idxs)' = Len(end_idxs) - 1
<1>1. PICK n : n = Len(states) /\ n \in Nat
  BY AutomatonLen DEF PartInv
<1>2. PICK S : S = 1 .. n
  OBVIOUS
<1>3. begin_idxs \in Seq(S) /\ end_idxs \in Seq(S)
  BY <1>1, <1>2 DEF PartInv
<1>4. PICK b0, e0, e1 :
         /\ b0 = FromEnd(begin_idxs, 0)
         /\ e0 = FromEnd(end_idxs, 0) /\ e1 = FromEnd(end_idxs, 1)
  OBVIOUS
<1>5. b0 \in S /\ e0 \in S /\ e1 \in S
  BY <1>3, <1>4, FromEndIs
<1>6. EpsMove \in MoveIdx
  BY DEF MoveIdx
<1>7. /\ IsAutomaton(AddMove(states, e1, EpsMove, b0))
      /\ Len(AddMove(states, e1, EpsMove, b0)) = n
  <2>1. IsAutomaton(states) /\ e1 \in 1 .. n /\ b0 \in 1 .. n
    BY <1>2, <1>5 DEF PartInv
  <2> QED
    BY <1>1, <1>6, <2>1, AddMoveIs
<1>8. states' = AddMove(states, e1, EpsMove, b0)
  BY <1>4 DEF ReduceConc
<1>9. begin_idxs' \in Seq(S) /\ Len(begin_idxs') = Len(begin_idxs) - 1
  <2>1. /\ Drop(begin_idxs, 1) \in Seq(S)
        /\ Len(Drop(begin_idxs, 1)) = Len(begin_idxs) - 1
    BY <1>3, DropIs
  <2> QED
    BY <2>1 DEF ReduceConc
<1>10. end_idxs' \in Seq(S) /\ Len(end_idxs') = Len(end_idxs) - 1
  <2>1. PICK d : /\ d = Drop(end_idxs, 2) /\ d \in Seq(S)
                 /\ Len(d) = Len(end_idxs) - 2
    BY <1>3, DropIs
  <2>2. end_idxs' = Append(d, e0)
    BY <1>4, <2>1 DEF ReduceConc
  <2> QED
    BY <1>3, <1>5, <2>1, <2>2
<1> QED
  BY <1>2, <1>7, <1>8, <1>9, <1>10 DEF PartInv

LEMMA IterClosed ==
  ASSUME PartInv, Len(begin_idxs) >= 1, Len(end_idxs) >= 1, ReduceIter
  PROVE  /\ PartInv'
         /\ Len(begin_idxs)' = Len(begin_idxs)
         /\ Len(end_idxs)' = Len(end_idxs)
<1>1. PICK n : n = Len(states) /\ n \in Nat
  BY AutomatonLen DEF PartInv
<1>2. PICK S : S = 1 .. n
  OBVIOUS
<1>3. begin_idxs \in Seq(S) /\ end_idxs \in Seq(S)
  BY <1>1, <1>2 DEF PartInv
<1>4. PICK b0, e0 : b0 = FromEnd(begin_idxs, 0) /\ e0 = FromEnd(end_idxs, 0)
  OBVIOUS
<1>5. b0 \in S /\ e0 \in S
  BY <1>3, <1>4, FromEndIs
<1>6. EpsMove \in MoveIdx
  BY DEF MoveIdx
<1>7. /\ IsAutomaton(AddMove(states, e0, EpsMove, b0))
      /\ Len(AddMove(states, e0, EpsMove, b0)) = n
  <2>1. IsAutomaton(states) /\ e0 \in 1 .. n /\ b0 \in 1 .. n
    BY <1>2, <1>5 DEF PartInv
  <2> QED
    BY <1>1, <1>6, <2>1, AddMoveIs
<1>8. states' = AddMove(states, e0, EpsMove, b0) /\ begin_idxs' = begin_idxs
  BY <1>4 DEF ReduceIter
<1>9. end_idxs' \in Seq(S) /\ Len(end_idxs') = Len(end_idxs)
  <2>1. PICK d : /\ d = Drop(end_idxs, 1) /\ d \in Seq(S)
                 /\ Len(d) = Len(end_idxs) - 1
    BY <1>3, DropIs
  <2>2. end_idxs' = Append(d, b0)
    BY <1>4, <2>1 DEF ReduceIter
  <2> QED
    BY <1>3, <1>5, <2>1, <2>2
<1> QED
  BY <1>2, <1>3, <1>7, <1>8, <1>9 DEF PartInv

PartsAre(n) == Len(begin_idxs) = n /\ Len(end_idxs) = n

(* What holds in the stage "parse", and what a step has to keep. *)
LEMMA InParse ==
  ASSUME RegExpInv, reg_stage = "parse"
  PROVE  /\ ReadInv /\ GoodStack(reg_stack) /\ PartInv /\ NkaUntouched
         /\ PartsAre(OperandCount(reg_stack)) /\ ms_map_array = <<>>
<1>1. ParseInv /\ PartsOnStack /\ (~InDka => ms_map_array = <<>>)
  BY DEF RegExpInv
<1>2. ~InDka
  BY DEF InDka
<1> QED
  BY <1>1, <1>2 DEF ParseInv, PartsOnStack, PartsAre, OperandCount

LEMMA NoSets ==
  ASSUME ms_map_array = <<>>
  PROVE  SetsDistinct /\ MovesExact
BY DEF SetsDistinct, MovesExact

LEMMA StaysInParse ==
  ASSUME RegExpInv, reg_stage = "parse", UNCHANGED <<reg_stage, nkaVars>>,
         ReadInv', GoodStack(reg_stack'), PartInv',
         PartsAre(OperandCount(reg_stack))'
  PROVE  RegExpInv'
<1>1. reg_stage' = "parse" /\ ~InDka'
  BY DEF InDka
<1>2. NkaUntouched /\ ms_map_array = <<>>
  BY InParse
<1>3. NkaUntouched' /\ ms_map_array' = <<>>
  BY <1>2 DEF NkaUntouched, nkaVars, closureVars
<1>4. ParseInv'
  BY <1>3 DEF ParseInv
<1>5. PartsOnStack'
  BY DEF PartsOnStack, PartsAre, OperandCount
<1>6. StartInv' /\ ClosureInv' /\ SubsetInv'
  BY <1>1 DEF StartInv, ClosureInv, SubsetInv
<1>7. SetsDistinct' /\ MovesExact'
  BY <1>3 DEF SetsDistinct, MovesExact
<1>8. (reg_stage \in Stages)'
  BY <1>1 DEF Stages
<1> QED
  BY <1>3, <1>4, <1>5, <1>6, <1>7, <1>8 DEF RegExpInv

LEMMA FailsInParse ==
  ASSUME RegExpInv, reg_stage = "parse", UNCHANGED nkaVars, reg_stage' = "failed"
  PROVE  RegExpInv'
<1>1. ~InDka'
  BY DEF InDka
<1>2. ms_map_array' = <<>>
  BY InParse DEF nkaVars
<1>3. ParseInv' /\ PartsOnStack' /\ StartInv' /\ ClosureInv' /\ SubsetInv'
  BY <1>1 DEF ParseInv, PartsOnStack, StartInv, ClosureInv, SubsetInv
<1>4. SetsDistinct' /\ MovesExact'
  BY <1>2 DEF SetsDistinct, MovesExact
<1>5. (reg_stage \in Stages)'
  BY DEF Stages
<1> QED
  BY <1>2, <1>3, <1>4, <1>5 DEF RegExpInv

(* Reading. *)
LEMMA TokIs ==
  ASSUME ReadInv
  PROVE  /\ Tok.term \in NotExist .. reg_end
         /\ Tok.term \notin {NotExist, reg_end} =>
              reg_idx \in DOMAIN reg_exp /\ Tok = reg_exp[reg_idx]
<1>1. reg_exp \in Seq(Token) /\ reg_idx \in Nat \ {0}
  BY RegExpAssumption DEF ReadInv
<1>2. CASE reg_idx <= Len(reg_exp)
  <2>1. reg_idx \in DOMAIN reg_exp /\ Tok = reg_exp[reg_idx]
    BY <1>1, <1>2 DEF Tok
  <2>2. Tok \in Token
    BY <1>1, <2>1
  <2>3. Tok.term \in NotExist .. skip
    BY <2>2 DEF Token
  <2> QED
    BY <2>1, <2>3 DEF NotExist, skip, reg_end
<1>3. CASE ~(reg_idx <= Len(reg_exp))
  <2>1. Tok = EndToken
    BY <1>3 DEF Tok
  <2>2. Tok.term = reg_end
    BY <2>1 DEF EndToken
  <2> QED
    BY <2>2 DEF NotExist, reg_end
<1> QED
  BY <1>2, <1>3

LEMMA SkipTokenStep ==
  ASSUME RegExpInv, SkipToken, UNCHANGED nkaVars
  PROVE  RegExpInv'
<1>1. reg_stage = "parse" /\ reg_term = NotExist
  BY DEF SkipToken, Reading
<1>2. /\ ReadInv /\ GoodStack(reg_stack) /\ PartInv
      /\ PartsAre(OperandCount(reg_stack))
  BY <1>1, InParse
<1>3. ReadInv'
  <2>1. reg_exp' \in RegExps /\ reg_idx' \in Nat \ {0} /\ reg_term' = NotExist
    BY <1>1, <1>2 DEF SkipToken, ReadInv
  <2> QED
    BY <2>1 DEF ReadInv, NotExist, reg_end, skip
<1>4. GoodStack(reg_stack') /\ PartInv' /\ PartsAre(OperandCount(reg_stack))'
  BY <1>2 DEF SkipToken, PartInv, partVars, PartsAre
<1> QED
  BY <1>1, <1>3, <1>4, StaysInParse DEF SkipToken

LEMMA ReadTokenStep ==
  ASSUME RegExpInv, ReadToken, UNCHANGED nkaVars
  PROVE  RegExpInv'
<1>1. reg_stage = "parse" /\ reg_term = NotExist
  BY DEF ReadToken, Reading
<1>2. /\ ReadInv /\ GoodStack(reg_stack) /\ PartInv
      /\ PartsAre(OperandCount(reg_stack))
  BY <1>1, InParse
<1>3. ReadInv'
  <2>1. reg_exp' = reg_exp /\ reg_idx' = reg_idx + 1 /\ reg_term' = Tok.term
        /\ Tok.term \notin {skip, NotExist}
    BY DEF ReadToken
  <2>2. reg_exp \in RegExps /\ reg_idx \in Nat \ {0}
    BY <1>2 DEF ReadInv
  <2>3. reg_idx' - 1 = reg_idx /\ reg_idx' \in Nat \ {0}
    BY <2>1, <2>2
  <2>4. reg_term' \in NotExist .. reg_end
    BY <1>2, <2>1, TokIs
  <2>5. ASSUME reg_term' # reg_end
        PROVE  /\ reg_idx' - 1 \in DOMAIN reg_exp'
               /\ reg_exp'[reg_idx' - 1].term = reg_term'
    BY <1>2, <2>1, <2>3, <2>5, TokIs
  <2> QED
    BY <2>1, <2>2, <2>3, <2>4, <2>5 DEF ReadInv
<1>4. GoodStack(reg_stack') /\ PartInv' /\ PartsAre(OperandCount(reg_stack))'
  BY <1>2 DEF ReadToken, PartInv, partVars, PartsAre
<1> QED
  BY <1>1, <1>3, <1>4, StaysInParse DEF ReadToken

(* Shifting. *)
LEMMA ShiftTokenStep ==
  ASSUME RegExpInv, ShiftToken, UNCHANGED nkaVars
  PROVE  RegExpInv'
<1>1. reg_stage = "parse" /\ reg_term # NotExist
  BY DEF ShiftToken, Parsing
<1>2. /\ ReadInv /\ GoodStack(reg_stack) /\ PartInv
      /\ PartsAre(OperandCount(reg_stack))
  BY <1>1, InParse
<1>3. PICK t, i, g, s : /\ t = reg_term /\ i = reg_idx - 1 /\ g = TheShift
                        /\ s = Top.state
  OBVIOUS
<1>4. t \in char_eps .. skip /\ t \notin {NotExist, reg_end, skip}
  <2>1. t \in NotExist .. reg_end /\ t \notin {NotExist, reg_end, skip}
    BY <1>1, <1>2, <1>3 DEF ReadInv, ShiftToken
  <2> QED
    BY <2>1 DEF NotExist, reg_end, skip, char_eps
<1>5. i \in DOMAIN reg_exp /\ reg_exp[i].term = t
  BY <1>2, <1>3, <1>4 DEF ReadInv
<1>6. PICK tok : tok = reg_exp[i] /\ tok \in Token /\ CharsFit(tok)
  <2>1. reg_exp \in RegExps
    BY <1>2 DEF ReadInv
  <2>2. reg_exp \in Seq(Token) /\ CharsFit(reg_exp[i])
    BY <1>5, <2>1, RegExpAssumption
  <2> QED
    BY <1>5, <2>2
<1>7. s \in 0 .. 22 /\ Last(reg_stack).state = s
  <2>1. Last(reg_stack) \in StackElement
    BY <1>2, FrontAndLast DEF GoodStack
  <2> QED
    BY <1>3, <2>1 DEF Top, StackElement
<1>8. /\ g \in 0 .. 22 /\ Leads(s, g) /\ g \notin OperandStates
      /\ g \in {5, 9} => t \in {char, char_no_char}
      /\ g = 11 => t = char_range
  <2>1. g = RegShift(s, t) /\ g # NotExist
    BY <1>3 DEF TheShift, ShiftToken
  <2> QED
    BY <1>4, <1>7, <2>1, ShiftTo
<1>9. PICK e : e = [state |-> g, chars |-> tok.chars]
  OBVIOUS
<1>10. e \in StackElement
  <2>1. tok.chars \in Seq(Chars)
    BY <1>6 DEF Token
  <2>2. tok.term = t
    BY <1>5, <1>6
  <2>3. ASSUME t \in {char, char_no_char}
        PROVE  Len(tok.chars) = 1
    <3>1. /\ tok.term # char_range /\ tok.term \notin {char_alter, char_except}
          /\ tok.term # char_str
      BY <2>2, <2>3 DEF char, char_no_char, char_range, char_alter, char_except,
                        char_str
    <3> QED
      BY <1>6, <2>2, <2>3, <3>1 DEF CharsFit
  <2>4. ASSUME t = char_range
        PROVE  Len(tok.chars) = 2
    <3>1. /\ tok.term \notin {char, char_no_char, char_alter, char_except}
          /\ tok.term # char_str
      BY <2>2, <2>4 DEF char, char_no_char, char_range, char_alter, char_except,
                        char_str
    <3> QED
      BY <1>6, <2>2, <2>4, <3>1 DEF CharsFit
  <2> QED
    BY <1>8, <1>9, <2>1, <2>3, <2>4 DEF StackElement
<1>11. reg_stack' = Append(reg_stack, e)
  BY <1>3, <1>6, <1>9 DEF ShiftToken
<1>12. GoodStack(reg_stack') /\ OperandCount(reg_stack') = OperandCount(reg_stack)
  <2>1. Weight(e) = 0 /\ Leads(Last(reg_stack).state, e.state)
    BY <1>7, <1>8, <1>9 DEF Weight
  <2>2. /\ GoodStack(Append(reg_stack, e))
        /\ OperandCount(Append(reg_stack, e)) = OperandCount(reg_stack) + Weight(e)
        /\ OperandCount(reg_stack) \in Nat
    BY <1>2, <1>10, <2>1, Push
  <2> QED
    BY <1>11, <2>1, <2>2
<1>13. ReadInv'
  <2>1. reg_exp' \in RegExps /\ reg_idx' \in Nat \ {0} /\ reg_term' = NotExist
    BY <1>2 DEF ShiftToken, ReadInv
  <2> QED
    BY <2>1 DEF ReadInv, NotExist, reg_end, skip
<1>14. PartInv' /\ PartsAre(OperandCount(reg_stack))'
  BY <1>2, <1>12 DEF ShiftToken, PartInv, partVars, PartsAre
<1> QED
  BY <1>1, <1>12, <1>13, <1>14, StaysInParse DEF ShiftToken

(* A reduction by a rule changes the stack as the rule says; what is left is
   that it changes the parts as much. *)
LEMMA ReduceByIs ==
  ASSUME RegExpInv, NEW rules, NotExist \notin rules, ReduceBy(rules)
  PROVE  /\ reg_stage = "parse" /\ PartInv
         /\ TheRule \in rules /\ TheRule \in 1 .. 16
         /\ Top \in StackElement
         /\ TheRule \in 6 .. 15 => Top.state = TheRule - 2
         /\ OperandCount(reg_stack) \in Nat /\ PartsAre(OperandCount(reg_stack))
         /\ TheRule \in {1, 3} => OperandCount(reg_stack) >= 2
         /\ TheRule = 5 => OperandCount(reg_stack) >= 1
         /\ GoodStack(reg_stack')
         /\ OperandCount(reg_stack') = OperandCount(reg_stack) + Change(TheRule)
<1>1. reg_stage = "parse" /\ TheRule \in rules
  BY DEF ReduceBy, Parsing
<1>2. GoodStack(reg_stack) /\ PartInv /\ PartsAre(OperandCount(reg_stack))
  BY <1>1, InParse
<1>3. TheRule # NotExist
  BY <1>1
<1>4. PICK r : r = TheRule /\ r = RegReduce(Last(reg_stack).state, reg_term)
  BY DEF TheRule, Top
<1>5. /\ r \in 1 .. 16
      /\ GoodStack(Reduced(reg_stack, r)) /\ OperandCount(reg_stack) \in Nat
      /\ OperandCount(Reduced(reg_stack, r)) = OperandCount(reg_stack) + Change(r)
      /\ r \in {1, 3} => OperandCount(reg_stack) >= 2
      /\ r = 5 => OperandCount(reg_stack) >= 1
  BY <1>2, <1>3, <1>4, ReducedStack
<1>6. reg_stack' = Reduced(reg_stack, r)
  BY <1>4 DEF ReduceBy, Reduced
<1>7. Top \in StackElement
  BY <1>2, FrontAndLast DEF GoodStack, Top
<1>8. r \in 6 .. 15 => Top.state = r - 2
  <2>1. Top.state \in 0 .. 22
    BY <1>7 DEF StackElement
  <2> QED
    BY <1>3, <1>4, <2>1, ReduceIn DEF Top
<1> QED
  BY <1>1, <1>2, <1>4, <1>5, <1>6, <1>7, <1>8

LEMMA ReduceStep ==
  ASSUME RegExpInv, NEW rules, NotExist \notin rules, ReduceBy(rules), UNCHANGED nkaVars,
         PartInv',
         Len(begin_idxs)' = Len(begin_idxs) + Change(TheRule),
         Len(end_idxs)' = Len(end_idxs) + Change(TheRule)
  PROVE  RegExpInv'
<1>1. /\ reg_stage = "parse" /\ PartsAre(OperandCount(reg_stack))
      /\ GoodStack(reg_stack')
      /\ OperandCount(reg_stack') = OperandCount(reg_stack) + Change(TheRule)
  BY ReduceByIs
<1>2. ReadInv
  BY <1>1, InParse
<1>3. ReadInv'
  BY <1>2 DEF ReadInv, ReduceBy, lexVars
<1>4. PartsAre(OperandCount(reg_stack))'
  BY <1>1 DEF PartsAre
<1> QED
  BY <1>1, <1>3, <1>4, StaysInParse DEF ReduceBy

LEMMA ReduceNullStep ==
  ASSUME RegExpInv, ReduceNull, UNCHANGED nkaVars
  PROVE  RegExpInv'
<1>1. ReduceBy({2, 4, 16}) /\ NotExist \notin {2, 4, 16}
  BY DEF ReduceNull, NotExist
<1>2. TheRule \in {2, 4, 16} /\ PartInv /\ PartsAre(OperandCount(reg_stack))
      /\ OperandCount(reg_stack) \in Nat
  BY <1>1, ReduceByIs
<1>3. Change(TheRule) = 0
  BY <1>2 DEF Change
<1>4. /\ PartInv' /\ Len(begin_idxs)' = Len(begin_idxs) + 0
      /\ Len(end_idxs)' = Len(end_idxs) + 0
  BY <1>2 DEF ReduceNull, PartInv, partVars, PartsAre
<1> QED
  BY <1>1, <1>3, <1>4, ReduceStep

LEMMA ReduceAlterStep ==
  ASSUME RegExpInv, ReduceAlter, UNCHANGED nkaVars
  PROVE  RegExpInv'
<1>1. ReduceBy({1}) /\ NotExist \notin {1}
  BY DEF ReduceAlter, NotExist
<1>2. /\ TheRule = 1 /\ PartInv /\ PartsAre(OperandCount(reg_stack))
      /\ OperandCount(reg_stack) \in Nat /\ OperandCount(reg_stack) >= 2
  BY <1>1, ReduceByIs
<1>3. Change(TheRule) = -1
  BY <1>2 DEF Change
<1>4. PartInv' /\ Len(begin_idxs)' = Len(begin_idxs) - 1 /\ Len(end_idxs)' = Len(end_idxs) - 1
  BY <1>2, AlterAdded DEF PartsAre
<1>5. Len(begin_idxs)' = Len(begin_idxs) + (-1) /\ Len(end_idxs)' = Len(end_idxs) + (-1)
  BY <1>2, <1>4 DEF PartsAre
<1> QED
  BY <1>1, <1>3, <1>4, <1>5, ReduceStep

LEMMA ReduceConcStep ==
  ASSUME RegExpInv, ReduceConc, UNCHANGED nkaVars
  PROVE  RegExpInv'
<1>1. ReduceBy({3}) /\ NotExist \notin {3}
  BY DEF ReduceConc, NotExist
<1>2. /\ TheRule = 3 /\ PartInv /\ PartsAre(OperandCount(reg_stack))
      /\ OperandCount(reg_stack) \in Nat /\ OperandCount(reg_stack) >= 2
  BY <1>1, ReduceByIs
<1>3. Change(TheRule) = -1
  BY <1>2 DEF Change
<1>4. PartInv' /\ Len(begin_idxs)' = Len(begin_idxs) - 1 /\ Len(end_idxs)' = Len(end_idxs) - 1
  BY <1>2, ConcJoined DEF PartsAre
<1>5. Len(begin_idxs)' = Len(begin_idxs) + (-1) /\ Len(end_idxs)' = Len(end_idxs) + (-1)
  BY <1>2, <1>4 DEF PartsAre
<1> QED
  BY <1>1, <1>3, <1>4, <1>5, ReduceStep

LEMMA ReduceIterStep ==
  ASSUME RegExpInv, ReduceIter, UNCHANGED nkaVars
  PROVE  RegExpInv'
<1>1. ReduceBy({5}) /\ NotExist \notin {5}
  BY DEF ReduceIter, NotExist
<1>2. /\ TheRule = 5 /\ PartInv /\ PartsAre(OperandCount(reg_stack))
      /\ OperandCount(reg_stack) \in Nat /\ OperandCount(reg_stack) >= 1
  BY <1>1, ReduceByIs
<1>3. Change(TheRule) = 0
  BY <1>2 DEF Change
<1>4. PartInv' /\ Len(begin_idxs)' = Len(begin_idxs) /\ Len(end_idxs)' = Len(end_idxs)
  BY <1>2, IterClosed DEF PartsAre
<1>5. Len(begin_idxs)' = Len(begin_idxs) + 0 /\ Len(end_idxs)' = Len(end_idxs) + 0
  BY <1>2, <1>4 DEF PartsAre
<1> QED
  BY <1>1, <1>3, <1>4, <1>5, ReduceStep

(* The rules of the atoms. *)
LEMMA AtomStep ==
  ASSUME RegExpInv, NEW rules, rules \subseteq 6 .. 15, ReduceBy(rules), UNCHANGED nkaVars,
         PartInv', Len(begin_idxs)' = Len(begin_idxs) + 1,
         Len(end_idxs)' = Len(end_idxs) + 1
  PROVE  RegExpInv'
<1>1. NotExist \notin rules
  BY DEF NotExist
<1>2. TheRule \in 6 .. 15
  BY DEF ReduceBy
<1>3. Change(TheRule) = 1
  BY <1>2 DEF Change
<1> QED
  BY <1>1, <1>3, ReduceStep

LEMMA CharsAreMoves ==
  ASSUME NEW cs \in Seq(Chars)
  PROVE  cs \in Seq(MoveIdx) /\ \A i \in DOMAIN cs : cs[i] \in Chars
<1>1. Chars \subseteq MoveIdx
  BY MoveIdxs
<1>2. cs \in Seq(MoveIdx)
  BY <1>1, SeqWider
<1> QED
  BY <1>2

LEMMA ReduceEpsStep ==
  ASSUME RegExpInv, ReduceEps, UNCHANGED nkaVars
  PROVE  RegExpInv'
<1>1. ReduceBy({6})
  BY DEF ReduceEps
<1>2. PartInv
  BY <1>1, InParse DEF ReduceBy, Parsing
<1>3. PICK new : new = <<NewState(<<>>)>>
  OBVIOUS
<1>4. new \in Seq(StateOver(Len(states) + 1)) /\ Len(new) = 1
  <2>1. Len(states) + 1 \in Nat
    BY <1>2, AutomatonLen DEF PartInv
  <2>2. <<>> \in Seq(MoveOver(Len(states) + 1))
    OBVIOUS
  <2>3. NewState(<<>>) \in StateOver(Len(states) + 1)
    BY <2>1, <2>2, NewStateIs
  <2> QED
    BY <1>3, <2>3
<1>5. AddPart(new, Len(states) + 1)
  BY <1>3 DEF ReduceEps, Count
<1>6. 1 \in Nat \ {0}
  OBVIOUS
<1>7. /\ PartInv' /\ Len(begin_idxs)' = Len(begin_idxs) + 1
      /\ Len(end_idxs)' = Len(end_idxs) + 1
  BY <1>2, <1>4, <1>5, <1>6, PartAdded
<1> QED
  BY <1>1, <1>7, AtomStep

LEMMA MovesStep ==
  ASSUME RegExpInv, NEW rules, rules \subseteq 6 .. 15, ReduceBy(rules), UNCHANGED nkaVars,
         NEW cs \in Seq(MoveIdx), AddMoves(cs)
  PROVE  RegExpInv'
<1>1. PartInv
  BY InParse DEF ReduceBy, Parsing
<1>2. /\ PartInv' /\ Len(begin_idxs)' = Len(begin_idxs) + 1
      /\ Len(end_idxs)' = Len(end_idxs) + 1
  BY <1>1, MovesAdded
<1> QED
  BY <1>2, AtomStep

LEMMA ReduceCharStep ==
  ASSUME RegExpInv, ReduceChar, UNCHANGED nkaVars
  PROVE  RegExpInv'
<1>1. ReduceBy({7, 8, 9, 10, 11}) /\ NotExist \notin {7, 8, 9, 10, 11}
  BY DEF ReduceChar, NotExist
<1>2. /\ TheRule \in {7, 8, 9, 10, 11} /\ Top \in StackElement
      /\ Top.state = TheRule - 2
  BY <1>1, ReduceByIs
<1>3. PICK c : c = CASE TheRule = 7 -> Top.chars[1]
                     [] TheRule = 8 -> reg_char_white
                     [] TheRule = 9 -> reg_char_digit
                     [] TheRule = 10 -> reg_char_letter
                     [] TheRule = 11 -> c_no_char_base + Top.chars[1]
  OBVIOUS
<1>4. c \in MoveIdx
  <2>2. TheRule \in {7, 11} => Top.chars[1] \in Chars
    <3>1. TheRule \in {7, 11} => Top.chars \in Seq(Chars) /\ Len(Top.chars) = 1
      BY <1>2 DEF StackElement
    <3> QED
      BY <3>1, CharsAreMoves
  <2>3. /\ reg_char_white \in MoveIdx /\ reg_char_digit \in MoveIdx
        /\ reg_char_letter \in MoveIdx
        /\ \A x \in Chars : x \in MoveIdx /\ c_no_char_base + x \in MoveIdx
    BY MoveIdxs
  <2>4. CASE TheRule = 7
    BY <1>3, <2>2, <2>3, <2>4
  <2>5. CASE TheRule = 8
    BY <1>3, <2>3, <2>5
  <2>6. CASE TheRule = 9
    BY <1>3, <2>3, <2>6
  <2>7. CASE TheRule = 10
    BY <1>3, <2>3, <2>7
  <2>8. CASE TheRule = 11
    <3>1. c = c_no_char_base + Top.chars[1]
      BY <1>3, <2>8
    <3> QED
      BY <2>2, <2>3, <2>8, <3>1
  <2> QED
    BY <1>2, <2>4, <2>5, <2>6, <2>7, <2>8
<1>5. <<c>> \in Seq(MoveIdx)
  BY <1>4
<1>6. AddMoves(<<c>>)
  BY <1>3 DEF ReduceChar
<1>7. PICK rules : rules = {7, 8, 9, 10, 11}
  OBVIOUS
<1>8. ReduceBy(rules) /\ rules \subseteq 6 .. 15
  BY <1>1, <1>7
<1>9. PICK cs : cs = <<c>>
  OBVIOUS
<1>10. cs \in Seq(MoveIdx) /\ AddMoves(cs)
  BY <1>5, <1>6, <1>9
<1> QED
  BY <1>8, <1>10, MovesStep

LEMMA ReduceStrStep ==
  ASSUME RegExpInv, ReduceStr, UNCHANGED nkaVars
  PROVE  RegExpInv'
<1>1. ReduceBy({12}) /\ NotExist \notin {12}
  BY DEF ReduceStr, NotExist
<1>2. PartInv /\ Top \in StackElement
  BY <1>1, ReduceByIs
<1>3. Top.chars \in Seq(MoveIdx)
  BY <1>2, CharsAreMoves DEF StackElement
<1>4. ReduceStrPart
  BY DEF ReduceStr, ReduceStrPart
<1>5. /\ PartInv' /\ Len(begin_idxs)' = Len(begin_idxs) + 1
      /\ Len(end_idxs)' = Len(end_idxs) + 1
  BY <1>2, <1>3, <1>4, StrAdded
<1> QED
  BY <1>1, <1>5, AtomStep

LEMMA ReduceRangeStep ==
  ASSUME RegExpInv, ReduceRange, UNCHANGED nkaVars
  PROVE  RegExpInv'
<1>1. ReduceBy({13}) /\ NotExist \notin {13}
  BY DEF ReduceRange, NotExist
<1>2. Top \in StackElement /\ Top.state = 11
  BY <1>1, ReduceByIs
<1>3. Top.chars \in Seq(Chars) /\ Len(Top.chars) = 2
  BY <1>2 DEF StackElement
<1>4. PICK a, b : a = Top.chars[1] /\ b = Top.chars[2]
  OBVIOUS
<1>5. a \in Chars /\ b \in Chars /\ a <= b
  BY <1>3, <1>4 DEF ReduceRange
<1>6. PICK cs : cs = [i \in 1 .. b - a + 1 |-> a + i - 1]
  OBVIOUS
<1>7. cs \in Seq(MoveIdx)
  <2>1. \A i \in 1 .. b - a + 1 : a + i - 1 \in MoveIdx
    <3>1. \A i \in 1 .. b - a + 1 : a + i - 1 \in Chars
      BY <1>5, CharCountAssumption DEF Chars
    <3> QED
      BY <3>1, MoveIdxs
  <2>2. b - a + 1 \in Nat
    BY <1>5, CharCountAssumption DEF Chars
  <2> QED
    BY <1>6, <2>1, <2>2
<1>8. AddMoves(cs)
  BY <1>4, <1>6 DEF ReduceRange
<1> QED
  BY <1>1, <1>7, <1>8, MovesStep

LEMMA ReduceCharSetStep ==
  ASSUME RegExpInv, ReduceCharSet, UNCHANGED nkaVars
  PROVE  RegExpInv'
<1>1. ReduceBy({14}) /\ NotExist \notin {14}
  BY DEF ReduceCharSet, NotExist
<1>2. Top \in StackElement
  BY <1>1, ReduceByIs
<1>3. Top.chars \in Seq(MoveIdx)
  BY <1>2, CharsAreMoves DEF StackElement
<1>4. AddMoves(Top.chars)
  BY DEF ReduceCharSet
<1> QED
  BY <1>1, <1>3, <1>4, MovesStep

LEMMA ReduceExceptStep ==
  ASSUME RegExpInv, ReduceExcept, UNCHANGED nkaVars
  PROVE  RegExpInv'
<1>1. ReduceBy({15})
  BY DEF ReduceExcept
<1>2. PICK all : all = [i \in 1 .. c_base_char_cnt |-> i - 1]
  OBVIOUS
<1>3. all \in Seq(MoveIdx)
  <2>1. c_base_char_cnt \in Nat /\ \A i \in 1 .. c_base_char_cnt : i - 1 \in Chars
    BY CharCountAssumption DEF Chars
  <2> QED
    BY <1>2, <2>1, MoveIdxs
<1>4. PICK cs : cs = ElementsIn(all, Chars \ ToSet(Top.chars))
  OBVIOUS
<1>5. cs \in Seq(MoveIdx)
  BY <1>3, <1>4, ElementsInIs
<1>6. AddMoves(cs)
  BY <1>2, <1>4 DEF ReduceExcept
<1> QED
  BY <1>1, <1>5, <1>6, MovesStep

(* The end of the expression. *)
LEMMA AcceptRegExpStep ==
  ASSUME RegExpInv, AcceptRegExp, UNCHANGED nkaVars
  PROVE  RegExpInv'
<1>1. reg_stage = "parse" /\ reg_stage' = "closures"
  BY DEF AcceptRegExp, Parsing
<1>2. /\ GoodStack(reg_stack) /\ PartInv /\ NkaUntouched
      /\ PartsAre(OperandCount(reg_stack)) /\ ms_map_array = <<>>
  BY <1>1, InParse
<1>3. Last(reg_stack).state = 1
  <2>1. RegShift(Last(reg_stack).state, reg_end) # NotExist
    BY DEF AcceptRegExp, TheShift, Top
  <2> QED
    BY <2>1 DEF RegShift, reg_end, char_eps, lr_br, alter, conc, iter, rr_br
<1>4. OperandCount(reg_stack) \in Nat \ {0}
  <2>1. Weight(Last(reg_stack)) = 1
    BY <1>3 DEF Weight, OperandStates
  <2>2. /\ OperandCount(reg_stack) = OperandCount(Front(reg_stack)) + Weight(Last(reg_stack))
        /\ OperandCount(Front(reg_stack)) \in Nat
    BY <1>2, <1>3, Pop
  <2> QED
    BY <2>1, <2>2
<1>5. PICK S : S = 1 .. Len(states)
  OBVIOUS
<1>6. Last(begin_idxs) \in S /\ Last(end_idxs) \in S
  <2>1. begin_idxs \in Seq(S) /\ end_idxs \in Seq(S) /\ begin_idxs # <<>> /\ end_idxs # <<>>
    BY <1>2, <1>4, <1>5 DEF PartInv, PartsAre
  <2> QED
    BY <2>1, FrontAndLast
<1>7. IsAutomaton(states') /\ Len(states') = Len(states)
  <2>1. PICK T, e, f : /\ T = StateOver(Len(states)) /\ e = Last(end_idxs)
                       /\ f = [states[e] EXCEPT !.final = TRUE]
    OBVIOUS
  <2>2. states \in Seq(T) /\ e \in DOMAIN states
    <3>1. states \in Seq(T)
      BY <1>2, <2>1 DEF PartInv, IsAutomaton
    <3> QED
      BY <1>5, <1>6, <2>1, <3>1
  <2>3. f \in T
    <3>1. states[e] \in T
      BY <2>2
    <3> QED
      BY <2>1, <3>1 DEF StateOver
  <2>4. states' = [states EXCEPT ![e] = f]
    BY <2>1 DEF AcceptRegExp
  <2>5. states' \in Seq(T) /\ Len(states') = Len(states)
    BY <2>2, <2>3, <2>4
  <2> QED
    BY <2>1, <2>5 DEF IsAutomaton
<1>8. fas_idx' \in DOMAIN states'
  <2>1. fas_idx' = Last(begin_idxs)
    BY DEF AcceptRegExp
  <2>2. PICK T : states' \in Seq(T)
    BY <1>7 DEF IsAutomaton
  <2> QED
    BY <1>5, <1>6, <1>7, <2>1, <2>2
<1>9. NkaUntouched' /\ ms_map_array' = <<>>
  BY <1>2 DEF NkaUntouched, nkaVars, closureVars
<1>10. StartInv'
  BY <1>7, <1>8, <1>9 DEF StartInv
<1>11. ClosureInv'
  BY <1>9 DEF ClosureInv, NkaUntouched
<1>12. ~InDka' /\ ParseInv' /\ PartsOnStack' /\ SubsetInv'
  BY <1>1 DEF InDka, ParseInv, PartsOnStack, SubsetInv
<1>13. SetsDistinct' /\ MovesExact'
  BY <1>9 DEF SetsDistinct, MovesExact
<1>14. (reg_stage \in Stages)'
  BY <1>1 DEF Stages
<1> QED
  BY <1>9, <1>10, <1>11, <1>12, <1>13, <1>14 DEF RegExpInv

LEMMA ParseStep ==
  ASSUME RegExpInv, ParseNext, UNCHANGED nkaVars
  PROVE  RegExpInv'
<1>1. CASE TokenError \/ ActionError \/ RangeError
  <2>1. reg_stage = "parse" /\ reg_stage' = "failed"
    BY <1>1 DEF TokenError, ActionError, RangeError, Reading, Parsing
  <2> QED
    BY <2>1, FailsInParse
<1>2. CASE SkipToken \/ ReadToken \/ ShiftToken \/ AcceptRegExp
  BY <1>2, SkipTokenStep, ReadTokenStep, ShiftTokenStep, AcceptRegExpStep
<1>3. CASE ReduceNull \/ ReduceAlter \/ ReduceConc \/ ReduceIter
  BY <1>3, ReduceNullStep, ReduceAlterStep, ReduceConcStep, ReduceIterStep
<1>4. CASE ReduceEps \/ ReduceChar \/ ReduceStr
  BY <1>4, ReduceEpsStep, ReduceCharStep, ReduceStrStep
<1>5. CASE ReduceRange \/ ReduceCharSet \/ ReduceExcept
  BY <1>5, ReduceRangeStep, ReduceCharSetStep, ReduceExceptStep
<1> QED
  BY <1>1, <1>2, <1>3, <1>4, <1>5 DEF ParseNext

-----------------------------------------------------------------------------
(* The closures. *)

LEMMA StaysInClosures ==
  ASSUME reg_stage' = "closures", nka_states' # <<>>, ms_map_array' = <<>>,
         ClosureInv'
  PROVE  RegExpInv'
<1>1. ~InDka' /\ (reg_stage \in Stages)'
  BY DEF InDka, Stages
<1>2. ParseInv' /\ PartsOnStack' /\ StartInv' /\ SubsetInv'
  BY <1>1 DEF ParseInv, PartsOnStack, StartInv, SubsetInv
<1>3. SetsDistinct' /\ MovesExact'
  BY DEF SetsDistinct, MovesExact
<1> QED
  BY <1>1, <1>2, <1>3 DEF RegExpInv

LEMMA InClosureStage ==
  ASSUME RegExpInv, reg_stage = "closures", nka_states # <<>>
  PROVE  /\ NkaInv
         /\ states = <<>> /\ msm_queue = <<>> /\ ms_map_array = <<>>
         /\ s_idx \in DOMAIN nka_states /\ Len(eps_closures) = s_idx
         /\ state_idx_stack \in NkaSet
         /\ ToSet(eps_closures[s_idx]) \subseteq processed_states
<1>1. ~InDka
  BY DEF InDka
<1> QED
  BY <1>1 DEF RegExpInv, ClosureInv

LEMMA NkaTypes ==
  ASSUME NkaInv
  PROVE  /\ Len(nka_states) \in Nat /\ DOMAIN nka_states = 1 .. Len(nka_states)
         /\ \A s \in DOMAIN nka_states :
              nka_states[s].moves \in Seq(MoveOver(Len(nka_states)))
<1>1. PICK S : S = StateOver(Len(nka_states)) /\ nka_states \in Seq(S)
  BY DEF NkaInv, IsAutomaton
<1>2. /\ Len(nka_states) \in Nat /\ DOMAIN nka_states = 1 .. Len(nka_states)
      /\ \A s \in DOMAIN nka_states : nka_states[s] \in S
  BY <1>1
<1> QED
  BY <1>1, <1>2 DEF StateOver

LEMMA StartClosuresStep ==
  ASSUME RegExpInv, StartClosures
  PROVE  RegExpInv'
<1>1. reg_stage = "closures" /\ nka_states = <<>>
  BY DEF StartClosures
<1>2. IsAutomaton(states) /\ fas_idx \in DOMAIN states /\ NkaUntouched /\ ms_map_array = <<>>
  BY <1>1 DEF RegExpInv, StartInv, InDka
<1>3. PICK st, n, S : st = states /\ n = Len(st) /\ S = StateOver(n)
  OBVIOUS
<1>4. st \in Seq(S) /\ n \in Nat /\ fas_idx \in 1 .. n
  <2>1. st \in Seq(S)
    BY <1>2, <1>3 DEF IsAutomaton
  <2> QED
    BY <1>2, <1>3, <2>1
<1>5. n # 0 /\ st # <<>>
  BY <1>3, <1>4
<1>6. /\ nka_states' = st /\ nka_fas_idx' = fas_idx /\ states' = <<>>
      /\ eps_closures' = <<<<>>>> /\ state_idx_stack' = <<1>>
      /\ s_idx' = 1 /\ processed_states' = {} /\ msm_queue' = <<>>
      /\ ms_map_array' = <<>> /\ reg_stage' = "closures"
  BY <1>1, <1>2, <1>3 DEF StartClosures, NkaUntouched
<1>7. PICK N : N = Seq(1 .. n)
  OBVIOUS
<1>8. NkaSet' = N
  BY <1>3, <1>6, <1>7 DEF NkaSet
<1>9. eps_closures' \in Seq(N) /\ Len(eps_closures') = 1 /\ eps_closures'[1] = <<>>
  <2>1. <<>> \in N
    BY <1>7
  <2> QED
    BY <1>6, <2>1
<1>10. NkaInv'
  <2>1. \A i \in DOMAIN eps_closures' : IsInjective(eps_closures'[i])
    <3>1. DOMAIN eps_closures' = {1}
      BY <1>6
    <3>2. IsInjective(<<>>)
      BY DEF IsInjective
    <3> QED
      BY <1>9, <3>1, <3>2
  <2>2. IsAutomaton(nka_states')
    BY <1>2, <1>3, <1>6
  <2>3. nka_fas_idx' \in DOMAIN nka_states'
    BY <1>2, <1>3, <1>6
  <2> QED
    BY <1>8, <1>9, <2>1, <2>2, <2>3 DEF NkaInv
<1>11. ClosureInv'
  <2>1. s_idx' \in DOMAIN nka_states' /\ Len(eps_closures') = s_idx'
    BY <1>3, <1>4, <1>5, <1>6, <1>9
  <2>2. state_idx_stack' \in N
    BY <1>4, <1>5, <1>6, <1>7
  <2>3. ToSet(eps_closures'[s_idx']) \subseteq processed_states'
    BY <1>6, <1>9 DEF ToSet
  <2> QED
    BY <1>6, <1>8, <1>10, <2>1, <2>2, <2>3 DEF ClosureInv
<1> QED
  BY <1>5, <1>6, <1>11, StaysInClosures

(* A closure grows to a sequence of states in which none is twice. *)
LEMMA ClosureGrows ==
  ASSUME NkaInv, NEW i \in DOMAIN eps_closures,
         NEW more \in NkaSet, IsInjective(more),
         UNCHANGED <<nka_states, nka_fas_idx>>,
         eps_closures' = [eps_closures EXCEPT ![i] = more]
  PROVE  NkaInv' /\ Len(eps_closures') = Len(eps_closures) /\ eps_closures'[i] = more
<1>1. PICK N : N = NkaSet /\ N = NkaSet'
  BY DEF NkaSet
<1>2. eps_closures \in Seq(N)
  BY <1>1 DEF NkaInv
<1>3. /\ eps_closures' \in Seq(N) /\ Len(eps_closures') = Len(eps_closures)
      /\ DOMAIN eps_closures' = DOMAIN eps_closures /\ eps_closures'[i] = more
      /\ \A j \in DOMAIN eps_closures : j # i => eps_closures'[j] = eps_closures[j]
  BY <1>1, <1>2
<1>4. \A j \in DOMAIN eps_closures' : IsInjective(eps_closures'[j])
  BY <1>3 DEF NkaInv
<1>5. IsAutomaton(nka_states') /\ nka_fas_idx' \in DOMAIN nka_states'
  BY DEF NkaInv
<1> QED
  BY <1>1, <1>3, <1>4, <1>5 DEF NkaInv

LEMMA JoinClosureStep ==
  ASSUME RegExpInv, JoinClosure
  PROVE  RegExpInv'
<1>1. reg_stage = "closures" /\ nka_states # <<>> /\ state_idx_stack # <<>>
  BY DEF JoinClosure, InClosures
<1>2. /\ NkaInv
      /\ states = <<>> /\ msm_queue = <<>> /\ ms_map_array = <<>>
      /\ s_idx \in DOMAIN nka_states /\ Len(eps_closures) = s_idx
      /\ state_idx_stack \in NkaSet
      /\ ToSet(eps_closures[s_idx]) \subseteq processed_states
  BY <1>1, InClosureStage
<1>3. PICK S : S = 1 .. Len(nka_states) /\ NkaSet = Seq(S)
  BY DEF NkaSet
<1>4. Front(state_idx_stack) \in Seq(S) /\ TakenState \in S
  BY <1>1, <1>2, <1>3, FrontAndLast DEF TakenState
<1>5. s_idx \in DOMAIN eps_closures /\ TakenState \in DOMAIN eps_closures
  <2>1. s_idx \in 1 .. Len(nka_states) /\ TakenState < s_idx /\ Len(nka_states) \in Nat
    BY <1>2, NkaTypes DEF JoinClosure
  <2>2. eps_closures \in Seq(Seq(S))
    BY <1>2, <1>3 DEF NkaInv
  <2>3. TakenState \in 1 .. Len(eps_closures) /\ s_idx \in 1 .. Len(eps_closures)
    BY <1>2, <1>3, <1>4, <2>1
  <2> QED
    BY <2>2, <2>3
<1>6. PICK old, known : old = eps_closures[s_idx] /\ known = eps_closures[TakenState]
  OBVIOUS
<1>7. old \in Seq(S) /\ known \in Seq(S)
  <2>1. eps_closures \in Seq(Seq(S))
    BY <1>2, <1>3 DEF NkaInv
  <2> QED
    BY <1>5, <1>6, <2>1
<1>8. PICK both : both = old \o known /\ both \in Seq(S)
                  /\ ToSet(both) = ToSet(old) \union ToSet(known)
  <2>1. old \o known \in Seq(S) /\ ToSet(old \o known) = ToSet(old) \union ToSet(known)
    BY <1>7, ConcatAt, ToSetConcat
  <2> QED
    BY <2>1
<1>9. PICK more : /\ more = AddToSet(old, known)
                  /\ more \in Seq(S) /\ IsInjective(more) /\ ToSet(more) = ToSet(both)
  <2>1. AddToSet(old, known) = Distinct(both)
    BY <1>8 DEF AddToSet
  <2>2. /\ Distinct(both) \in Seq(S) /\ IsInjective(Distinct(both))
        /\ ToSet(Distinct(both)) = ToSet(both)
    BY <1>8, DistinctIs
  <2> QED
    BY <2>1, <2>2
<1>10. /\ eps_closures' = [eps_closures EXCEPT ![s_idx] = more]
       /\ processed_states' = processed_states \union ToSet(known)
       /\ state_idx_stack' = Front(state_idx_stack)
       /\ UNCHANGED <<regVars, nka_states, nka_fas_idx, s_idx, msm_queue, ms_map_array>>
  BY <1>6, <1>9 DEF JoinClosure
<1>11. /\ reg_stage' = "closures" /\ nka_states' # <<>> /\ states' = <<>>
       /\ ms_map_array' = <<>> /\ msm_queue' = <<>>
  BY <1>1, <1>2, <1>10 DEF regVars, partVars
<1>12. NkaInv' /\ Len(eps_closures') = Len(eps_closures) /\ eps_closures'[s_idx] = more
  BY <1>2, <1>3, <1>5, <1>9, <1>10, ClosureGrows
<1>13. ClosureInv'
  <2>1. ToSet(eps_closures'[s_idx']) \subseteq processed_states'
    BY <1>2, <1>6, <1>8, <1>9, <1>10, <1>12
  <2>2. NkaSet' = Seq(S)
    BY <1>3, <1>10 DEF NkaSet
  <2> QED
    BY <1>2, <1>4, <1>10, <1>11, <1>12, <2>1, <2>2 DEF ClosureInv
<1> QED
  BY <1>11, <1>13, StaysInClosures

LEMMA EpsTargetsIn ==
  ASSUME NkaInv, NEW s \in DOMAIN nka_states
  PROVE  EpsTargets(s) \in Seq(1 .. Len(nka_states))
<1>1. PICK n : n = Len(nka_states) /\ n \in Nat
  BY NkaTypes
<1>2. PICK eps : /\ eps = ElementsIn(nka_states[s].moves, MovesWith({EpsMove}))
                 /\ eps \in Seq(MoveOver(n))
  <2>1. nka_states[s].moves \in Seq(MoveOver(n))
    BY <1>1, NkaTypes
  <2>2. ElementsIn(nka_states[s].moves, MovesWith({EpsMove})) \in Seq(MoveOver(n))
    BY <2>1, ElementsInIs
  <2> QED
    BY <2>2
<1>3. \A i \in DOMAIN eps : eps[i].value \in 1 .. n
  <2>1. \A i \in DOMAIN eps : eps[i] \in MoveOver(n)
    BY <1>2
  <2> QED
    BY <2>1 DEF MoveOver
<1>4. DOMAIN eps = 1 .. Len(eps) /\ Len(eps) \in Nat
  BY <1>2
<1>5. [i \in DOMAIN eps |-> eps[i].value] \in Seq(1 .. n)
  BY <1>3, <1>4
<1>6. EpsTargets(s) = [i \in DOMAIN eps |-> eps[i].value]
  BY <1>2 DEF EpsTargets
<1> QED
  BY <1>1, <1>5, <1>6

LEMMA ProcessStateStep ==
  ASSUME RegExpInv, ProcessState
  PROVE  RegExpInv'
<1>1. reg_stage = "closures" /\ nka_states # <<>> /\ state_idx_stack # <<>>
  BY DEF ProcessState, InClosures
<1>2. /\ NkaInv
      /\ states = <<>> /\ msm_queue = <<>> /\ ms_map_array = <<>>
      /\ s_idx \in DOMAIN nka_states /\ Len(eps_closures) = s_idx
      /\ state_idx_stack \in NkaSet
      /\ ToSet(eps_closures[s_idx]) \subseteq processed_states
  BY <1>1, InClosureStage
<1>3. PICK S : S = 1 .. Len(nka_states) /\ NkaSet = Seq(S)
  BY DEF NkaSet
<1>4. Front(state_idx_stack) \in Seq(S) /\ TakenState \in S
  BY <1>1, <1>2, <1>3, FrontAndLast DEF TakenState
<1>5. UNCHANGED <<regVars, nka_states, nka_fas_idx, s_idx, msm_queue, ms_map_array>>
  BY DEF ProcessState
<1>6. /\ reg_stage' = "closures" /\ nka_states' # <<>> /\ states' = <<>>
      /\ ms_map_array' = <<>> /\ msm_queue' = <<>> /\ s_idx' \in DOMAIN nka_states'
      /\ NkaSet' = Seq(S)
  BY <1>1, <1>2, <1>3, <1>5 DEF regVars, partVars, NkaSet
<1>7. SUFFICES /\ NkaInv' /\ Len(eps_closures') = s_idx' /\ state_idx_stack' \in Seq(S)
               /\ ToSet(eps_closures'[s_idx']) \subseteq processed_states'
  <2>1. ASSUME /\ NkaInv' /\ Len(eps_closures') = s_idx' /\ state_idx_stack' \in Seq(S)
               /\ ToSet(eps_closures'[s_idx']) \subseteq processed_states'
        PROVE  ClosureInv'
    BY <1>6, <2>1 DEF ClosureInv
  <2> QED
    BY <1>6, <2>1, StaysInClosures
<1>8. CASE TakenState \in processed_states
  <2>1. /\ state_idx_stack' = Front(state_idx_stack)
        /\ UNCHANGED <<eps_closures, processed_states>>
    BY <1>8 DEF ProcessState
  <2>2. NkaInv'
    BY <1>2, <1>5, <2>1 DEF NkaInv, NkaSet
  <2> QED
    BY <1>2, <1>4, <1>5, <2>1, <2>2
<1>9. CASE TakenState \notin processed_states
  <2>1. /\ state_idx_stack' = Front(state_idx_stack) \o EpsTargets(TakenState)
        /\ eps_closures' =
              IF Matters(TakenState)
                THEN [eps_closures EXCEPT ![s_idx] = Append(@, TakenState)]
                ELSE eps_closures
        /\ processed_states' = processed_states \union {TakenState}
    BY <1>9 DEF ProcessState
  <2>2. state_idx_stack' \in Seq(S)
    <3>1. TakenState \in DOMAIN nka_states
      BY <1>2, <1>3, <1>4, NkaTypes
    <3>2. EpsTargets(TakenState) \in Seq(S)
      BY <1>2, <1>3, <3>1, EpsTargetsIn
    <3> QED
      BY <1>4, <2>1, <3>2, ConcatAt
  <2>3. CASE ~Matters(TakenState)
    <3>1. NkaInv'
      BY <1>2, <1>5, <2>1, <2>3 DEF NkaInv, NkaSet
    <3> QED
      BY <1>2, <1>5, <2>1, <2>2, <2>3, <3>1
  <2>4. CASE Matters(TakenState)
    <3>1. s_idx \in DOMAIN eps_closures
      <4>1. s_idx \in 1 .. Len(nka_states)
        BY <1>2, NkaTypes
      <4>2. eps_closures \in Seq(Seq(S))
        BY <1>2, <1>3 DEF NkaInv
      <4> QED
        BY <1>2, <4>1, <4>2
    <3>2. PICK old : /\ old = eps_closures[s_idx] /\ old \in Seq(S)
                     /\ IsInjective(old) /\ TakenState \notin ToSet(old)
      <4>1. eps_closures \in Seq(Seq(S)) /\ IsInjective(eps_closures[s_idx])
        BY <1>2, <1>3, <3>1 DEF NkaInv
      <4> QED
        BY <1>2, <1>9, <3>1, <4>1
    <3>3. PICK more : /\ more = Append(old, TakenState)
                      /\ more \in Seq(S) /\ IsInjective(more)
                      /\ ToSet(more) = ToSet(old) \union {TakenState}
      <4>1. /\ Append(old, TakenState) \in Seq(S) /\ IsInjective(Append(old, TakenState))
            /\ ToSet(Append(old, TakenState)) = ToSet(old) \union {TakenState}
        BY <1>4, <3>2, AppendOne, InjectiveAppend, ToSetAppend
      <4> QED
        BY <4>1
    <3>4. eps_closures' = [eps_closures EXCEPT ![s_idx] = more]
      BY <2>1, <2>4, <3>2, <3>3
    <3>5. NkaInv' /\ Len(eps_closures') = Len(eps_closures) /\ eps_closures'[s_idx] = more
      BY <1>2, <1>3, <1>5, <3>1, <3>3, <3>4, ClosureGrows
    <3> QED
      BY <1>2, <1>5, <2>1, <2>2, <3>2, <3>3, <3>5
  <2> QED
    BY <2>3, <2>4
<1> QED
  BY <1>8, <1>9

LEMMA NextClosureStep ==
  ASSUME RegExpInv, NextClosure
  PROVE  RegExpInv'
<1>1. reg_stage = "closures" /\ nka_states # <<>> /\ s_idx < Len(nka_states)
  BY DEF NextClosure, ClosureDone
<1>2. /\ NkaInv
      /\ states = <<>> /\ msm_queue = <<>> /\ ms_map_array = <<>>
      /\ s_idx \in DOMAIN nka_states /\ Len(eps_closures) = s_idx
  BY <1>1, InClosureStage
<1>3. PICK n, N : n = Len(nka_states) /\ N = Seq(1 .. n)
  OBVIOUS
<1>4. n \in Nat /\ s_idx \in 1 .. n /\ s_idx + 1 \in 1 .. n /\ DOMAIN nka_states = 1 .. n
  BY <1>1, <1>2, <1>3, NkaTypes
<1>5. /\ s_idx' = s_idx + 1 /\ state_idx_stack' = <<s_idx + 1>>
      /\ processed_states' = {} /\ eps_closures' = Append(eps_closures, <<>>)
      /\ UNCHANGED <<regVars, nka_states, nka_fas_idx, msm_queue, ms_map_array>>
  BY DEF NextClosure
<1>6. /\ reg_stage' = "closures" /\ nka_states' # <<>> /\ states' = <<>>
      /\ ms_map_array' = <<>> /\ msm_queue' = <<>> /\ s_idx' \in DOMAIN nka_states'
      /\ NkaSet' = N
  BY <1>1, <1>2, <1>3, <1>4, <1>5 DEF regVars, partVars, NkaSet
<1>7. eps_closures \in Seq(N) /\ <<>> \in N
  BY <1>2, <1>3 DEF NkaInv, NkaSet
<1>8. /\ eps_closures' \in Seq(N) /\ Len(eps_closures') = s_idx + 1
      /\ eps_closures'[s_idx + 1] = <<>>
      /\ \A i \in DOMAIN eps_closures' :
           i # s_idx + 1 => i \in DOMAIN eps_closures /\ eps_closures'[i] = eps_closures[i]
  BY <1>2, <1>5, <1>7
<1>9. NkaInv'
  <2>1. IsInjective(<<>>)
    BY DEF IsInjective
  <2>2. ASSUME NEW i \in DOMAIN eps_closures'
        PROVE  IsInjective(eps_closures'[i])
    <3>1. CASE i = s_idx + 1
      BY <1>8, <2>1, <3>1
    <3>2. CASE i # s_idx + 1
      BY <1>2, <1>8, <3>2 DEF NkaInv
    <3> QED
      BY <3>1, <3>2
  <2>3. IsAutomaton(nka_states') /\ nka_fas_idx' \in DOMAIN nka_states'
    BY <1>2, <1>5 DEF NkaInv
  <2> QED
    BY <1>6, <1>8, <2>2, <2>3 DEF NkaInv
<1>10. ClosureInv'
  <2>1. state_idx_stack' \in N
    BY <1>3, <1>4, <1>5
  <2>2. ToSet(eps_closures'[s_idx']) \subseteq processed_states'
    BY <1>5, <1>8 DEF ToSet
  <2> QED
    BY <1>5, <1>6, <1>8, <1>9, <2>1, <2>2 DEF ClosureInv
<1> QED
  BY <1>6, <1>10, StaysInClosures

-----------------------------------------------------------------------------
(* The sets. *)

LEMMA StaysInDka ==
  ASSUME reg_stage' \in {"subsets", "done"}, SubsetTypes', SetsDistinct', MovesExact'
  PROVE  RegExpInv'
<1>1. InDka' /\ (reg_stage \in Stages)'
  BY DEF InDka, Stages
<1>2. reg_stage' # "parse" /\ reg_stage' # "closures"
  OBVIOUS
<1>3. ParseInv' /\ PartsOnStack' /\ StartInv' /\ ClosureInv' /\ SubsetInv'
  BY <1>2 DEF ParseInv, PartsOnStack, StartInv, ClosureInv, SubsetInv
<1> QED
  BY <1>1, <1>3 DEF RegExpInv

LEMMA StartSubsetsStep ==
  ASSUME RegExpInv, StartSubsets
  PROVE  RegExpInv'
<1>1. reg_stage = "closures" /\ nka_states # <<>> /\ s_idx = Len(nka_states)
  BY DEF StartSubsets, ClosureDone
<1>2. /\ NkaInv
      /\ states = <<>> /\ ms_map_array = <<>> /\ Len(eps_closures) = s_idx
  BY <1>1, InClosureStage
<1>3. PICK m : m = [char |-> EpsMove, from |-> NotExist, set |-> eps_closures[nka_fas_idx]]
  OBVIOUS
<1>4. /\ reg_stage' = "subsets" /\ msm_queue' = <<m>>
      /\ UNCHANGED <<states, nka_states, nka_fas_idx, eps_closures, ms_map_array>>
  BY <1>3 DEF StartSubsets
<1>5. NkaInv' /\ NkaSet' = NkaSet
  BY <1>2, <1>4 DEF NkaInv, NkaSet
<1>6. m.set \in NkaSet /\ IsInjective(m.set)
  <2>1. eps_closures \in Seq(NkaSet) /\ nka_fas_idx \in DOMAIN nka_states
    BY <1>2 DEF NkaInv
  <2>2. nka_fas_idx \in 1 .. Len(eps_closures)
    BY <1>1, <1>2, <2>1, NkaTypes
  <2>3. nka_fas_idx \in DOMAIN eps_closures
    BY <2>1, <2>2
  <2> QED
    BY <1>2, <1>3, <2>1, <2>3 DEF NkaInv
<1>7. m \in QueueElement'
  BY <1>3, <1>5, <1>6 DEF QueueElement, MoveIdx
<1>8. msm_queue' \in Seq(QueueElement') /\ DOMAIN msm_queue' = {1} /\ msm_queue'[1] = m
  BY <1>4, <1>7
<1>9. SubsetTypes'
  <2>1. Len(eps_closures') = Len(nka_states')
    BY <1>1, <1>2, <1>4
  <2>2. states' = <<>> /\ ms_map_array' = <<>>
    BY <1>2, <1>4
  <2>3. IsAutomaton(states') /\ Len(states') = Len(ms_map_array')
    BY <2>2 DEF IsAutomaton
  <2>4. ms_map_array' \in Seq(NkaSet') /\ \A i \in DOMAIN ms_map_array' : FALSE
    BY <2>2
  <2>5. \A i \in DOMAIN msm_queue' : IsInjective(msm_queue'[i].set)
    BY <1>6, <1>8
  <2>6. FirstSet'
    BY <1>4, <1>8 DEF FirstSet
  <2> QED
    BY <1>5, <1>8, <2>1, <2>3, <2>4, <2>5, <2>6 DEF SubsetTypes
<1>10. SetsDistinct' /\ MovesExact'
  BY <1>2, <1>4 DEF SetsDistinct, MovesExact
<1> QED
  BY <1>4, <1>9, <1>10, StaysInDka

LEMMA InSubsetStage ==
  ASSUME RegExpInv, reg_stage = "subsets"
  PROVE  SubsetTypes /\ SetsDistinct /\ MovesExact
BY DEF RegExpInv, SubsetInv, InDka

(* Arrays without repetition are the same set where they are as long and one
   is in the other. *)
LEMMA SameSet ==
  ASSUME NEW S, NEW a \in Seq(S), IsInjective(a), NEW b \in Seq(S), IsInjective(b)
  PROVE  SetCompare(a, b) <=> ToSet(a) = ToSet(b)
<1>1. /\ IsFiniteSet(ToSet(a)) /\ Cardinality(ToSet(a)) = Len(a)
      /\ IsFiniteSet(ToSet(b)) /\ Cardinality(ToSet(b)) = Len(b)
  BY InjectiveCount
<1>2. ASSUME SetCompare(a, b)
      PROVE  ToSet(a) = ToSet(b)
  <2>1. Len(a) = Len(b) /\ ToSet(a) \subseteq ToSet(b)
    BY <1>2 DEF SetCompare
  <2>2. ToSet(a) \in SUBSET ToSet(b) /\ Cardinality(ToSet(b)) = Cardinality(ToSet(a))
    BY <1>1, <2>1
  <2> QED
    BY <1>1, <2>2, FS_Subset
<1>3. ASSUME ToSet(a) = ToSet(b)
      PROVE  SetCompare(a, b)
  BY <1>1, <1>3 DEF SetCompare
<1> QED
  BY <1>2, <1>3

(* The element that is taken from the queue. *)
LEMMA Taken ==
  ASSUME RegExpInv, InSubsets
  PROVE  /\ SubsetTypes /\ SetsDistinct /\ MovesExact
         /\ TakenMove \in QueueElement /\ IsInjective(TakenMove.set)
         /\ Tail(msm_queue) \in Seq(QueueElement)
         /\ \A i \in DOMAIN Tail(msm_queue) : IsInjective(Tail(msm_queue)[i].set)
         /\ ToSet(msm_queue) = {TakenMove} \union ToSet(Tail(msm_queue))
<1>1. SubsetTypes /\ SetsDistinct /\ MovesExact /\ msm_queue # <<>>
  BY InSubsetStage DEF InSubsets
<1>2. PICK Q : Q = QueueElement
  OBVIOUS
<1>3. msm_queue \in Seq(Q) /\ \A i \in DOMAIN msm_queue : IsInjective(msm_queue[i].set)
  BY <1>1, <1>2 DEF SubsetTypes
<1>4. /\ TakenMove \in Q /\ Tail(msm_queue) \in Seq(Q)
      /\ ToSet(msm_queue) = {TakenMove} \union ToSet(Tail(msm_queue))
  BY <1>1, <1>3, HeadAndTail DEF TakenMove
<1>5. \A m \in ToSet(msm_queue) : IsInjective(m.set)
  BY <1>3 DEF ToSet
<1>6. \A i \in DOMAIN Tail(msm_queue) : Tail(msm_queue)[i] \in ToSet(Tail(msm_queue))
  BY DEF ToSet
<1> QED
  BY <1>1, <1>2, <1>4, <1>5, <1>6

(* MovesExact as a fact about the values of the variables. *)
MovesOf(nka, s) == ElementsIn(nka[s].moves, MovesWith(Nat \ {EpsMove}))
AllMoves(nka, set) == UNION {ToSet(MovesOf(nka, s)) : s \in set}
TargetsIn(nka, eps, set, c) ==
  UNION {ToSet(eps[m.value]) : m \in {m \in AllMoves(nka, set) : m.idx = c}}

MovesRight(nka, eps, ms, st, q, s) ==
  LET set == ToSet(ms[s])
      made == ToSet(st[s].moves)
      waiting == {m \in ToSet(q) : m.from = s}
  IN  /\ \A m \in made : ToSet(ms[m.value]) = TargetsIn(nka, eps, set, m.idx)
      /\ \A m \in waiting : ToSet(m.set) = TargetsIn(nka, eps, set, m.char)
      /\ {m.idx : m \in made} \union {m.char : m \in waiting} =
           {m.idx : m \in AllMoves(nka, set)}

LEMMA ExactIs ==
  /\ MovesExact <=>
       \A s \in DOMAIN ms_map_array :
         MovesRight(nka_states, eps_closures, ms_map_array, states, msm_queue, s)
  /\ MovesExact' <=>
       \A s \in DOMAIN ms_map_array' :
         MovesRight(nka_states', eps_closures', ms_map_array', states', msm_queue', s)
<1>1. MovesExact <=>
       \A s \in DOMAIN ms_map_array :
         MovesRight(nka_states, eps_closures, ms_map_array, states, msm_queue, s)
  BY DEF MovesExact, MovesRight, TargetsOf, TargetsIn, AllMoves, MovesOf, CharMoves
<1>2. MovesExact' <=>
       \A s \in DOMAIN ms_map_array' :
         MovesRight(nka_states', eps_closures', ms_map_array', states', msm_queue', s)
  BY DEF MovesExact, MovesRight, TargetsOf, TargetsIn, AllMoves, MovesOf, CharMoves
<1> QED
  BY <1>1, <1>2

LEMMA SubsetsDoneStep ==
  ASSUME RegExpInv, SubsetsDone
  PROVE  RegExpInv'
<1>1. reg_stage = "subsets" /\ reg_stage' = "done" /\ UNCHANGED <<states, nkaVars>>
  BY DEF SubsetsDone
<1>2. SubsetTypes /\ SetsDistinct /\ MovesExact
  BY <1>1, InSubsetStage
<1>3. SubsetTypes'
  <2>1. FirstSet'
    BY <1>1, <1>2 DEF SubsetTypes, FirstSet, SubsetsDone, nkaVars
  <2> QED
    BY <1>1, <1>2, <2>1 DEF SubsetTypes, NkaInv, NkaSet, QueueElement, nkaVars
<1>4. SetsDistinct' /\ MovesExact'
  <2>1. MovesExact'
    BY <1>1, <1>2, ExactIs DEF nkaVars
  <2> QED
    BY <1>1, <1>2, <2>1 DEF SetsDistinct, nkaVars
<1> QED
  BY <1>1, <1>3, <1>4, StaysInDka

(* A row stays exact when the move m is made, or is not its own. *)
LEMMA RowKept ==
  ASSUME NEW nka, NEW eps, NEW ms, NEW ms2, NEW st, NEW st2, NEW q, NEW q2, NEW s,
         NEW m, NEW target, NEW rest,
         MovesRight(nka, eps, ms, st, q, s),
         ms2[s] = ms[s],
         \A mv \in ToSet(st[s].moves) : ms2[mv.value] = ms[mv.value],
         ToSet(st2[s].moves) = ToSet(st[s].moves) \union
                       (IF s = m.from THEN {Move(m.char, target)} ELSE {}),
         ToSet(ms2[target]) = ToSet(m.set),
         ToSet(q) = {m} \union rest,
         \A x : x \in ToSet(q2) /\ x.from = s <=> x \in rest /\ x.from = s
  PROVE  MovesRight(nka, eps, ms2, st2, q2, s)
<1>1. PICK set, made, made2, waiting, waiting2 :
        /\ set = ToSet(ms[s])
        /\ made = ToSet(st[s].moves) /\ made2 = ToSet(st2[s].moves)
        /\ waiting = {x \in ToSet(q) : x.from = s}
        /\ waiting2 = {x \in ToSet(q2) : x.from = s}
  OBVIOUS
<1>2. /\ \A mv \in made : ToSet(ms[mv.value]) = TargetsIn(nka, eps, set, mv.idx)
      /\ \A x \in waiting : ToSet(x.set) = TargetsIn(nka, eps, set, x.char)
      /\ {mv.idx : mv \in made} \union {x.char : x \in waiting} =
           {mv.idx : mv \in AllMoves(nka, set)}
  BY <1>1 DEF MovesRight
<1>3. waiting2 \subseteq waiting /\ \A x \in waiting : x \in waiting2 \/ x = m
  BY <1>1
<1>4. \A mv \in made2 : ToSet(ms2[mv.value]) = TargetsIn(nka, eps, set, mv.idx)
  <2>1. ASSUME NEW mv \in made2
        PROVE  ToSet(ms2[mv.value]) = TargetsIn(nka, eps, set, mv.idx)
    <3>1. CASE mv \in made
      <4>1. ms2[mv.value] = ms[mv.value]
        BY <1>1, <3>1
      <4> QED
        BY <1>2, <3>1, <4>1
    <3>2. CASE mv \notin made
      <4>1. s = m.from /\ mv = Move(m.char, target)
        BY <1>1, <2>1, <3>2
      <4>2. m \in waiting
        BY <1>1, <4>1
      <4>3. mv.value = target /\ mv.idx = m.char
        BY <4>1 DEF Move
      <4> QED
        BY <1>2, <4>2, <4>3
    <3> QED
      BY <3>1, <3>2
  <2> QED
    BY <2>1
<1>5. {mv.idx : mv \in made2} \union {x.char : x \in waiting2} =
        {mv.idx : mv \in made} \union {x.char : x \in waiting}
  <2>1. CASE s = m.from
    <3>1. made2 = made \union {Move(m.char, target)}
      BY <1>1, <2>1
    <3>2. {mv.idx : mv \in made2} = {mv.idx : mv \in made} \union {m.char}
      <4>1. Move(m.char, target).idx = m.char
        BY DEF Move
      <4> QED
        BY <3>1, <4>1
    <3>3. m \in waiting
      BY <1>1, <2>1
    <3>4. {x.char : x \in waiting} = {x.char : x \in waiting2} \union {m.char}
      \/ {x.char : x \in waiting} = {x.char : x \in waiting2}
      BY <1>3, <3>3
    <3> QED
      BY <1>3, <3>2, <3>3, <3>4
  <2>2. CASE s # m.from
    <3>1. made2 = made /\ waiting2 = waiting
      BY <1>1, <2>2
    <3> QED
      BY <3>1
  <2> QED
    BY <2>1, <2>2
<1> QED
  BY <1>1, <1>2, <1>3, <1>4, <1>5 DEF MovesRight

(* The move m can be made in an automaton of n states, and what that gives. *)
CanBeMade(m, n) == m.char \in MoveIdx /\ m.from \in {NotExist} \union (1 .. n)

MoveMade(st, st2, m, target, n) ==
  /\ IsAutomaton(st2) /\ Len(st2) = n
  /\ \A s \in 1 .. n :
       ToSet(st2[s].moves) = ToSet(st[s].moves) \union
         (IF s = m.from THEN {Move(m.char, target)} ELSE {})

LEMMA WithMoveIs ==
  ASSUME NEW st, IsAutomaton(st), NEW n \in Nat, n = Len(st),
         NEW m, CanBeMade(m, n), NEW target \in 1 .. n
  PROVE  MoveMade(st, WithMove(st, m, target), m, target, n)
<1>0. m.char \in MoveIdx /\ m.from \in {NotExist} \union (1 .. n)
  BY DEF CanBeMade
<1>1. CASE m.from = NotExist
  <2>1. WithMove(st, m, target) = st
    BY <1>1 DEF WithMove
  <2>2. \A s \in 1 .. n : s # m.from
    BY <1>1 DEF NotExist
  <2> QED
    BY <2>1, <2>2 DEF MoveMade
<1>2. CASE m.from \in 1 .. n /\ m.from # NotExist
  <2>1. PICK f, c : f = m.from /\ c = m.char
    OBVIOUS
  <2>2. WithMove(st, m, target) = AddMove(st, f, c, target)
    BY <1>2, <2>1 DEF WithMove
  <2>3. /\ IsAutomaton(AddMove(st, f, c, target)) /\ Len(AddMove(st, f, c, target)) = n
    BY <1>0, <1>2, <2>1, AddMoveIs
  <2>4. PICK S : S = StateOver(n) /\ st \in Seq(S)
    BY DEF IsAutomaton
  <2>5. f \in DOMAIN st
    BY <1>2, <2>1, <2>4
  <2>6. PICK ms, T : ms = st[f].moves /\ T = MoveOver(n)
    OBVIOUS
  <2>7. ms \in Seq(T) /\ Move(c, target) \in T /\ st[f] \in S
    <3>1. st[f] \in S
      BY <2>4, <2>5
    <3>2. st[f].moves \in Seq(MoveOver(n))
      BY <2>4, <3>1 DEF StateOver
    <3>3. Move(c, target) \in MoveOver(n)
      BY <1>0, <2>1, MoveIs
    <3> QED
      BY <2>6, <3>1, <3>2, <3>3
  <2>8. PICK g : g = AddMove(st, f, c, target)
    OBVIOUS
  <2>9. g[f].moves = Append(ms, Move(c, target))
        /\ \A s \in DOMAIN st : s # f => g[s] = st[s]
    <3>1. PICK e : e = [st[f] EXCEPT !.moves = Append(ms, Move(c, target))]
      OBVIOUS
    <3>2. g = [st EXCEPT ![f] = e]
      BY <2>6, <2>8, <3>1 DEF AddMove
    <3>3. e.moves = Append(ms, Move(c, target))
      BY <2>4, <2>7, <3>1 DEF StateOver
    <3> QED
      BY <2>5, <3>2, <3>3
  <2>10. ToSet(Append(ms, Move(c, target))) = ToSet(ms) \union {Move(c, target)}
    BY <2>7, ToSetAppend
  <2>11. DOMAIN st = 1 .. n
    BY <2>4
  <2>12. ASSUME NEW s \in 1 .. n
         PROVE  ToSet(g[s].moves) = ToSet(st[s].moves) \union
                  (IF s = m.from THEN {Move(m.char, target)} ELSE {})
    <3>1. CASE s = f
      BY <2>1, <2>6, <2>9, <2>10, <3>1
    <3>2. CASE s # f
      BY <2>1, <2>9, <2>11, <3>2
    <3> QED
      BY <3>1, <3>2
  <2> QED
    BY <2>2, <2>3, <2>8, <2>12 DEF MoveMade
<1> QED
  BY <1>0, <1>1, <1>2

(* The moves of a row lead to rows. *)
LEMMA MovesLead ==
  ASSUME NEW st, IsAutomaton(st), NEW s \in 1 .. Len(st), NEW mv \in ToSet(st[s].moves)
  PROVE  mv.value \in 1 .. Len(st) /\ mv.idx \in MoveIdx
<1>1. PICK n, S : n = Len(st) /\ S = StateOver(n)
  OBVIOUS
<1>2. st \in Seq(S)
  BY <1>1 DEF IsAutomaton
<1>3. st[s] \in S
  BY <1>1, <1>2
<1>4. st[s].moves \in Seq(MoveOver(n))
  BY <1>1, <1>3 DEF StateOver
<1>5. mv \in MoveOver(n)
  BY <1>4, OwnSeq
<1> QED
  BY <1>1, <1>5 DEF MoveOver

LEMMA TakeKnownSetStep ==
  ASSUME RegExpInv, TakeKnownSet
  PROVE  RegExpInv'
<1>1. InSubsets
  BY DEF TakeKnownSet
<1>2. PICK m, rest : m = TakenMove /\ rest = Tail(msm_queue)
  OBVIOUS
<1>3. /\ SubsetTypes /\ SetsDistinct /\ MovesExact
      /\ m \in QueueElement /\ IsInjective(m.set)
      /\ rest \in Seq(QueueElement)
      /\ \A i \in DOMAIN rest : IsInjective(rest[i].set)
      /\ ToSet(msm_queue) = {m} \union ToSet(rest)
  BY <1>1, <1>2, Taken
<1>4. PICK i \in DOMAIN ms_map_array : /\ SetCompare(ms_map_array[i], m.set)
                                       /\ states' = WithMove(states, m, i)
  BY <1>2 DEF TakeKnownSet
<1>5. /\ reg_stage' = "subsets" /\ msm_queue' = rest
      /\ UNCHANGED <<nka_states, nka_fas_idx, eps_closures, ms_map_array>>
  BY <1>1, <1>2 DEF TakeKnownSet, InSubsets
<1>6. PICK n : n = Len(states) /\ n \in Nat /\ n = Len(ms_map_array)
  BY <1>3, AutomatonLen DEF SubsetTypes
<1>7. DOMAIN ms_map_array = 1 .. n
  BY <1>3, <1>6 DEF SubsetTypes
<1>8. CanBeMade(m, n) /\ m.set \in NkaSet
  BY <1>3, <1>6 DEF QueueElement, CanBeMade
<1>9. /\ IsAutomaton(states') /\ Len(states') = n
      /\ \A s \in 1 .. n :
           ToSet(states'[s].moves) = ToSet(states[s].moves) \union
             (IF s = m.from THEN {Move(m.char, i)} ELSE {})
  <2>1. IsAutomaton(states) /\ i \in 1 .. n
    BY <1>3, <1>4, <1>7 DEF SubsetTypes
  <2>2. MoveMade(states, WithMove(states, m, i), m, i, n)
    BY <1>6, <1>8, <2>1, WithMoveIs
  <2>3. MoveMade(states, states', m, i, n)
    BY <1>4, <2>2
  <2> QED
    BY <2>3 DEF MoveMade
<1>10. ToSet(ms_map_array[i]) = ToSet(m.set)
  <2>1. ms_map_array[i] \in NkaSet /\ IsInjective(ms_map_array[i])
    BY <1>3, <1>4 DEF SubsetTypes
  <2> QED
    BY <1>3, <1>4, <1>8, <2>1, SameSet DEF NkaSet
<1>11. SubsetTypes'
  <2>1. NkaInv' /\ NkaSet' = NkaSet /\ QueueElement' = QueueElement
    BY <1>3, <1>5, <1>6, <1>9 DEF SubsetTypes, NkaInv, NkaSet, QueueElement
  <2>2. FirstSet'
    BY <1>4, <1>5 DEF FirstSet
  <2> QED
    BY <1>3, <1>5, <1>6, <1>9, <2>1, <2>2 DEF SubsetTypes
<1>12. SetsDistinct'
  BY <1>3, <1>5 DEF SetsDistinct
<1>13. MovesExact'
  <2>1. ASSUME NEW s \in 1 .. n
        PROVE  MovesRight(nka_states, eps_closures, ms_map_array, states', rest, s)
    <3>1. MovesRight(nka_states, eps_closures, ms_map_array, states, msm_queue, s)
      BY <1>3, <1>7, ExactIs
    <3>2. ToSet(states'[s].moves) = ToSet(states[s].moves) \union
             (IF s = m.from THEN {Move(m.char, i)} ELSE {})
      BY <1>9
    <3> QED
      BY <1>3, <1>10, <3>1, <3>2, RowKept
  <2> QED
    BY <1>5, <1>7, <2>1, ExactIs
<1> QED
  BY <1>5, <1>11, <1>12, <1>13, StaysInDka

-----------------------------------------------------------------------------
(* A new set: the moves that wait for its state. *)

LEMMA CharMovesIn ==
  ASSUME NkaInv, NEW s \in DOMAIN nka_states
  PROVE  /\ CharMoves(s) \in Seq(MoveOver(Len(nka_states)))
         /\ CharMoves(s) = MovesOf(nka_states, s)
<1>1. nka_states[s].moves \in Seq(MoveOver(Len(nka_states)))
  BY NkaTypes
<1>2. /\ ElementsIn(nka_states[s].moves, MovesWith(Nat \ {EpsMove}))
              \in Seq(MoveOver(Len(nka_states)))
  BY <1>1, ElementsInIs
<1> QED
  BY <1>2 DEF CharMoves, MovesOf

LEMMA CharMovesOfIs ==
  ASSUME NkaInv, NEW set \in NkaSet
  PROVE  /\ CharMovesOf(set) \in Seq(MoveOver(Len(nka_states)))
         /\ ToSet(CharMovesOf(set)) = AllMoves(nka_states, ToSet(set))
<1>1. PICK n, M : n = Len(nka_states) /\ M = MoveOver(n)
  OBVIOUS
<1>2. set \in Seq(1 .. n) /\ DOMAIN nka_states = 1 .. n
  BY <1>1, NkaTypes DEF NkaSet
<1>3. \A i \in DOMAIN set : set[i] \in DOMAIN nka_states
  <2>1. PICK S : S = 1 .. n /\ S = DOMAIN nka_states
    BY <1>2
  <2>2. set \in Seq(S)
    BY <1>2, <2>1
  <2>3. \A i \in DOMAIN set : set[i] \in S
    BY <2>2
  <2> QED
    BY <2>1, <2>3
<1>4. PICK seqs : seqs = [i \in DOMAIN set |-> CharMoves(set[i])]
  OBVIOUS
<1>5. \A i \in DOMAIN set : CharMoves(set[i]) \in Seq(M) /\
                             CharMoves(set[i]) = MovesOf(nka_states, set[i])
  BY <1>1, <1>3, CharMovesIn
<1>6. seqs \in Seq(Seq(M))
  <2>1. DOMAIN set = 1 .. Len(set) /\ Len(set) \in Nat
    BY <1>2
  <2> QED
    BY <1>4, <1>5, <2>1
<1>7. /\ FlattenSeq(seqs) \in Seq(M)
      /\ ToSet(FlattenSeq(seqs)) = UNION {ToSet(t) : t \in ToSet(seqs)}
  BY <1>6, FlattenToSet
<1>8. ToSet(seqs) = {MovesOf(nka_states, s) : s \in ToSet(set)}
  <2>1. DOMAIN seqs = DOMAIN set /\ \A i \in DOMAIN set : seqs[i] = MovesOf(nka_states, set[i])
    BY <1>4, <1>5
  <2> QED
    BY <2>1 DEF ToSet
<1>9. UNION {ToSet(t) : t \in ToSet(seqs)} = AllMoves(nka_states, ToSet(set))
  BY <1>8 DEF AllMoves
<1> QED
  BY <1>1, <1>4, <1>7, <1>9 DEF CharMovesOf

LEMMA TargetSetIs ==
  ASSUME NkaInv, Len(eps_closures) = Len(nka_states), NEW set,
         NEW moves, moves \in Seq(MoveOver(Len(nka_states))),
         ToSet(moves) = AllMoves(nka_states, set), NEW c
  PROVE  /\ TargetSet(moves, c) \in NkaSet /\ IsInjective(TargetSet(moves, c))
         /\ ToSet(TargetSet(moves, c)) = TargetsIn(nka_states, eps_closures, set, c)
<1>1. PICK n, M : n = Len(nka_states) /\ M = MoveOver(n)
  OBVIOUS
<1>2. PICK its : its = ElementsIn(moves, MovesWith({c}))
  OBVIOUS
<1>3. its \in Seq(M) /\ ToSet(its) = ToSet(moves) \cap MovesWith({c})
  BY <1>1, <1>2, ElementsInIs
<1>4. ToSet(its) = {m \in AllMoves(nka_states, set) : m.idx = c}
  <2>1. ToSet(moves) \subseteq M
    BY <1>1, OwnSeq
  <2>2. \A m \in M : m \in MovesWith({c}) <=> m.idx = c
    BY <1>1 DEF MoveOver, MovesWith
  <2> QED
    BY <1>3, <2>1, <2>2
<1>5. PICK S : S = 1 .. n /\ NkaSet = Seq(S)
  BY <1>1 DEF NkaSet
<1>6. PICK seqs : seqs = [i \in DOMAIN its |-> eps_closures[its[i].value]]
  OBVIOUS
<1>7. eps_closures \in Seq(Seq(S)) /\ n \in Nat /\ DOMAIN eps_closures = S
  <2>1. eps_closures \in Seq(Seq(S))
    BY <1>5 DEF NkaInv
  <2>2. n \in Nat
    BY <1>1, NkaTypes
  <2> QED
    BY <1>1, <1>5, <2>1, <2>2
<1>8. seqs \in Seq(Seq(S))
  <2>1. DOMAIN its = 1 .. Len(its) /\ Len(its) \in Nat /\ \A i \in DOMAIN its : its[i] \in M
    BY <1>3
  <2>2. \A i \in DOMAIN its : its[i].value \in S
    BY <1>1, <1>5, <2>1 DEF MoveOver
  <2>3. \A i \in DOMAIN its : eps_closures[its[i].value] \in Seq(S)
    BY <1>7, <2>2
  <2> QED
    BY <1>6, <2>1, <2>3
<1>9. /\ FlattenSeq(seqs) \in Seq(S)
      /\ ToSet(FlattenSeq(seqs)) = UNION {ToSet(t) : t \in ToSet(seqs)}
  BY <1>8, FlattenToSet
<1>10. ToSet(seqs) = {eps_closures[m.value] : m \in ToSet(its)}
  BY <1>6 DEF ToSet
<1>11. UNION {ToSet(t) : t \in ToSet(seqs)} = UNION {ToSet(eps_closures[m.value]) : m \in ToSet(its)}
  BY <1>10
<1>12. UNION {ToSet(eps_closures[m.value]) : m \in ToSet(its)} =
         TargetsIn(nka_states, eps_closures, set, c)
  BY <1>4 DEF TargetsIn
<1>13. /\ Distinct(FlattenSeq(seqs)) \in Seq(S) /\ IsInjective(Distinct(FlattenSeq(seqs)))
       /\ ToSet(Distinct(FlattenSeq(seqs))) = ToSet(FlattenSeq(seqs))
  BY <1>9, DistinctIs
<1>14. TargetSet(moves, c) = Distinct(FlattenSeq(seqs))
  BY <1>2, <1>6 DEF TargetSet
<1> QED
  BY <1>5, <1>9, <1>11, <1>12, <1>13, <1>14

WaitingMoves(n) == [char : MoveIdx, from : {NotExist} \union (1 .. n), set : NkaSet]

NewMovesOf(set, new) ==
  LET moves == CharMovesOf(set)
      chars == Distinct([i \in DOMAIN moves |-> moves[i].idx])
  IN  NewMoves(moves, chars, new)

NewMovesRight(q, set, new) ==
  /\ q \in Seq(WaitingMoves(new)) /\ \A i \in DOMAIN q : IsInjective(q[i].set)
  /\ \A x \in ToSet(q) :
       /\ x.from = new
       /\ ToSet(x.set) = TargetsIn(nka_states, eps_closures, ToSet(set), x.char)
  /\ {x.char : x \in ToSet(q)} = {mv.idx : mv \in AllMoves(nka_states, ToSet(set))}

LEMMA NewMovesAre ==
  ASSUME NkaInv, Len(eps_closures) = Len(nka_states), NEW set \in NkaSet,
         NEW new \in Nat \ {0}
  PROVE  NewMovesRight(NewMovesOf(set, new), set, new)
<1>0. PICK moves, chars, q :
         /\ moves = CharMovesOf(set)
         /\ chars = Distinct([i \in DOMAIN moves |-> moves[i].idx])
         /\ q = NewMoves(moves, chars, new) /\ q = NewMovesOf(set, new)
  BY DEF NewMovesOf
<1>1. PICK n, M : n = Len(nka_states) /\ M = MoveOver(n)
  OBVIOUS
<1>2. moves \in Seq(M) /\ ToSet(moves) = AllMoves(nka_states, ToSet(set))
  BY <1>0, <1>1, CharMovesOfIs
<1>3. PICK idxs : idxs = [i \in DOMAIN moves |-> moves[i].idx]
  OBVIOUS
<1>4. idxs \in Seq(MoveIdx)
  <2>1. DOMAIN moves = 1 .. Len(moves) /\ Len(moves) \in Nat
        /\ \A i \in DOMAIN moves : moves[i] \in M
    BY <1>2
  <2>2. \A i \in DOMAIN moves : moves[i].idx \in MoveIdx
    BY <1>1, <2>1 DEF MoveOver
  <2> QED
    BY <1>3, <2>1, <2>2
<1>5. ToSet(idxs) = {mv.idx : mv \in ToSet(moves)}
  BY <1>3 DEF ToSet
<1>6. chars \in Seq(MoveIdx) /\ ToSet(chars) = ToSet(idxs)
  BY <1>0, <1>3, <1>4, DistinctIs
<1>7. \A c : /\ TargetSet(moves, c) \in NkaSet /\ IsInjective(TargetSet(moves, c))
             /\ ToSet(TargetSet(moves, c)) =
                  TargetsIn(nka_states, eps_closures, ToSet(set), c)
  BY <1>1, <1>2, TargetSetIs
<1>8. /\ DOMAIN q = DOMAIN chars
      /\ \A k \in DOMAIN chars :
           q[k] = [char |-> chars[k], from |-> new, set |-> TargetSet(moves, chars[k])]
  BY <1>0 DEF NewMoves
<1>9. DOMAIN chars = 1 .. Len(chars) /\ Len(chars) \in Nat
      /\ \A k \in DOMAIN chars : chars[k] \in MoveIdx
  BY <1>6
<1>10. \A k \in DOMAIN q : /\ q[k] \in WaitingMoves(new) /\ q[k].from = new
                           /\ q[k].char = chars[k]
                           /\ q[k].set = TargetSet(moves, chars[k])
  <2>1. ASSUME NEW k \in DOMAIN q
        PROVE  /\ q[k] \in WaitingMoves(new) /\ q[k].from = new
               /\ q[k].char = chars[k] /\ q[k].set = TargetSet(moves, chars[k])
    <3>1. PICK c, t, x : c = chars[k] /\ t = TargetSet(moves, c) /\ x = q[k]
      OBVIOUS
    <3>2. c \in MoveIdx /\ t \in NkaSet /\ x = [char |-> c, from |-> new, set |-> t]
      BY <1>7, <1>8, <1>9, <3>1
    <3>3. new \in {NotExist} \union (1 .. new)
      OBVIOUS
    <3>4. x \in WaitingMoves(new) /\ x.from = new /\ x.char = c /\ x.set = t
      BY <3>2, <3>3 DEF WaitingMoves
    <3> QED
      BY <3>1, <3>4
  <2> QED
    BY <2>1
<1>11. q \in Seq(WaitingMoves(new))
  <2>1. q = [k \in 1 .. Len(chars) |-> q[k]]
    BY <1>0, <1>8, <1>9 DEF NewMoves
  <2> QED
    BY <1>8, <1>9, <1>10, <2>1
<1>12. ASSUME NEW x \in ToSet(q)
       PROVE  /\ x.from = new
              /\ ToSet(x.set) = TargetsIn(nka_states, eps_closures, ToSet(set), x.char)
  <2>1. PICK k \in DOMAIN q : x = q[k]
    BY DEF ToSet
  <2> QED
    BY <1>7, <1>10, <2>1
<1>13. {x.char : x \in ToSet(q)} = ToSet(chars)
  <2>1. ASSUME NEW x \in ToSet(q)
        PROVE  x.char \in ToSet(chars)
    <3>1. PICK k \in DOMAIN q : x = q[k]
      BY DEF ToSet
    <3> QED
      BY <1>8, <1>10, <3>1 DEF ToSet
  <2>2. ASSUME NEW c \in ToSet(chars)
        PROVE  \E x \in ToSet(q) : c = x.char
    <3>1. PICK k \in DOMAIN chars : c = chars[k]
      BY DEF ToSet
    <3>2. k \in DOMAIN q /\ q[k].char = c
      BY <1>8, <1>10, <3>1
    <3>3. q[k] \in ToSet(q)
      BY <3>2 DEF ToSet
    <3> QED
      BY <3>2, <3>3
  <2> QED
    BY <2>1, <2>2
<1> QED
  <2>1. \A i \in DOMAIN q : IsInjective(q[i].set)
    BY <1>7, <1>8, <1>10
  <2>2. {x.char : x \in ToSet(q)} = {mv.idx : mv \in AllMoves(nka_states, ToSet(set))}
    BY <1>2, <1>5, <1>6, <1>13
  <2> QED
    BY <1>0, <1>11, <1>12, <2>1, <2>2 DEF NewMovesRight

LEMMA NewRow ==
  ASSUME NEW nka, NEW eps, NEW ms, NEW st, NEW q, NEW s, NEW rest, NEW more, NEW set,
         ToSet(ms[s]) = set, ToSet(st[s].moves) = {},
         ToSet(q) = rest \union more,
         \A x \in rest : x.from # s,
         \A x \in more : x.from = s /\ ToSet(x.set) = TargetsIn(nka, eps, set, x.char),
         {x.char : x \in more} = {mv.idx : mv \in AllMoves(nka, set)}
  PROVE  MovesRight(nka, eps, ms, st, q, s)
<1>1. {x \in ToSet(q) : x.from = s} = more
  OBVIOUS
<1> QED
  BY <1>1 DEF MovesRight

LEMMA TakeNewSetStep ==
  ASSUME RegExpInv, TakeNewSet
  PROVE  RegExpInv'
<1>1. InSubsets
  BY DEF TakeNewSet
<1>2. PICK m, rest : m = TakenMove /\ rest = Tail(msm_queue)
  OBVIOUS
<1>3. /\ SubsetTypes /\ SetsDistinct /\ MovesExact
      /\ m \in QueueElement /\ IsInjective(m.set)
      /\ rest \in Seq(QueueElement)
      /\ \A i \in DOMAIN rest : IsInjective(rest[i].set)
      /\ ToSet(msm_queue) = {m} \union ToSet(rest)
  BY <1>1, <1>2, Taken
<1>4. PICK n, new : /\ n = Len(states) /\ n \in Nat /\ n = Len(ms_map_array)
                    /\ new = n + 1
  BY <1>3, AutomatonLen DEF SubsetTypes
<1>5. PICK e, st0 : /\ e = [final |-> IsFinal(m.set), moves |-> <<>>]
                    /\ st0 = Append(states, e)
  OBVIOUS
<1>6. PICK more : more = NewMovesOf(m.set, new)
  OBVIOUS
<1>7. /\ reg_stage' = "subsets" /\ msm_queue' = rest \o more
      /\ states' = WithMove(st0, m, new)
      /\ ms_map_array' = Append(ms_map_array, m.set)
      /\ UNCHANGED <<nka_states, nka_fas_idx, eps_closures>>
      /\ \A i \in DOMAIN ms_map_array : ~SetCompare(ms_map_array[i], m.set)
  BY <1>1, <1>2, <1>4, <1>5, <1>6 DEF TakeNewSet, InSubsets, NewMovesOf
<1>8. /\ NkaInv /\ Len(eps_closures) = Len(nka_states) /\ IsAutomaton(states)
      /\ ms_map_array \in Seq(NkaSet)
      /\ \A i \in DOMAIN ms_map_array : IsInjective(ms_map_array[i])
      /\ DOMAIN ms_map_array = 1 .. n
  BY <1>3, <1>4 DEF SubsetTypes
<1>9. CanBeMade(m, n) /\ CanBeMade(m, new) /\ m.set \in NkaSet /\ m.from # new
  BY <1>3, <1>4 DEF QueueElement, CanBeMade, NotExist
<1>10. /\ IsAutomaton(st0) /\ Len(st0) = new /\ st0[new] = e
       /\ \A s \in 1 .. n : st0[s] = states[s]
  <2>1. PICK one : one = <<e>>
    OBVIOUS
  <2>2. PICK k : k = 1
    OBVIOUS
  <2>3. k \in Nat /\ one \in Seq(StateOver(n + k)) /\ Len(one) = k
    <3>1. e \in StateOver(n + k)
      <4>1. <<>> \in Seq(MoveOver(n + k)) /\ IsFinal(m.set) \in BOOLEAN
        BY DEF IsFinal
      <4> QED
        BY <1>5, <4>1 DEF StateOver
    <3> QED
      BY <2>1, <2>2, <3>1
  <2>4. IsAutomaton(states \o one)
    BY <1>4, <1>8, <2>3, MoreStates
  <2>5. PICK S : states \in Seq(S) /\ e \in S
    <3>1. PICK T : states \in Seq(T)
      BY <1>8 DEF IsAutomaton
    <3>2. states \in Seq(T \union {e}) /\ e \in T \union {e}
      BY <3>1, SeqWider
    <3> QED
      BY <3>2
  <2>6. states \o one = st0
    BY <1>5, <2>1, <2>5, AppendOne
  <2> QED
    <3>1. /\ Len(st0) = Len(states) + 1 /\ st0[Len(states) + 1] = e
          /\ \A s \in 1 .. Len(states) : st0[s] = states[s]
      BY <1>5, <2>5
    <3> QED
      BY <1>4, <2>4, <2>6, <3>1
<1>11. MoveMade(st0, states', m, new, new)
  <2>1. new \in Nat /\ new \in 1 .. new
    BY <1>4
  <2> QED
    BY <1>7, <1>9, <1>10, <2>1, WithMoveIs
<1>12. /\ more \in Seq(WaitingMoves(new)) /\ \A i \in DOMAIN more : IsInjective(more[i].set)
       /\ \A x \in ToSet(more) :
            /\ x.from = new
            /\ ToSet(x.set) = TargetsIn(nka_states, eps_closures, ToSet(m.set), x.char)
       /\ {x.char : x \in ToSet(more)} =
            {mv.idx : mv \in AllMoves(nka_states, ToSet(m.set))}
  <2>1. new \in Nat \ {0}
    BY <1>4
  <2>2. NewMovesRight(more, m.set, new)
    BY <1>6, <1>8, <1>9, <2>1, NewMovesAre
  <2> QED
    BY <2>2 DEF NewMovesRight
<1>13. PICK Q : Q = WaitingMoves(new) /\ QueueElement \subseteq Q
  <2>1. QueueElement \subseteq WaitingMoves(new)
    BY <1>4 DEF QueueElement, WaitingMoves
  <2> QED
    BY <2>1
<1>14. /\ msm_queue' \in Seq(Q) /\ ToSet(msm_queue') = ToSet(rest) \union ToSet(more)
  <2>1. rest \in Seq(Q) /\ more \in Seq(Q)
    BY <1>3, <1>12, <1>13, SeqWider
  <2> QED
    BY <1>7, <2>1, ConcatAt, ToSetConcat
<1>15. \A i \in DOMAIN msm_queue' : IsInjective(msm_queue'[i].set)
  <2>1. \A x \in ToSet(rest) : IsInjective(x.set)
    BY <1>3 DEF ToSet
  <2>2. \A x \in ToSet(more) : IsInjective(x.set)
    BY <1>12 DEF ToSet
  <2>3. \A i \in DOMAIN msm_queue' : msm_queue'[i] \in ToSet(msm_queue')
    BY DEF ToSet
  <2> QED
    BY <1>14, <2>1, <2>2, <2>3
<1>16. PICK ms2 : ms2 = ms_map_array'
  OBVIOUS
<1>17. /\ ms2 \in Seq(NkaSet) /\ Len(ms2) = new /\ DOMAIN ms2 = 1 .. new
       /\ ms2[new] = m.set /\ \A s \in 1 .. n : ms2[s] = ms_map_array[s]
  <2>1. PICK N : N = NkaSet
    OBVIOUS
  <2> QED
    BY <1>4, <1>7, <1>8, <1>9, <1>16, <2>1
<1>18. \A s \in 1 .. new : s = new \/ s \in 1 .. n
  BY <1>4
<1>19. \A s \in 1 .. new : IsInjective(ms2[s])
  BY <1>3, <1>8, <1>17, <1>18
<1>20. SubsetTypes'
  <2>1. NkaInv' /\ NkaSet' = NkaSet
    BY <1>7, <1>8 DEF NkaInv, NkaSet
  <2>2. IsAutomaton(states') /\ Len(states') = new
    BY <1>11 DEF MoveMade
  <2>3. QueueElement' = Q
    BY <1>13, <2>1, <2>2 DEF QueueElement, WaitingMoves
  <2>4. FirstSet'
    BY <1>4, <1>16, <1>17 DEF FirstSet
  <2> QED
    BY <1>7, <1>8, <1>14, <1>15, <1>16, <1>17, <1>19, <2>1, <2>2, <2>3, <2>4
       DEF SubsetTypes
<1>21. SetsDistinct'
  <2>1. \A s \in 1 .. n : ToSet(ms_map_array[s]) # ToSet(m.set)
    <3>1. ASSUME NEW s \in 1 .. n
          PROVE  ToSet(ms_map_array[s]) # ToSet(m.set)
      <4>1. ms_map_array[s] \in NkaSet /\ IsInjective(ms_map_array[s])
            /\ ~SetCompare(ms_map_array[s], m.set)
        <5>1. PICK N : N = NkaSet
          OBVIOUS
        <5>2. s \in DOMAIN ms_map_array /\ ms_map_array \in Seq(N)
          BY <1>8, <5>1
        <5> QED
          <6>1. ms_map_array[s] \in N
            BY <5>2
          <6>2. IsInjective(ms_map_array[s])
            BY <1>8, <5>2
          <6>3. ~SetCompare(ms_map_array[s], m.set)
            BY <1>7, <5>2
          <6> QED
            BY <5>1, <6>1, <6>2, <6>3
      <4> QED
        BY <1>3, <1>9, <4>1, SameSet DEF NkaSet
    <3> QED
      BY <3>1
  <2>2. ASSUME NEW i \in 1 .. new, NEW j \in 1 .. new, i # j
        PROVE  ToSet(ms2[i]) # ToSet(ms2[j])
    <3>1. CASE i = new
      BY <1>17, <1>18, <2>1, <2>2, <3>1
    <3>2. CASE j = new
      BY <1>17, <1>18, <2>1, <2>2, <3>2
    <3>3. CASE i # new /\ j # new
      BY <1>3, <1>8, <1>17, <1>18, <2>2, <3>3 DEF SetsDistinct
    <3> QED
      BY <3>1, <3>2, <3>3
  <2> QED
    BY <1>16, <1>17, <2>2 DEF SetsDistinct
<1>22. ASSUME NEW s \in 1 .. n
       PROVE  MovesRight(nka_states, eps_closures, ms2, states', msm_queue', s)
  <2>1. MovesRight(nka_states, eps_closures, ms_map_array, states, msm_queue, s)
    BY <1>3, <1>8, ExactIs
  <2>2. ms2[s] = ms_map_array[s]
    BY <1>17
  <2>3. \A mv \in ToSet(states[s].moves) : ms2[mv.value] = ms_map_array[mv.value]
    <3>1. ASSUME NEW mv \in ToSet(states[s].moves)
          PROVE  mv.value \in 1 .. n
      BY <1>4, <1>8, MovesLead
    <3> QED
      BY <1>17, <3>1
  <2>4. ToSet(states'[s].moves) = ToSet(states[s].moves) \union
          (IF s = m.from THEN {Move(m.char, new)} ELSE {})
    <3>1. s \in 1 .. new /\ st0[s] = states[s]
      BY <1>4, <1>10
    <3> QED
      BY <1>11, <3>1 DEF MoveMade
  <2>5. ToSet(ms2[new]) = ToSet(m.set)
    BY <1>17
  <2>6. s # new
    BY <1>4
  <2>7. \A x : x \in ToSet(msm_queue') /\ x.from = s <=> x \in ToSet(rest) /\ x.from = s
    BY <1>12, <1>14, <2>6
  <2> QED
    BY <1>3, <2>1, <2>2, <2>3, <2>4, <2>5, <2>7, RowKept
<1>23. MovesRight(nka_states, eps_closures, ms2, states', msm_queue', new)
  <2>1. ToSet(states'[new].moves) = {}
    <3>1. ToSet(st0[new].moves) = {}
      BY <1>5, <1>10 DEF ToSet
    <3>2. new \in 1 .. new
      BY <1>4
    <3> QED
      BY <1>9, <1>11, <3>1, <3>2 DEF MoveMade
  <2>2. \A x \in ToSet(rest) : x.from # new
    <3>1. ASSUME NEW x \in ToSet(rest)
          PROVE  x.from # new
      <4>1. x \in QueueElement
        BY <1>3, OwnSeq
      <4> QED
        BY <1>4, <4>1 DEF QueueElement, NotExist
    <3> QED
      BY <3>1
  <2>3. ToSet(ms2[new]) = ToSet(m.set)
    BY <1>17
  <2> QED
    BY <1>12, <1>14, <2>1, <2>2, <2>3, NewRow
<1>24. MovesExact'
  <2>1. \A s \in 1 .. new : MovesRight(nka_states, eps_closures, ms2, states', msm_queue', s)
    BY <1>18, <1>22, <1>23
  <2> QED
    BY <1>7, <1>16, <1>17, <2>1, ExactIs
<1> QED
  BY <1>7, <1>20, <1>21, <1>24, StaysInDka

-----------------------------------------------------------------------------
(* The theorems. *)

LEMMA RegExpStarts == RegExpInit => RegExpInv
<1> SUFFICES ASSUME RegExpInit
             PROVE  RegExpInv
  OBVIOUS
<1>1. PICK e : e = [state |-> 0, chars |-> <<>>]
  OBVIOUS
<1>2. e \in StackElement /\ e.state = 0
  BY <1>1, GotoElement
<1>3. /\ reg_stage = "parse" /\ reg_exp \in RegExps /\ reg_idx = 1
      /\ reg_term = NotExist /\ reg_stack = <<e>>
      /\ states = <<>> /\ begin_idxs = <<>> /\ end_idxs = <<>>
      /\ nka_states = <<>> /\ eps_closures = <<>> /\ s_idx = 1
      /\ processed_states = {} /\ msm_queue = <<>> /\ ms_map_array = <<>>
  BY <1>1 DEF RegExpInit, ParseInit, NkaInit
<1>4. ReadInv
  BY <1>3 DEF ReadInv, NotExist, skip, reg_end
<1>5. GoodStack(reg_stack)
  <2>1. <<e>> \in Seq(StackElement) /\ Len(<<e>>) = 1 /\ <<e>>[1] = e /\ <<e>> # <<>>
    BY <1>2
  <2> QED
    BY <1>2, <1>3, <2>1 DEF GoodStack
<1>6. OperandCount(reg_stack) = 0
  <2>1. Operands(reg_stack) = {}
    BY <1>2, <1>3 DEF Operands, OperandStates
  <2> QED
    BY <2>1, FS_EmptySet DEF OperandCount
<1>7. PartInv
  <2>1. IsAutomaton(<<>>)
    BY DEF IsAutomaton
  <2> QED
    BY <1>3, <2>1 DEF PartInv
<1>8. NkaUntouched
  BY <1>3 DEF NkaUntouched
<1>9. ParseInv
  BY <1>4, <1>5, <1>7, <1>8 DEF ParseInv
<1>10. PartsOnStack
  BY <1>3, <1>6 DEF PartsOnStack, OperandCount
<1>11. StartInv /\ ClosureInv /\ SubsetInv
  BY <1>3 DEF StartInv, ClosureInv, SubsetInv, InDka
<1>12. SetsDistinct /\ MovesExact
  BY <1>3 DEF SetsDistinct, MovesExact
<1>13. reg_stage \in Stages
  BY <1>3 DEF Stages
<1> QED
  BY <1>3, <1>9, <1>10, <1>11, <1>12, <1>13 DEF RegExpInv

LEMMA RegExpKeeps == RegExpInv /\ [RegExpNext]_regExpVars => RegExpInv'
<1> SUFFICES ASSUME RegExpInv, [RegExpNext]_regExpVars
             PROVE  RegExpInv'
  OBVIOUS
<1>1. CASE ParseNext /\ UNCHANGED nkaVars
  BY <1>1, ParseStep
<1>2. CASE StartClosures \/ JoinClosure \/ ProcessState \/ NextClosure \/ StartSubsets
  BY <1>2, StartClosuresStep, JoinClosureStep, ProcessStateStep, NextClosureStep,
     StartSubsetsStep
<1>3. CASE TakeKnownSet \/ TakeNewSet \/ SubsetsDone
  BY <1>3, TakeKnownSetStep, TakeNewSetStep, SubsetsDoneStep
<1>4. CASE UNCHANGED regExpVars
  <2>1. UNCHANGED <<reg_stage, reg_exp, reg_idx, reg_term, reg_stack, states, begin_idxs,
                    end_idxs, fas_idx>>
    BY <1>4 DEF regExpVars, regVars, lexVars, partVars
  <2>2. UNCHANGED <<nka_states, nka_fas_idx, eps_closures, s_idx, state_idx_stack,
                    processed_states, msm_queue, ms_map_array>>
    BY <1>4 DEF regExpVars, nkaVars, closureVars
  <2>3. ParseInv' /\ PartsOnStack'
    BY <2>1, <2>2 DEF RegExpInv, ParseInv, ReadInv, PartInv, NkaUntouched, PartsOnStack
  <2>4. StartInv' /\ ClosureInv' /\ SubsetInv'
    BY <2>1, <2>2 DEF RegExpInv, StartInv, ClosureInv, SubsetInv, SubsetTypes, NkaInv,
                      NkaSet, QueueElement, FirstSet, NkaUntouched, InDka
  <2>5. SetsDistinct' /\ MovesExact'
    BY <2>1, <2>2, ExactIs DEF RegExpInv, SetsDistinct
  <2> QED
    BY <2>1, <2>2, <2>3, <2>4, <2>5 DEF RegExpInv, InDka
<1> QED
  BY <1>1, <1>2, <1>3, <1>4 DEF RegExpNext, NkaNext

(* The parser of regular expressions keeps its arrays of the shape that its
   code takes for granted: the elements of lalr_stack follow the table, all
   moves lead to states that exist, no state is twice in a closure or a set
   (parser_code.cc:2354-3052). *)
THEOREM RegExpInvariant == RegExpSpec => []RegExpInv
<1>1. RegExpInit => RegExpInv
  BY RegExpStarts
<1>2. RegExpInv /\ [RegExpNext]_regExpVars => RegExpInv'
  BY RegExpKeeps
<1> QED
  BY <1>1, <1>2, PTL DEF RegExpSpec

(* begin_idxs and end_idxs hold one part for each nonterminal on lalr_stack,
   so a reduction never takes a part that is not there
   (parser_code.cc:2432-2790). *)
THEOREM PartsStayOnStack == RegExpSpec => []PartsOnStack
<1>1. RegExpInv => PartsOnStack
  BY DEF RegExpInv
<1> QED
  BY <1>1, RegExpInvariant, PTL

(* The deterministic automaton is that of the sets of states: each set has one
   state, and a move leads to the state of the set of all that its character
   leads to (NKA_to_DKA, parser_code.cc:2884-3041). *)
THEOREM SubsetsStayExact == RegExpSpec => []SubsetsExact
<1>1. RegExpInv => SubsetsExact
  BY DEF RegExpInv, SubsetsExact
<1> QED
  BY <1>1, RegExpInvariant, PTL

-----------------------------------------------------------------------------
(* What is reached without a character: EpsReach is closed, and it is least. *)
EpsClosed(aut, S) ==
  \A s \in S : \A m \in ToSet(aut[s].moves) : m.idx = EpsMove => m.value \in S

GrowStep(g, aut, S, n) ==
  IF n = 0 THEN S ELSE g[n - 1] \union LeadTo(aut, g[n - 1], EpsMove)

Grows(g, aut, S, n) == g = [k \in 0 .. n |-> GrowStep(g, aut, S, k)]

LEMMA GrownAt ==
  ASSUME NEW aut, NEW S, NEW n \in Nat, NEW g, Grows(g, aut, S, n), NEW k \in 0 .. n
  PROVE  g[k] = GrowStep(g, aut, S, k)
<1> DEFINE F(r) == [j \in 0 .. n |-> GrowStep(r, aut, S, j)]
<1>1. g = F(g)
  BY DEF Grows
<1>2. F(g)[k] = GrowStep(g, aut, S, k)
  OBVIOUS
<1> HIDE DEF F
<1> QED
  BY <1>1, <1>2

LEMMA GrownExists ==
  ASSUME NEW aut, NEW S, NEW n \in Nat
  PROVE  \E g : Grows(g, aut, S, n)
<1> DEFINE P == {k \in Nat : \E g : Grows(g, aut, S, k)}
<1>1. 0 \in P
  <2>1. PICK g : g = [k \in 0 .. 0 |-> S]
    OBVIOUS
  <2>2. g = [k \in 0 .. 0 |-> GrowStep(g, aut, S, k)]
    BY <2>1 DEF GrowStep
  <2> QED
    BY <2>2 DEF Grows
<1>2. ASSUME NEW k \in Nat, k \in P
      PROVE  k + 1 \in P
  <2>1. PICK g : Grows(g, aut, S, k)
    BY <1>2
  <2> DEFINE more == [j \in 0 .. k + 1 |-> GrowStep(g, aut, S, j)]
  <2>2. ASSUME NEW j \in 0 .. k
        PROVE  more[j] = g[j]
    <3>1. g[j] = GrowStep(g, aut, S, j)
      BY <2>1, GrownAt
    <3> QED
      BY <3>1
  <2>3. ASSUME NEW j \in 0 .. k + 1
        PROVE  GrowStep(more, aut, S, j) = GrowStep(g, aut, S, j)
    <3>1. CASE j = 0
      BY <3>1 DEF GrowStep
    <3>2. CASE j # 0
      <4>1. j - 1 \in 0 .. k
        BY <3>2
      <4>2. more[j - 1] = g[j - 1]
        BY <2>2, <4>1
      <4> HIDE DEF more
      <4> QED
        BY <4>2 DEF GrowStep
    <3> QED
      BY <3>1, <3>2
  <2>4. more = [j \in 0 .. k + 1 |-> GrowStep(more, aut, S, j)]
    BY <2>3
  <2> HIDE DEF more
  <2>5. Grows(more, aut, S, k + 1)
    BY <2>4 DEF Grows
  <2> QED
    BY <2>5
<1> HIDE DEF P
<1>3. n \in P
  BY <1>1, <1>2, SetInduction
<1> QED
  BY <1>3 DEF P

LEMMA ReachIs ==
  ASSUME NEW aut, NEW S, Len(aut) \in Nat
  PROVE  \E g : Grows(g, aut, S, Len(aut)) /\ EpsReach(aut, S) = g[Len(aut)]
<1> DEFINE g == CHOOSE g : Grows(g, aut, S, Len(aut))
<1>1. Grows(g, aut, S, Len(aut))
  BY GrownExists
<1>2. EpsReach(aut, S) = g[Len(aut)]
  BY DEF EpsReach, Grows, GrowStep
<1> QED
  BY <1>1, <1>2

LEMMA LeadsIn ==
  ASSUME NEW aut, IsAutomaton(aut), NEW S \in SUBSET (1 .. Len(aut)), NEW c
  PROVE  LeadTo(aut, S, c) \subseteq 1 .. Len(aut)
<1>1. ASSUME NEW s \in S, NEW m \in ToSet(aut[s].moves)
      PROVE  m.value \in 1 .. Len(aut)
  BY MovesLead
<1> QED
  BY <1>1 DEF LeadTo, MovesFrom

LEMMA ClosedIs ==
  ASSUME NEW aut, NEW S
  PROVE  EpsClosed(aut, S) <=> LeadTo(aut, S, EpsMove) \subseteq S
BY DEF EpsClosed, LeadTo, MovesFrom

LEMMA ReachLeast ==
  ASSUME NEW aut, Len(aut) \in Nat, NEW S, NEW X, S \subseteq X, EpsClosed(aut, X)
  PROVE  S \subseteq EpsReach(aut, S) /\ EpsReach(aut, S) \subseteq X
<1>1. PICK n, g : /\ n = Len(aut) /\ n \in Nat
                  /\ Grows(g, aut, S, n) /\ EpsReach(aut, S) = g[n]
  BY ReachIs
<1> DEFINE P == {k \in Nat : k <= n => S \subseteq g[k] /\ g[k] \subseteq X}
<1>2. 0 \in P
  <2>1. g[0] = S
    <3>1. g[0] = GrowStep(g, aut, S, 0)
      BY <1>1, GrownAt
    <3> QED
      BY <3>1 DEF GrowStep
  <2> QED
    BY <2>1
<1>3. ASSUME NEW k \in Nat, k \in P
      PROVE  k + 1 \in P
  <2> SUFFICES ASSUME k + 1 <= n
               PROVE  S \subseteq g[k + 1] /\ g[k + 1] \subseteq X
    OBVIOUS
  <2>1. S \subseteq g[k] /\ g[k] \subseteq X
    BY <1>1, <1>3
  <2>2. g[k + 1] = g[k] \union LeadTo(aut, g[k], EpsMove)
    <3>1. k + 1 \in 0 .. n /\ k + 1 # 0 /\ (k + 1) - 1 = k
      BY <1>1
    <3>2. g[k + 1] = GrowStep(g, aut, S, k + 1)
      BY <1>1, <3>1, GrownAt
    <3> QED
      BY <3>1, <3>2 DEF GrowStep
  <2>3. LeadTo(aut, g[k], EpsMove) \subseteq X
    BY <2>1 DEF EpsClosed, LeadTo, MovesFrom
  <2> QED
    BY <2>1, <2>2, <2>3
<1> HIDE DEF P
<1>4. n \in P
  BY <1>1, <1>2, <1>3, SetInduction
<1> QED
  BY <1>1, <1>4 DEF P

(* After as many turns as there are states, all are there or none is new. *)
LEMMA ReachClosed ==
  ASSUME NEW aut, IsAutomaton(aut), NEW S \in SUBSET (1 .. Len(aut))
  PROVE  /\ EpsReach(aut, S) \subseteq 1 .. Len(aut)
         /\ EpsClosed(aut, EpsReach(aut, S))
<1>0. Len(aut) \in Nat
  BY AutomatonLen
<1>1. PICK n, g : /\ n = Len(aut) /\ n \in Nat
                  /\ Grows(g, aut, S, n) /\ EpsReach(aut, S) = g[n]
  BY <1>0, ReachIs
<1>2. IsFiniteSet(1 .. n) /\ Cardinality(1 .. n) = n
  <2>1. 1 \in Int /\ n \in Int /\ (1 > n => n = 0)
    BY <1>1
  <2>2. /\ IsFiniteSet(1 .. n)
        /\ Cardinality(1 .. n) = IF 1 > n THEN 0 ELSE n - 1 + 1
    BY ONLY <2>1, FS_Interval
  <2> QED
    BY <1>1, <2>1, <2>2
<1> DEFINE P == {k \in Nat : k <= n =>
                   /\ g[k] \subseteq 1 .. n
                   /\ EpsClosed(aut, g[k]) \/ Cardinality(g[k]) >= k}
<1>3. 0 \in P
  <2>1. g[0] = S
    <3>1. g[0] = GrowStep(g, aut, S, 0)
      BY <1>1, GrownAt
    <3> QED
      BY <3>1 DEF GrowStep
  <2>2. IsFiniteSet(S)
    BY <1>1, <1>2, FS_Subset
  <2>3. Cardinality(S) \in Nat
    BY <2>2, FS_CardinalityType
  <2>4. g[0] \subseteq 1 .. n
    BY <1>1, <2>1
  <2>5. Cardinality(g[0]) >= 0
    BY <2>1, <2>3
  <2> QED
    BY <2>4, <2>5
<1>4. ASSUME NEW k \in Nat, k \in P
      PROVE  k + 1 \in P
  <2> SUFFICES ASSUME k + 1 <= n
               PROVE  /\ g[k + 1] \subseteq 1 .. n
                      /\ EpsClosed(aut, g[k + 1]) \/ Cardinality(g[k + 1]) >= k + 1
    OBVIOUS
  <2>1. PICK T : /\ T = g[k] /\ T \in SUBSET (1 .. n)
                 /\ EpsClosed(aut, T) \/ Cardinality(T) >= k
    BY <1>1, <1>4
  <2>2. g[k + 1] = T \union LeadTo(aut, T, EpsMove)
    <3>1. k + 1 \in 0 .. n /\ k + 1 # 0 /\ (k + 1) - 1 = k
      BY <1>1
    <3>2. g[k + 1] = GrowStep(g, aut, S, k + 1)
      BY <1>1, <3>1, GrownAt
    <3> QED
      BY <2>1, <3>1, <3>2 DEF GrowStep
  <2>3. g[k + 1] \in SUBSET (1 .. n)
    BY <1>1, <2>1, <2>2, LeadsIn
  <2>4. CASE EpsClosed(aut, T)
    BY <2>2, <2>3, <2>4, ClosedIs
  <2>5. CASE ~EpsClosed(aut, T)
    <3>1. PICK x \in LeadTo(aut, T, EpsMove) : x \notin T
      BY <2>5, ClosedIs
    <3>2. IsFiniteSet(T) /\ Cardinality(T) \in Nat
      BY <1>2, <2>1, FS_Subset, FS_CardinalityType
    <3>3. /\ T \union {x} \in SUBSET g[k + 1]
          /\ Cardinality(T \union {x}) = Cardinality(T) + 1
      BY <2>2, <3>1, <3>2, FS_AddElement
    <3>4. IsFiniteSet(g[k + 1]) /\ Cardinality(g[k + 1]) \in Nat
      BY <1>2, <2>3, FS_Subset, FS_CardinalityType
    <3>5. Cardinality(T \union {x}) <= Cardinality(g[k + 1])
      BY <3>3, <3>4, FS_Subset
    <3> QED
      BY <2>1, <2>3, <2>5, <3>2, <3>3, <3>4, <3>5
  <2> QED
    BY <2>4, <2>5
<1> HIDE DEF P
<1>5. n \in P
  BY <1>1, <1>3, <1>4, SetInduction
<1>6. /\ g[n] \in SUBSET (1 .. n)
      /\ EpsClosed(aut, g[n]) \/ Cardinality(g[n]) >= n
  BY <1>1, <1>5 DEF P
<1>7. CASE Cardinality(g[n]) >= n
  <2>1. Cardinality(g[n]) <= n /\ (Cardinality(g[n]) = n => g[n] = 1 .. n)
    BY <1>2, <1>6, FS_Subset
  <2>2. Cardinality(g[n]) \in Nat
    BY <1>2, <1>6, FS_Subset, FS_CardinalityType
  <2>3. g[n] = 1 .. n
    BY <1>1, <1>7, <2>1, <2>2
  <2>4. LeadTo(aut, g[n], EpsMove) \subseteq g[n]
    BY <1>1, <2>3, LeadsIn
  <2> QED
    BY <1>1, <1>6, <2>4, ClosedIs
<1> QED
  BY <1>1, <1>6, <1>7

LEMMA AllClosed ==
  ASSUME NEW aut, IsAutomaton(aut)
  PROVE  EpsClosed(aut, 1 .. Len(aut))
BY MovesLead DEF EpsClosed

(* The states that S reaches are those that its members reach. *)
LEMMA ReachUnion ==
  ASSUME NEW aut, IsAutomaton(aut), NEW S \in SUBSET (1 .. Len(aut))
  PROVE  EpsReach(aut, S) = UNION {EpsReach(aut, {s}) : s \in S}
<1>0. Len(aut) \in Nat
  BY AutomatonLen
<1>1. PICK R : R = EpsReach(aut, S) /\ S \subseteq R /\ EpsClosed(aut, R)
  <2>1. S \subseteq EpsReach(aut, S)
    BY <1>0, AllClosed, ReachLeast
  <2> QED
    BY <2>1, ReachClosed
<1>2. ASSUME NEW s \in S
      PROVE  /\ s \in EpsReach(aut, {s}) /\ EpsReach(aut, {s}) \subseteq R
             /\ EpsClosed(aut, EpsReach(aut, {s}))
  <2>1. {s} \in SUBSET (1 .. Len(aut)) /\ {s} \subseteq R
    BY <1>1
  <2> QED
    BY <1>0, <1>1, <2>1, ReachLeast, ReachClosed
<1>3. PICK U : U = UNION {EpsReach(aut, {s}) : s \in S}
  OBVIOUS
<1>4. EpsClosed(aut, U)
  BY <1>2, <1>3 DEF EpsClosed
<1>5. S \subseteq U /\ U \subseteq R
  BY <1>2, <1>3
<1>6. R \subseteq U
  BY <1>0, <1>1, <1>4, <1>5, ReachLeast
<1> QED
  BY <1>1, <1>3, <1>5, <1>6

LEMMA ReachOne ==
  ASSUME NEW aut, IsAutomaton(aut), NEW s \in 1 .. Len(aut)
  PROVE  /\ s \in EpsReach(aut, {s}) /\ EpsReach(aut, {s}) \subseteq 1 .. Len(aut)
         /\ EpsClosed(aut, EpsReach(aut, {s}))
         /\ \A X : s \in X /\ EpsClosed(aut, X) => EpsReach(aut, {s}) \subseteq X
<1>0. Len(aut) \in Nat
  BY AutomatonLen
<1>1. {s} \in SUBSET (1 .. Len(aut))
  OBVIOUS
<1>2. s \in EpsReach(aut, {s})
  BY <1>0, <1>1, AllClosed, ReachLeast
<1>3. ASSUME NEW X, s \in X, EpsClosed(aut, X)
      PROVE  EpsReach(aut, {s}) \subseteq X
  <2>1. {s} \subseteq X
    BY <1>3
  <2> QED
    BY <1>0, <1>3, <2>1, ReachLeast
<1> QED
  BY <1>1, <1>2, <1>3, ReachClosed

(* Who is reached reaches no more. *)
LEMMA ReachFurther ==
  ASSUME NEW aut, IsAutomaton(aut), NEW s \in 1 .. Len(aut), NEW r \in EpsReach(aut, {s})
  PROVE  r \in 1 .. Len(aut) /\ EpsReach(aut, {r}) \subseteq EpsReach(aut, {s})
BY ReachOne

-----------------------------------------------------------------------------
(* The closures. *)

Counts(nka, r) == MovesOf(nka, r) # <<>> \/ nka[r].final
Closure(nka, s) == {r \in EpsReach(nka, {s}) : Counts(nka, r)}

(* While the closure cl of the state s is collected: the states whose own
   closure is in it. *)
Covered(nka, cl) == {r \in DOMAIN nka : Closure(nka, r) \subseteq cl}

(* The closures of the states in front of s are there.  In that of s is
   nothing wrong, and what is missing is reached from the stack: a state in
   "done" leads to the stack, to "done", or to a state that is covered. *)
Looking(nka, eps, s, stack, done) ==
  LET cl == ToSet(eps[s])
      seen == done \union Covered(nka, cl)
  IN  /\ \A i \in 1 .. s - 1 : ToSet(eps[i]) = Closure(nka, i)
      /\ cl \subseteq Closure(nka, s) /\ ToSet(stack) \subseteq EpsReach(nka, {s})
      /\ {r \in done : Counts(nka, r)} \subseteq cl
      /\ s \in ToSet(stack) \union seen
      /\ \A p \in done : LeadTo(nka, {p}, EpsMove) \subseteq ToSet(stack) \union seen

LookInv ==
  reg_stage = "closures" /\ nka_states # <<>> =>
    /\ fas_idx = 1
    /\ Looking(nka_states, eps_closures, s_idx, state_idx_stack, processed_states)

(* The set of the first state is the closure of the first state, or waits. *)
FirstIs(eps, first, ms, q) ==
  IF ms = <<>> THEN q # <<>> /\ Head(q).set = eps[first] ELSE ms[1] = eps[first]

ClosuresRight(nka, eps) == \A i \in DOMAIN nka : ToSet(eps[i]) = Closure(nka, i)

FinalsRight(nka, ms, st) ==
  \A i \in DOMAIN ms : st[i].final <=> \E r \in ToSet(ms[i]) : nka[r].final

SetsInv ==
  InDka =>
    /\ fas_idx = 1
    /\ ClosuresRight(nka_states, eps_closures)
    /\ FinalsRight(nka_states, ms_map_array, states)
    /\ FirstIs(eps_closures, nka_fas_idx, ms_map_array, msm_queue)
    /\ reg_stage = "done" => msm_queue = <<>>

WordInv == RegExpInv /\ LookInv /\ SetsInv

LEMMA CountsIs == \A s : Matters(s) <=> Counts(nka_states, s)
BY DEF Matters, Counts, CharMoves, MovesOf

LEMMA ClosureFurther ==
  ASSUME NEW nka, IsAutomaton(nka), NEW s \in 1 .. Len(nka), NEW r \in EpsReach(nka, {s})
  PROVE  /\ r \in 1 .. Len(nka) /\ Closure(nka, r) \subseteq Closure(nka, s)
         /\ LeadTo(nka, {r}, EpsMove) \subseteq EpsReach(nka, {s})
<1>1. r \in 1 .. Len(nka) /\ EpsReach(nka, {r}) \subseteq EpsReach(nka, {s})
  BY ReachFurther
<1>2. LeadTo(nka, {r}, EpsMove) \subseteq LeadTo(nka, EpsReach(nka, {s}), EpsMove)
  BY DEF LeadTo, MovesFrom
<1>3. LeadTo(nka, EpsReach(nka, {s}), EpsMove) \subseteq EpsReach(nka, {s})
  BY ReachOne, ClosedIs
<1> QED
  BY <1>1, <1>2, <1>3 DEF Closure

LEMMA StatesOf ==
  ASSUME NEW nka, IsAutomaton(nka)
  PROVE  DOMAIN nka = 1 .. Len(nka) /\ Len(nka) \in Nat
<1>1. PICK S : nka \in Seq(S)
  BY DEF IsAutomaton
<1> QED
  BY <1>1

(* A turn that adds the states K to the closure and D to what is done with. *)
LEMMA LookOn ==
  ASSUME NEW nka, IsAutomaton(nka), NEW s \in 1 .. Len(nka),
         NEW eps, NEW stack, NEW done, Looking(nka, eps, s, stack, done),
         NEW eps2, NEW stack2, NEW K, NEW D,
         \A i \in 1 .. s - 1 : eps2[i] = eps[i],
         ToSet(eps2[s]) = ToSet(eps[s]) \union K, K \subseteq Closure(nka, s),
         ToSet(stack2) \subseteq EpsReach(nka, {s}),
         {r \in D : Counts(nka, r)} \subseteq ToSet(eps2[s]),
         ToSet(stack) \subseteq
           ToSet(stack2) \union done \union D \union Covered(nka, ToSet(eps2[s])),
         \A p \in D : LeadTo(nka, {p}, EpsMove) \subseteq
           ToSet(stack2) \union done \union D \union Covered(nka, ToSet(eps2[s]))
  PROVE  Looking(nka, eps2, s, stack2, done \union D)
<1>1. PICK cl, cl2, T, T2, C, C2 :
        /\ cl = ToSet(eps[s]) /\ cl2 = ToSet(eps2[s])
        /\ T = ToSet(stack) /\ T2 = ToSet(stack2)
        /\ C = Covered(nka, cl) /\ C2 = Covered(nka, cl2)
  OBVIOUS
<1>2. /\ \A i \in 1 .. s - 1 : ToSet(eps[i]) = Closure(nka, i)
      /\ cl \subseteq Closure(nka, s)
      /\ {r \in done : Counts(nka, r)} \subseteq cl
      /\ s \in T \union done \union C
      /\ \A p \in done : LeadTo(nka, {p}, EpsMove) \subseteq T \union done \union C
  BY <1>1 DEF Looking
<1>3. cl \subseteq cl2 /\ cl2 \subseteq Closure(nka, s) /\ C \subseteq C2
  BY <1>1, <1>2 DEF Covered
<1>4. T \subseteq T2 \union done \union D \union C2
  BY <1>1
<1>5. s \in T2 \union (done \union D \union C2)
  BY <1>2, <1>3, <1>4
<1>6. ASSUME NEW p \in done \union D
      PROVE  LeadTo(nka, {p}, EpsMove) \subseteq T2 \union (done \union D \union C2)
  <2>1. CASE p \in done
    BY <1>2, <1>3, <1>4, <2>1
  <2>2. CASE p \in D
    BY <1>1, <2>2
  <2> QED
    BY <2>1, <2>2
<1>7. {r \in done \union D : Counts(nka, r)} \subseteq cl2
  BY <1>1, <1>2, <1>3
<1>8. \A i \in 1 .. s - 1 : ToSet(eps2[i]) = Closure(nka, i)
  BY <1>2
<1> QED
  BY <1>1, <1>3, <1>5, <1>6, <1>7, <1>8 DEF Looking

(* With an empty stack the closure is complete. *)
LEMMA LookedAll ==
  ASSUME NEW nka, IsAutomaton(nka), NEW s \in 1 .. Len(nka),
         NEW eps, NEW done, Looking(nka, eps, s, <<>>, done)
  PROVE  ToSet(eps[s]) = Closure(nka, s)
<1>1. PICK cl, C : cl = ToSet(eps[s]) /\ C = Covered(nka, cl)
  OBVIOUS
<1>2. ToSet(<<>>) = {}
  BY DEF ToSet
<1>3. /\ cl \subseteq Closure(nka, s)
      /\ {r \in done : Counts(nka, r)} \subseteq cl
      /\ s \in done \union C
      /\ \A p \in done : LeadTo(nka, {p}, EpsMove) \subseteq done \union C
  BY <1>1, <1>2 DEF Looking
<1>4. ASSUME NEW p \in C
      PROVE  LeadTo(nka, {p}, EpsMove) \subseteq C
  <2>1. p \in 1 .. Len(nka) /\ Closure(nka, p) \subseteq cl
    BY <1>1, <1>4, StatesOf DEF Covered
  <2>2. LeadTo(nka, {p}, EpsMove) \subseteq EpsReach(nka, {p})
    BY <2>1, ReachOne, ClosureFurther
  <2>3. ASSUME NEW r \in LeadTo(nka, {p}, EpsMove)
        PROVE  r \in C
    <3>1. r \in 1 .. Len(nka) /\ Closure(nka, r) \subseteq Closure(nka, p)
      BY <2>1, <2>2, <2>3, ClosureFurther
    <3> QED
      BY <1>1, <2>1, <3>1, StatesOf DEF Covered
  <2> QED
    BY <2>3
<1>5. PICK X : X = done \union C
  OBVIOUS
<1>6. \A p \in X : LeadTo(nka, {p}, EpsMove) \subseteq X
  BY <1>3, <1>4, <1>5
<1>7. EpsClosed(nka, X)
  <2>1. ASSUME NEW p \in X, NEW m \in ToSet(nka[p].moves), m.idx = EpsMove
        PROVE  m.value \in X
    <3>1. m.value \in LeadTo(nka, {p}, EpsMove)
      BY <2>1 DEF LeadTo, MovesFrom
    <3> QED
      BY <1>6, <3>1
  <2> QED
    BY <2>1 DEF EpsClosed
<1>8. EpsReach(nka, {s}) \subseteq X
  BY <1>3, <1>5, <1>7, ReachOne
<1>9. ASSUME NEW r \in EpsReach(nka, {s}), Counts(nka, r)
      PROVE  r \in cl
  <2>1. CASE r \in done
    BY <1>3, <1>9, <2>1
  <2>2. CASE r \in C
    <3>1. r \in 1 .. Len(nka) /\ Closure(nka, r) \subseteq cl
      BY <1>1, <2>2, StatesOf DEF Covered
    <3>2. r \in Closure(nka, r)
      BY <1>9, <3>1, ReachOne DEF Closure
    <3> QED
      BY <3>1, <3>2
  <2> QED
    BY <1>5, <1>8, <1>9, <2>1, <2>2
<1> QED
  BY <1>1, <1>3, <1>9 DEF Closure
-----------------------------------------------------------------------------
(* The steps. *)

(* What holds while a closure is collected, and what keeps it. *)
LEMMA LookingNow ==
  ASSUME RegExpInv, LookInv, reg_stage = "closures", nka_states # <<>>
  PROVE  /\ IsAutomaton(nka_states) /\ s_idx \in 1 .. Len(nka_states)
         /\ Len(nka_states) \in Nat
         /\ state_idx_stack \in Seq(1 .. Len(nka_states))
         /\ eps_closures \in Seq(Seq(1 .. Len(nka_states)))
         /\ DOMAIN eps_closures = 1 .. s_idx /\ Len(eps_closures) = s_idx
         /\ ms_map_array = <<>> /\ fas_idx = 1
         /\ Looking(nka_states, eps_closures, s_idx, state_idx_stack, processed_states)
<1>1. /\ NkaInv /\ ms_map_array = <<>>
      /\ s_idx \in DOMAIN nka_states /\ Len(eps_closures) = s_idx
      /\ state_idx_stack \in NkaSet
  BY InClosureStage
<1>2. IsAutomaton(nka_states) /\ eps_closures \in Seq(Seq(1 .. Len(nka_states)))
  BY <1>1 DEF NkaInv, NkaSet
<1>3. DOMAIN nka_states = 1 .. Len(nka_states) /\ Len(nka_states) \in Nat
  BY <1>2, StatesOf
<1>4. DOMAIN eps_closures = 1 .. s_idx
  BY <1>1, <1>2
<1> QED
  BY <1>1, <1>2, <1>3, <1>4 DEF NkaSet, LookInv

LEMMA LooksOn ==
  ASSUME reg_stage' = "closures", fas_idx' = 1,
         Looking(nka_states', eps_closures', s_idx', state_idx_stack', processed_states')
  PROVE  LookInv' /\ SetsInv'
BY DEF LookInv, SetsInv, InDka

LEMMA StartClosuresLooks ==
  ASSUME RegExpInv, StartClosures
  PROVE  LookInv' /\ SetsInv'
<1>1. reg_stage = "closures" /\ nka_states = <<>>
  BY DEF StartClosures
<1>2. IsAutomaton(states) /\ fas_idx \in DOMAIN states /\ NkaUntouched
  BY <1>1 DEF RegExpInv, StartInv, InDka
<1>3. PICK nka, eps, stack : nka = states /\ eps = <<<<>>>> /\ stack = <<1>>
  OBVIOUS
<1>4. /\ nka_states' = nka /\ eps_closures' = eps /\ state_idx_stack' = stack
      /\ s_idx' = 1 /\ processed_states' = {} /\ reg_stage' = "closures" /\ fas_idx' = 1
  BY <1>1, <1>2, <1>3 DEF StartClosures, NkaUntouched
<1>5. ToSet(stack) = {1} /\ ToSet(eps[1]) = {}
  BY <1>3 DEF ToSet
<1>6. 1 \in 1 .. Len(nka)
  BY <1>2, <1>3, StatesOf
<1>7. 1 \in EpsReach(nka, {1})
  BY <1>2, <1>3, <1>6, ReachOne
<1>8. Looking(nka, eps, 1, stack, {})
  BY <1>5, <1>7 DEF Looking
<1> QED
  BY <1>4, <1>8, LooksOn

(* Taking the last state from the stack. *)
LEMMA TakenFrom ==
  ASSUME NEW S, NEW stack \in Seq(S), stack # <<>>
  PROVE  /\ Front(stack) \in Seq(S) /\ Last(stack) \in S
         /\ ToSet(stack) = ToSet(Front(stack)) \union {Last(stack)}
<1>1. PICK u, e : /\ u = Front(stack) /\ e = Last(stack)
                  /\ u \in Seq(S) /\ e \in S /\ stack = Append(u, e)
  BY FrontAndLast
<1> QED
  BY <1>1, ToSetAppend

LEMMA JoinClosureLooks ==
  ASSUME RegExpInv, LookInv, JoinClosure
  PROVE  LookInv' /\ SetsInv'
<1>1. reg_stage = "closures" /\ nka_states # <<>> /\ state_idx_stack # <<>>
  BY DEF JoinClosure, InClosures
<1>2. PICK nka, s, n, eps, stack, t :
        /\ nka = nka_states /\ s = s_idx /\ n = Len(nka) /\ eps = eps_closures
        /\ stack = state_idx_stack /\ t = TakenState
  OBVIOUS
<1>3. /\ IsAutomaton(nka) /\ s \in 1 .. n /\ n \in Nat
      /\ stack \in Seq(1 .. n) /\ stack # <<>> /\ eps \in Seq(Seq(1 .. n))
      /\ DOMAIN eps = 1 .. s /\ fas_idx = 1
      /\ Looking(nka, eps, s, stack, processed_states)
  BY <1>1, <1>2, LookingNow
<1>4. PICK front : /\ front = Front(stack) /\ t \in 1 .. n
                   /\ ToSet(stack) = ToSet(front) \union {t}
  BY <1>2, <1>3, TakenFrom DEF TakenState
<1>5. t < s /\ t \in 1 .. s - 1 /\ t \in 1 .. s
  BY <1>2, <1>3, <1>4 DEF JoinClosure
<1>6. PICK known, old : known = eps[t] /\ old = eps[s]
  OBVIOUS
<1>7. known \in Seq(1 .. n) /\ old \in Seq(1 .. n)
  BY <1>3, <1>5, <1>6
<1>8. PICK eps2 : eps2 = [eps EXCEPT ![s] = AddToSet(old, known)]
  OBVIOUS
<1>9. /\ eps_closures' = eps2 /\ processed_states' = processed_states \union ToSet(known)
      /\ state_idx_stack' = front /\ s_idx' = s /\ nka_states' = nka
      /\ reg_stage' = "closures" /\ fas_idx' = 1
  BY <1>1, <1>2, <1>3, <1>4, <1>6, <1>8 DEF JoinClosure, regVars
<1>10. /\ \A i \in 1 .. s - 1 : eps2[i] = eps[i]
       /\ ToSet(eps2[s]) = ToSet(old) \union ToSet(known)
  <2>1. ToSet(AddToSet(old, known)) = ToSet(old) \union ToSet(known)
    <3>1. old \o known \in Seq(1 .. n) /\ ToSet(old \o known) = ToSet(old) \union ToSet(known)
      BY <1>7, ConcatAt, ToSetConcat
    <3> QED
      BY <3>1, DistinctIs DEF AddToSet
  <2>2. eps2[s] = AddToSet(old, known)
    BY <1>3, <1>8
  <2>3. \A i \in 1 .. s - 1 : i \in DOMAIN eps /\ i # s
    BY <1>3
  <2> QED
    BY <1>8, <2>1, <2>2, <2>3
<1>11. PICK K : K = ToSet(known) /\ K = Closure(nka, t)
  BY <1>3, <1>5, <1>6 DEF Looking
<1>12. t \in EpsReach(nka, {s}) /\ ToSet(front) \subseteq EpsReach(nka, {s})
  BY <1>3, <1>4 DEF Looking
<1>13. K \subseteq Closure(nka, s)
  BY <1>2, <1>3, <1>11, <1>12, ClosureFurther
<1>14. PICK C2 : C2 = Covered(nka, ToSet(eps2[s]))
  OBVIOUS
<1>15. ASSUME NEW r \in EpsReach(nka, {t})
       PROVE  r \in C2
  <2>1. r \in 1 .. n /\ Closure(nka, r) \subseteq K
    BY <1>2, <1>3, <1>4, <1>11, ClosureFurther
  <2> QED
    BY <1>2, <1>3, <1>10, <1>11, <1>14, <2>1, StatesOf DEF Covered
<1>16. t \in C2
  BY <1>2, <1>3, <1>4, <1>15, ReachOne
<1>17. ASSUME NEW p \in K
       PROVE  LeadTo(nka, {p}, EpsMove) \subseteq C2
  <2>1. p \in EpsReach(nka, {t})
    BY <1>11 DEF Closure
  <2>2. LeadTo(nka, {p}, EpsMove) \subseteq EpsReach(nka, {t})
    BY <1>2, <1>3, <1>4, <2>1, ClosureFurther
  <2> QED
    BY <1>15, <2>2
<1>18. {r \in K : Counts(nka, r)} \subseteq ToSet(eps2[s])
  BY <1>10, <1>11
<1>19. ToSet(stack) \subseteq ToSet(front) \union processed_states \union K \union C2
  BY <1>4, <1>16
<1>20. \A p \in K : LeadTo(nka, {p}, EpsMove) \subseteq
                      ToSet(front) \union processed_states \union K \union C2
  BY <1>17
<1>21. ToSet(eps2[s]) = ToSet(eps[s]) \union K
  BY <1>6, <1>10, <1>11
<1>22. Looking(nka, eps2, s, front, processed_states \union K)
  BY <1>2, <1>3, <1>10, <1>12, <1>13, <1>14, <1>18, <1>19, <1>20, <1>21, LookOn
<1> QED
  BY <1>9, <1>11, <1>22, LooksOn

LEMMA EpsTargetsAre ==
  ASSUME NkaInv, NEW s \in DOMAIN nka_states
  PROVE  ToSet(EpsTargets(s)) = LeadTo(nka_states, {s}, EpsMove)
<1>1. PICK n, moves : /\ n = Len(nka_states) /\ moves = nka_states[s].moves
                      /\ moves \in Seq(MoveOver(n))
  BY NkaTypes
<1>2. PICK eps : /\ eps = ElementsIn(moves, MovesWith({EpsMove}))
                 /\ ToSet(eps) = ToSet(moves) \cap MovesWith({EpsMove})
  BY <1>1, ElementsInIs
<1>3. EpsTargets(s) = [i \in DOMAIN eps |-> eps[i].value]
  BY <1>1, <1>2 DEF EpsTargets
<1>4. ToSet(EpsTargets(s)) = {m.value : m \in ToSet(eps)}
  BY <1>3 DEF ToSet
<1>5. ToSet(eps) = {m \in ToSet(moves) : m.idx = EpsMove}
  <2>1. ToSet(moves) \subseteq MoveOver(n)
    BY <1>1, OwnSeq
  <2>2. n \in Nat
    BY <1>1, NkaTypes
  <2>3. \A m \in MoveOver(n) : m \in MovesWith({EpsMove}) <=> m.idx = EpsMove
    BY <2>2 DEF MoveOver, MovesWith
  <2> QED
    BY <1>2, <2>1, <2>3
<1>6. MovesFrom(nka_states, {s}) = ToSet(moves)
  BY <1>1 DEF MovesFrom
<1> QED
  BY <1>4, <1>5, <1>6 DEF LeadTo

LEMMA ProcessStateLooks ==
  ASSUME RegExpInv, LookInv, ProcessState
  PROVE  LookInv' /\ SetsInv'
<1>1. reg_stage = "closures" /\ nka_states # <<>> /\ state_idx_stack # <<>>
  BY DEF ProcessState, InClosures
<1>2. PICK nka, s, n, eps, stack, t :
        /\ nka = nka_states /\ s = s_idx /\ n = Len(nka) /\ eps = eps_closures
        /\ stack = state_idx_stack /\ t = TakenState
  OBVIOUS
<1>3. /\ IsAutomaton(nka) /\ s \in 1 .. n /\ n \in Nat
      /\ stack \in Seq(1 .. n) /\ stack # <<>> /\ eps \in Seq(Seq(1 .. n))
      /\ DOMAIN eps = 1 .. s /\ fas_idx = 1
      /\ Looking(nka, eps, s, stack, processed_states)
  BY <1>1, <1>2, LookingNow
<1>4. PICK front : /\ front = Front(stack) /\ t \in 1 .. n /\ front \in Seq(1 .. n)
                   /\ ToSet(stack) = ToSet(front) \union {t}
  BY <1>2, <1>3, TakenFrom DEF TakenState
<1>5. /\ s_idx' = s /\ nka_states' = nka /\ reg_stage' = "closures" /\ fas_idx' = 1
  BY <1>1, <1>2, <1>3 DEF ProcessState, regVars
<1>6. t \in EpsReach(nka, {s}) /\ ToSet(front) \subseteq EpsReach(nka, {s})
  BY <1>3, <1>4 DEF Looking
<1>7. CASE t \in processed_states
  <2>1. /\ state_idx_stack' = front /\ eps_closures' = eps
        /\ processed_states' = processed_states
    BY <1>2, <1>4, <1>7 DEF ProcessState
  <2>2. PICK none : none = {}
    OBVIOUS
  <2>3. Looking(nka, eps, s, front, processed_states \union none)
    <3>1. ToSet(eps[s]) = ToSet(eps[s]) \union none /\ none \subseteq Closure(nka, s)
      BY <2>2
    <3>2. /\ {r \in none : Counts(nka, r)} \subseteq ToSet(eps[s])
          /\ \A p \in none : LeadTo(nka, {p}, EpsMove) \subseteq
               ToSet(front) \union processed_states \union none
                 \union Covered(nka, ToSet(eps[s]))
      BY <2>2
    <3>3. ToSet(stack) \subseteq ToSet(front) \union processed_states \union none
                                    \union Covered(nka, ToSet(eps[s]))
      BY <1>4, <1>7
    <3>4. \A i \in 1 .. s - 1 : eps[i] = eps[i]
      OBVIOUS
    <3> QED
      BY <1>2, <1>3, <1>6, <3>1, <3>2, <3>3, <3>4, LookOn
  <2>4. processed_states \union none = processed_states
    BY <2>2
  <2> QED
    BY <1>5, <2>1, <2>3, <2>4, LooksOn
<1>8. CASE t \notin processed_states
  <2>1. PICK more, K : /\ more = EpsTargets(t)
                       /\ K = IF Counts(nka, t) THEN {t} ELSE {}
    OBVIOUS
  <2>2. /\ state_idx_stack' = front \o more
        /\ eps_closures' =
             IF Counts(nka, t) THEN [eps EXCEPT ![s] = Append(eps[s], t)] ELSE eps
        /\ processed_states' = processed_states \union {t}
    BY <1>2, <1>4, <1>8, <2>1, CountsIs DEF ProcessState
  <2>3. more \in Seq(1 .. n) /\ ToSet(more) = LeadTo(nka, {t}, EpsMove)
    <3>1. NkaInv /\ t \in DOMAIN nka_states
      BY <1>1, <1>2, <1>3, <1>4, StatesOf, InClosureStage
    <3> QED
      BY <1>2, <2>1, <3>1, EpsTargetsIn, EpsTargetsAre
  <2>4. PICK stack2 : /\ stack2 = front \o more
                      /\ ToSet(stack2) = ToSet(front) \union LeadTo(nka, {t}, EpsMove)
    <3>1. PICK S : front \in Seq(S) /\ more \in Seq(S)
      BY <1>4, <2>3
    <3>2. ToSet(front \o more) = ToSet(front) \union ToSet(more)
      BY <3>1, ToSetConcat
    <3> QED
      BY <2>3, <3>2
  <2>5. ToSet(stack2) \subseteq EpsReach(nka, {s})
    <3>1. LeadTo(nka, {t}, EpsMove) \subseteq EpsReach(nka, {s})
      BY <1>2, <1>3, <1>6, ClosureFurther
    <3> QED
      BY <1>6, <2>4, <3>1
  <2>6. PICK eps2 : eps2 = eps_closures'
    OBVIOUS
  <2>7. /\ \A i \in 1 .. s - 1 : eps2[i] = eps[i]
        /\ ToSet(eps2[s]) = ToSet(eps[s]) \union K
    <3>1. CASE ~Counts(nka, t)
      BY <2>1, <2>2, <2>6, <3>1
    <3>2. CASE Counts(nka, t)
      <4>1. eps2 = [eps EXCEPT ![s] = Append(eps[s], t)]
        BY <2>2, <2>6, <3>2
      <4>2. PICK S, old : S = 1 .. n /\ old = eps[s] /\ old \in Seq(S)
        BY <1>3
      <4>3. ToSet(Append(eps[s], t)) = ToSet(eps[s]) \union {t}
        <5>1. old \in Seq(S) /\ t \in S
          BY <1>4, <4>2
        <5>2. ToSet(Append(old, t)) = ToSet(old) \union {t}
          BY <5>1, ToSetAppend
        <5> QED
          BY <4>2, <5>2
      <4>4. eps2[s] = Append(eps[s], t)
        BY <1>3, <4>1
      <4>5. \A i \in 1 .. s - 1 : i \in DOMAIN eps /\ i # s
        BY <1>3
      <4> QED
        BY <2>1, <3>2, <4>1, <4>3, <4>4, <4>5
    <3> QED
      BY <3>1, <3>2
  <2>8. K \subseteq Closure(nka, s)
    BY <1>6, <2>1 DEF Closure
  <2>9. {r \in {t} : Counts(nka, r)} \subseteq ToSet(eps2[s])
    BY <2>1, <2>7
  <2>10. /\ ToSet(stack) \subseteq ToSet(stack2) \union processed_states \union {t}
                                     \union Covered(nka, ToSet(eps2[s]))
         /\ \A p \in {t} : LeadTo(nka, {p}, EpsMove) \subseteq
              ToSet(stack2) \union processed_states \union {t}
                \union Covered(nka, ToSet(eps2[s]))
    BY <1>4, <2>4
  <2>11. Looking(nka, eps2, s, stack2, processed_states \union {t})
    BY <1>2, <1>3, <2>5, <2>7, <2>8, <2>9, <2>10, LookOn
  <2> QED
    BY <1>5, <2>2, <2>4, <2>6, <2>11, LooksOn
<1> QED
  BY <1>7, <1>8

LEMMA NextClosureLooks ==
  ASSUME RegExpInv, LookInv, NextClosure
  PROVE  LookInv' /\ SetsInv'
<1>1. /\ reg_stage = "closures" /\ nka_states # <<>> /\ state_idx_stack = <<>>
      /\ s_idx < Len(nka_states)
  BY DEF NextClosure, ClosureDone
<1>2. PICK nka, s, n, eps :
        nka = nka_states /\ s = s_idx /\ n = Len(nka) /\ eps = eps_closures
  OBVIOUS
<1>3. /\ IsAutomaton(nka) /\ s \in 1 .. n /\ n \in Nat
      /\ eps \in Seq(Seq(1 .. n)) /\ Len(eps) = s /\ fas_idx = 1
      /\ Looking(nka, eps, s, <<>>, processed_states)
  BY <1>1, <1>2, LookingNow
<1>4. PICK next, eps2, stack2 : next = s + 1 /\ eps2 = Append(eps, <<>>) /\ stack2 = <<next>>
  OBVIOUS
<1>5. /\ s_idx' = next /\ nka_states' = nka /\ reg_stage' = "closures" /\ fas_idx' = 1
      /\ eps_closures' = eps2 /\ state_idx_stack' = stack2 /\ processed_states' = {}
  BY <1>1, <1>2, <1>3, <1>4 DEF NextClosure, regVars
<1>6. next \in 1 .. n /\ next - 1 = s
  BY <1>1, <1>2, <1>3, <1>4
<1>7. eps2[next] = <<>> /\ \A i \in 1 .. s : eps2[i] = eps[i]
  BY <1>3, <1>4
<1>8. \A i \in 1 .. s - 1 : ToSet(eps[i]) = Closure(nka, i)
  BY <1>3 DEF Looking
<1>9. ToSet(eps[s]) = Closure(nka, s)
  BY <1>2, <1>3, LookedAll
<1>10. \A i \in 1 .. s : ToSet(eps2[i]) = Closure(nka, i)
  <2>1. \A i \in 1 .. s : i = s \/ i \in 1 .. s - 1
    BY <1>3
  <2> QED
    BY <1>7, <1>8, <1>9, <2>1
<1>11. ToSet(eps2[next]) = {} /\ ToSet(stack2) = {next}
  <2>1. DOMAIN stack2 = {1} /\ stack2[1] = next
    BY <1>4
  <2>2. ToSet(<<>>) = {}
    BY DEF ToSet
  <2> QED
    BY <1>7, <2>1, <2>2 DEF ToSet
<1>12. next \in EpsReach(nka, {next})
  BY <1>2, <1>3, <1>6, ReachOne
<1>13. Looking(nka, eps2, next, stack2, {})
  BY <1>6, <1>10, <1>11, <1>12 DEF Looking
<1> QED
  BY <1>5, <1>13, LooksOn

LEMMA StartSubsetsLooks ==
  ASSUME RegExpInv, LookInv, StartSubsets
  PROVE  LookInv' /\ SetsInv'
<1>1. /\ reg_stage = "closures" /\ nka_states # <<>> /\ state_idx_stack = <<>>
      /\ s_idx = Len(nka_states)
  BY DEF StartSubsets, ClosureDone
<1>2. PICK nka, s, eps : nka = nka_states /\ s = s_idx /\ eps = eps_closures
  OBVIOUS
<1>3. /\ IsAutomaton(nka) /\ s \in 1 .. Len(nka) /\ Len(nka) \in Nat /\ fas_idx = 1
      /\ ms_map_array = <<>> /\ Looking(nka, eps, s, <<>>, processed_states)
  BY <1>1, <1>2, LookingNow
<1>4. PICK m, q : /\ m = [char |-> EpsMove, from |-> NotExist, set |-> eps[nka_fas_idx]]
                  /\ q = <<m>>
  OBVIOUS
<1>5. /\ reg_stage' = "subsets" /\ msm_queue' = q /\ nka_states' = nka
      /\ eps_closures' = eps /\ ms_map_array' = <<>> /\ fas_idx' = 1
      /\ nka_fas_idx' = nka_fas_idx
  BY <1>2, <1>3, <1>4 DEF StartSubsets
<1>6. ToSet(eps[s]) = Closure(nka, s)
  BY <1>3, LookedAll
<1>7. \A i \in 1 .. s - 1 : ToSet(eps[i]) = Closure(nka, i)
  BY <1>3 DEF Looking
<1>8. ClosuresRight(nka, eps)
  <2>1. \A i \in DOMAIN nka : i = s \/ i \in 1 .. s - 1
    BY <1>1, <1>2, <1>3, StatesOf
  <2> QED
    BY <1>6, <1>7, <2>1 DEF ClosuresRight
<1>9. FinalsRight(nka, <<>>, states')
  BY DEF FinalsRight
<1>10. FirstIs(eps, nka_fas_idx, <<>>, q)
  <2>1. q # <<>> /\ Head(q) = m
    BY <1>4
  <2> QED
    BY <1>4, <2>1 DEF FirstIs
<1> QED
  BY <1>5, <1>8, <1>9, <1>10 DEF LookInv, SetsInv

LEMMA FinalKept ==
  ASSUME NEW st, IsAutomaton(st), NEW n \in Nat, n = Len(st),
         NEW m, CanBeMade(m, n), NEW target \in 1 .. n, NEW s \in 1 .. n
  PROVE  WithMove(st, m, target)[s].final = st[s].final
<1>1. CASE m.from = NotExist
  BY <1>1 DEF WithMove
<1>2. CASE m.from # NotExist
  <2>1. PICK f, c : f = m.from /\ c = m.char /\ f \in 1 .. n
    BY <1>2 DEF CanBeMade
  <2>2. PICK S : S = StateOver(n) /\ st \in Seq(S)
    BY DEF IsAutomaton
  <2>3. f \in DOMAIN st /\ s \in DOMAIN st
    BY <2>1, <2>2
  <2>4. PICK old, more, e : /\ old = st[f] /\ more = Append(old.moves, Move(c, target))
                            /\ e = [old EXCEPT !.moves = more]
    OBVIOUS
  <2>5. WithMove(st, m, target) = [st EXCEPT ![f] = e]
    BY <1>2, <2>1, <2>4 DEF WithMove, AddMove
  <2>6. e.final = old.final
    <3>1. old \in S
      BY <2>2, <2>3, <2>4
    <3> QED
      BY <2>2, <2>4, <3>1 DEF StateOver
  <2> QED
    BY <2>3, <2>4, <2>5, <2>6
<1> QED
  BY <1>1, <1>2

LEMMA SetsNow ==
  ASSUME RegExpInv, SetsInv, InSubsets
  PROVE  /\ SubsetTypes /\ fas_idx = 1
         /\ ClosuresRight(nka_states, eps_closures)
         /\ FinalsRight(nka_states, ms_map_array, states)
         /\ FirstIs(eps_closures, nka_fas_idx, ms_map_array, msm_queue)
BY Taken DEF SetsInv, InDka, InSubsets

LEMMA TakeKnownSetLooks ==
  ASSUME RegExpInv, SetsInv, TakeKnownSet
  PROVE  LookInv' /\ SetsInv'
<1>1. InSubsets
  BY DEF TakeKnownSet
<1>2. PICK m, ms, st, n : /\ m = TakenMove /\ ms = ms_map_array /\ st = states /\ n = Len(st)
  OBVIOUS
<1>3. /\ SubsetTypes /\ fas_idx = 1 /\ ClosuresRight(nka_states, eps_closures)
      /\ FinalsRight(nka_states, ms, st)
      /\ FirstIs(eps_closures, nka_fas_idx, ms, msm_queue)
  BY <1>1, <1>2, SetsNow
<1>4. IsAutomaton(st) /\ n \in Nat /\ DOMAIN ms = 1 .. n
  <2>1. IsAutomaton(st) /\ Len(ms) = n /\ ms \in Seq(NkaSet)
    BY <1>2, <1>3 DEF SubsetTypes
  <2>2. PICK N : ms \in Seq(N)
    BY <2>1
  <2> QED
    BY <1>2, <2>1, <2>2, StatesOf
<1>5. PICK i \in 1 .. n : states' = WithMove(st, m, i)
  BY <1>2, <1>4 DEF TakeKnownSet
<1>6. CanBeMade(m, n)
  BY <1>1, <1>2, Taken DEF QueueElement, CanBeMade
<1>7. /\ reg_stage' = "subsets" /\ fas_idx' = 1 /\ ms_map_array' = ms
      /\ UNCHANGED <<nka_states, nka_fas_idx, eps_closures>>
  BY <1>1, <1>2, <1>3 DEF TakeKnownSet, InSubsets
<1>8. FinalsRight(nka_states, ms, states')
  <2>1. \A s \in 1 .. n : states'[s].final = st[s].final
    BY <1>2, <1>4, <1>5, <1>6, FinalKept
  <2> QED
    BY <1>3, <1>4, <2>1 DEF FinalsRight
<1>9. FirstIs(eps_closures, nka_fas_idx, ms, msm_queue')
  <2>1. ms # <<>>
    BY <1>4, <1>5
  <2> QED
    BY <1>3, <2>1 DEF FirstIs
<1> QED
  BY <1>3, <1>7, <1>8, <1>9 DEF LookInv, SetsInv

LEMMA TakeNewSetLooks ==
  ASSUME RegExpInv, SetsInv, TakeNewSet
  PROVE  LookInv' /\ SetsInv'
<1>1. InSubsets
  BY DEF TakeNewSet
<1>2. PICK m, ms, st, n, new : /\ m = TakenMove /\ ms = ms_map_array /\ st = states
                               /\ n = Len(st) /\ new = n + 1
  OBVIOUS
<1>3. /\ SubsetTypes /\ fas_idx = 1 /\ ClosuresRight(nka_states, eps_closures)
      /\ FinalsRight(nka_states, ms, st)
      /\ FirstIs(eps_closures, nka_fas_idx, ms, msm_queue)
  BY <1>1, <1>2, SetsNow
<1>4. PICK N : ms \in Seq(N) /\ m.set \in N
  <2>1. ms \in Seq(NkaSet)
    BY <1>2, <1>3 DEF SubsetTypes
  <2>2. m.set \in NkaSet
    BY <1>1, <1>2, Taken DEF QueueElement
  <2> QED
    BY <2>1, <2>2
<1>5. IsAutomaton(st) /\ n \in Nat /\ Len(ms) = n /\ DOMAIN ms = 1 .. n
  <2>1. IsAutomaton(st) /\ Len(ms) = n
    BY <1>2, <1>3 DEF SubsetTypes
  <2> QED
    BY <1>2, <1>4, <2>1, StatesOf
<1>6. PICK e, st0 : /\ e = [final |-> IsFinal(m.set), moves |-> <<>>]
                    /\ st0 = Append(st, e)
  OBVIOUS
<1>7. /\ reg_stage' = "subsets" /\ fas_idx' = 1 /\ ms_map_array' = Append(ms, m.set)
      /\ states' = WithMove(st0, m, new)
      /\ UNCHANGED <<nka_states, nka_fas_idx, eps_closures>>
  BY <1>1, <1>2, <1>3, <1>6 DEF TakeNewSet, InSubsets
<1>8. CanBeMade(m, new)
  BY <1>1, <1>2, <1>5, Taken DEF QueueElement, CanBeMade
<1>9. /\ IsAutomaton(st0) /\ Len(st0) = new /\ st0[new] = e
      /\ \A s \in 1 .. n : st0[s] = st[s]
  <2>1. PICK one, k : one = <<e>> /\ k = 1
    OBVIOUS
  <2>2. k \in Nat /\ one \in Seq(StateOver(n + k)) /\ Len(one) = k
    <3>1. <<>> \in Seq(MoveOver(n + k)) /\ IsFinal(m.set) \in BOOLEAN
      BY DEF IsFinal
    <3>2. e \in StateOver(n + k)
      BY <1>6, <3>1 DEF StateOver
    <3> QED
      BY <2>1, <3>2
  <2>3. IsAutomaton(st \o one)
    BY <1>2, <1>5, <2>2, MoreStates
  <2>4. PICK S : st \in Seq(S) /\ e \in S
    <3>1. PICK T : st \in Seq(T)
      BY <1>5 DEF IsAutomaton
    <3>2. st \in Seq(T \union {e}) /\ e \in T \union {e}
      BY <3>1, SeqWider
    <3> QED
      BY <3>2
  <2>5. st \o one = st0
    BY <1>6, <2>1, <2>4, AppendOne
  <2>6. /\ Len(st0) = Len(st) + 1 /\ st0[Len(st) + 1] = e
        /\ \A s \in 1 .. Len(st) : st0[s] = st[s]
    BY <1>6, <2>4
  <2> QED
    BY <1>2, <2>3, <2>5, <2>6
<1>10. \A s \in 1 .. new : states'[s].final = st0[s].final
  <2>1. new \in Nat /\ new \in 1 .. new
    BY <1>2, <1>5
  <2> QED
    BY <1>7, <1>8, <1>9, <2>1, FinalKept
<1>11. PICK ms2 : ms2 = Append(ms, m.set)
  OBVIOUS
<1>12. /\ DOMAIN ms2 = 1 .. new /\ ms2[new] = m.set /\ \A s \in 1 .. n : ms2[s] = ms[s]
       /\ ms2 # <<>>
  BY <1>2, <1>4, <1>5, <1>11
<1>13. FinalsRight(nka_states, ms2, states')
  <2>1. ASSUME NEW s \in 1 .. new
        PROVE  states'[s].final <=> \E r \in ToSet(ms2[s]) : nka_states[r].final
    <3>1. CASE s = new
      <4>1. states'[s].final = IsFinal(m.set)
        BY <1>6, <1>9, <1>10, <3>1
      <4> QED
        BY <1>12, <3>1, <4>1 DEF IsFinal
    <3>2. CASE s # new
      <4>1. s \in 1 .. n
        BY <1>2, <1>5, <3>2
      <4>2. states'[s].final = st[s].final
        BY <1>9, <1>10, <4>1
      <4> QED
        BY <1>3, <1>5, <1>12, <4>1, <4>2 DEF FinalsRight
    <3> QED
      BY <3>1, <3>2
  <2> QED
    BY <1>12, <2>1 DEF FinalsRight
<1>14. FirstIs(eps_closures, nka_fas_idx, ms2, msm_queue')
  <2>1. CASE n = 0
    <3>1. ms = <<>>
      BY <1>4, <1>5, <2>1
    <3>2. m.set = eps_closures[nka_fas_idx]
      BY <1>2, <1>3, <3>1 DEF FirstIs, TakenMove
    <3>3. ms2[1] = m.set
      BY <1>2, <1>12, <2>1
    <3> QED
      BY <1>12, <3>2, <3>3 DEF FirstIs
  <2>2. CASE n # 0
    <3>1. ms # <<>> /\ 1 \in 1 .. n
      BY <1>5, <2>2
    <3>2. ms2[1] = ms[1]
      BY <1>12, <3>1
    <3> QED
      BY <1>3, <1>12, <3>1, <3>2 DEF FirstIs
  <2> QED
    BY <2>1, <2>2
<1> QED
  BY <1>3, <1>7, <1>11, <1>13, <1>14 DEF LookInv, SetsInv

LEMMA SubsetsDoneLooks ==
  ASSUME RegExpInv, SetsInv, SubsetsDone
  PROVE  LookInv' /\ SetsInv'
<1>1. /\ reg_stage = "subsets" /\ reg_stage' = "done" /\ msm_queue = <<>>
      /\ UNCHANGED <<states, fas_idx, nka_states, nka_fas_idx, eps_closures, msm_queue,
                     ms_map_array>>
  BY DEF SubsetsDone, nkaVars
<1>2. /\ fas_idx = 1 /\ ClosuresRight(nka_states, eps_closures)
      /\ FinalsRight(nka_states, ms_map_array, states)
      /\ FirstIs(eps_closures, nka_fas_idx, ms_map_array, msm_queue)
  BY <1>1 DEF SetsInv, InDka
<1> QED
  BY <1>1, <1>2 DEF LookInv, SetsInv

LEMMA ParseLooks ==
  ASSUME RegExpInv, ParseNext, UNCHANGED nkaVars
  PROVE  LookInv' /\ SetsInv'
<1>1. reg_stage = "parse" /\ reg_stage' \in {"parse", "closures", "failed"}
  BY DEF ParseNext, SkipToken, ReadToken, TokenError, ActionError, ShiftToken, AcceptRegExp,
         ReduceNull, ReduceAlter, ReduceConc, ReduceIter, ReduceEps, ReduceChar, ReduceStr,
         ReduceRange, RangeError, ReduceCharSet, ReduceExcept, ReduceBy, Reading, Parsing
<1>2. nka_states' = <<>>
  BY <1>1, InParse DEF NkaUntouched, nkaVars
<1> QED
  BY <1>1, <1>2 DEF LookInv, SetsInv, InDka

LEMMA WordKeeps == WordInv /\ [RegExpNext]_regExpVars => WordInv'
<1> SUFFICES ASSUME RegExpInv, LookInv, SetsInv, [RegExpNext]_regExpVars
             PROVE  WordInv'
  BY DEF WordInv
<1>1. RegExpInv'
  BY RegExpKeeps
<1>2. LookInv' /\ SetsInv'
  <2>1. CASE ParseNext /\ UNCHANGED nkaVars
    BY <2>1, ParseLooks
  <2>2. CASE StartClosures \/ JoinClosure \/ ProcessState \/ NextClosure \/ StartSubsets
    BY <2>2, StartClosuresLooks, JoinClosureLooks, ProcessStateLooks, NextClosureLooks,
       StartSubsetsLooks
  <2>3. CASE TakeKnownSet \/ TakeNewSet \/ SubsetsDone
    BY <2>3, TakeKnownSetLooks, TakeNewSetLooks, SubsetsDoneLooks
  <2>4. CASE UNCHANGED regExpVars
    <3>1. UNCHANGED <<reg_stage, states, fas_idx, nka_states, nka_fas_idx, eps_closures,
                      s_idx, state_idx_stack, processed_states, msm_queue, ms_map_array>>
      BY <2>4 DEF regExpVars, regVars, partVars, nkaVars, closureVars
    <3> QED
      BY <3>1 DEF LookInv, SetsInv, InDka
  <2> QED
    BY <2>1, <2>2, <2>3, <2>4 DEF RegExpNext, NkaNext
<1> QED
  BY <1>1, <1>2 DEF WordInv

LEMMA WordStarts == RegExpInit => WordInv
<1> SUFFICES ASSUME RegExpInit
             PROVE  WordInv
  OBVIOUS
<1>1. reg_stage = "parse"
  BY DEF RegExpInit, ParseInit
<1> QED
  BY <1>1, RegExpStarts DEF WordInv, LookInv, SetsInv, InDka

(* While the closures are collected nothing wrong is in them and nothing is
   lost, and the sets, the final states and the first state that
   NKA_to_DKA makes of them are those of the closures
   (parser_code.cc:2809-3052). *)
THEOREM WordInvariant == RegExpSpec => []WordInv
BY WordStarts, WordKeeps, PTL DEF RegExpSpec

LEMMA ClosuresAreExact == WordInv => ClosuresExact
<1> SUFFICES ASSUME RegExpInv, LookInv, ClosureDone
             PROVE  /\ ToSet(eps_closures[s_idx]) =
                         {r \in EpsReach(nka_states, {s_idx}) : Matters(r)}
                    /\ IsInjective(eps_closures[s_idx])
  BY DEF WordInv, ClosuresExact
<1>1. reg_stage = "closures" /\ nka_states # <<>> /\ state_idx_stack = <<>>
  BY DEF ClosureDone
<1>2. ToSet(eps_closures[s_idx]) = Closure(nka_states, s_idx)
  BY <1>1, LookingNow, LookedAll
<1>3. IsInjective(eps_closures[s_idx])
  <2>1. s_idx \in DOMAIN eps_closures
    BY <1>1, LookingNow
  <2> QED
    BY <1>1, <2>1, InClosureStage DEF NkaInv
<1> QED
  BY <1>2, <1>3, CountsIs DEF Closure

(* A finished closure holds, once each, just the states that are reached
   without a character and matter, also where it was put together from the
   closures of earlier states (parser_code.cc:2826-2882). *)
THEOREM ClosuresStayExact == RegExpSpec => []ClosuresExact
BY WordInvariant, ClosuresAreExact, PTL

(* Both: what a finished closure holds (process_reg_exp, 2850-2864), and which
   state stands for which set of states (2943-3004). *)
THEOREM SetsStayExact == RegExpSpec => []SetsExact
<1>1. ClosuresExact /\ SubsetsExact => SetsExact
  BY DEF SetsExact
<1> QED
  BY <1>1, ClosuresStayExact, SubsetsStayExact, PTL

-----------------------------------------------------------------------------
(* The words.  The states dka of the new automaton stand for sets ms[s] of
   states that count: what leads on from a state is what leads on from the
   members of its set. *)

Counting(nka, U) == {r \in U : Counts(nka, r)}

RowStands(dka, nka, ms, s) ==
  /\ ToSet(ms[s]) \subseteq 1 .. Len(nka)
  /\ {m.idx : m \in ToSet(dka[s].moves)} = Letters(nka, ToSet(ms[s]))
  /\ \A m \in ToSet(dka[s].moves) :
       ToSet(ms[m.value]) =
         Counting(nka, EpsReach(nka, LeadTo(nka, ToSet(ms[s]), m.idx)))
  /\ dka[s].final <=> \E r \in ToSet(ms[s]) : nka[r].final

AllStand(dka, nka, ms) ==
  /\ IsAutomaton(dka) /\ IsAutomaton(nka)
  /\ \A s \in 1 .. Len(dka) : RowStands(dka, nka, ms, s)

(* The states T stand for U. *)
Stand(dka, nka, ms, T, U) ==
  /\ T # {} /\ T \subseteq 1 .. Len(dka) /\ U \subseteq 1 .. Len(nka)
  /\ \A s \in T : ToSet(ms[s]) = Counting(nka, U)

LEMMA MovesOfAre ==
  ASSUME NEW nka, IsAutomaton(nka), NEW s \in 1 .. Len(nka)
  PROVE  /\ MovesOf(nka, s) \in Seq(MoveOver(Len(nka)))
         /\ ToSet(MovesOf(nka, s)) = {m \in ToSet(nka[s].moves) : m.idx # EpsMove}
<1>1. PICK n, S, moves : n = Len(nka) /\ S = StateOver(n) /\ moves = nka[s].moves
  OBVIOUS
<1>2. nka \in Seq(S) /\ n \in Nat
  BY <1>1, StatesOf DEF IsAutomaton
<1>3. moves \in Seq(MoveOver(n))
  <2>1. nka[s] \in S
    BY <1>1, <1>2
  <2> QED
    BY <1>1, <2>1 DEF StateOver
<1>4. /\ MovesOf(nka, s) \in Seq(MoveOver(n))
      /\ ToSet(MovesOf(nka, s)) = ToSet(moves) \cap MovesWith(Nat \ {EpsMove})
  BY <1>1, <1>3, ElementsInIs DEF MovesOf
<1>5. ToSet(moves) \subseteq MoveOver(n)
  BY <1>3, OwnSeq
<1>6. \A m \in MoveOver(n) : m \in MovesWith(Nat \ {EpsMove}) <=> m.idx # EpsMove
  <2>1. \A m \in MoveOver(n) : m.idx \in Nat
    BY MoveIdxs DEF MoveOver
  <2> QED
    BY <1>2, <2>1 DEF MoveOver, MovesWith
<1> QED
  BY <1>1, <1>4, <1>5, <1>6

(* A state that a character leads on from counts. *)
LEMMA LeaderCounts ==
  ASSUME NEW nka, IsAutomaton(nka), NEW s \in 1 .. Len(nka),
         NEW m \in ToSet(nka[s].moves), m.idx # EpsMove
  PROVE  Counts(nka, s)
<1>1. m \in ToSet(MovesOf(nka, s))
  BY MovesOfAre
<1>2. ToSet(<<>>) = {}
  BY DEF ToSet
<1> QED
  BY <1>1, <1>2 DEF Counts

LEMMA CountingLead ==
  ASSUME NEW nka, IsAutomaton(nka), NEW U \in SUBSET (1 .. Len(nka))
  PROVE  /\ Letters(nka, Counting(nka, U)) = Letters(nka, U)
         /\ \A c : c # EpsMove => LeadTo(nka, Counting(nka, U), c) = LeadTo(nka, U, c)
<1>1. PICK C : C = Counting(nka, U)
  OBVIOUS
<1>2. MovesFrom(nka, C) \subseteq MovesFrom(nka, U)
  BY <1>1 DEF MovesFrom, Counting
<1>3. ASSUME NEW m \in MovesFrom(nka, U), m.idx # EpsMove
      PROVE  m \in MovesFrom(nka, C)
  <2>1. PICK r \in U : m \in ToSet(nka[r].moves)
    BY DEF MovesFrom
  <2>2. r \in C
    BY <1>1, <1>3, <2>1, LeaderCounts DEF Counting
  <2> QED
    BY <2>1, <2>2 DEF MovesFrom
<1>4. Letters(nka, C) = Letters(nka, U)
  BY <1>2, <1>3 DEF Letters
<1>5. ASSUME NEW c, c # EpsMove
      PROVE  LeadTo(nka, C, c) = LeadTo(nka, U, c)
  BY <1>2, <1>3, <1>5 DEF LeadTo
<1> QED
  BY <1>1, <1>4, <1>5

(* TargetsIn and AllMoves, by what is reached. *)
LEMMA AllMovesAre ==
  ASSUME NEW nka, IsAutomaton(nka), NEW U \in SUBSET (1 .. Len(nka))
  PROVE  /\ AllMoves(nka, U) = {m \in MovesFrom(nka, U) : m.idx # EpsMove}
         /\ {m.idx : m \in AllMoves(nka, U)} = Letters(nka, U)
<1>1. \A s \in U : ToSet(MovesOf(nka, s)) = {m \in ToSet(nka[s].moves) : m.idx # EpsMove}
  BY MovesOfAre
<1>2. AllMoves(nka, U) = {m \in MovesFrom(nka, U) : m.idx # EpsMove}
  BY <1>1 DEF AllMoves, MovesFrom
<1> QED
  BY <1>2 DEF Letters

LEMMA TargetsReach ==
  ASSUME NEW nka, IsAutomaton(nka), NEW eps, ClosuresRight(nka, eps),
         NEW U \in SUBSET (1 .. Len(nka)), NEW c, c # EpsMove
  PROVE  TargetsIn(nka, eps, U, c) = Counting(nka, EpsReach(nka, LeadTo(nka, U, c)))
<1>1. PICK L : L = LeadTo(nka, U, c) /\ L \in SUBSET (1 .. Len(nka))
  BY LeadsIn
<1>2. L = {m.value : m \in {m \in AllMoves(nka, U) : m.idx = c}}
  BY <1>1, AllMovesAre DEF LeadTo
<1>3. TargetsIn(nka, eps, U, c) = UNION {ToSet(eps[q]) : q \in L}
  BY <1>2 DEF TargetsIn
<1>4. \A q \in L : ToSet(eps[q]) = Closure(nka, q)
  BY <1>1, StatesOf DEF ClosuresRight
<1>5. EpsReach(nka, L) = UNION {EpsReach(nka, {q}) : q \in L}
  BY <1>1, ReachUnion
<1>6. UNION {ToSet(eps[q]) : q \in L} = UNION {Closure(nka, q) : q \in L}
  BY <1>4
<1>7. UNION {Closure(nka, q) : q \in L} =
        {r \in UNION {EpsReach(nka, {q}) : q \in L} : Counts(nka, r)}
  <2>1. \A q, r : r \in Closure(nka, q) <=> r \in EpsReach(nka, {q}) /\ Counts(nka, r)
    BY DEF Closure
  <2>2. \A r : r \in UNION {Closure(nka, q) : q \in L} <=>
              \E q \in L : r \in Closure(nka, q)
    OBVIOUS
  <2>3. \A r : r \in UNION {EpsReach(nka, {q}) : q \in L} <=>
              \E q \in L : r \in EpsReach(nka, {q})
    OBVIOUS
  <2> QED
    BY <2>1, <2>2, <2>3
<1> QED
  BY <1>1, <1>3, <1>5, <1>6, <1>7 DEF Counting

(* The automaton that NKA_to_DKA has made. *)
LEMMA DkaStands ==
  ASSUME RegExpInv, SetsInv, reg_stage = "done"
  PROVE  /\ AllStand(states, nka_states, ms_map_array) /\ fas_idx = 1
         /\ nka_fas_idx \in 1 .. Len(nka_states)
         /\ 1 \in 1 .. Len(states)
         /\ ToSet(ms_map_array[1]) = Closure(nka_states, nka_fas_idx)
<1>1. /\ SubsetTypes /\ MovesExact /\ fas_idx = 1 /\ msm_queue = <<>>
      /\ ClosuresRight(nka_states, eps_closures)
      /\ FinalsRight(nka_states, ms_map_array, states)
      /\ FirstIs(eps_closures, nka_fas_idx, ms_map_array, msm_queue)
  BY DEF RegExpInv, SubsetInv, SetsInv, InDka
<1>2. PICK nka, dka, ms, eps, n, k :
        /\ nka = nka_states /\ dka = states /\ ms = ms_map_array /\ eps = eps_closures
        /\ n = Len(nka) /\ k = Len(dka)
  OBVIOUS
<1>3. /\ IsAutomaton(nka) /\ IsAutomaton(dka) /\ nka_fas_idx \in DOMAIN nka
      /\ ms \in Seq(Seq(1 .. n)) /\ Len(ms) = k /\ ms # <<>>
  BY <1>1, <1>2 DEF SubsetTypes, NkaInv, NkaSet, FirstSet
<1>4. DOMAIN nka = 1 .. n /\ n \in Nat /\ k \in Nat /\ DOMAIN ms = 1 .. k
  BY <1>2, <1>3, StatesOf
<1>5. ASSUME NEW s \in 1 .. k
      PROVE  RowStands(dka, nka, ms, s)
  <2>1. PICK set : set = ToSet(ms[s]) /\ set \in SUBSET (1 .. n)
    <3>1. ms[s] \in Seq(1 .. n)
      BY <1>3, <1>4
    <3> QED
      BY <3>1, OwnSeq
  <2>2. MovesRight(nka, eps, ms, dka, <<>>, s)
    BY <1>1, <1>2, <1>4, ExactIs
  <2>3. ToSet(<<>>) = {}
    BY DEF ToSet
  <2>4. /\ \A m \in ToSet(dka[s].moves) : ToSet(ms[m.value]) = TargetsIn(nka, eps, set, m.idx)
        /\ {m.idx : m \in ToSet(dka[s].moves)} = {m.idx : m \in AllMoves(nka, set)}
    BY <2>1, <2>2, <2>3 DEF MovesRight
  <2>5. {m.idx : m \in AllMoves(nka, set)} = Letters(nka, set)
    BY <1>2, <1>3, <2>1, AllMovesAre
  <2>6. ASSUME NEW m \in ToSet(dka[s].moves)
        PROVE  ToSet(ms[m.value]) = Counting(nka, EpsReach(nka, LeadTo(nka, set, m.idx)))
    <3>1. PICK c : c = m.idx /\ c # EpsMove
      BY <2>4, <2>5 DEF Letters
    <3>2. TargetsIn(nka, eps, set, c) = Counting(nka, EpsReach(nka, LeadTo(nka, set, c)))
      <4>1. set \in SUBSET (1 .. Len(nka)) /\ ClosuresRight(nka, eps) /\ IsAutomaton(nka)
        BY <1>1, <1>2, <1>3, <2>1
      <4> QED
        BY <3>1, <4>1, TargetsReach
    <3> QED
      BY <2>4, <3>1, <3>2
  <2>7. dka[s].final <=> \E r \in set : nka[r].final
    BY <1>1, <1>2, <1>4, <2>1 DEF FinalsRight
  <2> QED
    BY <1>2, <2>1, <2>4, <2>5, <2>6, <2>7 DEF RowStands
<1>6. 1 \in 1 .. k
  BY <1>3, <1>4
<1>7. ToSet(ms[1]) = Closure(nka, nka_fas_idx)
  <2>1. ms[1] = eps[nka_fas_idx]
    BY <1>1, <1>2, <1>3 DEF FirstIs
  <2> QED
    BY <1>1, <1>2, <1>3, <2>1 DEF ClosuresRight
<1> QED
  BY <1>1, <1>2, <1>3, <1>4, <1>5, <1>6, <1>7 DEF AllStand

(* No move of the new automaton is without a character. *)
LEMMA NothingReached ==
  ASSUME NEW dka, NEW nka, NEW ms, AllStand(dka, nka, ms), NEW T \in SUBSET (1 .. Len(dka))
  PROVE  EpsReach(dka, T) = T
<1>1. ASSUME NEW s \in T, NEW m \in ToSet(dka[s].moves)
      PROVE  m.idx # EpsMove
  <2>1. RowStands(dka, nka, ms, s)
    BY DEF AllStand
  <2>2. m.idx \in Letters(nka, ToSet(ms[s]))
    BY <2>1 DEF RowStands
  <2> QED
    BY <2>2 DEF Letters
<1>2. EpsClosed(dka, T)
  BY <1>1 DEF EpsClosed
<1>3. Len(dka) \in Nat /\ T \subseteq T
  BY StatesOf DEF AllStand
<1> QED
  BY <1>2, <1>3, ReachLeast

LEMMA StandFurther ==
  ASSUME NEW dka, NEW nka, NEW ms, AllStand(dka, nka, ms),
         NEW T, NEW U, Stand(dka, nka, ms, T, U)
  PROVE  /\ Letters(dka, T) = Letters(nka, U)
         /\ \A c \in Letters(dka, T) :
              Stand(dka, nka, ms, EpsReach(dka, LeadTo(dka, T, c)),
                                  EpsReach(nka, LeadTo(nka, U, c)))
<1>1. /\ IsAutomaton(dka) /\ IsAutomaton(nka)
      /\ T # {} /\ T \in SUBSET (1 .. Len(dka)) /\ U \in SUBSET (1 .. Len(nka))
  BY DEF AllStand, Stand
<1>2. PICK C : C = Counting(nka, U)
  OBVIOUS
<1>3. /\ Letters(nka, C) = Letters(nka, U)
      /\ \A c : c # EpsMove => LeadTo(nka, C, c) = LeadTo(nka, U, c)
  BY <1>1, <1>2, CountingLead
<1>4. ASSUME NEW s \in T
      PROVE  /\ {m.idx : m \in ToSet(dka[s].moves)} = Letters(nka, U)
             /\ \A m \in ToSet(dka[s].moves) :
                  ToSet(ms[m.value]) = Counting(nka, EpsReach(nka, LeadTo(nka, U, m.idx)))
  <2>1. RowStands(dka, nka, ms, s) /\ ToSet(ms[s]) = C
    BY <1>1, <1>2 DEF AllStand, Stand
  <2>2. {m.idx : m \in ToSet(dka[s].moves)} = Letters(nka, U)
    BY <1>3, <2>1 DEF RowStands
  <2>3. ASSUME NEW m \in ToSet(dka[s].moves)
        PROVE  ToSet(ms[m.value]) = Counting(nka, EpsReach(nka, LeadTo(nka, U, m.idx)))
    <3>1. m.idx # EpsMove
      BY <2>2 DEF Letters
    <3>2. LeadTo(nka, C, m.idx) = LeadTo(nka, U, m.idx)
      BY <1>3, <3>1
    <3> QED
      BY <2>1, <3>2 DEF RowStands
  <2> QED
    BY <2>2, <2>3
<1>5. Letters(dka, T) = Letters(nka, U)
  <2>1. \A x : x \in {m.idx : m \in MovesFrom(dka, T)} <=> x \in Letters(nka, U)
    <3>1. ASSUME NEW m \in MovesFrom(dka, T)
          PROVE  m.idx \in Letters(nka, U)
      BY <1>4 DEF MovesFrom
    <3>2. ASSUME NEW x \in Letters(nka, U)
          PROVE  \E m \in MovesFrom(dka, T) : x = m.idx
      <4>1. PICK s \in T : TRUE
        BY <1>1
      <4>2. PICK m \in ToSet(dka[s].moves) : x = m.idx
        BY <1>4, <4>1
      <4> QED
        BY <4>1, <4>2 DEF MovesFrom
    <3> QED
      BY <3>1, <3>2
  <2> QED
    BY <2>1 DEF Letters
<1>6. ASSUME NEW c \in Letters(dka, T)
      PROVE  Stand(dka, nka, ms, EpsReach(dka, LeadTo(dka, T, c)),
                                 EpsReach(nka, LeadTo(nka, U, c)))
  <2>1. PICK T2, L, U2 : /\ T2 = LeadTo(dka, T, c) /\ L = LeadTo(nka, U, c)
                         /\ U2 = EpsReach(nka, L)
    OBVIOUS
  <2>2. T2 \in SUBSET (1 .. Len(dka)) /\ L \in SUBSET (1 .. Len(nka))
    BY <1>1, <2>1, LeadsIn
  <2>3. EpsReach(dka, T2) = T2
    BY <2>2, NothingReached
  <2>4. U2 \subseteq 1 .. Len(nka)
    BY <1>1, <2>1, <2>2, ReachClosed
  <2>5. T2 # {}
    BY <2>1 DEF Letters, LeadTo
  <2>6. ASSUME NEW q \in T2
        PROVE  ToSet(ms[q]) = Counting(nka, U2)
    <3>1. PICK s \in T : \E m \in ToSet(dka[s].moves) : m.idx = c /\ q = m.value
      BY <2>1 DEF LeadTo, MovesFrom
    <3>2. PICK m \in ToSet(dka[s].moves) : m.idx = c /\ q = m.value
      BY <3>1
    <3> QED
      BY <1>4, <2>1, <3>2
  <2> QED
    BY <2>1, <2>2, <2>3, <2>4, <2>5, <2>6 DEF Stand
<1> QED
  BY <1>5, <1>6

(* One of T is final just if one of U is. *)
LEMMA StandFinal ==
  ASSUME NEW dka, NEW nka, NEW ms, AllStand(dka, nka, ms),
         NEW T, NEW U, Stand(dka, nka, ms, T, U)
  PROVE  (\E s \in T : dka[s].final) <=> (\E r \in U : nka[r].final)
<1>1. \A s \in T : dka[s].final <=> \E r \in Counting(nka, U) : nka[r].final
  <2>1. ASSUME NEW s \in T
        PROVE  dka[s].final <=> \E r \in Counting(nka, U) : nka[r].final
    <3>1. RowStands(dka, nka, ms, s) /\ ToSet(ms[s]) = Counting(nka, U)
      BY DEF AllStand, Stand
    <3> QED
      BY <3>1 DEF RowStands
  <2> QED
    BY <2>1
<1>2. (\E r \in Counting(nka, U) : nka[r].final) <=> (\E r \in U : nka[r].final)
  BY DEF Counting, Counts
<1>3. T # {}
  BY DEF Stand
<1> QED
  BY <1>1, <1>2, <1>3

(* The ways of Accepted, a function that refers to itself. *)
Further(aut, w, c) ==
  [word |-> Append(w.word, c), at |-> EpsReach(aut, LeadTo(aut, w.at, c))]

WayStep(g, aut, first, n) ==
  IF n = 0 THEN {[word |-> <<>>, at |-> EpsReach(aut, {first})]}
  ELSE UNION {{Further(aut, w, c) : c \in Letters(aut, w.at)} : w \in g[n - 1]}

Ways(g, aut, first, n) == g = [k \in 0 .. n |-> WayStep(g, aut, first, k)]

LEMMA WaysAt ==
  ASSUME NEW aut, NEW first, NEW n \in Nat, NEW g, Ways(g, aut, first, n), NEW k \in 0 .. n
  PROVE  g[k] = WayStep(g, aut, first, k)
<1> DEFINE F(r) == [j \in 0 .. n |-> WayStep(r, aut, first, j)]
<1>1. g = F(g)
  BY DEF Ways
<1>2. F(g)[k] = WayStep(g, aut, first, k)
  OBVIOUS
<1> HIDE DEF F
<1> QED
  BY <1>1, <1>2

LEMMA WaysExist ==
  ASSUME NEW aut, NEW first, NEW n \in Nat
  PROVE  \E g : Ways(g, aut, first, n)
<1> DEFINE P == {k \in Nat : \E g : Ways(g, aut, first, k)}
<1>1. 0 \in P
  <2>1. PICK one : one = {[word |-> <<>>, at |-> EpsReach(aut, {first})]}
    OBVIOUS
  <2>2. PICK g : g = [k \in 0 .. 0 |-> one]
    OBVIOUS
  <2>3. g = [k \in 0 .. 0 |-> WayStep(g, aut, first, k)]
    BY <2>1, <2>2 DEF WayStep
  <2> QED
    BY <2>3 DEF Ways
<1>2. ASSUME NEW k \in Nat, k \in P
      PROVE  k + 1 \in P
  <2>1. PICK g : Ways(g, aut, first, k)
    BY <1>2
  <2> DEFINE more == [j \in 0 .. k + 1 |-> WayStep(g, aut, first, j)]
  <2>2. ASSUME NEW j \in 0 .. k
        PROVE  more[j] = g[j]
    <3>1. g[j] = WayStep(g, aut, first, j)
      BY <2>1, WaysAt
    <3> QED
      BY <3>1
  <2>3. ASSUME NEW j \in 0 .. k + 1
        PROVE  WayStep(more, aut, first, j) = WayStep(g, aut, first, j)
    <3>1. CASE j = 0
      BY <3>1 DEF WayStep
    <3>2. CASE j # 0
      <4>1. j - 1 \in 0 .. k
        BY <3>2
      <4>2. more[j - 1] = g[j - 1]
        BY <2>2, <4>1
      <4> HIDE DEF more
      <4> QED
        BY <4>2 DEF WayStep
    <3> QED
      BY <3>1, <3>2
  <2>4. more = [j \in 0 .. k + 1 |-> WayStep(more, aut, first, j)]
    BY <2>3
  <2> HIDE DEF more
  <2>5. Ways(more, aut, first, k + 1)
    BY <2>4 DEF Ways
  <2> QED
    BY <2>5
<1> HIDE DEF P
<1>3. n \in P
  BY <1>1, <1>2, SetInduction
<1> QED
  BY <1>3 DEF P

AcceptedOf(g, aut) ==
  {w.word : w \in {w \in UNION {g[n] : n \in 0 .. WordMax} : \E s \in w.at : aut[s].final}}

LEMMA AcceptedIs ==
  ASSUME NEW aut, NEW first
  PROVE  \E g : Ways(g, aut, first, WordMax) /\ Accepted(aut, first) = AcceptedOf(g, aut)
<1> DEFINE g == CHOOSE g : Ways(g, aut, first, WordMax)
<1>1. Ways(g, aut, first, WordMax)
  BY WaysExist, WordMaxAssumption
<1>2. Accepted(aut, first) = AcceptedOf(g, aut)
  BY DEF Accepted, AcceptedOf, Ways, WayStep, Further
<1> QED
  BY <1>1, <1>2

(* Ways of both automata, with the same words to states that stand for one
   another. *)
WordsAgree(dka, nka, ms, V, W) ==
  /\ \A v \in V : \E w \in W : v.word = w.word /\ Stand(dka, nka, ms, v.at, w.at)
  /\ \A w \in W : \E v \in V : v.word = w.word /\ Stand(dka, nka, ms, v.at, w.at)

LEMMA AgreeFurther ==
  ASSUME NEW dka, NEW nka, NEW ms, AllStand(dka, nka, ms),
         NEW v, NEW w, v.word = w.word, Stand(dka, nka, ms, v.at, w.at)
  PROVE  /\ Letters(dka, v.at) = Letters(nka, w.at)
         /\ \A c \in Letters(dka, v.at) :
              /\ Further(dka, v, c).word = Further(nka, w, c).word
              /\ Stand(dka, nka, ms, Further(dka, v, c).at, Further(nka, w, c).at)
<1>1. PICK T, U : T = v.at /\ U = w.at
  OBVIOUS
<1>2. Letters(dka, T) = Letters(nka, U)
  BY <1>1, StandFurther
<1>3. ASSUME NEW c \in Letters(dka, T)
      PROVE  Stand(dka, nka, ms, EpsReach(dka, LeadTo(dka, T, c)),
                                 EpsReach(nka, LeadTo(nka, U, c)))
  BY <1>1, StandFurther
<1> QED
  BY <1>1, <1>2, <1>3 DEF Further

LEMMA WordsGoOn ==
  ASSUME NEW dka, NEW nka, NEW ms, AllStand(dka, nka, ms),
         NEW V, NEW W, WordsAgree(dka, nka, ms, V, W)
  PROVE  WordsAgree(dka, nka, ms,
           UNION {{Further(dka, v, c) : c \in Letters(dka, v.at)} : v \in V},
           UNION {{Further(nka, w, c) : c \in Letters(nka, w.at)} : w \in W})
<1>1. PICK V2, W2 :
        /\ V2 = UNION {{Further(dka, v, c) : c \in Letters(dka, v.at)} : v \in V}
        /\ W2 = UNION {{Further(nka, w, c) : c \in Letters(nka, w.at)} : w \in W}
  OBVIOUS
<1>2. ASSUME NEW x \in V2
      PROVE  \E y \in W2 : x.word = y.word /\ Stand(dka, nka, ms, x.at, y.at)
  <2>1. PICK v \in V : \E c \in Letters(dka, v.at) : x = Further(dka, v, c)
    BY <1>1
  <2>2. PICK c \in Letters(dka, v.at) : x = Further(dka, v, c)
    BY <2>1
  <2>3. PICK w \in W : v.word = w.word /\ Stand(dka, nka, ms, v.at, w.at)
    BY DEF WordsAgree
  <2>4. PICK y : y = Further(nka, w, c)
    OBVIOUS
  <2>5. c \in Letters(nka, w.at) /\ x.word = y.word /\ Stand(dka, nka, ms, x.at, y.at)
    BY <2>2, <2>3, <2>4, AgreeFurther
  <2>6. y \in W2
    BY <1>1, <2>4, <2>5
  <2> QED
    BY <2>5, <2>6
<1>3. ASSUME NEW y \in W2
      PROVE  \E x \in V2 : x.word = y.word /\ Stand(dka, nka, ms, x.at, y.at)
  <2>1. PICK w \in W : \E c \in Letters(nka, w.at) : y = Further(nka, w, c)
    BY <1>1
  <2>2. PICK c \in Letters(nka, w.at) : y = Further(nka, w, c)
    BY <2>1
  <2>3. PICK v \in V : v.word = w.word /\ Stand(dka, nka, ms, v.at, w.at)
    BY DEF WordsAgree
  <2>4. PICK x : x = Further(dka, v, c)
    OBVIOUS
  <2>5. c \in Letters(dka, v.at) /\ x.word = y.word /\ Stand(dka, nka, ms, x.at, y.at)
    BY <2>2, <2>3, <2>4, AgreeFurther
  <2>6. x \in V2
    BY <1>1, <2>4, <2>5
  <2> QED
    BY <2>5, <2>6
<1> QED
  BY <1>1, <1>2, <1>3 DEF WordsAgree

LEMMA WaysAgree ==
  ASSUME NEW dka, NEW nka, NEW ms, AllStand(dka, nka, ms),
         NEW d \in 1 .. Len(dka), NEW f \in 1 .. Len(nka),
         ToSet(ms[d]) = Closure(nka, f),
         NEW N \in Nat, NEW g, Ways(g, dka, d, N), NEW h, Ways(h, nka, f, N)
  PROVE  \A n \in 0 .. N : WordsAgree(dka, nka, ms, g[n], h[n])
<1> DEFINE P == {n \in Nat : n <= N => WordsAgree(dka, nka, ms, g[n], h[n])}
<1>1. 0 \in P
  <2>1. PICK v, w : /\ v = [word |-> <<>>, at |-> EpsReach(dka, {d})]
                    /\ w = [word |-> <<>>, at |-> EpsReach(nka, {f})]
    OBVIOUS
  <2>2. 0 \in 0 .. N
    OBVIOUS
  <2>3. g[0] = {v}
    <3>1. g[0] = WayStep(g, dka, d, 0)
      BY <2>2, WaysAt
    <3> QED
      BY <2>1, <3>1 DEF WayStep
  <2>4. h[0] = {w}
    <3>1. h[0] = WayStep(h, nka, f, 0)
      BY <2>2, WaysAt
    <3> QED
      BY <2>1, <3>1 DEF WayStep
  <2>5. v.at = {d}
    <3>1. {d} \in SUBSET (1 .. Len(dka))
      OBVIOUS
    <3> QED
      BY <2>1, <3>1, NothingReached
  <2>6. w.at = EpsReach(nka, {f}) /\ w.at \subseteq 1 .. Len(nka)
    BY <2>1, ReachOne DEF AllStand
  <2>7. Stand(dka, nka, ms, v.at, w.at)
    BY <2>5, <2>6 DEF Stand, Closure, Counting
  <2>8. WordsAgree(dka, nka, ms, g[0], h[0])
    <3>1. v.word = w.word
      BY <2>1
    <3> QED
      BY <2>3, <2>4, <2>7, <3>1 DEF WordsAgree
  <2> QED
    BY <2>8
<1>2. ASSUME NEW n \in Nat, n \in P
      PROVE  n + 1 \in P
  <2> SUFFICES ASSUME n + 1 <= N
               PROVE  WordsAgree(dka, nka, ms, g[n + 1], h[n + 1])
    OBVIOUS
  <2>1. PICK V, W : V = g[n] /\ W = h[n]
    OBVIOUS
  <2>2. WordsAgree(dka, nka, ms, V, W)
    BY <1>2, <2>1
  <2>3. n + 1 \in 0 .. N /\ n + 1 # 0 /\ (n + 1) - 1 = n
    OBVIOUS
  <2>4. g[n + 1] = UNION {{Further(dka, v, c) : c \in Letters(dka, v.at)} : v \in V}
    <3>1. g[n + 1] = WayStep(g, dka, d, n + 1)
      BY <2>3, WaysAt
    <3> QED
      BY <2>1, <2>3, <3>1 DEF WayStep
  <2>5. h[n + 1] = UNION {{Further(nka, w, c) : c \in Letters(nka, w.at)} : w \in W}
    <3>1. h[n + 1] = WayStep(h, nka, f, n + 1)
      BY <2>3, WaysAt
    <3> QED
      BY <2>1, <2>3, <3>1 DEF WayStep
  <2> QED
    BY <2>2, <2>4, <2>5, WordsGoOn
<1> HIDE DEF P
<1>3. \A n \in Nat : n \in P
  BY <1>1, <1>2, SetInduction
<1> QED
  BY <1>3 DEF P

LEMMA WordsAreSame == WordInv => SameWords
<1> SUFFICES ASSUME RegExpInv, SetsInv, reg_stage = "done"
             PROVE  Accepted(states, fas_idx) = Accepted(nka_states, nka_fas_idx)
  BY DEF WordInv, SameWords
<1>1. PICK nka, dka, ms, f :
        /\ nka = nka_states /\ dka = states /\ ms = ms_map_array /\ f = nka_fas_idx
  OBVIOUS
<1>2. /\ AllStand(dka, nka, ms) /\ fas_idx = 1 /\ f \in 1 .. Len(nka)
      /\ 1 \in 1 .. Len(dka) /\ ToSet(ms[1]) = Closure(nka, f)
  BY <1>1, DkaStands
<1>3. PICK g : Ways(g, dka, 1, WordMax) /\ Accepted(dka, 1) = AcceptedOf(g, dka)
  BY AcceptedIs
<1>4. PICK h : Ways(h, nka, f, WordMax) /\ Accepted(nka, f) = AcceptedOf(h, nka)
  BY AcceptedIs
<1>5. \A n \in 0 .. WordMax : WordsAgree(dka, nka, ms, g[n], h[n])
  BY <1>2, <1>3, <1>4, WaysAgree, WordMaxAssumption
<1>6. ASSUME NEW x \in AcceptedOf(g, dka)
      PROVE  x \in AcceptedOf(h, nka)
  <2>1. PICK n \in 0 .. WordMax :
          \E v \in g[n] : x = v.word /\ \E s \in v.at : dka[s].final
    BY DEF AcceptedOf
  <2>2. PICK v \in g[n] : x = v.word /\ \E s \in v.at : dka[s].final
    BY <2>1
  <2>3. PICK w \in h[n] : v.word = w.word /\ Stand(dka, nka, ms, v.at, w.at)
    BY <1>5 DEF WordsAgree
  <2>4. \E r \in w.at : nka[r].final
    BY <1>2, <2>2, <2>3, StandFinal
  <2> QED
    BY <2>2, <2>3, <2>4 DEF AcceptedOf
<1>7. ASSUME NEW x \in AcceptedOf(h, nka)
      PROVE  x \in AcceptedOf(g, dka)
  <2>1. PICK n \in 0 .. WordMax :
          \E w \in h[n] : x = w.word /\ \E r \in w.at : nka[r].final
    BY DEF AcceptedOf
  <2>2. PICK w \in h[n] : x = w.word /\ \E r \in w.at : nka[r].final
    BY <2>1
  <2>3. PICK v \in g[n] : v.word = w.word /\ Stand(dka, nka, ms, v.at, w.at)
    BY <1>5 DEF WordsAgree
  <2>4. \E s \in v.at : dka[s].final
    BY <1>2, <2>2, <2>3, StandFinal
  <2> QED
    BY <2>2, <2>3, <2>4 DEF AcceptedOf
<1>8. AcceptedOf(g, dka) = AcceptedOf(h, nka)
  <2>1. PICK A, B : A = AcceptedOf(g, dka) /\ B = AcceptedOf(h, nka)
    OBVIOUS
  <2>2. \A x : x \in A <=> x \in B
    BY <1>6, <1>7, <2>1
  <2>3. A = {x \in A : TRUE} /\ B = {x \in B : TRUE}
    OBVIOUS
  <2> QED
    BY <2>1, <2>2, <2>3
<1> QED
  BY <1>1, <1>2, <1>3, <1>4, <1>8

(* The deterministic automaton accepts the words that the one of parse_reg_exp
   accepts, however long the words are that are compared (NKA_to_DKA,
   parser_code.cc:2809-3052). *)
THEOREM WordsStaySame == RegExpSpec => []SameWords
BY WordInvariant, WordsAreSame, PTL
=============================================================================
