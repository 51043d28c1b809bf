--------------------------- MODULE CodeGenProofs ---------------------------
(***************************************************************************)
(* Proofs about the lexers that are written: whatever the automaton is, and *)
(* however many characters there are, the tests emitted for a state find   *)
(* the move of every character, and the code that runs them implements     *)
(* recognize.                                                              *)
(***************************************************************************)
EXTENDS CodeGen, TLAPS

HoldingIn(tests, c) == {i \in DOMAIN tests : IsTrue(tests[i], c)}

(* The first test that holds leads to the state, or there is none. *)
LeadsTo(tests, c, to) ==
  IF HoldingIn(tests, c) = {} THEN to = NotExist
  ELSE \E i \in HoldingIn(tests, c) :
         /\ \A j \in HoldingIn(tests, c) : i <= j
         /\ tests[i].to = to

Tests(S) == [lo : Nat, hi : Nat, to : S]
StateCodes(S) == [tests : Seq(Tests(S)), return : BOOLEAN]

(* Whatever a row leads to. *)
Targets == {state_moves[s][c] : s \in Nat, c \in Chars} \ {NotExist}

EmissionTypes ==
  /\ gen_stage \in {"state", "runs", "return", "done"}
  /\ s_idx \in Nat \ {0}
  /\ b_idx \in Nat /\ e_idx \in 0 .. c_base_char_cnt
  /\ f_idx \in 0 .. c_base_char_cnt
  /\ code \in Seq(StateCodes(Targets))
  /\ Len(code) = IF gen_stage \in {"runs", "return"} THEN s_idx ELSE s_idx - 1

(* The states that are finished. *)
FinishedInv ==
  \A s \in 1 .. s_idx - 1 : \A c \in Chars :
    /\ LeadsTo(code[s].tests, c, Row(s)[c])
    /\ HoldingIn(code[s].tests, c) = {} => code[s].return \/ lang = "rust"

(* The characters in front of f_idx are tested. *)
FrontTested ==
  \A c \in Chars : c < f_idx => HoldingIn(code[s_idx].tests, c) # {}

(* The characters in front of the run at hand are tested right, and those of
   the run not at all. *)
RunInv ==
  gen_stage = "runs" =>
    /\ f_idx <= b_idx /\ b_idx <= e_idx
    /\ b_idx = e_idx => e_idx = 0
    /\ b_idx < c_base_char_cnt
    /\ target_state = Row(s_idx)[b_idx]
    /\ \A c \in Chars : b_idx <= c /\ c < e_idx => Row(s_idx)[c] = target_state
    /\ \A c \in Chars : c < b_idx => LeadsTo(code[s_idx].tests, c, Row(s_idx)[c])
    /\ \A i \in DOMAIN code[s_idx].tests : code[s_idx].tests[i].hi <= b_idx
    /\ FrontTested

AllTestedInv ==
  gen_stage = "return" =>
    /\ \A c \in Chars : LeadsTo(code[s_idx].tests, c, Row(s_idx)[c])
    /\ FrontTested

EmissionInv == EmissionTypes /\ FinishedInv /\ RunInv /\ AllTestedInv

-----------------------------------------------------------------------------
(* A test without lower bound begins at 0, as it is written. *)
LEMMA TrueBetween ==
  ASSUME NEW S, NEW t \in Tests(S), NEW c \in Chars
  PROVE  IsTrue(t, c) <=> (t.lo <= c /\ c < t.hi)
BY CharCountAssumption DEF IsTrue, Tests, Chars

LEMMA HoldingAppended ==
  ASSUME NEW S, NEW T \in Seq(Tests(S)), NEW t \in Tests(S), NEW c
  PROVE  HoldingIn(Append(T, t), c) =
           HoldingIn(T, c) \union (IF IsTrue(t, c) THEN {Len(T) + 1} ELSE {})
<1>1. /\ DOMAIN Append(T, t) = 1 .. Len(T) + 1 /\ DOMAIN T = 1 .. Len(T)
      /\ Len(T) \in Nat
      /\ \A i \in 1 .. Len(T) : Append(T, t)[i] = T[i]
      /\ Append(T, t)[Len(T) + 1] = t
  OBVIOUS
<1> DEFINE True(x) == IsTrue(x, c)
<1>2. {i \in 1 .. Len(T) + 1 : True(Append(T, t)[i])}
        = {i \in 1 .. Len(T) : True(T[i])}
            \union (IF True(t) THEN {Len(T) + 1} ELSE {})
  <2> HIDE DEF True
  <2>1. 1 .. Len(T) + 1 = (1 .. Len(T)) \union {Len(T) + 1}
    BY <1>1
  <2> QED BY <1>1, <2>1
<1> QED BY <1>1, <1>2 DEF HoldingIn

(* A test behind the others changes nothing for a character that it does not
   hold for, or that another holds for. *)
LEMMA LeadingKept ==
  ASSUME NEW S, NEW T \in Seq(Tests(S)), NEW t \in Tests(S), NEW c \in Chars,
         NEW to, LeadsTo(T, c, to), ~IsTrue(t, c) \/ HoldingIn(T, c) # {}
  PROVE  LeadsTo(Append(T, t), c, to)
<1> DEFINE new == Append(T, t)
<1>1. HoldingIn(new, c) =
        HoldingIn(T, c) \union (IF IsTrue(t, c) THEN {Len(T) + 1} ELSE {})
  BY HoldingAppended
<1>2. CASE HoldingIn(T, c) = {}
  BY <1>1, <1>2 DEF LeadsTo
<1>3. CASE HoldingIn(T, c) # {}
  <2>1. PICK i \in HoldingIn(T, c) :
          (\A j \in HoldingIn(T, c) : i <= j) /\ T[i].to = to
    BY <1>3 DEF LeadsTo
  <2>2. i \in 1 .. Len(T) /\ Len(T) \in Nat /\ new[i] = T[i]
    BY <2>1 DEF HoldingIn
  <2>3. i \in HoldingIn(new, c) /\ \A j \in HoldingIn(new, c) : i <= j
    BY <1>1, <2>1, <2>2
  <2> QED BY <2>1, <2>2, <2>3 DEF LeadsTo
<1> QED BY <1>2, <1>3

LEMMA LeadingTaken ==
  ASSUME NEW S, NEW T \in Seq(Tests(S)), NEW t \in Tests(S), NEW c \in Chars,
         IsTrue(t, c), HoldingIn(T, c) = {}
  PROVE  LeadsTo(Append(T, t), c, t.to)
<1>1. HoldingIn(Append(T, t), c) = {Len(T) + 1} /\ Len(T) \in Nat
  BY HoldingAppended
<1>2. Append(T, t)[Len(T) + 1] = t
  OBVIOUS
<1> QED BY <1>1, <1>2 DEF LeadsTo

-----------------------------------------------------------------------------
(* The run at hand, from b_idx to e_idx, is written down or has no move: then
   all characters in front of e_idx are tested right. *)
LEMMA RunEmitted ==
  ASSUME EmissionInv, gen_stage = "runs", b_idx < e_idx, NEW last \in BOOLEAN,
         EmitRun(last), UNCHANGED <<s_idx, lang, state_moves>>
  PROVE  /\ code' \in Seq(StateCodes(Targets)) /\ Len(code') = Len(code)
         /\ f_idx' \in 0 .. e_idx
         /\ \A s \in 1 .. s_idx - 1 : code'[s] = code[s]
         /\ \A c \in Chars :
              c < e_idx => LeadsTo(code'[s_idx].tests, c, Row(s_idx)[c])
         /\ \A i \in DOMAIN code'[s_idx].tests : code'[s_idx].tests[i].hi <= e_idx
         /\ FrontTested'
<1> DEFINE T == code[s_idx].tests
           P == code'[s_idx].tests
<1>0. /\ s_idx \in Nat \ {0} /\ b_idx \in Nat /\ e_idx \in 0 .. c_base_char_cnt
      /\ f_idx \in 0 .. c_base_char_cnt /\ f_idx <= b_idx
      /\ code \in Seq(StateCodes(Targets)) /\ Len(code) = s_idx
      /\ c_base_char_cnt \in Nat
  BY CharCountAssumption DEF EmissionInv, EmissionTypes, RunInv
<1>1. /\ s_idx \in DOMAIN code /\ code[s_idx] \in StateCodes(Targets)
      /\ T \in Seq(Tests(Targets))
  <2>1. s_idx \in DOMAIN code /\ code[s_idx] \in StateCodes(Targets)
    BY <1>0
  <2> QED BY <2>1 DEF StateCodes
<1>2. \A i \in DOMAIN T : T[i] \in Tests(Targets) /\ T[i].hi <= b_idx
  BY <1>1, <1>0 DEF EmissionInv, RunInv
<1>3. ASSUME NEW c \in Chars, b_idx <= c PROVE HoldingIn(T, c) = {}
  BY <1>0, <1>2, <1>3, TrueBetween DEF HoldingIn, Chars, Tests
<1>4. ASSUME NEW c \in Chars, c < f_idx PROVE HoldingIn(T, c) # {}
  BY <1>4 DEF EmissionInv, RunInv, FrontTested
<1>5. \A c \in Chars : c < b_idx => LeadsTo(T, c, Row(s_idx)[c])
  BY DEF EmissionInv, RunInv
<1>6. \A c \in Chars : b_idx <= c /\ c < e_idx => Row(s_idx)[c] = target_state
  BY DEF EmissionInv, RunInv
<1>7. CASE target_state = NotExist
  <2>1. UNCHANGED <<code, f_idx>>
    BY <1>7 DEF EmitRun
  <2>2. \A c \in Chars : c < e_idx => LeadsTo(T, c, Row(s_idx)[c])
    BY <1>0, <1>3, <1>5, <1>6, <1>7 DEF LeadsTo, Chars
  <2>3. \A i \in DOMAIN T : T[i].hi <= e_idx
    BY <1>0, <1>2 DEF Tests
  <2>4. FrontTested'
    BY <2>1 DEF EmissionInv, RunInv, FrontTested
  <2> QED BY <1>0, <2>1, <2>2, <2>3, <2>4
<1>8. CASE target_state # NotExist
  <2>1. /\ code' = [code EXCEPT ![s_idx].tests = Append(@, RunTest)]
        /\ f_idx' = Tested(last)
    BY <1>8 DEF EmitRun
  <2>2. /\ RunTest \in Tests(Targets)
        /\ RunTest.hi = e_idx /\ RunTest.to = target_state
        /\ RunTest.lo <= b_idx
        /\ RunTest.lo # b_idx => RunTest.lo = 0 /\ b_idx = f_idx
    <3>1. target_state = state_moves[s_idx][b_idx] /\ s_idx \in Nat /\ b_idx \in Chars
      BY <1>0 DEF EmissionInv, RunInv, Row, Chars
    <3>2. target_state \in Targets
      BY <1>8, <3>1 DEF Targets
    <3> QED BY <1>0, <3>2 DEF RunTest, Tests
  <2>3. P = Append(T, RunTest) /\ P \in Seq(Tests(Targets))
    BY <1>1, <2>1, <2>2 DEF StateCodes
  <2>4. code' \in Seq(StateCodes(Targets)) /\ Len(code') = Len(code)
    <3>1. code' = [code EXCEPT ![s_idx] = [code[s_idx] EXCEPT !.tests = P]]
      BY <1>1, <2>1, <2>3 DEF StateCodes
    <3>2. [code[s_idx] EXCEPT !.tests = P] \in StateCodes(Targets)
      BY <1>1, <2>3 DEF StateCodes
    <3> QED BY <1>0, <1>1, <3>1, <3>2
  <2>5. \A s \in 1 .. s_idx - 1 : code'[s] = code[s]
    BY <1>0, <1>1, <2>1
  <2>6. ASSUME NEW c \in Chars
        PROVE  IsTrue(RunTest, c) <=> (RunTest.lo <= c /\ c < e_idx)
    BY <2>2, TrueBetween
  <2>7. ASSUME NEW c \in Chars, c < e_idx
        PROVE  LeadsTo(P, c, Row(s_idx)[c])
    <3>1. CASE c < b_idx
      <4>1. ~IsTrue(RunTest, c) \/ HoldingIn(T, c) # {}
        BY <1>0, <1>4, <2>2, <2>6, <3>1 DEF Chars
      <4> QED BY <1>1, <1>5, <2>2, <2>3, <3>1, <4>1, LeadingKept
    <3>2. CASE b_idx <= c
      <4>1. IsTrue(RunTest, c)
        BY <1>0, <2>2, <2>6, <2>7, <3>2 DEF Chars, Tests
      <4> QED BY <1>1, <1>3, <1>6, <2>2, <2>3, <2>7, <3>2, <4>1, LeadingTaken
    <3> QED BY <1>0, <3>1, <3>2 DEF Chars
  <2>8. \A i \in DOMAIN P : P[i].hi <= e_idx
    <3>1. \A i \in DOMAIN P : (i \in DOMAIN T /\ P[i] = T[i]) \/ P[i] = RunTest
      BY <1>1, <2>2, <2>3
    <3> QED BY <1>0, <1>2, <2>2, <3>1 DEF Tests
  <2>9. f_idx' \in 0 .. e_idx
    BY <1>0, <2>1 DEF Tested, Wide
  <2>10. ASSUME NEW c \in Chars, c < f_idx' PROVE HoldingIn(P, c) # {}
    <3>1. HoldingIn(P, c) =
            HoldingIn(T, c) \union (IF IsTrue(RunTest, c) THEN {Len(T) + 1} ELSE {})
      BY <1>1, <2>2, <2>3, HoldingAppended
    <3>2. CASE c < f_idx
      BY <1>4, <3>1, <3>2
    <3>3. CASE f_idx <= c
      <4>1. b_idx = f_idx
        <5>1. f_idx' # f_idx
          BY <1>0, <2>10, <3>3 DEF Chars
        <5>2. b_idx # f_idx => Tested(last) = f_idx
          BY DEF Tested
        <5> QED BY <2>1, <5>1, <5>2
      <4>2. IsTrue(RunTest, c)
        BY <1>0, <2>2, <2>6, <2>9, <2>10, <3>3, <4>1 DEF Chars, Tests
      <4> QED BY <3>1, <4>2
    <3> QED BY <1>0, <3>2, <3>3 DEF Chars
  <2>11. FrontTested'
    BY <2>10 DEF FrontTested
  <2> QED BY <2>4, <2>5, <2>7, <2>8, <2>9, <2>11
<1> QED BY <1>7, <1>8

-----------------------------------------------------------------------------
LEMMA EmissionInit ==
  CodeInit => EmissionInv
BY CharCountAssumption
   DEF CodeInit, EmissionInv, EmissionTypes, FinishedInv, RunInv, AllTestedInv

LEMMA StateBegun ==
  EmissionInv /\ BeginState => EmissionInv'
<1> SUFFICES ASSUME EmissionInv, BeginState PROVE EmissionInv'
  OBVIOUS
<1> DEFINE empty == [tests |-> <<>>, return |-> FALSE]
<1>1. /\ s_idx \in Nat \ {0} /\ Len(code) = s_idx - 1
      /\ code \in Seq(StateCodes(Targets)) /\ c_base_char_cnt \in Nat \ {0}
      /\ code' = Append(code, empty) /\ f_idx' = 0
      /\ UNCHANGED <<lang, state_moves, s_idx>>
  BY CharCountAssumption DEF EmissionInv, EmissionTypes, BeginState, inputVars
<1>2. empty \in StateCodes(Targets)
  BY DEF StateCodes
<1>3. /\ code' \in Seq(StateCodes(Targets)) /\ Len(code') = s_idx
      /\ code'[s_idx] = empty
      /\ \A s \in 1 .. s_idx - 1 : code'[s] = code[s]
  BY <1>1, <1>2
<1>4. Targets' = Targets /\ \A s : Row(s)' = Row(s)
  BY <1>1 DEF Targets, Row
<1>5. EmissionTypes'
  BY <1>1, <1>3, <1>4 DEF EmissionInv, EmissionTypes, BeginState
<1>6. FinishedInv'
  BY <1>1, <1>3, <1>4 DEF EmissionInv, FinishedInv
<1>7. FrontTested'
  BY <1>1 DEF FrontTested, Chars
<1>8. CASE HasMoves(s_idx)
  <2>1. /\ gen_stage' = "runs" /\ b_idx' = 0 /\ e_idx' = 0
        /\ target_state' = Row(s_idx)[0]
    BY <1>8 DEF BeginState
  <2>2. DOMAIN code'[s_idx].tests = {}
    BY <1>3
  <2>3. RunInv'
    BY <1>1, <1>4, <1>7, <2>1, <2>2 DEF RunInv, Chars
  <2> QED BY <1>5, <1>6, <2>1, <2>3 DEF EmissionInv, AllTestedInv
<1>9. CASE ~HasMoves(s_idx)
  <2>1. gen_stage' = "return"
    BY <1>9 DEF BeginState
  <2>2. \A c \in Chars : LeadsTo(code'[s_idx].tests, c, Row(s_idx)[c])
    BY <1>3, <1>9 DEF LeadsTo, HoldingIn, HasMoves
  <2>3. AllTestedInv'
    BY <1>1, <1>4, <1>7, <2>2 DEF AllTestedInv
  <2> QED BY <1>5, <1>6, <2>1, <2>3 DEF EmissionInv, RunInv
<1> QED BY <1>8, <1>9

LEMMA RunContinued ==
  EmissionInv /\ NextChar => EmissionInv'
<1> SUFFICES ASSUME EmissionInv, NextChar PROVE EmissionInv'
  OBVIOUS
<1>1. /\ gen_stage = "runs" /\ gen_stage' = "runs"
      /\ UNCHANGED <<lang, state_moves, s_idx>>
      /\ e_idx < c_base_char_cnt /\ e_idx' = e_idx + 1
      /\ s_idx \in Nat \ {0} /\ b_idx \in Nat /\ e_idx \in 0 .. c_base_char_cnt
      /\ c_base_char_cnt \in Nat
  BY CharCountAssumption DEF EmissionInv, EmissionTypes, NextChar, inputVars
<1>2. Targets' = Targets /\ \A s : Row(s)' = Row(s)
  BY <1>1 DEF Targets, Row
<1>3. /\ b_idx <= e_idx /\ (b_idx = e_idx => e_idx = 0)
      /\ target_state = Row(s_idx)[b_idx]
  BY <1>1 DEF EmissionInv, RunInv
<1>4. CASE Row(s_idx)[e_idx] # target_state
  <2>1. EmitRun(FALSE) /\ b_idx' = e_idx /\ target_state' = Row(s_idx)[e_idx]
    BY <1>4 DEF NextChar
  <2>2. b_idx < e_idx
    BY <1>1, <1>3, <1>4
  <2>3. /\ code' \in Seq(StateCodes(Targets)) /\ Len(code') = Len(code)
        /\ f_idx' \in 0 .. e_idx
        /\ \A s \in 1 .. s_idx - 1 : code'[s] = code[s]
        /\ \A c \in Chars :
             c < e_idx => LeadsTo(code'[s_idx].tests, c, Row(s_idx)[c])
        /\ \A i \in DOMAIN code'[s_idx].tests : code'[s_idx].tests[i].hi <= e_idx
        /\ FrontTested'
    BY <1>1, <2>1, <2>2, RunEmitted
  <2>4. EmissionTypes'
    BY <1>1, <1>2, <2>1, <2>3 DEF EmissionInv, EmissionTypes
  <2>5. FinishedInv'
    BY <1>1, <1>2, <2>3 DEF EmissionInv, FinishedInv
  <2>6. RunInv'
    BY <1>1, <1>2, <2>1, <2>3 DEF RunInv, Chars
  <2> QED BY <1>1, <2>4, <2>5, <2>6 DEF EmissionInv, AllTestedInv
<1>5. CASE Row(s_idx)[e_idx] = target_state
  <2>1. UNCHANGED <<code, f_idx, b_idx, target_state>>
    BY <1>5 DEF NextChar
  <2>2. EmissionTypes' /\ FinishedInv'
    BY <1>1, <1>2, <2>1 DEF EmissionInv, EmissionTypes, FinishedInv
  <2>3. FrontTested'
    BY <1>1, <2>1 DEF EmissionInv, RunInv, FrontTested
  <2>4. \A c \in Chars : b_idx <= c /\ c < e_idx' => Row(s_idx)[c] = target_state
    BY <1>1, <1>5 DEF EmissionInv, RunInv, Chars
  <2>5. RunInv'
    BY <1>1, <1>2, <1>3, <2>1, <2>3, <2>4 DEF EmissionInv, RunInv
  <2> QED BY <1>1, <2>2, <2>5 DEF EmissionInv, AllTestedInv
<1> QED BY <1>4, <1>5

LEMMA LastRunEmitted ==
  EmissionInv /\ LastRun => EmissionInv'
<1> SUFFICES ASSUME EmissionInv, LastRun PROVE EmissionInv'
  OBVIOUS
<1>1. /\ gen_stage = "runs" /\ gen_stage' = "return"
      /\ UNCHANGED <<lang, state_moves, s_idx, e_idx>>
      /\ e_idx = c_base_char_cnt /\ EmitRun(TRUE)
      /\ b_idx' \in {b_idx, e_idx}
      /\ s_idx \in Nat \ {0} /\ b_idx \in Nat
      /\ c_base_char_cnt \in Nat
  <2>1. /\ gen_stage = "runs" /\ gen_stage' = "return"
        /\ UNCHANGED <<lang, state_moves, s_idx, e_idx>>
        /\ e_idx = c_base_char_cnt /\ EmitRun(TRUE)
        /\ b_idx' \in {b_idx, e_idx}
    BY DEF LastRun, inputVars
  <2>2. s_idx \in Nat \ {0} /\ b_idx \in Nat /\ f_idx \in 0 .. c_base_char_cnt
    BY DEF EmissionInv, EmissionTypes
  <2>3. code \in Seq(StateCodes(Targets)) /\ Len(code) = s_idx
    BY <2>1 DEF EmissionInv, EmissionTypes
  <2>4. c_base_char_cnt \in Nat
    BY CharCountAssumption
  <2> QED BY <2>1, <2>2, <2>3, <2>4
<1>2. Targets' = Targets /\ \A s : Row(s)' = Row(s)
  BY <1>1 DEF Targets, Row
<1>3. b_idx < e_idx
  BY <1>1 DEF EmissionInv, RunInv
<1>4. /\ code' \in Seq(StateCodes(Targets)) /\ Len(code') = Len(code)
      /\ f_idx' \in 0 .. e_idx
      /\ \A s \in 1 .. s_idx - 1 : code'[s] = code[s]
      /\ \A c \in Chars :
           c < e_idx => LeadsTo(code'[s_idx].tests, c, Row(s_idx)[c])
      /\ FrontTested'
  BY <1>1, <1>3, RunEmitted
<1>5. EmissionTypes'
  BY <1>1, <1>2, <1>4 DEF EmissionInv, EmissionTypes
<1>6. FinishedInv'
  BY <1>1, <1>2, <1>4 DEF EmissionInv, FinishedInv
<1>7. AllTestedInv'
  BY <1>1, <1>2, <1>4 DEF AllTestedInv, Chars
<1> QED BY <1>1, <1>5, <1>6, <1>7 DEF EmissionInv, RunInv

(* A state without a return is one whose tests hold for all characters. *)
LEMMA StateEnded ==
  EmissionInv /\ EndState => EmissionInv'
<1> SUFFICES ASSUME EmissionInv, EndState PROVE EmissionInv'
  OBVIOUS
<1>1. /\ gen_stage = "return" /\ gen_stage' \in {"state", "done"}
      /\ UNCHANGED <<lang, state_moves, b_idx, e_idx, f_idx>>
      /\ s_idx' = s_idx + 1
      /\ code' = [code EXCEPT ![s_idx].return = NeedsReturn]
      /\ s_idx \in Nat \ {0} /\ code \in Seq(StateCodes(Targets))
      /\ Len(code) = s_idx
      /\ f_idx \in 0 .. c_base_char_cnt
      /\ c_base_char_cnt \in Nat
  <2>1. /\ gen_stage = "return" /\ gen_stage' \in {"state", "done"}
        /\ UNCHANGED <<lang, state_moves, b_idx, e_idx, f_idx>>
        /\ s_idx' = s_idx + 1
        /\ code' = [code EXCEPT ![s_idx].return = NeedsReturn]
    BY DEF EndState, inputVars
  <2>2. s_idx \in Nat \ {0} /\ b_idx \in Nat /\ f_idx \in 0 .. c_base_char_cnt
    BY DEF EmissionInv, EmissionTypes
  <2>3. code \in Seq(StateCodes(Targets)) /\ Len(code) = s_idx
    BY <2>1 DEF EmissionInv, EmissionTypes
  <2>4. c_base_char_cnt \in Nat
    BY CharCountAssumption
  <2> QED BY <2>1, <2>2, <2>3, <2>4
<1>2. Targets' = Targets /\ \A s : Row(s)' = Row(s)
  BY <1>1 DEF Targets, Row
<1>3. code[s_idx] \in StateCodes(Targets) /\ s_idx \in DOMAIN code
  BY <1>1
<1>4. NeedsReturn \in BOOLEAN
  BY DEF NeedsReturn
<1>5. /\ code' \in Seq(StateCodes(Targets)) /\ Len(code') = Len(code)
      /\ code'[s_idx].tests = code[s_idx].tests
      /\ code'[s_idx].return = NeedsReturn
      /\ \A s \in 1 .. s_idx - 1 : code'[s] = code[s]
  <2>1. code' = [code EXCEPT ![s_idx] = [code[s_idx] EXCEPT !.return = NeedsReturn]]
    BY <1>1
  <2>2. [code[s_idx] EXCEPT !.return = NeedsReturn] \in StateCodes(Targets)
    BY <1>3, <1>4 DEF StateCodes
  <2> QED BY <1>1, <1>3, <2>1, <2>2 DEF StateCodes
<1>6. EmissionTypes'
  BY <1>1, <1>2, <1>5 DEF EmissionInv, EmissionTypes
<1>7. ASSUME NEW c \in Chars, HoldingIn(code[s_idx].tests, c) = {}
      PROVE  NeedsReturn \/ lang = "rust"
  <2>1. ~(c < f_idx)
    BY <1>1, <1>7 DEF EmissionInv, AllTestedInv, FrontTested
  <2>2. f_idx # c_base_char_cnt
    BY <1>1, <2>1 DEF Chars
  <2> QED BY <2>2 DEF NeedsReturn
<1>8. FinishedInv'
  <2>1. \A c \in Chars : LeadsTo(code[s_idx].tests, c, Row(s_idx)[c])
    BY <1>1 DEF EmissionInv, AllTestedInv
  <2>2. ASSUME NEW s \in 1 .. s_idx, NEW c \in Chars
        PROVE  /\ LeadsTo(code'[s].tests, c, Row(s)[c])
               /\ HoldingIn(code'[s].tests, c) = {} => code'[s].return \/ lang = "rust"
    <3>1. CASE s = s_idx
      BY <1>5, <1>7, <2>1, <3>1
    <3>2. CASE s \in 1 .. s_idx - 1
      BY <1>5, <3>2 DEF EmissionInv, FinishedInv
    <3> QED BY <1>1, <3>1, <3>2
  <2> QED BY <1>1, <1>2, <2>2 DEF FinishedInv
<1> QED BY <1>1, <1>6, <1>8 DEF EmissionInv, RunInv, AllTestedInv

(* What was emitted stays as it is while it runs. *)
LEMMA EmissionStep ==
  EmissionInv /\ [CodeNext]_codeVars => EmissionInv'
<1> SUFFICES ASSUME EmissionInv, [CodeNext]_codeVars PROVE EmissionInv'
  OBVIOUS
<1>1. CASE BeginState
  BY <1>1, StateBegun
<1>2. CASE NextChar
  BY <1>2, RunContinued
<1>3. CASE LastRun
  BY <1>3, LastRunEmitted
<1>4. CASE EndState
  BY <1>4, StateEnded
<1>5. CASE StartRun \/ TestChar \/ Close \/ ReturnAtEnd \/ CloseGoesOn
            \/ UNCHANGED codeVars
  <2>1. UNCHANGED <<inputVars, genVars>>
    BY <1>5 DEF StartRun, TestChar, Close, ReturnAtEnd, CloseGoesOn, codeVars
  <2>2. UNCHANGED <<lang, state_moves, gen_stage, s_idx, b_idx, e_idx, f_idx,
                    target_state, code>>
    BY <2>1 DEF inputVars, genVars
  <2>3. Targets' = Targets /\ \A s : Row(s)' = Row(s)
    BY <2>2 DEF Targets, Row
  <2> QED BY <2>2, <2>3
          DEF EmissionInv, EmissionTypes, FinishedInv, RunInv, AllTestedInv,
              FrontTested
<1> QED BY <1>1, <1>2, <1>3, <1>4, <1>5 DEF CodeNext

(* The generators (PROCESS_STATE of the five *_creator.h) keep the rows of the
   automaton: what they write down for a state is right for every character. *)
THEOREM EmissionInvariant == CodeSpec => []EmissionInv
<1> QED BY EmissionInit, EmissionStep, PTL DEF CodeSpec

(* In every language, for every automaton and any number of characters, the
   first true test of a character leads where the row of its state does, and
   where the row leads nowhere a return follows. *)
THEOREM EmittedIsExact == CodeSpec => []EmittedExact
<1>1. EmissionInv => EmittedExact
  <2> SUFFICES ASSUME EmissionInv,
                      NEW s \in DOMAIN code, Emitted(s), NEW c \in Chars
               PROVE  LET true == Holding(s, c)
                      IN  IF true = {}
                            THEN Row(s)[c] = NotExist
                                   /\ (code[s].return \/ lang = "rust")
                            ELSE \E i \in true :
                                   /\ \A j \in true : i <= j
                                   /\ code[s].tests[i].to = Row(s)[c]
    BY DEF EmittedExact
  <2>1. s \in 1 .. s_idx - 1
    BY DEF EmissionInv, EmissionTypes, Emitted
  <2>2. /\ LeadsTo(code[s].tests, c, Row(s)[c])
        /\ HoldingIn(code[s].tests, c) = {} => code[s].return \/ lang = "rust"
    BY <2>1 DEF EmissionInv, FinishedInv
  <2>3. Holding(s, c) = HoldingIn(code[s].tests, c)
    BY DEF Holding, HoldingIn
  <2> QED BY <2>2, <2>3 DEF LeadsTo
<1> QED BY <1>1, EmissionInvariant, PTL

-----------------------------------------------------------------------------
(* The emitted code at work. *)

LastState == Len(fa_states)

AutomatonInv ==
  /\ lang \in Languages
  /\ LastState \in Nat \ {0}
  /\ state_moves \in [1 .. LastState -> [Chars -> {NotExist} \union 1 .. LastState]]
  /\ IF gen_stage = "done" THEN s_idx = LastState + 1 ELSE s_idx \in 1 .. LastState

(* What has not been called has touched nothing. *)
IdleInv ==
  /\ run_stage \in {"idle", "testing", "closing", "returned"}
  /\ run_stage # "idle" => gen_stage = "done"
  /\ run_stage = "idle" =>
       /\ text = <<>> /\ input_idx = 0 /\ label = 1 /\ here = 1
       /\ ret_term_idx = NotExist

PositionInv ==
  /\ text \in Texts
  /\ input_idx \in 0 .. Len(text)
  /\ label \in 1 .. LastState /\ here \in 1 .. LastState

(* What recognize looks at in the state where the code is. *)
CharHere == IF AtTextEnd THEN 0 ELSE text[input_idx + 1]

(* Before a character is closed, the label is where it leads from the state
   of the closed ones; in php the zero at the end may have been taken though
   it was not closed. *)
AtWorkInv ==
  /\ run_stage = "testing" =>
       \/ label = here
       \/ /\ lang = "php" /\ in_char = 0 /\ AtTextEnd
          /\ label = Row(here)[0] /\ Row(label)[0] = NotExist
  /\ run_stage = "closing" =>
       /\ label = Row(here)[CharHere]
       /\ lang # "cc" => in_char = CharHere

RunningInv == IdleInv /\ (Faithful => PositionInv /\ AtWorkInv)

RunInvariant == EmissionInv /\ AutomatonInv /\ RunningInv

LEMMA RunInit ==
  CodeInit => RunInvariant
<1> SUFFICES ASSUME CodeInit PROVE RunInvariant
  OBVIOUS
<1>1. EmissionInv
  BY EmissionInit
<1>2. PICK a \in Automata : fa_states = a.states /\ state_moves = a.moves
  BY DEF CodeInit
<1>3. /\ LastState \in Nat /\ LastState >= 2
      /\ state_moves \in [1 .. LastState -> [Chars -> {NotExist} \union 1 .. LastState]]
  BY <1>2, CodeGenAssumption DEF LastState
<1>4. AutomatonInv
  BY <1>3 DEF AutomatonInv, CodeInit
<1>5. text = <<>> /\ text \in Texts
  <2>1. 0 \in 0 .. TextMax
    BY TextMaxAssumption
  <2>2. <<>> \in [1 .. 0 -> Chars]
    OBVIOUS
  <2> QED BY <2>1, <2>2 DEF CodeInit, Texts
<1>6. RunningInv
  BY <1>3, <1>5 DEF CodeInit, RunningInv, IdleInv, PositionInv, AtWorkInv
<1> QED BY <1>1, <1>4, <1>6 DEF RunInvariant

LEMMA TextTyped ==
  ASSUME text \in Texts
  PROVE  Len(text) \in Nat /\ \A i \in 1 .. Len(text) : text[i] \in Chars
<1>1. PICK n \in 0 .. TextMax : text \in [1 .. n -> Chars]
  BY DEF Texts
<1>2. n \in Nat
  BY <1>1
<1> QED BY <1>1, <1>2

(* A character of a text is a character, and so is the zero behind it. *)
LEMMA HereIsChar ==
  ASSUME PositionInv
  PROVE  /\ CharHere \in Chars
         /\ ~AtTextEnd => input_idx + 1 \in 1 .. Len(text)
<1>1. Len(text) \in Nat /\ \A i \in 1 .. Len(text) : text[i] \in Chars
  BY TextTyped DEF PositionInv
<1>2. ~AtTextEnd => input_idx + 1 \in 1 .. Len(text)
  BY <1>1 DEF PositionInv, AtTextEnd
<1> QED BY <1>1, <1>2, CharCountAssumption DEF CharHere, Chars

(* In a text of a language that keeps to recognize, the zero is its end and
   every other character is seen as it is. *)
LEMMA SeenAsWritten ==
  ASSUME PositionInv, Faithful, lang # "cc"
  PROVE  /\ CharHere = 0 <=> AtTextEnd
         /\ ~AtTextEnd => Seen(text[input_idx + 1]) = text[input_idx + 1]
<1>1. ~AtTextEnd => input_idx + 1 \in DOMAIN text
  BY HereIsChar DEF PositionInv, Texts
<1>2. CASE AtTextEnd
  BY <1>2 DEF CharHere
<1>3. CASE ~AtTextEnd
  <2>1. text[input_idx + 1] # 0
    BY <1>1, <1>3 DEF Faithful
  <2>2. lang \in {"js", "awk"} => text[input_idx + 1] < HighChar
    BY <1>1, <1>3 DEF Faithful
  <2>3. text[input_idx + 1] \in Chars /\ HighChar \in Chars
    BY <1>3, HereIsChar, CodeGenAssumption DEF CharHere
  <2>4. Seen(text[input_idx + 1]) = text[input_idx + 1]
    BY <2>2, <2>3, CharCountAssumption DEF Seen, Chars
  <2> QED BY <1>3, <2>1, <2>4 DEF CharHere
<1> QED BY <1>2, <1>3

(* What the emitted code does for a state and a character is what its row
   says: the state of the first true test, or no true test at all. *)
LEMMA FirstTrueTest ==
  ASSUME EmissionInv, AutomatonInv, gen_stage = "done",
         NEW s \in 1 .. LastState, NEW c \in Chars
  PROVE  /\ Holding(s, c) = {} => Row(s)[c] = NotExist
         /\ Holding(s, c) # {} =>
              LET i == CHOOSE i \in Holding(s, c) : \A j \in Holding(s, c) : i <= j
              IN  code[s].tests[i].to = Row(s)[c] /\ Row(s)[c] # NotExist
<1>1. /\ s_idx = LastState + 1 /\ s \in 1 .. s_idx - 1 /\ s \in DOMAIN code
      /\ code[s] \in StateCodes(Targets)
  <2>1. s_idx = LastState + 1 /\ LastState \in Nat
    BY DEF AutomatonInv
  <2>2. code \in Seq(StateCodes(Targets)) /\ Len(code) = s_idx - 1
    BY DEF EmissionInv, EmissionTypes
  <2>3. s \in 1 .. s_idx - 1 /\ s \in DOMAIN code
    BY <2>1, <2>2
  <2> QED BY <2>1, <2>2, <2>3
<1>2. LeadsTo(code[s].tests, c, Row(s)[c])
  BY <1>1 DEF EmissionInv, FinishedInv
<1>3. Holding(s, c) = HoldingIn(code[s].tests, c)
  BY DEF Holding, HoldingIn
<1>4. CASE Holding(s, c) = {}
  BY <1>2, <1>3, <1>4 DEF LeadsTo
<1>5. CASE Holding(s, c) # {}
  <2> DEFINE First(i) == i \in Holding(s, c) /\ \A j \in Holding(s, c) : i <= j
             first == CHOOSE i \in Holding(s, c) : \A j \in Holding(s, c) : i <= j
  <2>1. PICK k : First(k) /\ code[s].tests[k].to = Row(s)[c]
    BY <1>2, <1>3, <1>5 DEF LeadsTo
  <2>2. First(first)
    BY <2>1
  <2>3. code[s].tests \in Seq(Tests(Targets))
    BY <1>1 DEF StateCodes
  <2>4. first \in DOMAIN code[s].tests /\ k \in DOMAIN code[s].tests
    BY <2>1, <2>2 DEF Holding
  <2>5. first <= k /\ k <= first
    BY <2>1, <2>2
  <2>6. first = k
    BY <2>3, <2>4, <2>5
  <2>7. code[s].tests[first] \in Tests(Targets)
    BY <2>3, <2>4
  <2>8. code[s].tests[first].to # NotExist
    <3>1. code[s].tests[first].to \in Targets
      BY <2>7 DEF Tests
    <3> QED BY <3>1 DEF Targets
  <2> QED BY <1>5, <2>1, <2>6, <2>8
<1> QED BY <1>4, <1>5

(* The automaton stays, and the emission ends behind its last state. *)
LEMMA AutomatonStep ==
  ASSUME AutomatonInv, [CodeNext]_codeVars
  PROVE  /\ AutomatonInv' /\ LastState' = LastState
         /\ UNCHANGED <<lang, fa_states, state_moves>>
<1>1. UNCHANGED <<lang, fa_states, state_moves>>
  BY DEF CodeNext, BeginState, NextChar, LastRun, EndState, StartRun, TestChar,
         Close, ReturnAtEnd, CloseGoesOn, codeVars, inputVars
<1>2. LastState' = LastState
  BY <1>1 DEF LastState
<1>3. CASE EndState
  BY <1>1, <1>2, <1>3 DEF EndState, AutomatonInv, LastState
<1>4. CASE BeginState \/ NextChar \/ LastRun
  <2>1. s_idx' = s_idx /\ gen_stage' # "done" /\ gen_stage # "done"
    BY <1>4 DEF BeginState, NextChar, LastRun
  <2> QED BY <1>1, <1>2, <2>1 DEF AutomatonInv
<1>5. CASE StartRun \/ TestChar \/ Close \/ ReturnAtEnd \/ CloseGoesOn
            \/ UNCHANGED codeVars
  <2>1. UNCHANGED <<s_idx, gen_stage>>
    BY <1>5 DEF StartRun, TestChar, Close, ReturnAtEnd, CloseGoesOn, codeVars,
                genVars
  <2> QED BY <1>1, <1>2, <2>1 DEF AutomatonInv
<1> QED BY <1>1, <1>2, <1>3, <1>4, <1>5 DEF CodeNext

(* A move of a state leads to a state. *)
LEMMA MoveTyped ==
  ASSUME AutomatonInv, NEW s \in 1 .. LastState, NEW c \in Chars,
         Row(s)[c] # NotExist
  PROVE  Row(s)[c] \in 1 .. LastState
BY DEF AutomatonInv, Row

(* While code is emitted, nothing runs. *)
LEMMA EmittingIsIdle ==
  ASSUME RunInvariant, BeginState \/ NextChar \/ LastRun \/ EndState
  PROVE  UNCHANGED runVars /\ run_stage = "idle"
BY DEF RunInvariant, RunningInv, IdleInv, BeginState, NextChar, LastRun, EndState

LEMMA IdleStep ==
  ASSUME RunInvariant, BeginState \/ NextChar \/ LastRun \/ EndState
         \/ UNCHANGED codeVars
  PROVE  RunningInv'
<1>1. CASE BeginState \/ NextChar \/ LastRun \/ EndState
  <2>1. UNCHANGED runVars /\ run_stage = "idle"
    BY <1>1, EmittingIsIdle
  <2>2. LastState' = LastState /\ UNCHANGED <<lang, state_moves>>
    BY <1>1, AutomatonStep DEF RunInvariant, CodeNext
  <2> QED BY <2>1, <2>2
          DEF RunInvariant, RunningInv, IdleInv, PositionInv, AtWorkInv, runVars,
              Faithful, Row
<1>2. CASE UNCHANGED codeVars
  <2>1. UNCHANGED <<gen_stage, lang, fa_states, state_moves>> /\ UNCHANGED runVars
    BY <1>2 DEF codeVars, genVars, inputVars
  <2> QED BY <2>1
          DEF RunInvariant, RunningInv, IdleInv, PositionInv, AtWorkInv, runVars,
              LastState, Faithful, CharHere, AtTextEnd, Row
<1> QED BY <1>1, <1>2

LEMMA RunStarted ==
  ASSUME RunInvariant, StartRun
  PROVE  RunningInv'
<1>1. /\ gen_stage' = "done" /\ run_stage = "idle" /\ run_stage' = "testing"
      /\ text' \in Texts
      /\ UNCHANGED <<fa_states, input_idx, label, here>>
  BY DEF StartRun, genVars, inputVars
<1>2. input_idx = 0 /\ label = 1 /\ here = 1 /\ LastState \in Nat \ {0}
  BY <1>1 DEF RunInvariant, RunningInv, IdleInv, AutomatonInv
<1>3. Texts' = Texts /\ LastState' = LastState
  BY <1>1 DEF Texts, LastState
<1>4. (text \in Texts)' => Len(text') \in Nat
  <2>1. ASSUME NEW t \in Texts PROVE Len(t) \in Nat
    BY <2>1 DEF Texts
  <2> QED BY <1>1, <2>1
<1> QED BY <1>1, <1>2, <1>3, <1>4
        DEF RunningInv, IdleInv, PositionInv, AtWorkInv

(* The facts that all steps of the running code share. *)
LEMMA WorkingFacts ==
  ASSUME RunInvariant, TestChar \/ Close \/ ReturnAtEnd \/ CloseGoesOn
  PROVE  /\ UNCHANGED <<lang, fa_states, state_moves, gen_stage, text>>
         /\ gen_stage = "done" /\ LastState' = LastState
         /\ Faithful' = Faithful
         /\ EmissionInv /\ AutomatonInv
         /\ Faithful => PositionInv /\ AtWorkInv
<1>1. /\ UNCHANGED <<lang, fa_states, state_moves, gen_stage, text>>
      /\ run_stage # "idle"
  BY DEF TestChar, Close, ReturnAtEnd, CloseGoesOn, inputVars, genVars
<1>2. LastState' = LastState /\ Faithful' = Faithful
  BY <1>1 DEF LastState, Faithful, Row
<1> QED BY <1>1, <1>2 DEF RunInvariant, RunningInv, IdleInv

(* What TestChar does: either a true test leads to the label of the next state,
   or the state returns. *)
LEMMA CharTested ==
  ASSUME RunInvariant, TestChar
  PROVE  \/ /\ HasMoves(label) /\ Holding(label, in_char') # {}
            /\ in_char' = IF AtTextEnd THEN 0 ELSE Seen(text[input_idx + 1])
            /\ label' =
                 code[label].tests[CHOOSE i \in Holding(label, in_char') :
                                     \A j \in Holding(label, in_char') : i <= j].to
            /\ run_stage' = "closing"
            /\ UNCHANGED <<input_idx, here, ret_term_idx>>
         \/ /\ HasMoves(label) => Holding(label, in_char') = {}
            /\ in_char' = IF ~HasMoves(label) THEN in_char
                          ELSE IF AtTextEnd THEN 0 ELSE Seen(text[input_idx + 1])
            /\ run_stage' = "returned"
            /\ ret_term_idx' = fa_states[label].final
            /\ UNCHANGED <<input_idx, here, label>>
BY DEF TestChar, Return

(* A true test leads along the row of the label, and no true test means that
   the row has no move. *)
LEMMA TestedMove ==
  ASSUME RunInvariant, TestChar, Faithful
  PROVE  \/ /\ run_stage' = "closing"
            /\ label = here /\ in_char' = CharHere
            /\ label' = Row(here)[CharHere] /\ label' # NotExist
            /\ UNCHANGED <<input_idx, here, ret_term_idx>>
         \/ /\ run_stage' = "returned"
            /\ Row(label)[CharHere] = NotExist
            /\ ret_term_idx' = fa_states[label].final
            /\ UNCHANGED <<input_idx, here, label>>
<1>1. /\ gen_stage = "done" /\ EmissionInv /\ AutomatonInv /\ PositionInv
      /\ AtWorkInv /\ run_stage = "testing" /\ label \in 1 .. LastState
  BY WorkingFacts DEF TestChar, PositionInv
<1>2. CharHere \in Chars
  BY <1>1, HereIsChar
<1>3. CharHere = IF AtTextEnd THEN 0 ELSE Seen(text[input_idx + 1])
  <2>1. CASE lang = "cc"
    BY <2>1 DEF CharHere, Seen
  <2>2. CASE lang # "cc"
    BY <1>1, <2>2, SeenAsWritten DEF CharHere
  <2> QED BY <2>1, <2>2
<1>4. CASE /\ HasMoves(label) /\ Holding(label, in_char') # {}
           /\ in_char' = IF AtTextEnd THEN 0 ELSE Seen(text[input_idx + 1])
           /\ label' =
                code[label].tests[CHOOSE i \in Holding(label, in_char') :
                                    \A j \in Holding(label, in_char') : i <= j].to
           /\ run_stage' = "closing"
           /\ UNCHANGED <<input_idx, here, ret_term_idx>>
  <2>1. in_char' = CharHere
    BY <1>3, <1>4
  <2>2. label' = Row(label)[CharHere] /\ label' # NotExist
    BY <1>1, <1>2, <1>4, <2>1, FirstTrueTest
  <2>3. label = here
    BY <1>1, <2>2 DEF AtWorkInv, CharHere
  <2> QED BY <1>4, <2>1, <2>2, <2>3
<1>5. CASE /\ HasMoves(label) => Holding(label, in_char') = {}
           /\ in_char' = IF ~HasMoves(label) THEN in_char
                         ELSE IF AtTextEnd THEN 0 ELSE Seen(text[input_idx + 1])
           /\ run_stage' = "returned"
           /\ ret_term_idx' = fa_states[label].final
           /\ UNCHANGED <<input_idx, here, label>>
  <2>1. Row(label)[CharHere] = NotExist
    <3>1. CASE ~HasMoves(label)
      BY <1>2, <3>1 DEF HasMoves
    <3>2. CASE HasMoves(label)
      <4>1. in_char' = CharHere
        BY <1>3, <1>5, <3>2
      <4> QED BY <1>1, <1>2, <1>5, <3>2, <4>1, FirstTrueTest
    <3> QED BY <3>1, <3>2
  <2> QED BY <1>5, <2>1
<1> QED BY <1>4, <1>5, CharTested

(* In a text of a language that keeps to recognize, a character is not closed
   at the end and nowhere else. *)
LEMMA ClosedAtEnd ==
  ASSUME RunInvariant, Faithful, run_stage = "closing",
         TestChar \/ Close \/ ReturnAtEnd \/ CloseGoesOn
  PROVE  /\ CloseEnds <=> AtTextEnd
         /\ label = Row(here)[CharHere] /\ label # NotExist
<1>1. /\ AutomatonInv /\ PositionInv /\ AtWorkInv
  BY WorkingFacts
<1>2. label = Row(here)[CharHere] /\ (lang # "cc" => in_char = CharHere)
  BY <1>1 DEF AtWorkInv
<1>3. label # NotExist
  BY <1>1 DEF PositionInv, AutomatonInv, NotExist
<1>4. CloseEnds <=> AtTextEnd
  BY <1>1, <1>2, SeenAsWritten DEF CloseEnds
<1> QED BY <1>2, <1>3, <1>4

LEMMA RunWorked ==
  ASSUME RunInvariant, TestChar \/ Close \/ ReturnAtEnd \/ CloseGoesOn
  PROVE  RunningInv'
<1>1. /\ UNCHANGED <<lang, fa_states, state_moves, gen_stage, text>>
      /\ gen_stage = "done" /\ LastState' = LastState
      /\ Faithful' = Faithful
      /\ EmissionInv /\ AutomatonInv
      /\ Faithful => PositionInv /\ AtWorkInv
  BY WorkingFacts
<1>2. \A s : Row(s)' = Row(s)
  BY <1>1 DEF Row
<1>3. IdleInv'
  BY <1>1 DEF IdleInv, TestChar, Return, Close, ReturnAtEnd, CloseGoesOn
<1>4. ASSUME Faithful PROVE PositionInv' /\ AtWorkInv'
  <2>1. /\ Len(text) \in Nat /\ input_idx \in 0 .. Len(text)
        /\ label \in 1 .. LastState /\ here \in 1 .. LastState
        /\ text' \in Texts'
    BY <1>1, <1>4, TextTyped DEF PositionInv, Texts
  <2>2. CharHere \in Chars
    BY <1>1, <1>4, HereIsChar
  <2>3. CASE TestChar
    <3>1. CASE /\ run_stage' = "closing"
               /\ label = here /\ in_char' = CharHere
               /\ label' = Row(here)[CharHere] /\ label' # NotExist
               /\ UNCHANGED <<input_idx, here, ret_term_idx>>
      <4>1. label' \in 1 .. LastState
        BY <1>1, <2>1, <2>2, <3>1, MoveTyped
      <4>2. CharHere' = CharHere
        BY <1>1, <3>1 DEF CharHere, AtTextEnd
      <4> QED BY <1>1, <1>2, <2>1, <3>1, <4>1, <4>2 DEF PositionInv, AtWorkInv
    <3>2. CASE run_stage' = "returned" /\ UNCHANGED <<input_idx, here, label>>
      BY <1>1, <2>1, <3>2 DEF PositionInv, AtWorkInv
    <3> QED BY <1>4, <2>3, <3>1, <3>2, TestedMove
  <2>4. CASE Close
    <3>1. ~AtTextEnd
      BY <1>4, <2>4, ClosedAtEnd DEF Close
    <3>2. input_idx' \in 0 .. Len(text)
      BY <2>1, <2>4, <3>1 DEF Close, AtTextEnd
    <3> QED BY <1>1, <2>1, <2>4, <3>2 DEF Close, PositionInv, AtWorkInv
  <2>5. CASE ReturnAtEnd
    BY <1>1, <2>1, <2>5 DEF ReturnAtEnd, Return, PositionInv, AtWorkInv
  <2>6. CASE CloseGoesOn
    <3>1. /\ lang = "php" /\ AtTextEnd /\ run_stage' = "testing"
          /\ UNCHANGED <<input_idx, in_char, label, here>>
      <4>1. AtTextEnd
        BY <1>4, <2>6, ClosedAtEnd DEF CloseGoesOn
      <4> QED BY <2>6, <4>1 DEF CloseGoesOn
    <3>2. label = Row(here)[0] /\ label # NotExist /\ in_char = 0
      <4>1. label = Row(here)[CharHere] /\ label # NotExist
        BY <1>4, <2>6, ClosedAtEnd DEF CloseGoesOn
      <4>2. in_char = CharHere
        BY <1>1, <1>4, <2>6, <3>1 DEF AtWorkInv, CloseGoesOn
      <4> QED BY <3>1, <4>1, <4>2 DEF CharHere
    <3>3. Row(label)[0] = NotExist
      <4>1. here \in DOMAIN state_moves
        BY <1>1, <2>1 DEF AutomatonInv
      <4> QED BY <1>4, <3>1, <3>2, <4>1 DEF Faithful
    <3>4. AtTextEnd'
      BY <1>1, <3>1 DEF AtTextEnd
    <3> QED BY <1>1, <1>2, <2>1, <3>1, <3>2, <3>3, <3>4
            DEF PositionInv, AtWorkInv
  <2> QED BY <2>3, <2>4, <2>5, <2>6
<1> QED BY <1>1, <1>3, <1>4 DEF RunningInv

LEMMA RunStep ==
  RunInvariant /\ [CodeNext]_codeVars => RunInvariant'
<1> SUFFICES ASSUME RunInvariant, [CodeNext]_codeVars PROVE RunInvariant'
  OBVIOUS
<1>1. EmissionInv'
  BY EmissionStep DEF RunInvariant
<1>2. AutomatonInv'
  BY AutomatonStep DEF RunInvariant
<1>3. RunningInv'
  BY IdleStep, RunStarted, RunWorked DEF CodeNext
<1> QED BY <1>1, <1>2, <1>3 DEF RunInvariant

(* What the emitted code knows about the text while it runs, whatever the
   automaton: the label of the state at hand, the characters that are closed,
   and that php goes on with a zero only where nothing follows it. *)
THEOREM RunInvariantHolds == CodeSpec => []RunInvariant
<1> QED BY RunInit, RunStep, PTL DEF CodeSpec

-----------------------------------------------------------------------------
(* Refinement. *)

LEMMA RecognitionInit ==
  CodeInit => Recognition!RecInit
BY DEF CodeInit, Running, Recognition!RecInit, NotExist, Recognition!NotExist

(* What recognize would do where the code is. *)
LEMMA RecognitionHere ==
  ASSUME Running
  PROVE  /\ Recognition!AtTextEnd <=> AtTextEnd
         /\ Recognition!InChar = CharHere
         /\ Recognition!NextState = Row(here)[CharHere]
BY DEF Recognition!AtTextEnd, Recognition!InChar, Recognition!NextState,
       AtTextEnd, CharHere, Row

(* While a text is read, and after that, the automaton is the same and the
   text is. *)
LEMMA StillRunning ==
  ASSUME RunInvariant, Faithful,
         TestChar \/ Close \/ ReturnAtEnd \/ CloseGoesOn
  PROVE  /\ Running /\ Running' /\ run_stage # "returned"
         /\ UNCHANGED <<fa_states, state_moves, text>>
<1>1. /\ UNCHANGED <<lang, fa_states, state_moves, gen_stage, text>>
      /\ Faithful' = Faithful
  BY WorkingFacts
<1>2. run_stage \in {"testing", "closing"} /\ run_stage' # "idle"
  BY DEF TestChar, Return, Close, ReturnAtEnd, CloseGoesOn
<1> QED BY <1>1, <1>2 DEF Running

(* One step of the emitted code is one step of recognize or none. *)
LEMMA RecognitionStep ==
  RunInvariant /\ [CodeNext]_codeVars
    => [Recognition!RecNext]_(Recognition!recVars)
<1> SUFFICES ASSUME RunInvariant, [CodeNext]_codeVars
             PROVE  [Recognition!RecNext]_(Recognition!recVars)
  OBVIOUS
<1> USE DEF Recognition!recVars, Recognition!automatonVars, Recognition!textVars
<1>1. UNCHANGED <<lang, fa_states, state_moves>>
  BY AutomatonStep DEF RunInvariant
<1>2. CASE BeginState \/ NextChar \/ LastRun \/ EndState
  <2>1. run_stage = "idle" /\ run_stage' = "idle"
    BY <1>2, EmittingIsIdle DEF runVars
  <2> QED BY <1>1, <2>1 DEF Running
<1>3. CASE UNCHANGED codeVars
  BY <1>3 DEF codeVars, runVars, inputVars, Running, Faithful, Row
<1>4. CASE StartRun
  <2>1. /\ run_stage = "idle" /\ run_stage' = "testing" /\ text' \in Texts
        /\ UNCHANGED <<input_idx, here, ret_term_idx>>
    BY <1>4 DEF StartRun
  <2>2. input_idx = 0 /\ here = 1 /\ ret_term_idx = NotExist
    BY <2>1 DEF RunInvariant, RunningInv, IdleInv
  <2>3. CASE Faithful'
    <3>1. Texts = Recognition!Texts
      BY DEF Texts, Recognition!Texts, Chars, Recognition!Chars
    <3>2. Recognition!StartText
      BY <1>1, <2>1, <2>2, <2>3, <3>1 DEF Recognition!StartText, Running
    <3> QED BY <3>2 DEF Recognition!RecNext
  <2>4. CASE ~Faithful'
    BY <1>1, <2>1, <2>4 DEF Running
  <2> QED BY <2>3, <2>4
<1>5. CASE (TestChar \/ Close \/ ReturnAtEnd \/ CloseGoesOn) /\ ~Faithful
  <2>1. ~Faithful'
    BY <1>5, WorkingFacts
  <2> QED BY <1>1, <1>5, <2>1 DEF Running
<1>6. CASE (TestChar \/ Close \/ ReturnAtEnd \/ CloseGoesOn) /\ Faithful
  <2>1. /\ Running /\ Running' /\ run_stage # "returned"
        /\ UNCHANGED <<fa_states, state_moves, text>>
    BY <1>6, StillRunning
  <2>2. /\ Recognition!AtTextEnd <=> AtTextEnd
        /\ Recognition!NextState = Row(here)[CharHere]
    BY <2>1, RecognitionHere
  <2>3. PositionInv /\ AtWorkInv
    BY <1>6, WorkingFacts
  <2>4. AutomatonInv
    BY DEF RunInvariant
  <2>5. CASE TestChar
    <3>1. CASE run_stage' = "closing" /\ UNCHANGED <<input_idx, here, ret_term_idx>>
      BY <2>1, <3>1
    <3>2. CASE /\ run_stage' = "returned"
               /\ Row(label)[CharHere] = NotExist
               /\ ret_term_idx' = fa_states[label].final
               /\ UNCHANGED <<input_idx, here, label>>
      <4>1. run_stage = "testing"
        BY <2>5 DEF TestChar
      <4>2. CASE label = here
        <5>1. Recognition!ReturnFinal
          BY <2>1, <2>2, <3>2, <4>2
             DEF Recognition!ReturnFinal, NotExist, Recognition!NotExist
        <5> QED BY <5>1 DEF Recognition!RecNext
      <4>3. CASE label # here
        <5>1. AtTextEnd /\ label = Row(here)[0] /\ Row(label)[0] = NotExist
          BY <2>3, <4>1, <4>3 DEF AtWorkInv
        <5>2. label # NotExist
          BY <2>3, <2>4 DEF PositionInv, AutomatonInv, NotExist
        <5>3. Row(here)[CharHere] = label
          BY <5>1 DEF CharHere
        <5>4. Recognition!ReturnFinal
          BY <2>1, <2>2, <3>2, <5>1, <5>2, <5>3
             DEF Recognition!ReturnFinal, NotExist, Recognition!NotExist
        <5> QED BY <5>4 DEF Recognition!RecNext
      <4> QED BY <4>2, <4>3
    <3> QED BY <1>6, <2>5, <3>1, <3>2, TestedMove
  <2>6. CASE run_stage = "closing"
    <3>1. /\ CloseEnds <=> AtTextEnd
          /\ label = Row(here)[CharHere] /\ label # NotExist
      BY <1>6, <2>6, ClosedAtEnd
    <3>2. CASE Close
      <4>1. Recognition!StepText
        BY <2>1, <2>2, <2>6, <3>1, <3>2
           DEF Close, Recognition!StepText, NotExist, Recognition!NotExist
      <4> QED BY <4>1 DEF Recognition!RecNext
    <3>3. CASE ReturnAtEnd
      <4>1. Recognition!ReturnFinal
        BY <2>1, <2>2, <2>6, <3>1, <3>3
           DEF ReturnAtEnd, Return, Recognition!ReturnFinal, NotExist,
               Recognition!NotExist
      <4> QED BY <4>1 DEF Recognition!RecNext
    <3>4. CASE CloseGoesOn
      BY <2>1, <2>6, <3>4 DEF CloseGoesOn
    <3>5. ~TestChar
      BY <2>6 DEF TestChar
    <3> QED BY <1>6, <3>2, <3>3, <3>4, <3>5
  <2> QED BY <1>6, <2>5, <2>6 DEF Close, ReturnAtEnd, CloseGoesOn
<1> QED BY <1>2, <1>3, <1>4, <1>5, <1>6 DEF CodeNext

(* Emitted code implements recognize: in every language, for every automaton
   and every text that the language reads as it is (Faithful), the function
   the generators write goes through the states of final_automata_s::recognize
   and returns what it returns. *)
THEOREM RunsImplementRecognize == CodeSpec => RunsRecognize
<1>1. CodeInit => Recognition!RecInit
  BY RecognitionInit
<1>2. RunInvariant /\ [CodeNext]_codeVars
        => [Recognition!RecNext]_(Recognition!recVars)
  BY RecognitionStep
<1> QED BY <1>1, <1>2, RunInvariantHolds, PTL
        DEF CodeSpec, RunsRecognize, Recognition!RecSpec
=============================================================================
