------------------------ MODULE FinalAutomataProofs -------------------------
(***************************************************************************)
(* The automaton of all the terminals, for every list of expressions, and  *)
(* the recognizer that runs on it. The automata it is made from keep the   *)
(* invariant of RegExpProofs, one after the other. Its states are told     *)
(* apart by their arrays of positions; a move is linked to the state of    *)
(* the positions that it leads to, or waits in the queue (MovesLinked).    *)
(* Moves stand in ascending order, so the first that enters a character    *)
(* into a row is the least, and the moves that follow it are just those    *)
(* that stand for the character (FollowersStand). Positions stand in the   *)
(* order of their terminals, from which the final terminal of a state      *)
(* follows (WinnerIs), and recognize is always in the state of all the     *)
(* positions that the characters it has read lead to (TextInv).            *)
(***************************************************************************)
EXTENDS FinalAutomata, RegExpProofs

-----------------------------------------------------------------------------
(* Sequences of ascending numbers. *)
Ascends(s) == \A i, j \in DOMAIN s : i < j => s[i] < s[j]

LEMMA AppendAscends ==
  ASSUME NEW T, T \subseteq Int, NEW u \in Seq(T), NEW e \in T
  PROVE  Ascends(Append(u, e)) <=> Ascends(u) /\ \A x \in ToSet(u) : x < e
<1>1. PICK n, more : n = Len(u) /\ more = Append(u, e)
  OBVIOUS
<1>2. /\ n \in Nat /\ DOMAIN u = 1 .. n /\ DOMAIN more = 1 .. n + 1
      /\ more[n + 1] = e /\ \A i \in 1 .. n : more[i] = u[i]
  BY <1>1
<1>3. ASSUME Ascends(more)
      PROVE  Ascends(u) /\ \A x \in ToSet(u) : x < e
  <2>1. \A i, j \in 1 .. n : i < j => u[i] < u[j]
    BY <1>2, <1>3 DEF Ascends
  <2>2. \A i \in 1 .. n : u[i] < e
    BY <1>2, <1>3 DEF Ascends
  <2> QED
    BY <1>2, <2>1, <2>2 DEF Ascends, ToSet
<1>4. ASSUME Ascends(u), \A x \in ToSet(u) : x < e
      PROVE  Ascends(more)
  <2>1. \A i \in 1 .. n : u[i] < e
    BY <1>2, <1>4 DEF ToSet
  <2>2. \A i, j \in 1 .. n : i < j => u[i] < u[j]
    BY <1>2, <1>4 DEF Ascends
  <2>3. ASSUME NEW i \in 1 .. n + 1, NEW j \in 1 .. n + 1, i < j
        PROVE  more[i] < more[j]
    <3>1. i \in 1 .. n
      BY <1>2, <2>3
    <3>2. CASE j = n + 1
      BY <1>2, <2>1, <3>1, <3>2
    <3>3. CASE j \in 1 .. n
      BY <1>2, <2>2, <2>3, <3>1, <3>3
    <3> QED
      BY <1>2, <3>2, <3>3
  <2> QED
    BY <1>2, <2>3 DEF Ascends
<1> QED
  BY <1>1, <1>3, <1>4

(* ElementsIn keeps the order. *)
LEMMA ElementsAscend ==
  ASSUME NEW T, T \subseteq Int, NEW s \in Seq(T), Ascends(s), NEW S
  PROVE  Ascends(ElementsIn(s, S))
<1> DEFINE R == ToSet(s)
<1>1. PICK d : /\ ElementsIn(s, S) = d[s]
               /\ \A t \in Seq(R) : d[t] = AmongStep(d, t, S)
  BY AmongIs
<1>2. s \in Seq(R) /\ R \subseteq T
  BY OwnSeq
<1> DEFINE Good(t) == /\ d[t] \in Seq(R) /\ ToSet(d[t]) \subseteq ToSet(t)
                      /\ Ascends(t) => Ascends(d[t])
           P == {n \in Nat : \A t \in Seq(R) : Len(t) = n => Good(t)}
<1> HIDE DEF R
<1>3. R \subseteq Int
  BY <1>2
<1>4. ToSet(<<>>) = {} /\ <<>> \in Seq(R) /\ Ascends(<<>>)
  BY DEF ToSet, Ascends
<1>5. 0 \in P
  <2>1. ASSUME NEW t \in Seq(R), Len(t) = 0
        PROVE  Good(t)
    <3>1. t = <<>>
      BY <2>1
    <3>2. d[t] = AmongStep(d, t, S)
      BY <1>1
    <3>3. d[t] = <<>>
      BY <3>1, <3>2 DEF AmongStep
    <3> QED
      BY <1>4, <3>1, <3>3
  <2> HIDE DEF Good
  <2> QED
    BY <2>1
<1>6. ASSUME NEW n \in Nat, n \in P
      PROVE  n + 1 \in P
  <2>1. ASSUME NEW t \in Seq(R), Len(t) = n + 1
        PROVE  Good(t)
    <3>1. PICK u, e : /\ u = Front(t) /\ e = Last(t) /\ t # <<>>
                      /\ u \in Seq(R) /\ e \in R /\ Len(u) = n /\ t = Append(u, e)
      BY <2>1, FrontAndLast
    <3>2. Good(u)
      BY <1>6, <3>1
    <3>3. ToSet(t) = ToSet(u) \cup {e}
      BY <3>1, ToSetAppend
    <3>4. Ascends(t) <=> Ascends(u) /\ \A x \in ToSet(u) : x < e
      <4>1. Ascends(Append(u, e)) <=> Ascends(u) /\ \A x \in ToSet(u) : x < e
        BY ONLY <1>3, <3>1, AppendAscends
      <4> QED
        BY <3>1, <4>1
    <3>5. CASE e \in S
      <4>1. PICK v : v = d[u] /\ v \in Seq(R)
        BY <3>2
      <4>2. d[t] = Append(v, e)
        BY <1>1, <3>1, <3>5, <4>1 DEF AmongStep
      <4>3. Append(v, e) \in Seq(R) /\ ToSet(Append(v, e)) = ToSet(v) \cup {e}
        BY <3>1, <4>1, ToSetAppend, AppendOne
      <4>4. Ascends(Append(v, e)) <=> Ascends(v) /\ \A x \in ToSet(v) : x < e
        BY <1>3, <3>1, <4>1, AppendAscends
      <4> QED
        BY <3>2, <3>3, <3>4, <4>1, <4>2, <4>3, <4>4
    <3>6. CASE e \notin S
      <4>1. d[t] = d[u]
        BY <1>1, <3>1, <3>6 DEF AmongStep
      <4> QED
        BY <3>2, <3>3, <3>4, <4>1
    <3> QED
      BY <3>5, <3>6
  <2> HIDE DEF Good
  <2> QED
    BY <2>1
<1> HIDE DEF P
<1>7. Len(s) \in P
  BY <1>5, <1>6, SetInduction
<1> QED
  BY <1>1, <1>2, <1>7 DEF P, R

-----------------------------------------------------------------------------
(* The automata of the terminals, and positions in them. *)

DkaState == [final : BOOLEAN, moves : Seq([idx : CharIdx, value : Nat])]

(* All moves lead to states of the automaton. *)
Dkas ==
  {st \in Seq(DkaState) :
     /\ st # <<>>
     /\ \A i \in DOMAIN st : \A m \in ToSet(st[i].moves) : m.value \in DOMAIN st}

Places ==
  {p \in Nat \X Nat : p[1] \in DOMAIN states_array /\ p[2] \in DOMAIN states_array[p[1]]}

ArraysInv ==
  /\ terminals \in TerminalLists
  /\ t_idx \in DOMAIN terminals
  /\ states_array \in Seq(Dkas)
  /\ fa_stage = "terminals" => Len(states_array) = t_idx - 1

FaMoves == Seq([idx : CharIdx, value : {NotExist} \union Nat])

(* The move m of the state s is linked to the state of the positions it
   leads to, or an element of the queue will link it. *)
MoveLinked(s, m) ==
  IF m.value = NotExist
    THEN \E q \in ToSet(fa_queue) : q.from = s /\ q.char = m.idx
    ELSE /\ m.value \in DOMAIN state_descrs
         /\ state_descrs[m.value] = TargetRegs(state_descrs[s], m.idx)

MovesLinked ==
  \A s \in DOMAIN fa_states :
    LET moves == fa_states[s].moves
        chars == MoveChars(state_descrs[s])
    IN  /\ "moves" \in DOMAIN fa_states[s] /\ moves \in FaMoves
        /\ Len(moves) = Len(chars)
        /\ \A i \in 1 .. Len(moves) : moves[i].idx = chars[i] /\ MoveLinked(s, moves[i])

(* An element of the queue has the positions that its move leads to. *)
QueueRight ==
  \A q \in ToSet(fa_queue) :
    /\ q.regs \in Seq(Places)
    /\ q.from # NotExist =>
         /\ q.from \in DOMAIN fa_states
         /\ q.regs = TargetRegs(state_descrs[q.from], q.char)

ProductInv ==
  /\ fa_states \in Seq(ToSet(fa_states)) /\ fa_queue \in Seq(ToSet(fa_queue))
  /\ state_descrs \in Seq(Seq(Places)) /\ Len(state_descrs) = Len(fa_states)
  /\ MovesLinked /\ QueueRight
  /\ fa_stage # "product" => fa_queue = <<>>
  /\ fa_stage = "terminals" => fa_states = <<>>

RowsInv ==
  /\ Len(state_moves) \in Nat /\ Len(state_moves) <= Len(fa_states)
  /\ state_moves = [s \in 1 .. Len(state_moves) |-> Row(fa_states[s].moves)]
  /\ fa_stage \notin {"rows", "ready"} => state_moves = <<>>

LexerInv ==
  /\ fa_stage \in {"terminals", "product", "rows", "ready", "failed"}
  /\ RegExpInv /\ ArraysInv /\ ProductInv /\ RowsInv

-----------------------------------------------------------------------------
(* What the positions of an array lead to. *)

LEMMA PlaceIs ==
  ASSUME ArraysInv, NEW p \in Places
  PROVE  /\ PosState(p).moves \in Seq([idx : CharIdx, value : Nat])
         /\ \A m \in ToSet(PosState(p).moves) :
              m.idx \in CharIdx /\ <<p[1], m.value>> \in Places
<1>1. PICK t, i, st : t = p[1] /\ i = p[2] /\ st = states_array[t]
  OBVIOUS
<1>2. t \in DOMAIN states_array /\ i \in DOMAIN st /\ t \in Nat
  BY <1>1 DEF Places
<1>3. st \in Dkas
  BY <1>1, <1>2 DEF ArraysInv
<1>4. st \in Seq(DkaState) /\ \A m \in ToSet(st[i].moves) : m.value \in DOMAIN st
  BY <1>2, <1>3 DEF Dkas
<1>5. PICK ms : ms = st[i].moves /\ ms \in Seq([idx : CharIdx, value : Nat])
  <2>1. st[i] \in DkaState
    BY <1>2, <1>4
  <2> QED
    BY <2>1 DEF DkaState
<1>6. PosState(p).moves = ms
  BY <1>1, <1>5 DEF PosState
<1>7. ASSUME NEW m \in ToSet(ms)
      PROVE  m.idx \in CharIdx /\ <<p[1], m.value>> \in Places
  <2>1. m \in [idx : CharIdx, value : Nat]
    BY <1>5, OwnSeq
  <2>2. m.value \in DOMAIN st
    BY <1>4, <1>5
  <2>3. <<t, m.value>> \in Places
    BY <1>1, <1>2, <2>1, <2>2 DEF Places
  <2> QED
    BY <1>1, <2>1, <2>3
<1> QED
  BY <1>5, <1>6, <1>7

(* The numbers of the moves of an array of positions, in ascending order. *)
LEMMA MoveCharsIs ==
  ASSUME ArraysInv, NEW regs \in Seq(Places)
  PROVE  /\ MoveChars(regs) \in Seq(CharIdx) /\ Ascends(MoveChars(regs))
         /\ ToSet(MoveChars(regs)) = IdxsAt(ToSet(regs))
         /\ IdxsAt(ToSet(regs)) \subseteq CharIdx
<1>1. IdxsAt(ToSet(regs)) \subseteq CharIdx
  <2>1. ToSet(regs) \subseteq Places
    BY OwnSeq
  <2> QED
    BY <2>1, PlaceIs DEF IdxsAt
<1>2. PICK n : n = c_no_char_base + c_base_char_cnt /\ n \in Nat /\ CharIdx = 0 .. n - 1
  BY CharCountAssumption DEF c_no_char_base, CharIdx
<1>3. PICK all : all = [i \in 1 .. n |-> i - 1]
  OBVIOUS
<1>4. \A i \in 1 .. n : i - 1 \in CharIdx
  BY <1>2
<1>5. all \in Seq(CharIdx) /\ Ascends(all)
  BY <1>2, <1>3, <1>4 DEF Ascends
<1>6. ToSet(all) = CharIdx
  <2>1. ASSUME NEW c \in CharIdx
        PROVE  c \in ToSet(all)
    <3>1. c + 1 \in 1 .. n /\ c = (c + 1) - 1
      BY <1>2
    <3>2. all[c + 1] = c /\ c + 1 \in DOMAIN all
      BY <1>3, <3>1
    <3> QED
      BY <3>2 DEF ToSet
  <2> QED
    BY <1>5, <2>1, OwnSeq
<1>7. CharIdx \subseteq Int
  BY DEF CharIdx
<1>8. MoveChars(regs) = ElementsIn(all, IdxsAt(ToSet(regs)))
  BY <1>2, <1>3 DEF MoveChars
<1>9. /\ ElementsIn(all, IdxsAt(ToSet(regs))) \in Seq(CharIdx)
      /\ ToSet(ElementsIn(all, IdxsAt(ToSet(regs)))) = CharIdx \cap IdxsAt(ToSet(regs))
  BY <1>5, <1>6, ElementsInIs
<1>10. Ascends(ElementsIn(all, IdxsAt(ToSet(regs))))
  BY <1>5, <1>7, ElementsAscend
<1> QED
  BY <1>1, <1>8, <1>9, <1>10

FollowOf(p, m) ==
  {<<p[1], mv.value>> :
     mv \in {mv \in ToSet(PosState(p).moves) : FollowsMove(mv.idx, m)}}

LEMMA TargetRegsIs ==
  ASSUME ArraysInv, NEW regs \in Seq(Places), NEW m
  PROVE  /\ TargetRegs(regs, m) \in Seq(Places)
         /\ ToSet(TargetRegs(regs, m)) = UNION {FollowOf(p, m) : p \in ToSet(regs)}
<1> DEFINE Moves(p) == PosState(p).moves
           Followed(p) == ElementsIn(Moves(p),
                            {mv \in ToSet(Moves(p)) : FollowsMove(mv.idx, m)})
           Led(p) == [j \in DOMAIN Followed(p) |-> <<p[1], Followed(p)[j].value>>]
<1>1. ASSUME NEW p \in Places
      PROVE  Led(p) \in Seq(Places) /\ ToSet(Led(p)) = FollowOf(p, m)
  <2>1. PICK M, ms, S : /\ M = [idx : CharIdx, value : Nat]
                        /\ ms = Moves(p)
                        /\ S = {mv \in ToSet(ms) : FollowsMove(mv.idx, m)}
    OBVIOUS
  <2>2. /\ ms \in Seq(M)
        /\ \A mv \in ToSet(ms) : <<p[1], mv.value>> \in Places
    BY <2>1, PlaceIs
  <2>3. PICK f : f = ElementsIn(ms, S) /\ f \in Seq(M) /\ ToSet(f) = S
    <3>1. ElementsIn(ms, S) \in Seq(M) /\ ToSet(ElementsIn(ms, S)) = ToSet(ms) \cap S
      BY <2>2, ElementsInIs
    <3>2. ToSet(ms) \cap S = S
      BY <2>1
    <3> QED
      BY <3>1, <3>2
  <2>4. Followed(p) = f
    BY <2>1, <2>3
  <2> HIDE DEF Moves, Followed
  <2>5. Led(p) = [j \in DOMAIN f |-> <<p[1], f[j].value>>]
    BY <2>4
  <2>6. DOMAIN f = 1 .. Len(f) /\ Len(f) \in Nat
    BY <2>3
  <2>7. \A j \in DOMAIN f : <<p[1], f[j].value>> \in Places
    <3>1. \A j \in DOMAIN f : f[j] \in S
      BY <2>3 DEF ToSet
    <3> QED
      BY <2>1, <2>2, <3>1
  <2> HIDE DEF Led
  <2>8. Led(p) \in Seq(Places)
    BY <2>5, <2>6, <2>7
  <2>9. ToSet(Led(p)) = {<<p[1], mv.value>> : mv \in ToSet(f)}
    BY <2>5 DEF ToSet
  <2>10. FollowOf(p, m) = {<<p[1], mv.value>> : mv \in S}
    BY <2>1 DEF FollowOf, Moves
  <2> QED
    BY <2>3, <2>8, <2>9, <2>10
<1>2. PICK seqs : seqs = [i \in DOMAIN regs |-> Led(regs[i])]
  OBVIOUS
<1>3. TargetRegs(regs, m) = FlattenSeq(seqs)
  BY <1>2 DEF TargetRegs
<1> HIDE DEF Led
<1>4. DOMAIN regs = 1 .. Len(regs) /\ Len(regs) \in Nat
      /\ \A i \in DOMAIN regs : regs[i] \in Places
  OBVIOUS
<1>5. seqs \in Seq(Seq(Places))
  BY <1>1, <1>2, <1>4
<1>6. /\ FlattenSeq(seqs) \in Seq(Places)
      /\ ToSet(FlattenSeq(seqs)) = UNION {ToSet(t) : t \in ToSet(seqs)}
  BY <1>5, FlattenToSet
<1>7. ToSet(seqs) = {Led(p) : p \in ToSet(regs)}
  BY <1>2 DEF ToSet
<1>8. ToSet(regs) \subseteq Places
  BY OwnSeq
<1>9. UNION {ToSet(t) : t \in ToSet(seqs)} = UNION {FollowOf(p, m) : p \in ToSet(regs)}
  BY <1>1, <1>7, <1>8
<1> QED
  BY <1>3, <1>6, <1>9

-----------------------------------------------------------------------------
(* The row of a state. *)

(* Is the move with the number idx entered at the character c, if no earlier
   one is? *)
Enters(idx, c) == IF idx < c_base_char_cnt THEN c = idx ELSE c \in RowChars(idx)

RowStep(row, moves, n) ==
  IF n = 0 THEN [c \in Chars |-> NotExist] ELSE EnterMove(row[n - 1], moves[n])

Rows(row, moves, n) == row = [k \in 0 .. n |-> RowStep(row, moves, k)]

LEMMA RowAt ==
  ASSUME NEW moves, NEW n \in Nat, NEW row, Rows(row, moves, n), NEW k \in 0 .. n
  PROVE  row[k] = RowStep(row, moves, k)
<1> DEFINE F(r) == [j \in 0 .. n |-> RowStep(r, moves, j)]
<1>1. row = F(row)
  BY DEF Rows
<1>2. F(row)[k] = RowStep(row, moves, k)
  OBVIOUS
<1> HIDE DEF F
<1> QED
  BY <1>1, <1>2

LEMMA RowsExist ==
  ASSUME NEW moves, NEW n \in Nat
  PROVE  \E row : Rows(row, moves, n)
<1> DEFINE S == {k \in Nat : \E row : Rows(row, moves, k)}
<1>1. 0 \in S
  <2> DEFINE row == [k \in 0 .. 0 |-> [c \in Chars |-> NotExist]]
  <2>1. Rows(row, moves, 0)
    BY DEF Rows, RowStep
  <2> QED
    BY <2>1
<1>2. ASSUME NEW k \in Nat, k \in S
      PROVE  k + 1 \in S
  <2>1. PICK row : Rows(row, moves, k)
    BY <1>2
  <2> DEFINE more == [j \in 0 .. k + 1 |-> RowStep(row, moves, j)]
  <2>2. ASSUME NEW j \in 0 .. k
        PROVE  more[j] = row[j]
    <3>1. row[j] = RowStep(row, moves, j)
      BY <2>1, RowAt
    <3> QED
      BY <3>1
  <2>3. ASSUME NEW j \in 0 .. k + 1
        PROVE  RowStep(more, moves, j) = RowStep(row, moves, j)
    <3>1. CASE j = 0
      BY <3>1 DEF RowStep
    <3>2. CASE j # 0
      <4>1. j - 1 \in 0 .. k
        BY <3>2
      <4>2. more[j - 1] = row[j - 1]
        BY <2>2, <4>1
      <4> HIDE DEF more
      <4> QED
        BY <4>2 DEF RowStep
    <3> QED
      BY <3>1, <3>2
  <2>4. more = [j \in 0 .. k + 1 |-> RowStep(more, moves, j)]
    BY <2>3
  <2> HIDE DEF more
  <2>5. Rows(more, moves, k + 1)
    BY <2>4 DEF Rows
  <2> QED
    BY <2>5
<1> HIDE DEF S
<1>3. n \in S
  BY <1>1, <1>2, SetInduction
<1> QED
  BY <1>3 DEF S

LEMMA RowIs ==
  ASSUME NEW moves, Len(moves) \in Nat
  PROVE  \E row : Rows(row, moves, Len(moves)) /\ Row(moves) = row[Len(moves)]
<1> DEFINE row == CHOOSE row : Rows(row, moves, Len(moves))
<1>1. Rows(row, moves, Len(moves))
  BY RowsExist
<1>2. Row(moves) = row[Len(moves)]
  BY DEF Row, Rows, RowStep
<1> QED
  BY <1>1, <1>2

(* What a row says of a character after its first n moves: the first that
   enters the character. *)
EntersFirst(row, moves, n, c) ==
  \/ /\ \A i \in 1 .. n : ~Enters(moves[i].idx, c)
     /\ row[c] = NotExist
  \/ \E i \in 1 .. n :
       /\ Enters(moves[i].idx, c) /\ \A j \in 1 .. i - 1 : ~Enters(moves[j].idx, c)
       /\ row[c] = moves[i].value

LEMMA EnterOne ==
  ASSUME NEW row, DOMAIN row = Chars, NEW moves, NEW n \in Nat, NEW c \in Chars,
         EntersFirst(row, moves, n, c), moves[n + 1].idx \in CharIdx,
         \A i \in 1 .. n : /\ moves[i].idx \in CharIdx
                           /\ moves[i].idx < moves[n + 1].idx
                           /\ moves[i].value # NotExist
  PROVE  /\ DOMAIN EnterMove(row, moves[n + 1]) = Chars
         /\ EntersFirst(EnterMove(row, moves[n + 1]), moves, n + 1, c)
<1>1. PICK m, more : m = moves[n + 1] /\ more = EnterMove(row, m)
  OBVIOUS
<1>2. DOMAIN more = Chars
  BY <1>1 DEF EnterMove
<1>3. \/ (\A i \in 1 .. n : ~Enters(moves[i].idx, c)) /\ row[c] = NotExist
      \/ \E i \in 1 .. n : Enters(moves[i].idx, c) /\ row[c] # NotExist
  BY DEF EntersFirst
<1>4. \/ Enters(m.idx, c) /\ more[c] = m.value /\ \A i \in 1 .. n : ~Enters(moves[i].idx, c)
      \/ /\ more[c] = row[c]
         /\ Enters(m.idx, c) => \E i \in 1 .. n : Enters(moves[i].idx, c)
  <2>1. CASE m.idx < c_base_char_cnt
    <3>1. more = [row EXCEPT ![m.idx] = m.value]
      BY <1>1, <2>1 DEF EnterMove
    <3>2. CASE c = m.idx
      <4>1. more[c] = m.value /\ Enters(m.idx, c)
        BY <2>1, <3>1, <3>2 DEF Enters
      <4>2. ASSUME NEW i \in 1 .. n
            PROVE  ~Enters(moves[i].idx, c)
        <5>1. PICK x : x = moves[i].idx
          OBVIOUS
        <5>2. x < c /\ c < c_base_char_cnt
          BY <1>1, <2>1, <3>2, <5>1
        <5>4. x \in Nat /\ c \in Nat /\ c_base_char_cnt \in Nat
          <6>1. x \in CharIdx /\ c_base_char_cnt \in Nat
            BY <5>1, CharCountAssumption
          <6>2. c \in Nat
            BY DEF Chars
          <6> QED
            BY <6>1, <6>2, MoveIdxs
        <5>3. x < c_base_char_cnt /\ c # x
          BY <5>2, <5>4
        <5> QED
          BY <5>1, <5>3 DEF Enters
      <4> QED
        BY <4>1, <4>2
    <3>3. CASE c # m.idx
      BY <2>1, <3>1, <3>3 DEF Enters
    <3> QED
      BY <3>2, <3>3
  <2>2. CASE ~(m.idx < c_base_char_cnt)
    <3>1. more[c] = IF c \in RowChars(m.idx) /\ row[c] = NotExist THEN m.value ELSE row[c]
      BY <1>1, <2>2 DEF EnterMove
    <3>2. Enters(m.idx, c) <=> c \in RowChars(m.idx)
      BY <2>2 DEF Enters
    <3> QED
      BY <1>3, <3>1, <3>2
  <2> QED
    BY <2>1, <2>2
<1>5. CASE Enters(m.idx, c) /\ more[c] = m.value /\ \A i \in 1 .. n : ~Enters(moves[i].idx, c)
  <2>1. n + 1 \in 1 .. n + 1 /\ (n + 1) - 1 = n
    OBVIOUS
  <2>2. EntersFirst(more, moves, n + 1, c)
    BY <1>1, <1>5, <2>1 DEF EntersFirst
  <2> QED
    BY <1>1, <1>2, <2>2
<1>6. CASE /\ more[c] = row[c]
           /\ Enters(m.idx, c) => \E i \in 1 .. n : Enters(moves[i].idx, c)
  <2>1. \A i \in 1 .. n + 1 : i \in 1 .. n \/ i = n + 1
    OBVIOUS
  <2>2. CASE (\A i \in 1 .. n : ~Enters(moves[i].idx, c)) /\ row[c] = NotExist
    <3>1. \A i \in 1 .. n + 1 : ~Enters(moves[i].idx, c)
      BY <1>1, <1>6, <2>1, <2>2
    <3>2. EntersFirst(more, moves, n + 1, c)
      BY <1>6, <2>2, <3>1 DEF EntersFirst
    <3> QED
      BY <1>1, <1>2, <3>2
  <2>3. CASE \E i \in 1 .. n :
               /\ Enters(moves[i].idx, c) /\ \A j \in 1 .. i - 1 : ~Enters(moves[j].idx, c)
               /\ row[c] = moves[i].value
    <3>1. 1 .. n \subseteq 1 .. n + 1
      OBVIOUS
    <3>2. EntersFirst(more, moves, n + 1, c)
      BY <1>6, <2>3, <3>1 DEF EntersFirst
    <3> QED
      BY <1>1, <1>2, <3>2
  <2> QED
    BY <2>2, <2>3 DEF EntersFirst
<1> QED
  BY <1>4, <1>5, <1>6

LEMMA RowFirst ==
  ASSUME NEW moves, Len(moves) \in Nat, NEW c \in Chars,
         \A i \in 1 .. Len(moves) : /\ moves[i].idx \in CharIdx
                                    /\ moves[i].value # NotExist
                                    /\ \A j \in 1 .. i - 1 : moves[j].idx < moves[i].idx
  PROVE  EntersFirst(Row(moves), moves, Len(moves), c)
<1>1. PICK n : n = Len(moves) /\ n \in Nat
  OBVIOUS
<1>2. PICK row : Rows(row, moves, n) /\ Row(moves) = row[n]
  BY <1>1, RowIs
<1> DEFINE P == {k \in Nat : k <= n =>
                   DOMAIN row[k] = Chars /\ EntersFirst(row[k], moves, k, c)}
<1>3. 0 \in P
  <2>1. row[0] = [d \in Chars |-> NotExist]
    <3>1. 0 \in 0 .. n
      BY <1>1
    <3>2. row[0] = RowStep(row, moves, 0)
      BY <1>1, <1>2, <3>1, RowAt
    <3> QED
      BY <3>2 DEF RowStep
  <2>2. row[0][c] = NotExist /\ DOMAIN row[0] = Chars
    BY <2>1
  <2>3. EntersFirst(row[0], moves, 0, c)
    BY <2>2 DEF EntersFirst
  <2> QED
    BY <2>2, <2>3
<1>4. ASSUME NEW k \in Nat, k \in P
      PROVE  k + 1 \in P
  <2> SUFFICES ASSUME k + 1 <= n
               PROVE  /\ DOMAIN row[k + 1] = Chars
                      /\ EntersFirst(row[k + 1], moves, k + 1, c)
    OBVIOUS
  <2>1. DOMAIN row[k] = Chars /\ EntersFirst(row[k], moves, k, c)
    BY <1>1, <1>4
  <2>2. row[k + 1] = EnterMove(row[k], moves[k + 1])
    <3>1. k + 1 \in 0 .. n /\ k + 1 # 0 /\ (k + 1) - 1 = k
      BY <1>1
    <3>2. row[k + 1] = RowStep(row, moves, k + 1)
      BY <1>1, <1>2, <3>1, RowAt
    <3> QED
      BY <3>1, <3>2 DEF RowStep
  <2>3. k + 1 \in 1 .. n /\ \A i \in 1 .. k : i \in 1 .. n /\ i \in 1 .. (k + 1) - 1
    BY <1>1
  <2>4. PICK r : r = row[k]
    OBVIOUS
  <2>5. /\ moves[k + 1].idx \in CharIdx
        /\ \A i \in 1 .. k : /\ moves[i].idx \in CharIdx
                             /\ moves[i].idx < moves[k + 1].idx
                             /\ moves[i].value # NotExist
    BY <1>1, <2>3
  <2>6. /\ DOMAIN EnterMove(r, moves[k + 1]) = Chars
        /\ EntersFirst(EnterMove(r, moves[k + 1]), moves, k + 1, c)
    BY <2>1, <2>4, <2>5, EnterOne
  <2> QED
    BY <2>2, <2>4, <2>6
<1> HIDE DEF P
<1>5. n \in P
  BY <1>1, <1>3, <1>4, SetInduction
<1> QED
  BY <1>1, <1>2, <1>5 DEF P

-----------------------------------------------------------------------------
(* What stands for a character. *)

Apart(idxs) ==
  LET taken(idx, x) == Stands(idx, x) /\ idx >= c_base_char_cnt
  IN  /\ c_no_char_base \in idxs => 0 \in idxs
      /\ \A x \in Chars :
           c_no_char_base + x \in idxs =>
             x \in idxs \/ \A idx \in idxs :
                             taken(idx, x) => idx > c_no_char_base + x

(* The kinds of moves, with numbers as numbers. *)
LEMMA Kinds ==
  \E n \in Nat \ {0} :
    /\ c_base_char_cnt = n /\ reg_char_white = n /\ reg_char_digit = n + 1
    /\ reg_char_letter = n + 2 /\ c_no_char_base = n + 3
    /\ Chars = 0 .. n - 1 /\ CharIdx = 0 .. n + 3 + n - 1
<1>1. PICK n : n = c_base_char_cnt /\ n \in Nat \ {0}
  BY CharCountAssumption
<1>2. /\ reg_char_white = n /\ reg_char_digit = n + 1
      /\ reg_char_letter = n + 2 /\ c_no_char_base = n + 3
  BY <1>1 DEF reg_char_white, reg_char_digit, reg_char_letter, c_no_char_base
<1>3. Chars = 0 .. n - 1 /\ CharIdx = 0 .. n + 3 + n - 1
  BY <1>1, <1>2 DEF Chars, CharIdx
<1> QED
  BY <1>1, <1>2, <1>3

LEMMA StandsEnters ==
  ASSUME NEW idx \in CharIdx, NEW c \in Chars, Stands(idx, c)
  PROVE  Enters(idx, c)
<1>1. PICK n \in Nat \ {0} :
        /\ c_base_char_cnt = n /\ reg_char_white = n /\ reg_char_digit = n + 1
        /\ reg_char_letter = n + 2 /\ c_no_char_base = n + 3
        /\ Chars = 0 .. n - 1 /\ CharIdx = 0 .. n + 3 + n - 1
  BY Kinds
<1>2. CASE idx < n
  BY <1>1, <1>2 DEF Stands, Enters
<1>3. CASE idx = n
  BY <1>1, <1>3 DEF Stands, Enters, RowChars
<1>4. CASE idx = n + 1
  BY <1>1, <1>4 DEF Stands, Enters, RowChars
<1>5. CASE idx = n + 2
  BY <1>1, <1>5 DEF Stands, Enters, RowChars
<1>6. CASE idx >= n + 3
  BY <1>1, <1>6 DEF Stands, Enters, RowChars
<1> QED
  BY <1>1, <1>2, <1>3, <1>4, <1>5, <1>6

(* The moves that follow the least of those that enter a character are those
   that stand for it. *)
LEMMA FollowersStand ==
  ASSUME NEW idxs, idxs \subseteq CharIdx, Apart(idxs), NEW c \in Chars,
         NEW m \in idxs, Enters(m, c), \A i \in idxs : i < m => ~Enters(i, c),
         NEW idx \in idxs
  PROVE  FollowsMove(idx, m) <=> Stands(idx, c)
<1>1. PICK n \in Nat \ {0} :
        /\ c_base_char_cnt = n /\ reg_char_white = n /\ reg_char_digit = n + 1
        /\ reg_char_letter = n + 2 /\ c_no_char_base = n + 3
        /\ Chars = 0 .. n - 1 /\ CharIdx = 0 .. n + 3 + n - 1
  BY Kinds
<1>2. /\ idx \in 0 .. n + 3 + n - 1 /\ m \in 0 .. n + 3 + n - 1 /\ c \in 0 .. n - 1
      /\ DigitChars \subseteq 1 .. n - 1 /\ LetterChars \subseteq 1 .. n - 1
      /\ WhiteChars \subseteq 1 .. n - 1
      /\ WhiteChars \cap DigitChars = {} /\ WhiteChars \cap LetterChars = {}
      /\ DigitChars \cap LetterChars = {}
  BY <1>1, FinalAutomataAssumption
<1>3. Stands(idx, c) <=> \/ idx < n /\ c = idx
                         \/ idx = n /\ c \in WhiteChars
                         \/ idx = n + 1 /\ c \in DigitChars
                         \/ idx = n + 2 /\ c \in LetterChars
                         \/ idx >= n + 3 /\ c # idx - (n + 3)
  BY <1>1, <1>2 DEF Stands
<1>4. FollowsMove(idx, m) <=>
        \/ idx = m
        \/ /\ idx > m
           /\ \/ idx >= n + 3 /\ m # idx - (n + 3)
              \/ idx = n + 1 /\ m \in DigitChars
              \/ idx = n + 2 /\ m \in LetterChars
              \/ idx = n /\ m \in WhiteChars
  BY <1>1 DEF FollowsMove
<1>5. \A i \in 0 .. n + 3 + n - 1 :
        Enters(i, c) <=> \/ i < n /\ c = i
                         \/ i = n /\ c \in WhiteChars
                         \/ i = n + 1 /\ c \in DigitChars
                         \/ i = n + 2 /\ c \in LetterChars
                         \/ i = n + 3
                         \/ i > n + 3 /\ c # i - (n + 3)
  BY <1>1, <1>2 DEF Enters, RowChars
<1>6. /\ n + 3 \in idxs => 0 \in idxs
      /\ n + 3 + c \in idxs =>
           c \in idxs \/ \A i \in idxs : Stands(i, c) /\ i >= n => i > n + 3 + c
  BY <1>1 DEF Apart
<1>7. idx < m => ~Enters(idx, c)
  OBVIOUS
<1>8. idx < m => ~Stands(idx, c)
  BY <1>1, <1>7, StandsEnters
<1>9. CASE m < n
  <2>1. m = c
    BY <1>2, <1>5, <1>9
  <2> QED
    BY <1>2, <1>3, <1>4, <1>8, <1>9, <2>1
<1>10. CASE m >= n
  <2>1. c \notin idxs
    <3>1. Enters(c, c) /\ c < m
      BY <1>2, <1>5, <1>10
    <3> QED
      BY <3>1
  <2>2. Stands(m, c)
    <3>1. Stands(m, c) <=> \/ m < n /\ c = m
                           \/ m = n /\ c \in WhiteChars
                           \/ m = n + 1 /\ c \in DigitChars
                           \/ m = n + 2 /\ c \in LetterChars
                           \/ m >= n + 3 /\ c # m - (n + 3)
      BY <1>1, <1>2 DEF Stands
    <3>2. m = n + 3 => c # 0
      BY <1>6, <2>1
    <3> QED
      BY <1>2, <1>5, <1>10, <3>1, <3>2
  <2>3. n + 3 + c \in idxs => m > n + 3 + c
    BY <1>6, <1>10, <2>1, <2>2
  <2>4. CASE idx < m
    BY <1>2, <1>4, <1>8, <2>4
  <2>5. CASE idx = m
    BY <1>4, <2>2, <2>5
  <2>6. CASE idx > m
    <3>1. idx - (n + 3) # c
      BY <1>2, <2>3, <2>6
    <3>2. CASE idx >= n + 3
      BY <1>2, <1>3, <1>4, <1>10, <2>6, <3>1, <3>2
    <3>3. CASE idx < n + 3
      <4>1. ~Stands(idx, c)
        BY <1>2, <1>3, <1>5, <1>10, <2>6, <3>3
      <4>2. ~FollowsMove(idx, m)
        BY <1>2, <1>4, <1>10, <2>6, <3>3
      <4> QED
        BY <4>1, <4>2
    <3> QED
      BY <1>2, <3>2, <3>3
  <2> QED
    BY <1>2, <2>4, <2>5, <2>6
<1> QED
  BY <1>2, <1>9, <1>10

-----------------------------------------------------------------------------
(* Rows are exact. *)

LEMMA DescrsAre ==
  ASSUME ProductInv
  PROVE  /\ DOMAIN state_descrs = 1 .. Len(fa_states)
         /\ DOMAIN fa_states = 1 .. Len(fa_states) /\ Len(fa_states) \in Nat
         /\ \A s \in DOMAIN fa_states : state_descrs[s] \in Seq(Places)
<1>1. PICK D, n : D = Seq(Places) /\ n = Len(fa_states)
  OBVIOUS
<1>2. state_descrs \in Seq(D) /\ Len(state_descrs) = n
  BY <1>1 DEF ProductInv
<1>3. DOMAIN fa_states = 1 .. n /\ n \in Nat
  BY <1>1 DEF ProductInv
<1> QED
  BY <1>1, <1>2, <1>3

LEMMA StepIs ==
  ASSUME ArraysInv, NEW regs \in Seq(Places), NEW c \in Chars, NEW m,
         \A idx \in IdxsAt(ToSet(regs)) : FollowsMove(idx, m) <=> Stands(idx, c)
  PROVE  ToSet(TargetRegs(regs, m)) = StepFrom(ToSet(regs), c)
<1>1. PICK P : P = ToSet(regs)
  OBVIOUS
<1>2. ToSet(TargetRegs(regs, m)) = UNION {FollowOf(p, m) : p \in P}
  BY <1>1, TargetRegsIs
<1>3. ASSUME NEW p \in P
      PROVE  FollowOf(p, m) = {<<p[1], mv.value>> :
               mv \in {mv \in ToSet(PosState(p).moves) : Stands(mv.idx, c)}}
  <2>1. \A mv \in ToSet(PosState(p).moves) : mv.idx \in IdxsAt(P)
    BY <1>3 DEF IdxsAt
  <2>2. {mv \in ToSet(PosState(p).moves) : FollowsMove(mv.idx, m)} =
          {mv \in ToSet(PosState(p).moves) : Stands(mv.idx, c)}
    BY <1>1, <2>1
  <2> QED
    BY <2>2 DEF FollowOf
<1> QED
  BY <1>1, <1>2, <1>3 DEF StepFrom

(* What is known of the row of the state s at the character c: the state has
   the positions d and n moves, all of them linked and in ascending order. *)
RowFacts(s, c, d, moves, n) ==
  /\ d = state_descrs[s] /\ moves = fa_states[s].moves /\ n \in Nat
  /\ d \in Seq(Places) /\ IdxsAt(ToSet(d)) \subseteq CharIdx
  /\ state_moves[s] = Row(moves)
  /\ \A i \in 1 .. n : /\ moves[i].value # NotExist
                       /\ moves[i].value \in DOMAIN state_descrs
                       /\ state_descrs[moves[i].value] = TargetRegs(d, moves[i].idx)
  /\ \A i \in 1 .. n : moves[i].idx \in IdxsAt(ToSet(d))
  /\ \A i \in 1 .. n : \A j \in 1 .. i - 1 : moves[j].idx < moves[i].idx
  /\ \A idx \in IdxsAt(ToSet(d)) : \E i \in 1 .. n : moves[i].idx = idx
  /\ EntersFirst(Row(moves), moves, n, c)

LEMMA RowFactsHold ==
  ASSUME LexerInv, NEW s \in DOMAIN state_moves, NEW c \in Chars
  PROVE  \E d, moves, n : RowFacts(s, c, d, moves, n)
<1>1. ArraysInv /\ ProductInv /\ RowsInv
  BY DEF LexerInv
<1>2. /\ s \in 1 .. Len(fa_states) /\ state_moves[s] = Row(fa_states[s].moves)
      /\ fa_queue = <<>>
  <2>1. PICK k : k = Len(state_moves) /\ k \in Nat /\ k <= Len(fa_states)
    BY <1>1 DEF RowsInv
  <2>2. state_moves = [t \in 1 .. k |-> Row(fa_states[t].moves)]
    BY <1>1, <2>1 DEF RowsInv
  <2>3. s \in 1 .. k /\ state_moves[s] = Row(fa_states[s].moves)
    BY <2>2
  <2>4. state_moves # <<>>
    OBVIOUS
  <2>5. fa_queue = <<>>
    BY <1>1, <2>4 DEF RowsInv, ProductInv
  <2> QED
    BY <1>1, <2>1, <2>3, <2>5, DescrsAre
<1>3. PICK d, moves, chars, P :
         /\ d = state_descrs[s] /\ moves = fa_states[s].moves /\ chars = MoveChars(d)
         /\ P = ToSet(d)
  OBVIOUS
<1>4. /\ d \in Seq(Places) /\ s \in DOMAIN fa_states
      /\ chars \in Seq(CharIdx) /\ Ascends(chars) /\ ToSet(chars) = IdxsAt(P)
      /\ IdxsAt(P) \subseteq CharIdx
  <2>1. d \in Seq(Places) /\ s \in DOMAIN fa_states
    BY <1>1, <1>2, <1>3, DescrsAre
  <2> QED
    BY <1>1, <1>3, <2>1, MoveCharsIs
<1>5. /\ moves \in FaMoves /\ Len(moves) = Len(chars)
      /\ \A i \in 1 .. Len(moves) : moves[i].idx = chars[i] /\ MoveLinked(s, moves[i])
  BY <1>1, <1>3, <1>4 DEF ProductInv, MovesLinked
<1>6. PICK n : n = Len(moves) /\ n \in Nat /\ DOMAIN chars = 1 .. n
  BY <1>4, <1>5 DEF FaMoves
<1>7. \A i \in 1 .. n : /\ moves[i].value # NotExist
                        /\ moves[i].value \in DOMAIN state_descrs
                        /\ state_descrs[moves[i].value] = TargetRegs(d, moves[i].idx)
  <2>1. ToSet(fa_queue) = {}
    BY <1>2 DEF ToSet
  <2> QED
    BY <1>3, <1>5, <1>6, <2>1 DEF MoveLinked
<1>8. \A i \in 1 .. n : moves[i].idx \in IdxsAt(P)
  BY <1>4, <1>5, <1>6 DEF ToSet
<1>9. \A i \in 1 .. n : \A j \in 1 .. i - 1 : moves[j].idx < moves[i].idx
  <2>1. ASSUME NEW i \in 1 .. n, NEW j \in 1 .. i - 1
        PROVE  moves[j].idx < moves[i].idx
    <3>1. j \in 1 .. n /\ j < i
      BY <1>6
    <3> QED
      BY <1>4, <1>5, <1>6, <3>1 DEF Ascends
  <2> QED
    BY <2>1
<1>10. EntersFirst(Row(moves), moves, n, c)
  <2>1. \A i \in 1 .. Len(moves) : /\ moves[i].idx \in CharIdx
                                   /\ moves[i].value # NotExist
                                   /\ \A j \in 1 .. i - 1 : moves[j].idx < moves[i].idx
    BY <1>4, <1>6, <1>7, <1>8, <1>9
  <2> QED
    BY <1>6, <2>1, RowFirst
<1>11. \A idx \in IdxsAt(P) : \E i \in 1 .. n : moves[i].idx = idx
  BY <1>4, <1>5, <1>6 DEF ToSet
<1>12. RowFacts(s, c, d, moves, n)
  BY <1>2, <1>3, <1>4, <1>6, <1>7, <1>8, <1>9, <1>10, <1>11 DEF RowFacts
<1> QED
  BY <1>12

LEMMA RowsAreExact ==
  ASSUME LexerInv
  PROVE  RowsExact
<1> SUFFICES ASSUME NEW s \in DOMAIN state_moves, NEW c \in Chars,
                    ExceptionsApart(ToSet(state_descrs[s]))
             PROVE  RowExact(s, c)
  BY DEF RowsExact
<1>1. PICK d, moves, n : RowFacts(s, c, d, moves, n)
  BY RowFactsHold
<1>2. ArraysInv
  BY DEF LexerInv
<1>3. PICK P : P = ToSet(d)
  OBVIOUS
<1>4. /\ d = state_descrs[s] /\ d \in Seq(Places) /\ IdxsAt(P) \subseteq CharIdx
      /\ n \in Nat /\ state_moves[s] = Row(moves)
  BY <1>1, <1>3 DEF RowFacts
<1>7. \A i \in 1 .. n : /\ moves[i].value # NotExist
                        /\ state_descrs[moves[i].value] = TargetRegs(d, moves[i].idx)
                        /\ moves[i].idx \in IdxsAt(P)
  BY <1>1, <1>3 DEF RowFacts
<1>9. \A i \in 1 .. n : \A j \in 1 .. i - 1 : moves[j].idx < moves[i].idx
  BY <1>1 DEF RowFacts
<1>10. EntersFirst(Row(moves), moves, n, c)
  BY <1>1 DEF RowFacts
<1>11. PICK next, reached : /\ next = state_moves[s][c] /\ next = Row(moves)[c]
                            /\ reached = StepFrom(P, c)
  BY <1>4
<1>12. \A idx \in IdxsAt(P) : \E i \in 1 .. n : moves[i].idx = idx
  BY <1>1, <1>3 DEF RowFacts
<1>13. CASE (\A i \in 1 .. n : ~Enters(moves[i].idx, c)) /\ next = NotExist
  <2>1. \A idx \in IdxsAt(P) : ~Stands(idx, c)
    BY <1>4, <1>12, <1>13, StandsEnters
  <2>2. reached = {}
    BY <1>11, <2>1 DEF StepFrom, IdxsAt
  <2> QED
    BY <1>3, <1>4, <1>11, <1>13, <2>2 DEF RowExact
<1>14. ASSUME NEW i \in 1 .. n, Enters(moves[i].idx, c),
              \A j \in 1 .. i - 1 : ~Enters(moves[j].idx, c),
              next = moves[i].value
       PROVE  RowExact(s, c)
  <2>1. PICK m : m = moves[i].idx /\ m \in IdxsAt(P)
    BY <1>7
  <2>2. \A idx \in IdxsAt(P) : idx < m => ~Enters(idx, c)
    <3>1. ASSUME NEW idx \in IdxsAt(P), idx < m
          PROVE  ~Enters(idx, c)
      <4>1. PICK j \in 1 .. n : moves[j].idx = idx
        BY <1>12
      <4>2. i \in 1 .. j - 1 => moves[i].idx < moves[j].idx
        BY <1>9
      <4>3. idx \in Int /\ m \in Int
        BY <1>4, <2>1 DEF CharIdx
      <4>4. j \in 1 .. i - 1
        <5>1. i # j
          BY <2>1, <3>1, <4>1, <4>3
        <5>2. ~(i < j)
          BY <1>4, <2>1, <3>1, <4>1, <4>2, <4>3
        <5> QED
          BY <1>4, <5>1, <5>2
      <4> QED
        BY <1>14, <4>1, <4>4
    <3> QED
      BY <3>1
  <2>3. Apart(IdxsAt(P))
    BY <1>3, <1>4 DEF ExceptionsApart, Apart
  <2>4. \A idx \in IdxsAt(P) : FollowsMove(idx, m) <=> Stands(idx, c)
    BY <1>4, <1>14, <2>1, <2>2, <2>3, FollowersStand
  <2>5. ToSet(TargetRegs(d, m)) = reached
    BY <1>2, <1>3, <1>4, <1>11, <2>4, StepIs
  <2>6. next # NotExist /\ state_descrs[next] = TargetRegs(d, m)
    BY <1>7, <1>14, <2>1
  <2> QED
    BY <1>3, <1>4, <1>11, <2>5, <2>6 DEF RowExact
<1> QED
  BY <1>10, <1>11, <1>13, <1>14 DEF EntersFirst

(* A row leads nowhere, or to a state that stands for some positions. *)
LEMMA NextIs ==
  ASSUME LexerInv, NEW s \in DOMAIN state_moves, NEW c \in Chars
  PROVE  \/ state_moves[s][c] = NotExist
         \/ /\ state_moves[s][c] \in DOMAIN fa_states
            /\ ToSet(state_descrs[state_moves[s][c]]) # {}
<1>1. PICK d, moves, n : RowFacts(s, c, d, moves, n)
  BY RowFactsHold
<1>2. ArraysInv /\ ProductInv
  BY DEF LexerInv
<1>3. /\ d \in Seq(Places) /\ state_moves[s] = Row(moves)
      /\ EntersFirst(Row(moves), moves, n, c)
  BY <1>1 DEF RowFacts
<1>4. ASSUME NEW i \in 1 .. n, state_moves[s][c] = moves[i].value
      PROVE  /\ state_moves[s][c] \in DOMAIN fa_states
             /\ ToSet(state_descrs[state_moves[s][c]]) # {}
  <2>1. PICK m, next : m = moves[i].idx /\ next = moves[i].value
    OBVIOUS
  <2>2. /\ next \in DOMAIN state_descrs /\ state_descrs[next] = TargetRegs(d, m)
        /\ m \in IdxsAt(ToSet(d))
    BY <1>1, <2>1 DEF RowFacts
  <2>3. PICK p \in ToSet(d) : \E mv \in ToSet(PosState(p).moves) : mv.idx = m
    BY <2>2 DEF IdxsAt
  <2>4. PICK mv \in ToSet(PosState(p).moves) : mv.idx = m
    BY <2>3
  <2>5. <<p[1], mv.value>> \in FollowOf(p, m)
    BY <2>4 DEF FollowOf, FollowsMove
  <2>6. ToSet(TargetRegs(d, m)) = UNION {FollowOf(x, m) : x \in ToSet(d)}
    BY <1>2, <1>3, TargetRegsIs
  <2>7. <<p[1], mv.value>> \in ToSet(state_descrs[next])
    BY <2>2, <2>5, <2>6
  <2>8. DOMAIN state_descrs = DOMAIN fa_states
    BY <1>2, DescrsAre
  <2> QED
    BY <1>4, <2>1, <2>2, <2>7, <2>8
<1> QED
  BY <1>3, <1>4 DEF EntersFirst

-----------------------------------------------------------------------------
(* The automata of the terminals are handed over whole. *)

LEMMA ElementAt ==
  ASSUME NEW S, NEW sq \in Seq(S), NEW i \in DOMAIN sq
  PROVE  sq[i] \in S
OBVIOUS

LEMMA DoneIsDka ==
  ASSUME RegExpInv, reg_stage = "done"
  PROVE  states \in Dkas
<1>1. SubsetTypes /\ MovesExact
  BY DEF RegExpInv, SubsetInv, InDka
<1>2. PICK n, k : n = Len(states) /\ k = Len(nka_states) /\ n \in Nat /\ k \in Nat
  BY <1>1, AutomatonLen, NkaTypes DEF SubsetTypes
<1>3. states \in Seq(StateOver(n)) /\ DOMAIN states = 1 .. n
  BY <1>1, <1>2 DEF SubsetTypes, IsAutomaton
<1>4. NkaInv /\ DOMAIN nka_states = 1 .. k
  BY <1>1, <1>2, NkaTypes DEF SubsetTypes
<1>5. /\ ms_map_array \in Seq(NkaSet) /\ DOMAIN ms_map_array = 1 .. n
      /\ ms_map_array # <<>>
  BY <1>1, <1>2 DEF SubsetTypes, FirstSet
<1>6. states # <<>>
  BY <1>2, <1>3, <1>5
<1>7. ASSUME NEW r \in DOMAIN nka_states, NEW m \in ToSet(CharMoves(r))
      PROVE  m.idx \in CharIdx
  <2>1. PICK M, ms : M = MoveOver(k) /\ ms = nka_states[r].moves /\ ms \in Seq(M)
    BY <1>2, <1>4, NkaTypes
  <2>2. ToSet(ElementsIn(ms, MovesWith(Nat \ {EpsMove}))) =
          ToSet(ms) \cap MovesWith(Nat \ {EpsMove})
    BY <2>1, ElementsInIs
  <2>3. m \in ToSet(ms) /\ m \in MovesWith(Nat \ {EpsMove})
    BY <1>7, <2>1, <2>2 DEF CharMoves
  <2>4. m \in M
    BY <2>1, <2>3, OwnSeq
  <2> QED
    BY <2>1, <2>3, <2>4 DEF MoveOver, MovesWith, MoveIdx
<1>14. \A s \in 1 .. n : states[s] \in StateOver(n)
  <2>1. PICK S : S = StateOver(n)
    OBVIOUS
  <2>2. states \in Seq(S) /\ DOMAIN states = 1 .. n
    BY <1>3, <2>1
  <2>3. ASSUME NEW s \in 1 .. n
        PROVE  states[s] \in S
    <3>1. s \in DOMAIN states
      BY <2>2
    <3> QED
      BY <2>2, <3>1, ElementAt
  <2> QED
    BY <2>1, <2>3
<1>8. ASSUME NEW s \in 1 .. n
      PROVE  /\ states[s] \in DkaState
             /\ \A m \in ToSet(states[s].moves) : m.value \in DOMAIN states
  <2>1. PICK M, ms : M = MoveOver(n) /\ ms = states[s].moves /\ ms \in Seq(M)
    <3>1. states[s].moves \in Seq(MoveOver(n))
      BY <1>14 DEF StateOver
    <3> QED
      BY <3>1
  <2>2. ToSet(ms) \subseteq M /\ ms \in Seq(ToSet(ms))
    BY <2>1, OwnSeq
  <2>3. ASSUME NEW m \in ToSet(ms)
        PROVE  m.idx \in CharIdx
    <3>1. ToSet(ms_map_array[s]) \subseteq DOMAIN nka_states
      <4>1. PICK N : N = NkaSet /\ ms_map_array \in Seq(N)
        BY <1>5
      <4>2. ms_map_array[s] \in N
        <5>1. s \in DOMAIN ms_map_array
          BY <1>5
        <5> QED
          BY <4>1, <5>1
      <4>3. ms_map_array[s] \in Seq(1 .. k)
        BY <1>2, <4>1, <4>2 DEF NkaSet
      <4> QED
        BY <1>4, <4>3, OwnSeq
    <3>2. \E r \in ToSet(ms_map_array[s]) : \E x \in ToSet(CharMoves(r)) : x.idx = m.idx
      <4>1. s \in DOMAIN ms_map_array
        BY <1>5
      <4>2. {x.idx : x \in ToSet(states[s].moves)} \subseteq
              {x.idx : x \in UNION {ToSet(CharMoves(r)) : r \in ToSet(ms_map_array[s])}}
        BY <1>1, <4>1 DEF MovesExact
      <4>3. m.idx \in {x.idx : x \in ToSet(states[s].moves)}
        BY <2>1, <2>3
      <4> QED
        BY <4>2, <4>3
    <3> QED
      BY <1>7, <3>1, <3>2
  <2>4. \A m \in ToSet(ms) : m.value \in 1 .. n /\ m \in [idx : CharIdx, value : Nat]
    <3>1. ASSUME NEW m \in ToSet(ms)
          PROVE  m.value \in 1 .. n /\ m \in [idx : CharIdx, value : Nat]
      <4>1. m \in [idx : MoveIdx, value : 1 .. n]
        BY <2>1, <2>2 DEF MoveOver
      <4>2. m.idx \in CharIdx
        BY <2>3
      <4> QED
        BY <4>1, <4>2
    <3> QED
      BY <3>1
  <2>5. PICK C : C = [idx : CharIdx, value : Nat]
    OBVIOUS
  <2>6. ms \in Seq(C)
    <3>1. ToSet(ms) \subseteq C
      BY <2>4, <2>5
    <3> QED
      BY <2>2, <3>1, SeqWider
  <2>7. states[s] \in [final : BOOLEAN, moves : Seq(M)]
    BY <1>14, <2>1 DEF StateOver
  <2>8. states[s] \in [final : BOOLEAN, moves : Seq(C)]
    BY <2>1, <2>6, <2>7
  <2> QED
    BY <1>3, <2>1, <2>4, <2>5, <2>8 DEF DkaState
<1>9. states \in Seq(DkaState)
  BY <1>2, <1>3, <1>8
<1> QED
  BY <1>3, <1>6, <1>8, <1>9 DEF Dkas

LEMMA RegExpStartsAgain == RegExpInit' => RegExpInv'
<1>1. RegExpInit => RegExpInv
  BY RegExpStarts
<1> QED
  BY <1>1, PTL

LEMMA InTerminals ==
  ASSUME LexerInv, fa_stage = "terminals"
  PROVE  fa_states = <<>> /\ fa_queue = <<>> /\ state_descrs = <<>>
<1>1. fa_states = <<>> /\ fa_queue = <<>>
  BY DEF LexerInv, ProductInv
<1>2. PICK D : state_descrs \in Seq(D) /\ Len(state_descrs) = 0
  BY <1>1 DEF LexerInv, ProductInv
<1> QED
  BY <1>1, <1>2

LEMMA NextTerminalStep ==
  ASSUME LexerInv, NextTerminal
  PROVE  LexerInv'
<1>1. /\ fa_stage = "terminals" /\ reg_stage = "done" /\ t_idx < Len(terminals)
      /\ states_array' = Append(states_array, states) /\ t_idx' = t_idx + 1
      /\ UNCHANGED <<fa_stage, terminals, fa_states, fa_queue, state_descrs, state_moves>>
  BY DEF NextTerminal, productVars
<1>2. PICK ts, n : ts = terminals /\ n = Len(ts)
  OBVIOUS
<1>3. /\ ts \in Seq(RegExps) /\ n \in Nat /\ t_idx \in 1 .. n /\ ts \in TerminalLists
  BY <1>2, FinalAutomataAssumption DEF LexerInv, ArraysInv
<1>4. t_idx + 1 \in 1 .. n /\ t_idx + 1 \in DOMAIN ts
  BY <1>1, <1>2, <1>3
<1>5. RegExpInit'
  <2>1. ts[t_idx + 1] \in RegExps
    BY <1>3, <1>4
  <2> QED
    BY <1>2, <2>1 DEF NextTerminal, RegExpInit, ParseInit, NkaInit
<1>7. RegExpInit' => RegExpInv'
  BY RegExpStartsAgain
<1>8. ArraysInv'
  <2>1. PICK D : D = Dkas
    OBVIOUS
  <2>2. states \in D /\ states_array \in Seq(D) /\ Len(states_array) = t_idx - 1
    BY <1>1, <2>1, DoneIsDka DEF LexerInv, ArraysInv
  <2>3. /\ Append(states_array, states) \in Seq(D)
        /\ Len(Append(states_array, states)) = (t_idx + 1) - 1
    BY <1>3, <2>2
  <2>4. Dkas' = D
    BY <2>1 DEF Dkas, DkaState
  <2> QED
    BY <1>1, <1>2, <1>3, <1>4, <2>3, <2>4 DEF ArraysInv
<1>9. fa_states = <<>> /\ fa_queue = <<>> /\ state_descrs = <<>>
  BY <1>1, InTerminals
<1>10. ProductInv'
  BY <1>1, <1>9 DEF ProductInv, MovesLinked, QueueRight, ToSet
<1>11. RowsInv'
  BY <1>1 DEF LexerInv, RowsInv
<1> QED
  BY <1>1, <1>5, <1>7, <1>8, <1>10, <1>11 DEF LexerInv

LEMMA StartProductStep ==
  ASSUME LexerInv, StartProduct
  PROVE  LexerInv'
<1>1. PICK q : q = [from |-> NotExist, char |-> EpsMove,
                    regs |-> [r \in 1 .. Len(terminals) |-> <<r, 1>>]]
  OBVIOUS
<1>2. /\ fa_stage = "terminals" /\ reg_stage = "done" /\ t_idx = Len(terminals)
      /\ states_array' = Append(states_array, states) /\ fa_queue' = <<q>>
      /\ fa_stage' = "product"
      /\ UNCHANGED <<regExpVars, terminals, t_idx, fa_states, state_descrs, state_moves>>
  BY <1>1 DEF StartProduct
<1>3. PICK n, D : n = t_idx /\ D = Dkas
  OBVIOUS
<1>4. PICK arr : arr = states_array'
  OBVIOUS
<1>5. n \in Nat /\ arr \in Seq(D) /\ Len(arr) = n /\ DOMAIN arr = 1 .. n
  <2>1. terminals \in Seq(RegExps) /\ t_idx \in DOMAIN terminals
    BY FinalAutomataAssumption DEF LexerInv, ArraysInv
  <2>2. n \in Nat \ {0}
    BY <1>3, <2>1
  <2>3. states \in D /\ states_array \in Seq(D) /\ Len(states_array) = n - 1
    BY <1>2, <1>3, DoneIsDka DEF LexerInv, ArraysInv
  <2> QED
    BY <1>2, <1>4, <2>2, <2>3
<1>6. RegExpInv'
  BY <1>2, RegExpKeeps DEF LexerInv
<1>7. ArraysInv'
  <2>1. Dkas' = D
    BY <1>3 DEF Dkas, DkaState
  <2> QED
    BY <1>2, <1>4, <1>5, <2>1 DEF LexerInv, ArraysInv
<1>8. fa_states = <<>> /\ state_descrs = <<>>
  BY <1>2, InTerminals
<1>9. q.regs \in Seq(Places') /\ q.from = NotExist
  <2>1. ASSUME NEW r \in 1 .. n
        PROVE  <<r, 1>> \in Places'
    <3>1. arr[r] \in D
      BY <1>5
    <3>2. arr[r] \in Seq(DkaState) /\ arr[r] # <<>>
      BY <1>3, <3>1 DEF Dkas
    <3>3. 1 \in DOMAIN arr[r]
      BY <3>2
    <3>4. r \in Nat /\ 1 \in Nat /\ r \in DOMAIN arr
      BY <1>5
    <3> QED
      BY <1>4, <3>3, <3>4 DEF Places
  <2>2. q.regs = [r \in 1 .. n |-> <<r, 1>>] /\ q.from = NotExist
    BY <1>1, <1>2, <1>3
  <2> QED
    BY <1>5, <2>1, <2>2
<1>10. ProductInv'
  <2>1. ToSet(fa_queue') = {q} /\ fa_queue' \in Seq({q})
    BY <1>2 DEF ToSet
  <2>2. QueueRight'
    BY <1>9, <2>1 DEF QueueRight
  <2> QED
    BY <1>2, <1>8, <2>1, <2>2 DEF ProductInv, MovesLinked, ToSet
<1>11. RowsInv'
  BY <1>2 DEF LexerInv, RowsInv
<1> QED
  BY <1>2, <1>6, <1>7, <1>10, <1>11 DEF LexerInv

(* MovesLinked and QueueRight as facts about the values of the variables. *)
IdxsOf(arr, P) == {m.idx : m \in UNION {ToSet(arr[p[1]][p[2]].moves) : p \in P}}

CharsOf(arr, regs) ==
  ElementsIn([i \in 1 .. c_no_char_base + c_base_char_cnt |-> i - 1],
             IdxsOf(arr, ToSet(regs)))

RegsOf(arr, regs, m) ==
  FlattenSeq([i \in DOMAIN regs |->
    LET moves == arr[regs[i][1]][regs[i][2]].moves
        followed == ElementsIn(moves, {mv \in ToSet(moves) : FollowsMove(mv.idx, m)})
    IN  [j \in DOMAIN followed |-> <<regs[i][1], followed[j].value>>]])

LinkedTo(arr, ds, q, s, m) ==
  IF m.value = NotExist
    THEN \E x \in ToSet(q) : x.from = s /\ x.char = m.idx
    ELSE m.value \in DOMAIN ds /\ ds[m.value] = RegsOf(arr, ds[s], m.idx)

StateLinked(arr, st, ds, q, s) ==
  LET moves == st[s].moves
      chars == CharsOf(arr, ds[s])
  IN  /\ "moves" \in DOMAIN st[s] /\ moves \in FaMoves
      /\ Len(moves) = Len(chars)
      /\ \A i \in 1 .. Len(moves) :
           moves[i].idx = chars[i] /\ LinkedTo(arr, ds, q, s, moves[i])

ElementRight(arr, st, ds, places, x) ==
  /\ x.regs \in Seq(places)
  /\ x.from # NotExist =>
       x.from \in DOMAIN st /\ x.regs = RegsOf(arr, ds[x.from], x.char)

LEMMA LinkedIs ==
  /\ MovesLinked <=> \A s \in DOMAIN fa_states :
                       StateLinked(states_array, fa_states, state_descrs, fa_queue, s)
  /\ MovesLinked' <=> \A s \in DOMAIN fa_states' :
                       StateLinked(states_array', fa_states', state_descrs', fa_queue', s)
  /\ QueueRight <=> \A x \in ToSet(fa_queue) :
                       ElementRight(states_array, fa_states, state_descrs, Places, x)
  /\ QueueRight' <=> \A x \in ToSet(fa_queue') :
                       ElementRight(states_array', fa_states', state_descrs', Places', x)
  /\ \A regs, m : TargetRegs(regs, m) = RegsOf(states_array, regs, m)
  /\ \A regs : MoveChars(regs) = CharsOf(states_array, regs)
<1>1. MovesLinked <=> \A s \in DOMAIN fa_states :
                        StateLinked(states_array, fa_states, state_descrs, fa_queue, s)
  BY DEF MovesLinked, MoveLinked, MoveChars, IdxsAt, TargetRegs, PosState,
         StateLinked, LinkedTo, CharsOf, IdxsOf, RegsOf
<1>2. MovesLinked' <=> \A s \in DOMAIN fa_states' :
                        StateLinked(states_array', fa_states', state_descrs', fa_queue', s)
  BY DEF MovesLinked, MoveLinked, MoveChars, IdxsAt, TargetRegs, PosState,
         StateLinked, LinkedTo, CharsOf, IdxsOf, RegsOf
<1>3. QueueRight <=> \A x \in ToSet(fa_queue) :
                        ElementRight(states_array, fa_states, state_descrs, Places, x)
  BY DEF QueueRight, TargetRegs, PosState, ElementRight, RegsOf
<1>4. QueueRight' <=> \A x \in ToSet(fa_queue') :
                        ElementRight(states_array', fa_states', state_descrs', Places', x)
  BY DEF QueueRight, TargetRegs, PosState, ElementRight, RegsOf
<1>5. \A regs, m : TargetRegs(regs, m) = RegsOf(states_array, regs, m)
  BY DEF TargetRegs, PosState, RegsOf
<1>6. \A regs : MoveChars(regs) = CharsOf(states_array, regs)
  BY DEF MoveChars, IdxsAt, PosState, CharsOf, IdxsOf
<1> QED
  BY <1>1, <1>2, <1>3, <1>4, <1>5, <1>6

(* Steps that leave the product alone. *)
LEMMA ProductStays ==
  ASSUME ProductInv, UNCHANGED <<states_array, fa_states, fa_queue, state_descrs>>,
         fa_stage' # "product" => fa_queue = <<>>,
         fa_stage' = "terminals" => fa_states = <<>>
  PROVE  ProductInv'
<1>1. Places' = Places
  BY DEF Places
<1>2. MovesLinked'
  BY LinkedIs DEF ProductInv
<1>3. QueueRight'
  BY <1>1, LinkedIs DEF ProductInv
<1> QED
  BY <1>1, <1>2, <1>3 DEF ProductInv

LEMMA ArraysStay ==
  ASSUME ArraysInv, UNCHANGED <<terminals, t_idx, states_array>>,
         fa_stage' = "terminals" => fa_stage = "terminals"
  PROVE  ArraysInv'
BY DEF ArraysInv, Dkas, DkaState

LEMMA RowsStay ==
  ASSUME RowsInv, UNCHANGED <<fa_states, state_moves>>,
         fa_stage' \notin {"rows", "ready"} => state_moves = <<>>
  PROVE  RowsInv'
BY DEF RowsInv

LEMMA QuietSteps ==
  ASSUME LexerInv, RegExpError \/ StartRows \/ RowsDone \/ Recognize
  PROVE  LexerInv'
<1>1. /\ UNCHANGED <<regExpVars, terminals, t_idx, states_array, fa_states, fa_queue,
                     state_descrs, state_moves>>
      /\ \/ fa_stage = "terminals" /\ fa_stage' = "failed"
         \/ fa_stage = "product" /\ fa_queue = <<>> /\ fa_stage' = "rows"
         \/ fa_stage = "rows" /\ fa_stage' = "ready"
         \/ fa_stage = "ready" /\ fa_stage' = "ready"
  <2>1. CASE RegExpError \/ StartRows \/ RowsDone
    BY <2>1 DEF RegExpError, StartRows, RowsDone, productVars
  <2>2. CASE Recognize
    BY <2>2 DEF Recognize, RecNext, StartText, StepText, ReturnFinal, automatonVars
  <2> QED
    BY <2>1, <2>2
<1>2. RegExpInv'
  BY <1>1, RegExpKeeps DEF LexerInv
<1>3. ArraysInv'
  BY <1>1, ArraysStay DEF LexerInv
<1>4. ProductInv'
  BY <1>1, ProductStays DEF LexerInv, ProductInv
<1>5. RowsInv'
  BY <1>1, RowsStay DEF LexerInv, RowsInv
<1> QED
  BY <1>1, <1>2, <1>3, <1>4, <1>5 DEF LexerInv

LEMMA FillRowStep ==
  ASSUME LexerInv, FillRow
  PROVE  LexerInv'
<1>1. /\ fa_stage = "rows" /\ Len(state_moves) < Len(fa_states)
      /\ state_moves' = Append(state_moves, Row(fa_states[Len(state_moves) + 1].moves))
      /\ UNCHANGED <<regExpVars, fa_stage, terminals, t_idx, states_array, fa_states,
                     fa_queue, state_descrs>>
  BY DEF FillRow, productVars
<1>2. RegExpInv' /\ ArraysInv' /\ ProductInv'
  BY <1>1, RegExpKeeps, ArraysStay, ProductStays DEF LexerInv, ProductInv
<1>3. PICK n : n = Len(state_moves) /\ n \in Nat
  BY DEF LexerInv, RowsInv
<1>4. PICK R : R = {Row(fa_states[s].moves) : s \in 1 .. n + 1}
  OBVIOUS
<1>5. state_moves = [s \in 1 .. n |-> Row(fa_states[s].moves)]
  BY <1>3 DEF LexerInv, RowsInv
<1>6. \A s \in 1 .. n + 1 : Row(fa_states[s].moves) \in R
  BY <1>4
<1>7. state_moves \in Seq(R)
  <2>1. \A s \in 1 .. n : s \in 1 .. n + 1
    BY <1>3
  <2> QED
    BY <1>3, <1>5, <1>6, <2>1
<1>8. PICK e, more : /\ e = Row(fa_states[n + 1].moves) /\ e \in R
                     /\ more = Append(state_moves, e)
  <2>1. n + 1 \in 1 .. n + 1
    BY <1>3
  <2>2. Row(fa_states[n + 1].moves) \in R
    BY <1>6, <2>1
  <2> QED
    BY <2>2
<1>9. /\ DOMAIN more = 1 .. n + 1 /\ more[n + 1] = e /\ more \in Seq(R) /\ Len(more) = n + 1
      /\ \A s \in 1 .. n : more[s] = state_moves[s]
  BY <1>3, <1>7, <1>8
<1>10. \A s \in 1 .. n + 1 : more[s] = Row(fa_states[s].moves)
  <2>1. \A s \in 1 .. n + 1 : s = n + 1 \/ s \in 1 .. n
    BY <1>3
  <2> QED
    BY <1>5, <1>8, <1>9, <2>1
<1>11. more = [s \in 1 .. n + 1 |-> Row(fa_states[s].moves)]
  BY <1>3, <1>9, <1>10
<1>12. RowsInv'
  <2>1. state_moves' = more
    BY <1>1, <1>3, <1>8
  <2>2. Len(more) <= Len(fa_states)
    <3>1. Len(fa_states) \in Nat
      BY DescrsAre DEF LexerInv
    <3> QED
      BY <1>1, <1>3, <1>9, <3>1
  <2> QED
    BY <1>1, <1>3, <1>9, <1>11, <2>1, <2>2 DEF RowsInv
<1> QED
  BY <1>1, <1>2, <1>12 DEF LexerInv

-----------------------------------------------------------------------------
(* An element of the queue is taken. *)

(* The first array of positions that is equal to regs. *)
LEMMA KnownIs ==
  ASSUME NEW D, state_descrs \in Seq(D), NEW regs, KnownState(regs) # 0
  PROVE  /\ KnownState(regs) \in DOMAIN state_descrs
         /\ state_descrs[KnownState(regs)] = regs
<1> DEFINE I == {i \in 1 .. Len(state_descrs) : state_descrs[i] = regs}
<1>1. CASE I = {}
  BY <1>1 DEF KnownState, SelectInSeq
<1>2. CASE I # {}
  <2>1. I \in SUBSET Nat /\ DOMAIN state_descrs = 1 .. Len(state_descrs)
    OBVIOUS
  <2>2. PICK x \in I : \A y \in I : x <= y
    BY <1>2, <2>1, LeastNat
  <2>3. Min(I) \in I
    <3> HIDE DEF I
    <3> QED
      BY <1>2, <2>1, <2>2 DEF Min
  <2>4. KnownState(regs) = Min(I)
    BY <1>2 DEF KnownState, SelectInSeq
  <2> QED
    BY <2>1, <2>3, <2>4
<1> QED
  BY <1>1, <1>2

(* The states after the moves of one of them got their target. *)
LinkMade(st, st2, h, target) ==
  /\ st2 \in Seq(ToSet(st2)) /\ Len(st2) = Len(st) /\ DOMAIN st2 = DOMAIN st
  /\ \A s \in DOMAIN st : s # h.from => st2[s] = st[s]
  /\ h.from # NotExist =>
       /\ "moves" \in DOMAIN st2[h.from]
       /\ st2[h.from].moves =
            [i \in DOMAIN st[h.from].moves |->
               IF st[h.from].moves[i].idx = h.char THEN Move(h.char, target)
                                                   ELSE st[h.from].moves[i]]

LEMMA LinkIs ==
  ASSUME NEW T, NEW st \in Seq(T), NEW h, NEW target,
         h.from # NotExist => h.from \in DOMAIN st /\ "moves" \in DOMAIN st[h.from]
  PROVE  LinkMade(st, LinkFrom(st, h, target), h, target)
<1>1. CASE h.from = NotExist
  <2>1. LinkFrom(st, h, target) = st
    BY <1>1 DEF LinkFrom
  <2>2. st \in Seq(ToSet(st))
    BY OwnSeq
  <2> QED
    BY <1>1, <2>1, <2>2 DEF LinkMade
<1>2. CASE h.from # NotExist
  <2>1. PICK f, e, ms : /\ f = h.from /\ e = st[f]
                        /\ ms = [i \in DOMAIN e.moves |->
                                   IF e.moves[i].idx = h.char THEN Move(h.char, target)
                                                              ELSE e.moves[i]]
    OBVIOUS
  <2>2. PICK e2 : e2 = [e EXCEPT !.moves = ms]
    OBVIOUS
  <2>3. e2.moves = ms /\ "moves" \in DOMAIN e2
    BY <1>2, <2>1, <2>2
  <2>4. LinkFrom(st, h, target) = [st EXCEPT ![f] = e2]
    BY <1>2, <2>1, <2>2 DEF LinkFrom
  <2>5. PICK st2, U : st2 = [st EXCEPT ![f] = e2] /\ U = T \union {e2}
    OBVIOUS
  <2>6. st \in Seq(U) /\ e2 \in U /\ f \in DOMAIN st
    BY <1>2, <2>1, <2>5, SeqWider
  <2>7. /\ st2 \in Seq(U) /\ Len(st2) = Len(st) /\ DOMAIN st2 = DOMAIN st
        /\ st2[f] = e2 /\ \A s \in DOMAIN st : s # f => st2[s] = st[s]
    BY <2>5, <2>6
  <2>8. st2 \in Seq(ToSet(st2))
    BY <2>7, OwnSeq
  <2> QED
    BY <1>2, <2>1, <2>3, <2>4, <2>5, <2>7, <2>8 DEF LinkMade
<1> QED
  BY <1>1, <1>2

(* A state stays linked when the element h is taken from the queue and the
   moves it waits for lead to a state of its positions. *)
LEMMA StaysLinked ==
  ASSUME NEW arr, NEW st, NEW st2, NEW ds, NEW ds2, NEW q, NEW q2, NEW h, NEW rest,
         NEW target \in Nat, NEW s \in DOMAIN st,
         StateLinked(arr, st, ds, q, s), LinkMade(st, st2, h, target), s \in DOMAIN ds,
         ToSet(q) = {h} \union rest, rest \subseteq ToSet(q2),
         \A v \in DOMAIN ds : v \in DOMAIN ds2 /\ ds2[v] = ds[v],
         target \in DOMAIN ds2, ds2[target] = h.regs,
         h.from = s => h.regs = RegsOf(arr, ds[s], h.char), s # NotExist
  PROVE  StateLinked(arr, st2, ds2, q2, s)
<1>1. PICK moves, chars : moves = st[s].moves /\ chars = CharsOf(arr, ds[s])
  OBVIOUS
<1>2. /\ "moves" \in DOMAIN st[s] /\ moves \in FaMoves /\ Len(moves) = Len(chars)
      /\ \A i \in 1 .. Len(moves) :
           moves[i].idx = chars[i] /\ LinkedTo(arr, ds, q, s, moves[i])
  BY <1>1 DEF StateLinked
<1>3. ds2[s] = ds[s]
  OBVIOUS
<1>4. ASSUME NEW m, LinkedTo(arr, ds, q, s, m), s = h.from => m.idx # h.char
      PROVE  LinkedTo(arr, ds2, q2, s, m)
  <2>1. CASE m.value = NotExist
    <3>1. PICK x \in ToSet(q) : x.from = s /\ x.char = m.idx
      BY <1>4, <2>1 DEF LinkedTo
    <3>2. x \in ToSet(q2)
      BY <1>4, <3>1
    <3> QED
      BY <2>1, <3>1, <3>2 DEF LinkedTo
  <2>2. CASE m.value # NotExist
    BY <1>3, <1>4, <2>2 DEF LinkedTo
  <2> QED
    BY <2>1, <2>2
<1>5. CASE s # h.from
  <2>1. st2[s] = st[s]
    BY <1>5 DEF LinkMade
  <2> QED
    BY <1>1, <1>2, <1>3, <1>4, <1>5, <2>1 DEF StateLinked
<1>6. CASE s = h.from
  <2>1. PICK new, m2 : new = st2[s].moves /\ m2 = Move(h.char, target)
    OBVIOUS
  <2>2. /\ "moves" \in DOMAIN st2[s]
        /\ new = [i \in DOMAIN moves |-> IF moves[i].idx = h.char THEN m2 ELSE moves[i]]
    BY <1>1, <1>6, <2>1 DEF LinkMade
  <2>7. PICK M : /\ M = [idx : CharIdx, value : {NotExist} \union Nat]
                 /\ FaMoves = Seq(M)
    BY DEF FaMoves
  <2>8. moves \in Seq(M)
    BY <1>2, <2>7
  <2>3. PICK n : n = Len(moves) /\ n \in Nat /\ DOMAIN moves = 1 .. n
    BY <2>8
  <2>4. m2.idx = h.char /\ m2.value = target
    BY <2>1 DEF Move
  <2>5. ASSUME NEW i \in 1 .. n
        PROVE  /\ new[i] \in M /\ new[i].idx = chars[i]
               /\ LinkedTo(arr, ds2, q2, s, new[i])
    <3>4. moves[i] \in M
      BY <2>3, <2>8
    <3>1. moves[i] \in M /\ moves[i].idx = chars[i] /\ LinkedTo(arr, ds, q, s, moves[i])
      BY <1>2, <2>3, <3>4
    <3>2. CASE moves[i].idx = h.char
      <4>1. new[i] = m2 /\ m2.idx = chars[i]
        BY <2>2, <2>3, <2>4, <3>1, <3>2
      <4>2. m2 \in M
        <5>1. h.char \in CharIdx
          BY <2>7, <3>1, <3>2
        <5> QED
          BY <2>1, <2>7, <5>1 DEF Move
      <4>3. LinkedTo(arr, ds2, q2, s, m2)
        <5>1. m2.value # NotExist
          BY <2>4 DEF NotExist
        <5>2. ds2[m2.value] = RegsOf(arr, ds2[s], m2.idx) /\ m2.value \in DOMAIN ds2
          BY <1>3, <1>6, <2>4
        <5> QED
          BY <5>1, <5>2 DEF LinkedTo
      <4> QED
        BY <4>1, <4>2, <4>3
    <3>3. CASE moves[i].idx # h.char
      <4>1. new[i] = moves[i]
        BY <2>2, <2>3, <3>3
      <4> QED
        BY <1>4, <3>1, <3>3, <4>1
    <3> QED
      BY <3>2, <3>3
  <2>9. DOMAIN new = 1 .. n
    BY <2>2, <2>3
  <2>6. new \in Seq(M) /\ Len(new) = n
    BY <2>2, <2>3, <2>5, <2>9
  <2>10. new \in FaMoves /\ Len(new) = Len(chars)
    BY <1>2, <2>3, <2>6, <2>7
  <2>11. \A i \in 1 .. Len(new) : new[i].idx = chars[i] /\ LinkedTo(arr, ds2, q2, s, new[i])
    BY <2>5, <2>6
  <2>12. chars = CharsOf(arr, ds2[s])
    BY <1>1, <1>3
  <2> QED
    BY <2>1, <2>2, <2>10, <2>11, <2>12 DEF StateLinked
<1> QED
  BY <1>5, <1>6

LEMMA ElementTaken ==
  ASSUME LexerInv, fa_queue # <<>>
  PROVE  /\ Tail(fa_queue) \in Seq(ToSet(fa_queue))
         /\ ToSet(fa_queue) = {Head(fa_queue)} \union ToSet(Tail(fa_queue))
         /\ ElementRight(states_array, fa_states, state_descrs, Places, Head(fa_queue))
         /\ \A s \in DOMAIN fa_states :
              StateLinked(states_array, fa_states, state_descrs, fa_queue, s)
         /\ \A x \in ToSet(Tail(fa_queue)) :
              ElementRight(states_array, fa_states, state_descrs, Places, x)
<1>1. PICK S : S = ToSet(fa_queue)
  OBVIOUS
<1>2. fa_queue \in Seq(S) /\ MovesLinked /\ QueueRight
  BY <1>1 DEF LexerInv, ProductInv
<1>3. /\ Head(fa_queue) \in S /\ Tail(fa_queue) \in Seq(S)
      /\ S = {Head(fa_queue)} \union ToSet(Tail(fa_queue))
  BY <1>1, <1>2, HeadAndTail
<1> QED
  BY <1>1, <1>2, <1>3, LinkedIs

LEMMA TakeKnownStateStep ==
  ASSUME LexerInv, TakeKnownState
  PROVE  LexerInv'
<1>1. PICK h, rest, k : /\ h = Head(fa_queue) /\ rest = Tail(fa_queue)
                        /\ k = KnownState(h.regs)
  OBVIOUS
<1>2. /\ fa_stage = "product" /\ fa_queue # <<>> /\ k # 0
      /\ fa_states' = LinkFrom(fa_states, h, k) /\ fa_queue' = rest
      /\ UNCHANGED <<regExpVars, fa_stage, terminals, t_idx, states_array, state_descrs,
                     state_moves>>
  BY <1>1 DEF TakeKnownState, InProduct
<1>3. RegExpInv' /\ ArraysInv'
  BY <1>2, RegExpKeeps, ArraysStay DEF LexerInv
<1>4. /\ rest \in Seq(ToSet(fa_queue)) /\ ToSet(fa_queue) = {h} \union ToSet(rest)
      /\ ElementRight(states_array, fa_states, state_descrs, Places, h)
      /\ \A s \in DOMAIN fa_states :
           StateLinked(states_array, fa_states, state_descrs, fa_queue, s)
      /\ \A x \in ToSet(rest) :
           ElementRight(states_array, fa_states, state_descrs, Places, x)
  BY <1>1, <1>2, ElementTaken
<1>5. /\ DOMAIN state_descrs = DOMAIN fa_states /\ DOMAIN fa_states = 1 .. Len(fa_states)
      /\ fa_states \in Seq(ToSet(fa_states)) /\ state_descrs \in Seq(Seq(Places))
      /\ Len(state_descrs) = Len(fa_states)
  BY DescrsAre DEF LexerInv, ProductInv
<1>6. k \in DOMAIN state_descrs /\ state_descrs[k] = h.regs /\ k \in Nat
  <2>1. k \in DOMAIN state_descrs /\ state_descrs[k] = h.regs
    BY <1>1, <1>2, <1>5, KnownIs
  <2> QED
    BY <1>5, <2>1
<1>7. LinkMade(fa_states, fa_states', h, k)
  <2>1. h.from # NotExist => h.from \in DOMAIN fa_states
    BY <1>4 DEF ElementRight
  <2>2. h.from # NotExist => "moves" \in DOMAIN fa_states[h.from]
    BY <1>4, <2>1 DEF StateLinked
  <2> QED
    BY <1>2, <1>5, <2>1, <2>2, LinkIs
<1>8. /\ fa_states' \in Seq(ToSet(fa_states')) /\ Len(fa_states') = Len(fa_states)
      /\ DOMAIN fa_states' = DOMAIN fa_states
  BY <1>7 DEF LinkMade
<1>9. ASSUME NEW s \in DOMAIN fa_states
      PROVE  StateLinked(states_array, fa_states', state_descrs, fa_queue', s)
  <2>1. h.from = s => h.regs = RegsOf(states_array, state_descrs[s], h.char)
    <3>1. s # NotExist
      BY <1>5 DEF NotExist
    <3> QED
      BY <1>4, <3>1 DEF ElementRight
  <2>2. s \in DOMAIN state_descrs /\ s # NotExist
    BY <1>5 DEF NotExist
  <2>3. PICK R : R = ToSet(rest) /\ R \subseteq ToSet(fa_queue')
    BY <1>2
  <2> QED
    BY <1>4, <1>6, <1>7, <2>1, <2>2, <2>3, StaysLinked
<1>10. Places' = Places
  BY <1>2 DEF Places
<1>11. \A x \in ToSet(fa_queue') :
         ElementRight(states_array', fa_states', state_descrs', Places', x)
  BY <1>2, <1>4, <1>8, <1>10 DEF ElementRight
<1>12. MovesLinked' /\ QueueRight'
  BY <1>2, <1>8, <1>9, <1>11, LinkedIs
<1>13. ProductInv'
  <2>1. fa_queue' \in Seq(ToSet(fa_queue'))
    BY <1>2, <1>4, OwnSeq
  <2> QED
    BY <1>2, <1>5, <1>8, <1>10, <1>12, <2>1 DEF ProductInv
<1>14. RowsInv'
  BY <1>2 DEF LexerInv, RowsInv
<1> QED
  BY <1>2, <1>3, <1>13, <1>14 DEF LexerInv

LEMMA TakeNewStateStep ==
  ASSUME LexerInv, TakeNewState
  PROVE  LexerInv'
<1>1. PICK h, rest, chars, new, state, more :
        /\ h = Head(fa_queue) /\ rest = Tail(fa_queue) /\ chars = MoveChars(h.regs)
        /\ new = Len(fa_states) + 1
        /\ state = [final |-> FinalOf(h.regs),
                    moves |-> [i \in DOMAIN chars |-> Move(chars[i], NotExist)]]
        /\ more = [i \in DOMAIN chars |-> [from |-> new, char |-> chars[i],
                                           regs |-> TargetRegs(h.regs, chars[i])]]
  OBVIOUS
<1>2. PICK st0, ds2 : st0 = Append(fa_states, state) /\ ds2 = Append(state_descrs, h.regs)
  OBVIOUS
<1>3. /\ fa_stage = "product" /\ fa_queue # <<>>
      /\ fa_states' = LinkFrom(st0, h, new) /\ fa_queue' = rest \o more
      /\ state_descrs' = ds2
      /\ UNCHANGED <<regExpVars, fa_stage, terminals, t_idx, states_array, state_moves>>
  BY <1>1, <1>2 DEF TakeNewState, InProduct
<1>4. RegExpInv' /\ ArraysInv'
  BY <1>3, RegExpKeeps, ArraysStay DEF LexerInv
<1>5. /\ rest \in Seq(ToSet(fa_queue)) /\ ToSet(fa_queue) = {h} \union ToSet(rest)
      /\ ElementRight(states_array, fa_states, state_descrs, Places, h)
      /\ \A s \in DOMAIN fa_states :
           StateLinked(states_array, fa_states, state_descrs, fa_queue, s)
      /\ \A x \in ToSet(rest) :
           ElementRight(states_array, fa_states, state_descrs, Places, x)
  BY <1>1, <1>3, ElementTaken
<1>6. PICK n : /\ n = Len(fa_states) /\ n \in Nat /\ new = n + 1
               /\ DOMAIN state_descrs = 1 .. n /\ DOMAIN fa_states = 1 .. n
               /\ Len(state_descrs) = n
  BY <1>1, DescrsAre DEF LexerInv, ProductInv
<1>7. PICK S, D : /\ S = ToSet(fa_states) \union {state} /\ D = Seq(Places)
                  /\ fa_states \in Seq(S) /\ state_descrs \in Seq(D)
                  /\ state \in S /\ h.regs \in D
  <2>1. h.regs \in Seq(Places) /\ state_descrs \in Seq(Seq(Places))
    BY <1>5 DEF ElementRight, LexerInv, ProductInv
  <2>2. fa_states \in Seq(ToSet(fa_states))
    BY DEF LexerInv, ProductInv
  <2>3. PICK A, S : A = ToSet(fa_states) /\ S = A \union {state}
    OBVIOUS
  <2>4. fa_states \in Seq(S) /\ state \in S
    <3>1. A \subseteq S /\ fa_states \in Seq(A)
      BY <2>2, <2>3
    <3> QED
      BY <2>3, <3>1, SeqWider
  <2> QED
    BY <2>1, <2>3, <2>4
<1>8. /\ st0 \in Seq(S) /\ Len(st0) = n + 1 /\ DOMAIN st0 = 1 .. n + 1
      /\ st0[new] = state /\ \A s \in 1 .. n : st0[s] = fa_states[s]
  BY <1>2, <1>6, <1>7
<1>9. /\ ds2 \in Seq(D) /\ Len(ds2) = n + 1 /\ DOMAIN ds2 = 1 .. n + 1
      /\ ds2[new] = h.regs /\ \A s \in 1 .. n : ds2[s] = state_descrs[s]
  BY <1>2, <1>6, <1>7
<1>10. h.from # NotExist => h.from \in 1 .. n
  BY <1>5, <1>6 DEF ElementRight
<1>11. new \in 1 .. n + 1 /\ new # NotExist /\ h.from # new /\ new \in Nat
  BY <1>6, <1>10 DEF NotExist
<1>12. LinkMade(st0, fa_states', h, new)
  <2>1. h.from # NotExist => h.from \in DOMAIN st0
    BY <1>6, <1>8, <1>10
  <2>2. h.from # NotExist => "moves" \in DOMAIN st0[h.from]
    BY <1>5, <1>6, <1>8, <1>10 DEF StateLinked
  <2> QED
    BY <1>3, <1>8, <2>1, <2>2, LinkIs
<1>13. /\ fa_states' \in Seq(ToSet(fa_states')) /\ Len(fa_states') = n + 1
       /\ DOMAIN fa_states' = 1 .. n + 1 /\ fa_states'[new] = state
  BY <1>8, <1>11, <1>12 DEF LinkMade
<1>14. PICK k : /\ k = Len(chars) /\ k \in Nat /\ DOMAIN chars = 1 .. k
                /\ \A i \in 1 .. k : chars[i] \in CharIdx
  <2>1. chars \in Seq(CharIdx)
    BY <1>1, <1>7, MoveCharsIs DEF LexerInv
  <2> QED
    BY <2>1
<1>15. PICK elements : elements = ToSet(more)
  OBVIOUS
<1>16. more \in Seq(elements) /\ \A i \in 1 .. k : more[i] \in elements
  <2>1. \A i \in 1 .. k : more[i] \in elements
    BY <1>1, <1>14, <1>15 DEF ToSet
  <2>2. \E f : more = [i \in 1 .. k |-> f[i]]
    BY <1>1, <1>14
  <2> QED
    BY ONLY <1>14, <2>1, <2>2
<1>17. PICK Q : /\ Q = ToSet(fa_queue') /\ Q = ToSet(rest) \union elements
                /\ fa_queue' \in Seq(Q)
  <2>1. PICK B : B = ToSet(fa_queue) \union elements
    OBVIOUS
  <2>2. rest \in Seq(B) /\ more \in Seq(B)
    BY <1>5, <1>16, <2>1, SeqWider
  <2>3. fa_queue' \in Seq(B) /\ ToSet(fa_queue') = ToSet(rest) \union elements
    BY <1>3, <1>15, <2>2, ConcatAt, ToSetConcat
  <2> QED
    BY <2>3, OwnSeq
<1>18. ASSUME NEW s \in 1 .. n
       PROVE  StateLinked(states_array, fa_states', ds2, fa_queue', s)
  <2>1. StateLinked(states_array, st0, state_descrs, fa_queue, s)
    BY <1>5, <1>6, <1>8 DEF StateLinked
  <2>2. h.from = s => h.regs = RegsOf(states_array, state_descrs[s], h.char)
    <3>1. s # NotExist
      BY <1>6 DEF NotExist
    <3> QED
      BY <1>5, <3>1 DEF ElementRight
  <2>3. s \in DOMAIN state_descrs /\ s # NotExist /\ s \in DOMAIN st0
    BY <1>6, <1>8 DEF NotExist
  <2>4. PICK R : R = ToSet(rest) /\ R \subseteq ToSet(fa_queue') /\ ToSet(fa_queue) = {h} \union R
    BY <1>5, <1>17
  <2>5. /\ \A v \in DOMAIN state_descrs : v \in DOMAIN ds2 /\ ds2[v] = state_descrs[v]
        /\ new \in DOMAIN ds2 /\ ds2[new] = h.regs
    BY <1>6, <1>9, <1>11
  <2> QED
    BY <1>11, <1>12, <2>1, <2>2, <2>3, <2>4, <2>5, StaysLinked
<1>19. StateLinked(states_array, fa_states', ds2, fa_queue', new)
  <2>1. PICK moves : moves = [i \in 1 .. k |-> Move(chars[i], NotExist)]
    OBVIOUS
  <2>2. fa_states'[new].moves = moves /\ "moves" \in DOMAIN fa_states'[new]
    BY <1>1, <1>13, <1>14, <2>1
  <2>3. chars = CharsOf(states_array, ds2[new])
    BY <1>1, <1>9, LinkedIs
  <2>4. ASSUME NEW i \in 1 .. k
        PROVE  /\ moves[i] \in [idx : CharIdx, value : {NotExist} \union Nat]
               /\ moves[i].idx = chars[i] /\ moves[i].value = NotExist
    BY <1>14, <2>1 DEF Move
  <2>5. moves \in FaMoves /\ Len(moves) = k
    <3>1. PICK M : M = [idx : CharIdx, value : {NotExist} \union Nat] /\ FaMoves = Seq(M)
      BY DEF FaMoves
    <3>2. \A i \in 1 .. k : moves[i] \in M
      BY <2>4, <3>1
    <3> QED
      BY <1>14, <2>1, <3>1, <3>2
  <2>6. ASSUME NEW i \in 1 .. k
        PROVE  LinkedTo(states_array, ds2, fa_queue', new, moves[i])
    <3>1. more[i] \in ToSet(fa_queue')
      BY <1>16, <1>17
    <3>2. more[i].from = new /\ more[i].char = chars[i]
      BY <1>1, <1>14
    <3> QED
      BY <2>4, <3>1, <3>2 DEF LinkedTo
  <2> QED
    BY <1>14, <2>2, <2>3, <2>4, <2>5, <2>6 DEF StateLinked
<1>20. Places' = Places
  BY <1>3 DEF Places
<1>21. ASSUME NEW x \in Q
       PROVE  ElementRight(states_array, fa_states', ds2, Places, x)
  <2>1. CASE x \in ToSet(rest)
    <3>1. ElementRight(states_array, fa_states, state_descrs, Places, x)
      BY <1>5, <2>1
    <3>2. CASE x.from = NotExist
      BY <3>1, <3>2 DEF ElementRight
    <3>3. CASE x.from # NotExist
      <4>1. x.from \in 1 .. n /\ x.from \in 1 .. n + 1
        BY <1>6, <3>1, <3>3 DEF ElementRight
      <4>2. ds2[x.from] = state_descrs[x.from]
        BY <1>9, <4>1
      <4> QED
        BY <1>13, <3>1, <3>3, <4>1, <4>2 DEF ElementRight
    <3> QED
      BY <3>2, <3>3
  <2>2. CASE x \in elements
    <3>1. PICK i \in 1 .. k : x = more[i]
      BY <1>1, <1>14, <1>15, <2>2 DEF ToSet
    <3>2. x.from = new /\ x.char = chars[i] /\ x.regs = TargetRegs(h.regs, chars[i])
      BY <1>1, <1>14, <3>1
    <3>3. x.regs \in Seq(Places)
      BY <1>7, <3>2, TargetRegsIs DEF LexerInv
    <3>4. x.regs = RegsOf(states_array, ds2[x.from], x.char)
      BY <1>9, <3>2, LinkedIs
    <3> QED
      BY <1>11, <1>13, <3>2, <3>3, <3>4 DEF ElementRight
  <2> QED
    BY <1>17, <2>1, <2>2
<1>22. MovesLinked'
  <2>1. \A s \in DOMAIN fa_states' : s \in 1 .. n \/ s = new
    BY <1>6, <1>13
  <2>2. \A s \in DOMAIN fa_states' :
          StateLinked(states_array', fa_states', state_descrs', fa_queue', s)
    BY <1>3, <1>18, <1>19, <2>1
  <2> QED
    BY <2>2, LinkedIs
<1>23. QueueRight'
  BY <1>3, <1>17, <1>20, <1>21, LinkedIs
<1>24. ProductInv'
  BY <1>3, <1>7, <1>9, <1>13, <1>17, <1>20, <1>22, <1>23 DEF ProductInv
<1>25. RowsInv'
  <2>1. state_moves = <<>> /\ state_moves' = <<>> /\ Len(state_moves) = 0
    BY <1>3 DEF LexerInv, RowsInv
  <2> QED
    BY <1>6, <1>13, <2>1 DEF RowsInv
<1> QED
  BY <1>3, <1>4, <1>24, <1>25 DEF LexerInv

-----------------------------------------------------------------------------
LEMMA LexerStarts == LexerInit => LexerInv
<1> SUFFICES ASSUME LexerInit
             PROVE  LexerInv
  OBVIOUS
<1>1. RegExpInv
  BY RegExpStarts DEF LexerInit
<1>2. /\ fa_stage = "terminals" /\ terminals \in TerminalLists /\ t_idx = 1
      /\ states_array = <<>> /\ fa_states = <<>> /\ fa_queue = <<>>
      /\ state_descrs = <<>> /\ state_moves = <<>>
  BY DEF LexerInit, FaInit
<1>3. ArraysInv
  <2>1. PICK n : n = Len(terminals) /\ n \in Nat \ {0} /\ DOMAIN terminals = 1 .. n
    <3>1. terminals \in Seq(RegExps) /\ terminals # <<>>
      BY <1>2, FinalAutomataAssumption
    <3> QED
      BY <3>1
  <2>2. 1 \in 1 .. n
    BY <2>1
  <2>3. states_array \in Seq(Dkas) /\ Len(states_array) = 0
    BY <1>2
  <2> QED
    BY <1>2, <2>1, <2>2, <2>3 DEF ArraysInv
<1>4. ProductInv
  BY <1>2 DEF ProductInv, MovesLinked, QueueRight, ToSet
<1>5. RowsInv
  BY <1>2 DEF RowsInv
<1> QED
  BY <1>1, <1>2, <1>3, <1>4, <1>5 DEF LexerInv

LEMMA LexerKeeps ==
  ASSUME LexerInv, [LexerNext]_lexerVars
  PROVE  LexerInv'
<1>1. ASSUME \/ RegExpNext /\ UNCHANGED faVars
             \/ UNCHANGED lexerVars
      PROVE  LexerInv'
  <2>1. UNCHANGED faVars
    BY <1>1 DEF lexerVars
  <2>2. UNCHANGED <<fa_stage, terminals, t_idx, states_array, fa_states, fa_queue,
                    state_descrs, state_moves>>
    BY <2>1 DEF faVars, productVars
  <2>3. RegExpInv'
    BY <1>1, RegExpKeeps DEF LexerInv, lexerVars
  <2>4. ArraysInv' /\ RowsInv'
    BY <2>2, ArraysStay, RowsStay DEF LexerInv, RowsInv
  <2>5. ProductInv'
    BY <2>2, ProductStays DEF LexerInv, ProductInv
  <2> QED
    BY <2>2, <2>3, <2>4, <2>5 DEF LexerInv
<1>2. ASSUME FaNext
      PROVE  LexerInv'
  BY <1>2, NextTerminalStep, StartProductStep, TakeKnownStateStep, TakeNewStateStep,
     FillRowStep, QuietSteps DEF FaNext
<1> QED
  BY <1>1, <1>2 DEF LexerNext

(* create_final_automata_new (parser_code.cc:3744-3784) hands the automaton
   of every expression to final_automata_s::create_new (331-756), whose
   states always stand for the positions that their moves lead to. *)
THEOREM LexerInvariant == LexerSpec => []LexerInv
<1>1. LexerInv /\ [LexerNext]_lexerVars => LexerInv'
  BY LexerKeeps
<1> QED
  BY <1>1, LexerStarts, PTL DEF LexerSpec

(* The rows that create_new (637-752) writes lead, for every character, to
   the state of just the positions reached with it, for all expressions and
   all disjoint sets of characters that w, d and l stand for. *)
THEOREM RowsStayExact == LexerSpec => []RowsExact
<1>1. LexerInv => RowsExact
  BY RowsAreExact
<1> QED
  BY <1>1, LexerInvariant, PTL

-----------------------------------------------------------------------------
(* The terminal of an array of positions. *)

FinalStep(arr, final, p) ==
  IF arr[p[1]][p[2]].final /\ (final = NotExist \/ arr[p[1]][p[2]].moves = <<>>)
    THEN p[1] ELSE final

FoldsFinal(it, s, arr, regs) ==
  it[s] = IF s = {} THEN NotExist
          ELSE FinalStep(arr, it[s \ {Max(s)}], regs[Max(s)])

FinalFold(it, arr, regs, n) ==
  it = [s \in SUBSET (1 .. n) |->
          IF s = {} THEN NotExist
          ELSE FinalStep(arr, it[s \ {Max(s)}], regs[Max(s)])]

LEMMA GreatestIs ==
  ASSUME NEW n \in Nat, NEW s \in SUBSET (1 .. n + 1)
  PROVE  /\ n + 1 \in s => Max(s) = n + 1
         /\ s # {} => Max(s) \in s
<1>1. ASSUME n + 1 \in s
      PROVE  Max(s) = n + 1
  <2>1. \A y \in s : n + 1 >= y
    OBVIOUS
  <2>2. \A x \in s : (\A y \in s : x >= y) => x = n + 1
    BY <1>1
  <2> QED
    BY <1>1, <2>1, <2>2 DEF Max
<1>2. ASSUME s # {}
      PROVE  Max(s) \in s
  <2> DEFINE T == {n + 1 - y : y \in s}
  <2>1. T \subseteq Nat /\ T # {}
    <3>1. \A y \in s : n + 1 - y \in Nat
      OBVIOUS
    <3> QED
      BY <1>2, <3>1
  <2>2. PICK z \in T : \A y \in T : z <= y
    BY <2>1, LeastNat
  <2>3. PICK x \in s : z = n + 1 - x
    OBVIOUS
  <2>4. \A y \in s : n + 1 - x <= n + 1 - y
    BY <2>2, <2>3
  <2> HIDE DEF T
  <2>5. \A y \in s : x >= y
    BY <2>4
  <2> QED
    BY <2>5 DEF Max
<1> QED
  BY <1>1, <1>2

LEMMA FinalFoldExists ==
  ASSUME NEW arr, NEW regs, NEW n \in Nat
  PROVE  \E it : FinalFold(it, arr, regs, n)
<1> DEFINE S == {k \in Nat : \E it : FinalFold(it, arr, regs, k)}
<1>1. 0 \in S
  <2> DEFINE it == [s \in SUBSET (1 .. 0) |-> NotExist]
  <2>1. \A s \in SUBSET (1 .. 0) : s = {}
    OBVIOUS
  <2>2. FinalFold(it, arr, regs, 0)
    BY <2>1 DEF FinalFold
  <2> QED
    BY <2>2
<1>2. ASSUME NEW k \in Nat, k \in S
      PROVE  k + 1 \in S
  <2>1. PICK it : FinalFold(it, arr, regs, k)
    BY <1>2
  <2> DEFINE Old == SUBSET (1 .. k)
             New == SUBSET (1 .. k + 1)
             Step(g, s) == FinalStep(arr, g[s \ {Max(s)}], regs[Max(s)])
             more == [s \in New |->
                        IF s \in Old THEN it[s]
                        ELSE FinalStep(arr, it[s \ {k + 1}], regs[k + 1])]
  <2>2. \A s \in Old : it[s] = IF s = {} THEN NotExist ELSE Step(it, s)
    BY <2>1 DEF FinalFold
  <2>3. ASSUME NEW s \in New
        PROVE  more[s] = IF s = {} THEN NotExist ELSE Step(more, s)
    <3>1. CASE s \in Old
      <4>1. s \ {Max(s)} \in Old /\ s \ {Max(s)} \in New
        BY <3>1
      <4>2. more[s] = it[s] /\ more[s \ {Max(s)}] = it[s \ {Max(s)}]
        BY <3>1, <4>1
      <4> HIDE DEF more
      <4> QED
        BY <2>2, <3>1, <4>2
    <3>2. CASE s \notin Old
      <4>1. k + 1 \in s /\ s # {}
        BY <3>2
      <4>2. Max(s) = k + 1
        BY <4>1, GreatestIs
      <4>3. s \ {k + 1} \in Old /\ s \ {k + 1} \in New
        OBVIOUS
      <4>4. more[s] = FinalStep(arr, it[s \ {k + 1}], regs[k + 1])
        BY <3>2
      <4>5. more[s \ {k + 1}] = it[s \ {k + 1}]
        BY <4>3
      <4> HIDE DEF more
      <4> QED
        BY <4>1, <4>2, <4>4, <4>5
    <3> QED
      BY <3>1, <3>2
  <2>4. more = [s \in New |-> IF s = {} THEN NotExist ELSE Step(more, s)]
    <3>1. more = [s \in New |-> more[s]]
      OBVIOUS
    <3> HIDE DEF more, Step, New
    <3>2. [s \in New |-> more[s]] =
            [s \in New |-> IF s = {} THEN NotExist ELSE Step(more, s)]
      BY <2>3
    <3> QED
      BY <3>1, <3>2
  <2> HIDE DEF more
  <2>5. FinalFold(more, arr, regs, k + 1)
    BY <2>4 DEF FinalFold
  <2> QED
    BY <2>5
<1> HIDE DEF S
<1>3. n \in S
  BY <1>1, <1>2, SetInduction
<1> QED
  BY <1>3 DEF S

(* FinalOf as a fact about the value of states_array. *)
FinalFrom(arr, regs) ==
  LET it == CHOOSE it : FinalFold(it, arr, regs, Len(regs))
  IN  it[DOMAIN regs]

LEMMA FinalOfIs ==
  /\ \A regs : DOMAIN regs = 1 .. Len(regs) =>
       FinalOf(regs) = FinalFrom(states_array, regs)
<1> SUFFICES ASSUME NEW regs, DOMAIN regs = 1 .. Len(regs)
             PROVE  FinalOf(regs) = FinalFrom(states_array, regs)
  OBVIOUS
<1> QED
  BY DEF FinalOf, FoldLeft, MapThenFoldSet, FinalFrom, FinalFold, FinalStep, PosState


(* w holds what wins among the first positions of an array. *)
WinnersAre(w, arr, regs, n) ==
  /\ w[0] = NotExist
  /\ \A k \in 1 .. n : w[k] = FinalStep(arr, w[k - 1], regs[k])
  /\ FinalFrom(arr, regs) = w[n]

LEMMA FoldedAre ==
  ASSUME NEW arr, NEW regs, NEW n \in Nat, DOMAIN regs = 1 .. n, Len(regs) = n
  PROVE  \E w : WinnersAre(w, arr, regs, n)
<1>1. PICK it : /\ FinalFold(it, arr, regs, n)
                /\ it = CHOOSE g : FinalFold(g, arr, regs, Len(regs))
  BY FinalFoldExists
<1>2. PICK w : w = [k \in 0 .. n |-> it[1 .. k]]
  OBVIOUS
<1>3. \A s \in SUBSET (1 .. n) :
        it[s] = IF s = {} THEN NotExist
                ELSE FinalStep(arr, it[s \ {Max(s)}], regs[Max(s)])
  BY <1>1 DEF FinalFold
<1>4. w[0] = NotExist
  <2>1. 1 .. 0 = {} /\ 0 \in 0 .. n
    OBVIOUS
  <2> QED
    BY <1>2, <1>3, <2>1
<1>5. ASSUME NEW k \in 1 .. n
      PROVE  w[k] = FinalStep(arr, w[k - 1], regs[k])
  <2>1. PICK s, j : s = 1 .. k /\ j = k - 1
    OBVIOUS
  <2>2. /\ j \in Nat /\ k = j + 1 /\ j \in 0 .. n /\ k \in 0 .. n
        /\ s \in SUBSET (1 .. j + 1) /\ s \in SUBSET (1 .. n) /\ k \in s
    BY <2>1
  <2>3. Max(s) = k
    BY <2>2, GreatestIs
  <2>4. s \ {k} = 1 .. j
    BY <2>1, <2>2
  <2>5. it[s] = FinalStep(arr, it[1 .. j], regs[k])
    BY <1>3, <2>2, <2>3, <2>4
  <2> QED
    BY <1>2, <2>1, <2>2, <2>5
<1>6. FinalFrom(arr, regs) = w[n]
  BY <1>1, <1>2 DEF FinalFrom
<1> QED
  BY <1>4, <1>5, <1>6 DEF WinnersAre

EndsAt(arr, p) == arr[p[1]][p[2]].final
StuckAt(arr, p) == EndsAt(arr, p) /\ arr[p[1]][p[2]].moves = <<>>

(* f is the terminal that wins among the first k positions. *)
WinsAmong(arr, regs, k, f) ==
  \/ f = NotExist /\ \A i \in 1 .. k : ~EndsAt(arr, regs[i])
  \/ \E i \in 1 .. k :
       /\ f = regs[i][1] /\ StuckAt(arr, regs[i])
       /\ \A j \in 1 .. k : StuckAt(arr, regs[j]) => j <= i
  \/ \E i \in 1 .. k :
       /\ f = regs[i][1] /\ EndsAt(arr, regs[i])
       /\ \A j \in 1 .. k : ~StuckAt(arr, regs[j]) /\ (EndsAt(arr, regs[j]) => i <= j)

LEMMA OneMoreWins ==
  ASSUME NEW arr, NEW regs, NEW k \in Nat, NEW f, WinsAmong(arr, regs, k, f),
         \A i \in 1 .. k : regs[i][1] # NotExist
  PROVE  WinsAmong(arr, regs, k + 1, FinalStep(arr, f, regs[k + 1]))
<1>1. PICK p, g : p = regs[k + 1] /\ g = FinalStep(arr, f, p)
  OBVIOUS
<1>2. g = IF EndsAt(arr, p) /\ (f = NotExist \/ StuckAt(arr, p)) THEN p[1] ELSE f
  BY <1>1 DEF FinalStep, EndsAt, StuckAt
<1>3. \A j \in 1 .. k + 1 : j \in 1 .. k \/ j = k + 1
  OBVIOUS
<1>4. k + 1 \in 1 .. k + 1 /\ \A j \in 1 .. k : j \in 1 .. k + 1 /\ j <= k + 1
  OBVIOUS
<1>5. StuckAt(arr, p) => EndsAt(arr, p)
  BY DEF StuckAt
<1>6. \A j \in 1 .. k : StuckAt(arr, regs[j]) => EndsAt(arr, regs[j])
  BY DEF StuckAt
<1>7. k + 1 <= k + 1
  OBVIOUS
<1>8. CASE StuckAt(arr, p)
  <2>1. g = p[1]
    BY <1>2, <1>5, <1>8
  <2>2. \A j \in 1 .. k + 1 : j <= k + 1
    OBVIOUS
  <2> QED
    BY <1>1, <1>4, <1>8, <2>1, <2>2 DEF WinsAmong
<1>9. CASE ~StuckAt(arr, p)
  <2>1. CASE f = NotExist /\ \A i \in 1 .. k : ~EndsAt(arr, regs[i])
    <3>1. CASE EndsAt(arr, p)
      <4>1. g = p[1]
        BY <1>2, <2>1, <3>1
      <4>2. \A j \in 1 .. k + 1 :
              ~StuckAt(arr, regs[j]) /\ (EndsAt(arr, regs[j]) => k + 1 <= j)
        BY <1>1, <1>3, <1>6, <1>7, <1>9, <2>1
      <4> QED
        BY <1>1, <1>4, <3>1, <4>1, <4>2 DEF WinsAmong
    <3>2. CASE ~EndsAt(arr, p)
      <4>1. g = NotExist
        BY <1>2, <2>1, <3>2
      <4>2. \A j \in 1 .. k + 1 : ~EndsAt(arr, regs[j])
        BY <1>1, <1>3, <2>1, <3>2
      <4> QED
        BY <1>1, <4>1, <4>2 DEF WinsAmong
    <3> QED
      BY <3>1, <3>2
  <2>2. ASSUME NEW i \in 1 .. k, f = regs[i][1], StuckAt(arr, regs[i]),
               \A j \in 1 .. k : StuckAt(arr, regs[j]) => j <= i
        PROVE  WinsAmong(arr, regs, k + 1, g)
    <3>1. g = f
      BY <1>2, <1>9, <2>2
    <3>2. \A j \in 1 .. k + 1 : StuckAt(arr, regs[j]) => j <= i
      BY <1>1, <1>3, <1>9, <2>2
    <3> QED
      BY <1>4, <2>2, <3>1, <3>2 DEF WinsAmong
  <2>3. ASSUME NEW i \in 1 .. k, f = regs[i][1], EndsAt(arr, regs[i]),
               \A j \in 1 .. k :
                 ~StuckAt(arr, regs[j]) /\ (EndsAt(arr, regs[j]) => i <= j)
        PROVE  WinsAmong(arr, regs, k + 1, g)
    <3>1. g = f
      BY <1>2, <1>9, <2>3
    <3>2. i <= k + 1
      OBVIOUS
    <3>3. \A j \in 1 .. k + 1 :
            ~StuckAt(arr, regs[j]) /\ (EndsAt(arr, regs[j]) => i <= j)
      BY <1>1, <1>3, <1>9, <2>3, <3>2
    <3> QED
      BY <1>4, <2>3, <3>1, <3>3 DEF WinsAmong
  <2> QED
    BY <1>1, <2>1, <2>2, <2>3 DEF WinsAmong
<1> QED
  BY <1>1, <1>8, <1>9

LEMMA FinalWins ==
  ASSUME NEW arr, NEW n \in Nat, NEW regs, DOMAIN regs = 1 .. n, Len(regs) = n,
         \A i \in 1 .. n : regs[i][1] # NotExist
  PROVE  WinsAmong(arr, regs, n, FinalFrom(arr, regs))
<1>5. PICK w : WinnersAre(w, arr, regs, n)
  BY FoldedAre
<1>1. /\ w[0] = NotExist
      /\ \A k \in 1 .. n : w[k] = FinalStep(arr, w[k - 1], regs[k])
      /\ FinalFrom(arr, regs) = w[n]
  BY <1>5 DEF WinnersAre
<1> DEFINE P == {k \in Nat : k <= n => WinsAmong(arr, regs, k, w[k])}
<1>2. 0 \in P
  <2>1. \A i \in 1 .. 0 : ~EndsAt(arr, regs[i])
    OBVIOUS
  <2> QED
    BY <1>1, <2>1 DEF WinsAmong
<1>3. ASSUME NEW k \in Nat, k \in P
      PROVE  k + 1 \in P
  <2> SUFFICES ASSUME k + 1 <= n
               PROVE  WinsAmong(arr, regs, k + 1, w[k + 1])
    OBVIOUS
  <2>1. WinsAmong(arr, regs, k, w[k])
    BY <1>3
  <2>2. w[k + 1] = FinalStep(arr, w[k], regs[k + 1])
    <3>1. k + 1 \in 1 .. n /\ (k + 1) - 1 = k
      OBVIOUS
    <3> QED
      BY <1>1, <3>1
  <2>3. \A i \in 1 .. k : regs[i][1] # NotExist
    OBVIOUS
  <2> QED
    BY <2>1, <2>2, <2>3, OneMoreWins
<1> HIDE DEF P
<1>4. n \in P
  BY <1>2, <1>3, SetInduction
<1> QED
  BY <1>1, <1>4 DEF P

LEMMA GreatestNat ==
  ASSUME NEW T \in SUBSET Nat, NEW x \in T, \A y \in T : y <= x
  PROVE  Max(T) = x
<1>1. \A z \in T : (\A y \in T : z >= y) => z = x
  OBVIOUS
<1>2. \A y \in T : x >= y
  OBVIOUS
<1> QED
  BY <1>1, <1>2 DEF Max

LEMMA LeastIsMin ==
  ASSUME NEW T \in SUBSET Nat, NEW x \in T, \A y \in T : x <= y
  PROVE  Min(T) = x
<1>1. \A z \in T : (\A y \in T : z <= y) => z = x
  OBVIOUS
<1> QED
  BY <1>1 DEF Min

(* Positions stand in the order of their terminals. *)
Ordered(regs) == \A i, j \in DOMAIN regs : i < j => regs[i][1] <= regs[j][1]

LEMMA WinnerIs ==
  ASSUME NEW regs \in Seq(Places), Ordered(regs)
  PROVE  FinalOf(regs) = WinnerAt(ToSet(regs))
<1>1. PICK n, f, arr : /\ n = Len(regs) /\ f = FinalOf(regs) /\ arr = states_array
                       /\ n \in Nat /\ DOMAIN regs = 1 .. n
  OBVIOUS
<1>2. \A i \in 1 .. n : regs[i] \in Places /\ regs[i][1] \in Nat /\ regs[i][1] # NotExist
  BY <1>1 DEF Places, NotExist
<1>3. WinsAmong(arr, regs, n, f)
  <2>1. f = FinalFrom(arr, regs)
    BY <1>1, FinalOfIs
  <2> QED
    BY <1>1, <1>2, <2>1, FinalWins
<1>4. \A i, j \in 1 .. n : i <= j => regs[i][1] <= regs[j][1]
  BY <1>1, <1>2 DEF Ordered
<1>5. PICK P, ends, stuck : /\ P = ToSet(regs)
                            /\ ends = {p \in P : PosState(p).final}
                            /\ stuck = {p \in ends : PosState(p).moves = <<>>}
  OBVIOUS
<1>6. WinnerAt(P) = IF ends = {} THEN NotExist
                    ELSE IF stuck # {} THEN Max({p[1] : p \in stuck})
                    ELSE Min({p[1] : p \in ends})
  BY <1>5 DEF WinnerAt
<1>7. /\ \A p : p \in ends <=> \E i \in 1 .. n : p = regs[i] /\ EndsAt(arr, regs[i])
      /\ \A p : p \in stuck <=> \E i \in 1 .. n : p = regs[i] /\ StuckAt(arr, regs[i])
  BY <1>1, <1>5 DEF ToSet, EndsAt, StuckAt, PosState
<1>8. CASE f = NotExist /\ \A i \in 1 .. n : ~EndsAt(arr, regs[i])
  <2>1. ends = {}
    BY <1>7, <1>8
  <2> QED
    BY <1>1, <1>5, <1>6, <1>8, <2>1
<1>9. ASSUME NEW i \in 1 .. n, f = regs[i][1], StuckAt(arr, regs[i]),
             \A j \in 1 .. n : StuckAt(arr, regs[j]) => j <= i
      PROVE  f = WinnerAt(P)
  <2>1. PICK T : T = {p[1] : p \in stuck}
    OBVIOUS
  <2>2. regs[i] \in stuck /\ regs[i] \in ends
    BY <1>7, <1>9 DEF StuckAt
  <2>3. f \in T
    BY <1>9, <2>1, <2>2
  <2>4. ASSUME NEW y \in T
        PROVE  y \in Nat /\ y <= f
    <3>1. PICK j \in 1 .. n : y = regs[j][1] /\ StuckAt(arr, regs[j])
      BY <1>7, <2>1, <2>4
    <3>2. j <= i
      BY <1>9, <3>1
    <3> QED
      BY <1>2, <1>4, <1>9, <3>1, <3>2
  <2>5. Max(T) = f
    BY <2>3, <2>4, GreatestNat
  <2> QED
    BY <1>6, <2>1, <2>2, <2>5
<1>10. ASSUME NEW i \in 1 .. n, f = regs[i][1], EndsAt(arr, regs[i]),
              \A j \in 1 .. n :
                ~StuckAt(arr, regs[j]) /\ (EndsAt(arr, regs[j]) => i <= j)
       PROVE  f = WinnerAt(P)
  <2>1. PICK T : T = {p[1] : p \in ends}
    OBVIOUS
  <2>2. regs[i] \in ends /\ stuck = {}
    BY <1>7, <1>10
  <2>3. f \in T
    BY <1>10, <2>1, <2>2
  <2>4. ASSUME NEW y \in T
        PROVE  y \in Nat /\ f <= y
    <3>1. PICK j \in 1 .. n : y = regs[j][1] /\ EndsAt(arr, regs[j])
      BY <1>7, <2>1, <2>4
    <3>2. i <= j
      BY <1>10, <3>1
    <3> QED
      BY <1>2, <1>4, <1>10, <3>1, <3>2
  <2>5. Min(T) = f
    BY <2>3, <2>4, LeastIsMin
  <2> QED
    BY <1>6, <2>1, <2>2, <2>5
<1> QED
  BY <1>1, <1>3, <1>5, <1>8, <1>9, <1>10 DEF WinsAmong

LEMMA ConcatOrdered ==
  ASSUME NEW S, NEW s \in Seq(S), NEW t \in Seq(S), Ordered(s), Ordered(t),
         NEW k, \A p \in ToSet(s) : p[1] <= k, \A p \in ToSet(t) : k <= p[1],
         k \in Int, \A p \in S : p[1] \in Int
  PROVE  Ordered(s \o t)
<1>1. PICK n, m, st : n = Len(s) /\ m = Len(t) /\ st = s \o t
  OBVIOUS
<1>2. /\ n \in Nat /\ m \in Nat /\ Len(st) = n + m /\ st \in Seq(S)
      /\ \A i \in 1 .. n : st[i] = s[i]
      /\ \A i \in 1 .. m : st[n + i] = t[i]
  BY <1>1, ConcatAt
<1>3. DOMAIN s = 1 .. n /\ DOMAIN t = 1 .. m /\ DOMAIN st = 1 .. n + m
  BY <1>1, <1>2
<1>4. \A i \in 1 .. n : st[i][1] <= k /\ st[i][1] \in Int
  <2>1. \A i \in 1 .. n : s[i] \in ToSet(s)
    BY <1>3 DEF ToSet
  <2>2. \A i \in 1 .. n : s[i] \in S
    BY <1>3, ElementAt
  <2> QED
    BY <1>2, <2>1, <2>2
<1>5. \A i \in 1 .. m : k <= st[n + i][1] /\ st[n + i][1] \in Int
  <2>1. \A i \in 1 .. m : t[i] \in ToSet(t)
    BY <1>3 DEF ToSet
  <2>2. \A i \in 1 .. m : t[i] \in S
    BY <1>3, ElementAt
  <2> QED
    BY <1>2, <2>1, <2>2
<1>6. ASSUME NEW i \in 1 .. n + m, NEW j \in 1 .. n + m, i < j
      PROVE  st[i][1] <= st[j][1]
  <2>1. CASE j <= n
    <3>1. i \in 1 .. n /\ j \in 1 .. n
      BY <1>2, <1>6, <2>1
    <3> QED
      BY <1>2, <1>3, <1>6, <3>1 DEF Ordered
  <2>2. CASE ~(j <= n)
    <3>1. PICK v : v = j - n /\ v \in 1 .. m /\ n + v = j
      BY <1>2, <2>2
    <3>2. CASE i <= n
      <4>1. i \in 1 .. n
        BY <1>2, <3>2
      <4>2. st[i][1] <= k /\ k <= st[j][1] /\ st[i][1] \in Int /\ st[j][1] \in Int
        BY <1>4, <1>5, <3>1, <4>1
      <4> QED
        BY <4>2
    <3>3. CASE ~(i <= n)
      <4>1. PICK u : u = i - n /\ u \in 1 .. m /\ n + u = i /\ u < v
        BY <1>2, <1>6, <3>1, <3>3
      <4>2. t[u][1] <= t[v][1]
        BY <1>3, <3>1, <4>1 DEF Ordered
      <4> QED
        BY <1>2, <3>1, <4>1, <4>2
    <3> QED
      BY <3>2, <3>3
  <2> QED
    BY <2>1, <2>2
<1> QED
  BY <1>1, <1>3, <1>6 DEF Ordered

(* Arrays one behind the other, each of one terminal. *)
LEMMA FlattenOrdered ==
  ASSUME NEW S, \A p \in S : p[1] \in Int, NEW N \in Nat, NEW key,
         \A i \in 1 .. N : key[i] \in Int,
         \A i, j \in 1 .. N : i < j => key[i] <= key[j],
         NEW seqs \in Seq(Seq(S)), Len(seqs) = N,
         \A i \in 1 .. N : \A p \in ToSet(seqs[i]) : p[1] = key[i]
  PROVE  Ordered(FlattenSeq(seqs))
<1> DEFINE R == Seq(S)
           Keyed(q) == \A i \in 1 .. Len(q) : \A p \in ToSet(q[i]) : p[1] = key[i]
           Good(q) == /\ Ordered(FlattenSeq(q))
                      /\ \A p \in ToSet(FlattenSeq(q)) :
                           \E i \in 1 .. Len(q) : p[1] = key[i]
           P == {n \in Nat : n <= N =>
                   \A q \in Seq(R) : Len(q) = n /\ Keyed(q) => Good(q)}
<1>1. 0 \in P
  <2>1. ASSUME NEW q \in Seq(R), Len(q) = 0
        PROVE  Good(q)
    <3>1. q = <<>>
      BY <2>1
    <3>2. FlattenSeq(q) = <<>>
      BY <3>1, FlattenEmpty
    <3>3. Ordered(<<>>) /\ ToSet(<<>>) = {}
      BY DEF Ordered, ToSet
    <3> QED
      BY <3>2, <3>3
  <2> HIDE DEF Good, Keyed
  <2> QED
    BY <2>1
<1>2. ASSUME NEW n \in Nat, n \in P
      PROVE  n + 1 \in P
  <2>1. ASSUME n + 1 <= N, NEW q \in Seq(R), Len(q) = n + 1, Keyed(q)
        PROVE  Good(q)
    <3>0. q # <<>>
      BY <2>1
    <3>1. PICK u, e : /\ u = Front(q) /\ e = Last(q)
                      /\ u \in Seq(R) /\ e \in R /\ Len(u) = n /\ q = Append(u, e)
      <4>1. /\ Front(q) \in Seq(R) /\ Last(q) \in R /\ Len(Front(q)) = Len(q) - 1
            /\ q = Append(Front(q), Last(q))
        BY <3>0, FrontAndLast
      <4> QED
        BY <2>1, <4>1
    <3>2. /\ \A i \in 1 .. n : q[i] = u[i]
          /\ q[n + 1] = e /\ n + 1 \in 1 .. n + 1
      <4>1. PICK T, more : /\ T = R /\ more = Append(u, e) /\ u \in Seq(T)
                           /\ e \in T /\ Len(u) = n
        BY <3>1
      <4>2. more[n + 1] = e /\ \A i \in 1 .. n : more[i] = u[i]
        BY ONLY n \in Nat, <4>1
      <4> QED
        BY <3>1, <4>1, <4>2
    <3>3. Keyed(u)
      <4>1. \A i \in 1 .. n : i \in 1 .. n + 1
        OBVIOUS
      <4> QED
        BY <2>1, <3>1, <3>2, <4>1
    <3>4. Good(u)
      <4>1. n <= N
        BY <2>1
      <4> HIDE DEF Good, Keyed
      <4> QED
        BY <1>2, <3>1, <3>3, <4>1
    <3>5. \A p \in ToSet(e) : p[1] = key[n + 1]
      BY <2>1, <3>2
    <3>6. FlattenSeq(u) \in Seq(S) /\ FlattenSeq(q) = FlattenSeq(u) \o e /\ e \in Seq(S)
      BY <3>1, FlattenAppend
    <3>7. PICK k : k = key[n + 1] /\ k \in Int
      BY <2>1
    <3>8. \A i \in 1 .. n : key[i] <= k
      <4>1. \A i \in 1 .. n : i \in 1 .. N /\ n + 1 \in 1 .. N /\ i < n + 1
        BY <2>1
      <4> QED
        BY <3>7, <4>1
    <3>9. PICK f : f = FlattenSeq(u) /\ f \in Seq(S) /\ Ordered(f)
      BY <3>4, <3>6
    <3>10. \A p \in ToSet(f) : p[1] <= k
      BY <3>1, <3>4, <3>8, <3>9
    <3>11. \A p \in ToSet(e) : k <= p[1]
      BY <3>5, <3>7
    <3>12. Ordered(e)
      <4>1. \A i \in DOMAIN e : e[i][1] = k
        BY <3>5, <3>7 DEF ToSet
      <4>2. \A i, j \in DOMAIN e : e[i][1] <= e[j][1]
        BY <3>7, <4>1
      <4> QED
        BY <4>2 DEF Ordered
    <3>13. Ordered(f \o e)
      BY <3>6, <3>7, <3>9, <3>10, <3>11, <3>12, ConcatOrdered
    <3>14. ToSet(f \o e) = ToSet(f) \union ToSet(e)
      BY <3>6, <3>9, ToSetConcat
    <3>15. \A p \in ToSet(FlattenSeq(q)) : \E i \in 1 .. n + 1 : p[1] = key[i]
      <4>1. \A i \in 1 .. n : i \in 1 .. n + 1
        OBVIOUS
      <4> QED
        BY <3>1, <3>2, <3>4, <3>5, <3>6, <3>9, <3>14, <4>1
    <3> QED
      BY <2>1, <3>6, <3>9, <3>13, <3>15
  <2> HIDE DEF Good, Keyed
  <2> QED
    BY <2>1
<1>3. Keyed(seqs)
  OBVIOUS
<1> HIDE DEF P
<1>4. N \in P
  BY <1>1, <1>2, SetInduction
<1>5. Good(seqs)
  <2> HIDE DEF Good, Keyed
  <2> QED
    BY <1>3, <1>4 DEF P
<1> QED
  BY <1>5

LEMMA TargetsOrdered ==
  ASSUME ArraysInv, NEW regs \in Seq(Places), Ordered(regs), NEW m
  PROVE  Ordered(TargetRegs(regs, m))
<1> DEFINE Moves(p) == PosState(p).moves
           Followed(p) == ElementsIn(Moves(p),
                            {mv \in ToSet(Moves(p)) : FollowsMove(mv.idx, m)})
           Led(p) == [j \in DOMAIN Followed(p) |-> <<p[1], Followed(p)[j].value>>]
<1>1. ASSUME NEW p \in Places
      PROVE  Led(p) \in Seq(Places) /\ \A x \in ToSet(Led(p)) : x[1] = p[1]
  <2>1. PICK M, ms, S : /\ M = [idx : CharIdx, value : Nat]
                        /\ ms = Moves(p)
                        /\ S = {mv \in ToSet(ms) : FollowsMove(mv.idx, m)}
    OBVIOUS
  <2>2. /\ ms \in Seq(M)
        /\ \A mv \in ToSet(ms) : <<p[1], mv.value>> \in Places
    BY <2>1, PlaceIs
  <2>3. PICK f : f = ElementsIn(ms, S) /\ f \in Seq(M) /\ ToSet(f) \subseteq ToSet(ms)
    <3>1. ElementsIn(ms, S) \in Seq(M) /\ ToSet(ElementsIn(ms, S)) = ToSet(ms) \cap S
      BY <2>2, ElementsInIs
    <3> QED
      BY <3>1
  <2>4. Followed(p) = f
    BY <2>1, <2>3
  <2> HIDE DEF Moves, Followed
  <2>5. Led(p) = [j \in DOMAIN f |-> <<p[1], f[j].value>>]
    BY <2>4
  <2>6. DOMAIN f = 1 .. Len(f) /\ Len(f) \in Nat
    BY <2>3
  <2>7. \A j \in DOMAIN f : <<p[1], f[j].value>> \in Places
    <3>1. \A j \in DOMAIN f : f[j] \in ToSet(f)
      BY DEF ToSet
    <3> QED
      BY <2>2, <2>3, <3>1
  <2> HIDE DEF Led
  <2>8. Led(p) \in Seq(Places)
    BY <2>5, <2>6, <2>7
  <2>9. \A x \in ToSet(Led(p)) : x[1] = p[1]
    BY <2>5 DEF ToSet
  <2> QED
    BY <2>8, <2>9
<1>2. PICK seqs, key : /\ seqs = [i \in DOMAIN regs |-> Led(regs[i])]
                       /\ key = [i \in DOMAIN regs |-> regs[i][1]]
  OBVIOUS
<1>3. TargetRegs(regs, m) = FlattenSeq(seqs)
  BY <1>2 DEF TargetRegs
<1> HIDE DEF Led
<1>4. PICK n, S : /\ n = Len(regs) /\ n \in Nat /\ DOMAIN regs = 1 .. n /\ S = Places
                  /\ \A i \in 1 .. n : regs[i] \in S
  OBVIOUS
<1>5. \A p \in S : p[1] \in Int
  BY <1>4 DEF Places
<1>6. seqs \in Seq(Seq(S)) /\ Len(seqs) = n
  BY <1>1, <1>2, <1>4
<1>7. /\ \A i \in 1 .. n : key[i] \in Int
      /\ \A i, j \in 1 .. n : i < j => key[i] <= key[j]
  BY <1>2, <1>4, <1>5 DEF Ordered
<1>8. \A i \in 1 .. n : \A p \in ToSet(seqs[i]) : p[1] = key[i]
  BY <1>1, <1>2, <1>4
<1>9. Ordered(FlattenSeq(seqs))
  BY <1>4, <1>5, <1>6, <1>7, <1>8, FlattenOrdered
<1> QED
  BY <1>3, <1>9

-----------------------------------------------------------------------------
(* What all the automata read together. *)

(* ReadTo, WinnerAt and RecognizesFarthest as facts about the values of the
   variables. *)
StepOver(arr, P, c) ==
  UNION {{<<p[1], m.value>> : m \in {m \in ToSet(arr[p[1]][p[2]].moves) :
                                       Stands(m.idx, c)}} : p \in P}

ReadStep(upto, ts, arr, w, n) ==
  IF n = 0 THEN {<<t, 1>> : t \in DOMAIN ts} ELSE StepOver(arr, upto[n - 1], w[n])

Reads(upto, ts, arr, w, n) == upto = [k \in 0 .. n |-> ReadStep(upto, ts, arr, w, k)]

ReadOver(ts, arr, w) ==
  LET upto == CHOOSE upto : Reads(upto, ts, arr, w, Len(w)) IN upto[Len(w)]

WinnerOver(arr, P) ==
  LET ends == {p \in P : arr[p[1]][p[2]].final}
      stuck == {p \in ends : arr[p[1]][p[2]].moves = <<>>}
  IN  IF ends = {} THEN NotExist
      ELSE IF stuck # {} THEN Max({p[1] : p \in stuck})
      ELSE Min({p[1] : p \in ends})

ReadsUpTo(ts, arr, txt, idx, rec, n) ==
  LET seen == Append(txt, 0)
      after(k) == ReadOver(ts, arr, SubSeq(seen, 1, k))
  IN  /\ idx = (IF n = Len(seen) THEN Len(txt) ELSE n)
      /\ after(n) # {} /\ (n < Len(seen) => after(n + 1) = {})
      /\ rec = WinnerOver(arr, after(n))

Farthest(ts, arr, txt, idx, rec) ==
  \E n \in 0 .. Len(Append(txt, 0)) : ReadsUpTo(ts, arr, txt, idx, rec, n)

LEMMA ReadToIs ==
  /\ \A w : ReadTo(w) = ReadOver(terminals, states_array, w)
  /\ \A w : (ReadTo(w) = ReadOver(terminals, states_array, w))'
  /\ \A P : WinnerAt(P) = WinnerOver(states_array, P)
  /\ \A P, c : StepFrom(P, c) = StepOver(states_array, P, c)
<1>1. \A w : ReadTo(w) = ReadOver(terminals, states_array, w)
  BY DEF ReadTo, ReadOver, Reads, ReadStep, StepFrom, StepOver, PosState
<1>2. \A w : (ReadTo(w) = ReadOver(terminals, states_array, w))'
  BY DEF ReadTo, ReadOver, Reads, ReadStep, StepFrom, StepOver, PosState
<1>3. \A P : WinnerAt(P) = WinnerOver(states_array, P)
  BY DEF WinnerAt, WinnerOver, PosState
<1>4. \A P, c : StepFrom(P, c) = StepOver(states_array, P, c)
  BY DEF StepFrom, StepOver, PosState
<1> QED
  BY <1>1, <1>2, <1>3, <1>4

LEMMA FarthestIs ==
  /\ RecognizesFarthest <=>
       (read_stage = "returned" /\ AllApart =>
          Farthest(terminals, states_array, text, text_idx, recognized))
  /\ RecognizesFarthest' <=>
       (read_stage' = "returned" /\ AllApart' =>
          Farthest(terminals', states_array', text', text_idx', recognized'))
<1>1. RecognizesFarthest <=>
        (read_stage = "returned" /\ AllApart =>
           Farthest(terminals, states_array, text, text_idx, recognized))
  BY DEF RecognizesFarthest, Farthest, ReadsUpTo, ReadTo, ReadOver, Reads, ReadStep,
         StepFrom, StepOver, PosState, WinnerAt, WinnerOver
<1>2. RecognizesFarthest' <=>
       (read_stage' = "returned" /\ AllApart' =>
          Farthest(terminals', states_array', text', text_idx', recognized'))
  BY DEF RecognizesFarthest, Farthest, ReadsUpTo, ReadTo, ReadOver, Reads, ReadStep,
         StepFrom, StepOver, PosState, WinnerAt, WinnerOver
<1> QED
  BY <1>1, <1>2

LEMMA ReadsAt ==
  ASSUME NEW ts, NEW arr, NEW w, NEW n \in Nat, NEW upto, Reads(upto, ts, arr, w, n),
         NEW k \in 0 .. n
  PROVE  upto[k] = ReadStep(upto, ts, arr, w, k)
<1> DEFINE F(r) == [j \in 0 .. n |-> ReadStep(r, ts, arr, w, j)]
<1>1. upto = F(upto)
  BY DEF Reads
<1>2. F(upto)[k] = ReadStep(upto, ts, arr, w, k)
  OBVIOUS
<1> HIDE DEF F
<1> QED
  BY <1>1, <1>2

LEMMA ReadsExist ==
  ASSUME NEW ts, NEW arr, NEW w, NEW n \in Nat
  PROVE  \E upto : Reads(upto, ts, arr, w, n)
<1> DEFINE S == {k \in Nat : \E upto : Reads(upto, ts, arr, w, k)}
<1>1. 0 \in S
  <2> DEFINE upto == [k \in 0 .. 0 |-> {<<t, 1>> : t \in DOMAIN ts}]
  <2>1. Reads(upto, ts, arr, w, 0)
    BY DEF Reads, ReadStep
  <2> QED
    BY <2>1
<1>2. ASSUME NEW k \in Nat, k \in S
      PROVE  k + 1 \in S
  <2>1. PICK upto : Reads(upto, ts, arr, w, k)
    BY <1>2
  <2> DEFINE more == [j \in 0 .. k + 1 |-> ReadStep(upto, ts, arr, w, j)]
  <2>2. ASSUME NEW j \in 0 .. k
        PROVE  more[j] = upto[j]
    <3>1. upto[j] = ReadStep(upto, ts, arr, w, j)
      BY <2>1, ReadsAt
    <3> QED
      BY <3>1
  <2>3. ASSUME NEW j \in 0 .. k + 1
        PROVE  ReadStep(more, ts, arr, w, j) = ReadStep(upto, ts, arr, w, j)
    <3>1. CASE j = 0
      BY <3>1 DEF ReadStep
    <3>2. CASE j # 0
      <4>1. j - 1 \in 0 .. k
        BY <3>2
      <4>2. more[j - 1] = upto[j - 1]
        BY <2>2, <4>1
      <4> HIDE DEF more
      <4> QED
        BY <4>2 DEF ReadStep
    <3> QED
      BY <3>1, <3>2
  <2>4. more = [j \in 0 .. k + 1 |-> ReadStep(more, ts, arr, w, j)]
    BY <2>3
  <2> HIDE DEF more
  <2>5. Reads(more, ts, arr, w, k + 1)
    BY <2>4 DEF Reads
  <2> QED
    BY <2>5
<1> HIDE DEF S
<1>3. n \in S
  BY <1>1, <1>2, SetInduction
<1> QED
  BY <1>3 DEF S

LEMMA ReadOverIs ==
  ASSUME NEW ts, NEW arr, NEW w, Len(w) \in Nat
  PROVE  \E upto : /\ Reads(upto, ts, arr, w, Len(w))
                   /\ ReadOver(ts, arr, w) = upto[Len(w)]
<1>1. PICK upto : /\ Reads(upto, ts, arr, w, Len(w))
                  /\ upto = CHOOSE u : Reads(u, ts, arr, w, Len(w))
  BY ReadsExist
<1> QED
  BY <1>1 DEF ReadOver

LEMMA ReadNothing ==
  ASSUME NEW ts, NEW arr, NEW w, Len(w) = 0
  PROVE  ReadOver(ts, arr, w) = {<<t, 1>> : t \in DOMAIN ts}
<1>1. PICK upto : /\ Reads(upto, ts, arr, w, 0) /\ ReadOver(ts, arr, w) = upto[0]
  BY ReadOverIs
<1>2. upto[0] = ReadStep(upto, ts, arr, w, 0)
  <2>1. 0 \in 0 .. 0
    OBVIOUS
  <2> QED
    BY <1>1, <2>1, ReadsAt
<1> QED
  BY <1>1, <1>2 DEF ReadStep

(* One character more is one step more. *)
LEMMA ReadOneMore ==
  ASSUME NEW ts, NEW arr, NEW v, NEW w, NEW n \in Nat, Len(v) = n, Len(w) = n + 1,
         \A i \in 1 .. n : w[i] = v[i]
  PROVE  ReadOver(ts, arr, w) = StepOver(arr, ReadOver(ts, arr, v), w[n + 1])
<1>1. PICK a : Reads(a, ts, arr, v, n) /\ ReadOver(ts, arr, v) = a[n]
  BY ReadOverIs
<1>2. PICK b : Reads(b, ts, arr, w, n + 1) /\ ReadOver(ts, arr, w) = b[n + 1]
  <2>1. n + 1 \in Nat
    OBVIOUS
  <2> QED
    BY <2>1, ReadOverIs
<1> DEFINE P == {k \in Nat : k <= n => a[k] = b[k]}
<1>3. 0 \in P
  <2>1. 0 \in 0 .. n /\ 0 \in 0 .. n + 1 /\ n + 1 \in Nat
    OBVIOUS
  <2>2. a[0] = ReadStep(a, ts, arr, v, 0) /\ b[0] = ReadStep(b, ts, arr, w, 0)
    BY <1>1, <1>2, <2>1, ReadsAt
  <2>3. a[0] = b[0]
    BY <2>2 DEF ReadStep
  <2> QED
    BY <2>3
<1>4. ASSUME NEW k \in Nat, k \in P
      PROVE  k + 1 \in P
  <2> SUFFICES ASSUME k + 1 <= n
               PROVE  a[k + 1] = b[k + 1]
    OBVIOUS
  <2>1. /\ k + 1 \in 0 .. n /\ k + 1 \in 0 .. n + 1 /\ n + 1 \in Nat /\ k + 1 \in 1 .. n
        /\ (k + 1) - 1 = k /\ k + 1 # 0
    OBVIOUS
  <2>2. a[k + 1] = ReadStep(a, ts, arr, v, k + 1) /\ b[k + 1] = ReadStep(b, ts, arr, w, k + 1)
    BY <1>1, <1>2, <2>1, ReadsAt
  <2>3. a[k] = b[k] /\ w[k + 1] = v[k + 1]
    BY <1>4, <2>1
  <2> HIDE DEF P
  <2> QED
    BY <2>1, <2>2, <2>3 DEF ReadStep
<1> HIDE DEF P
<1>5. n \in P
  BY <1>3, <1>4, SetInduction
<1>6. b[n + 1] = StepOver(arr, b[n], w[n + 1])
  <2>1. n + 1 \in 0 .. n + 1 /\ n + 1 \in Nat /\ (n + 1) - 1 = n /\ n + 1 # 0
    OBVIOUS
  <2>2. b[n + 1] = ReadStep(b, ts, arr, w, n + 1)
    BY <1>2, <2>1, ReadsAt
  <2> QED
    BY <2>1, <2>2 DEF ReadStep
<1> QED
  BY <1>1, <1>2, <1>5, <1>6 DEF P

-----------------------------------------------------------------------------
(* The invariant of recognize.  The states of the product are as their arrays
   of positions say, and the first is at the beginning of every terminal. *)

StartRegs == [t \in 1 .. Len(terminals) |-> <<t, 1>>]

StatePlaced(arr, st, ds, s) ==
  /\ "final" \in DOMAIN st[s] /\ st[s].final = FinalFrom(arr, ds[s])
  /\ Ordered(ds[s])

PlacedInv ==
  /\ \A s \in DOMAIN fa_states : StatePlaced(states_array, fa_states, state_descrs, s)
  /\ \A q \in ToSet(fa_queue) : Ordered(q.regs)
  /\ fa_stage \in {"product", "rows", "ready"} =>
       IF fa_states = <<>>
         THEN /\ fa_stage = "product" /\ fa_queue # <<>>
              /\ Head(fa_queue).regs = StartRegs
         ELSE state_descrs[1] = StartRegs
  /\ fa_stage = "ready" => Len(state_moves) = Len(fa_states)

(* The state that recognize is in stands for the positions that the characters
   it has read lead to. *)
TextInv ==
  /\ text \in Seq(Chars) /\ text_idx \in 0 .. Len(text)
  /\ fa_stage # "ready" => read_stage = "idle"
  /\ read_stage = "idle" => text_idx = 0 /\ state_idx = 1
  /\ fa_stage = "ready" =>
       state_idx \in DOMAIN fa_states /\ ToSet(state_descrs[state_idx]) # {}
  /\ fa_stage = "ready" /\ AllApart =>
       ToSet(state_descrs[state_idx]) = ReadTo(SubSeq(text, 1, text_idx))
  /\ RecognizesFarthest

RecognizeInv == LexerInv /\ PlacedInv /\ TextInv

LEMMA LinkKeepsFinal ==
  ASSUME NEW T, NEW st \in Seq(T), NEW h, NEW target,
         h.from # NotExist => h.from \in DOMAIN st,
         NEW s \in DOMAIN st, "final" \in DOMAIN st[s]
  PROVE  /\ "final" \in DOMAIN LinkFrom(st, h, target)[s]
         /\ LinkFrom(st, h, target)[s].final = st[s].final
<1>1. CASE h.from = NotExist
  BY <1>1 DEF LinkFrom
<1>2. CASE h.from # NotExist
  <2>1. PICK f, e, ms : /\ f = h.from /\ e = st[f]
                        /\ ms = [i \in DOMAIN e.moves |->
                                   IF e.moves[i].idx = h.char THEN Move(h.char, target)
                                                              ELSE e.moves[i]]
    OBVIOUS
  <2>2. PICK e2 : e2 = [e EXCEPT !.moves = ms]
    OBVIOUS
  <2>3. PICK st2 : st2 = LinkFrom(st, h, target) /\ st2 = [st EXCEPT ![f] = e2]
    BY <1>2, <2>1, <2>2 DEF LinkFrom
  <2>4. CASE s = f
    <3>1. st2[s] = e2 /\ "final" \in DOMAIN e
      BY <2>1, <2>3, <2>4
    <3>2. "final" \in DOMAIN e2 /\ e2.final = e.final
      BY <2>2, <3>1
    <3> QED
      BY <2>1, <2>3, <2>4, <3>1, <3>2
  <2>5. CASE s # f
    <3>1. st2[s] = st[s]
      BY <2>3, <2>5
    <3> QED
      BY <2>3, <3>1
  <2> QED
    BY <2>4, <2>5
<1> QED
  BY <1>1, <1>2

(* Steps that leave the product alone. *)
LEMMA PlacedStays ==
  ASSUME PlacedInv, UNCHANGED <<terminals, states_array, fa_states, fa_queue, state_descrs>>,
         \/ fa_stage' = fa_stage
         \/ fa_stage' \notin {"product", "rows", "ready"}
         \/ fa_stage = "product" /\ fa_queue = <<>> /\ fa_stage' = "rows"
         \/ fa_stage = "rows" /\ fa_stage' = "ready",
         fa_stage' = "ready" => Len(state_moves') = Len(fa_states)
  PROVE  PlacedInv'
BY DEF PlacedInv, StartRegs

LEMMA PlacedStart ==
  ASSUME LexerInv, StartProduct
  PROVE  PlacedInv'
<1>1. PICK q : q = [from |-> NotExist, char |-> EpsMove,
                    regs |-> [r \in 1 .. Len(terminals) |-> <<r, 1>>]]
  OBVIOUS
<1>2. /\ fa_stage = "terminals" /\ fa_queue' = <<q>> /\ fa_stage' = "product"
      /\ UNCHANGED <<terminals, fa_states>>
  BY <1>1 DEF StartProduct
<1>3. fa_states = <<>>
  BY <1>2, InTerminals
<1>4. PICK n : n = Len(terminals) /\ n \in Nat
  BY FinalAutomataAssumption DEF LexerInv, ArraysInv
<1>5. q.regs = [r \in 1 .. n |-> <<r, 1>>]
  BY <1>1, <1>4
<1>6. q.regs = StartRegs'
  BY <1>2, <1>4, <1>5 DEF StartRegs
<1>7. Ordered(q.regs)
  BY <1>4, <1>5 DEF Ordered
<1>8. ToSet(fa_queue') = {q} /\ fa_queue' # <<>> /\ Head(fa_queue') = q
  BY <1>2 DEF ToSet
<1> QED
  BY <1>2, <1>3, <1>6, <1>7, <1>8 DEF PlacedInv

LEMMA PlacedKnown ==
  ASSUME LexerInv, PlacedInv, TakeKnownState
  PROVE  PlacedInv'
<1>1. PICK h, rest, k : /\ h = Head(fa_queue) /\ rest = Tail(fa_queue)
                        /\ k = KnownState(h.regs)
  OBVIOUS
<1>2. /\ fa_stage = "product" /\ fa_queue # <<>> /\ k # 0
      /\ fa_states' = LinkFrom(fa_states, h, k) /\ fa_queue' = rest
      /\ UNCHANGED <<fa_stage, terminals, states_array, state_descrs>>
  BY <1>1 DEF TakeKnownState, InProduct
<1>3. /\ ToSet(fa_queue) = {h} \union ToSet(rest)
      /\ ElementRight(states_array, fa_states, state_descrs, Places, h)
  BY <1>1, <1>2, ElementTaken
<1>4. /\ DOMAIN state_descrs = DOMAIN fa_states /\ DOMAIN fa_states = 1 .. Len(fa_states)
      /\ fa_states \in Seq(ToSet(fa_states)) /\ state_descrs \in Seq(Seq(Places))
  BY DescrsAre DEF LexerInv, ProductInv
<1>5. h.from # NotExist => h.from \in DOMAIN fa_states
  BY <1>3 DEF ElementRight
<1>6. k \in DOMAIN state_descrs
  BY <1>1, <1>2, <1>4, KnownIs
<1>7. fa_states # <<>>
  BY <1>4, <1>6
<1>8. DOMAIN fa_states' = DOMAIN fa_states /\ fa_states' # <<>>
  <2>1. h.from # NotExist => "moves" \in DOMAIN fa_states[h.from]
    <3>1. \A s \in DOMAIN fa_states :
            StateLinked(states_array, fa_states, state_descrs, fa_queue, s)
      BY <1>2, ElementTaken
    <3> QED
      BY <1>5, <3>1 DEF StateLinked
  <2>2. LinkMade(fa_states, fa_states', h, k)
    BY <1>2, <1>4, <1>5, <2>1, LinkIs
  <2>3. DOMAIN fa_states' = DOMAIN fa_states
    BY <2>2 DEF LinkMade
  <2> QED
    BY <1>4, <1>6, <2>3
<1>9. ASSUME NEW s \in DOMAIN fa_states
      PROVE  StatePlaced(states_array, fa_states', state_descrs, s)
  <2>1. StatePlaced(states_array, fa_states, state_descrs, s)
    BY DEF PlacedInv
  <2>2. /\ "final" \in DOMAIN LinkFrom(fa_states, h, k)[s]
        /\ LinkFrom(fa_states, h, k)[s].final = fa_states[s].final
    <3>1. "final" \in DOMAIN fa_states[s]
      BY <2>1 DEF StatePlaced
    <3>2. PICK T, st : st = fa_states /\ st \in Seq(T)
      BY <1>4
    <3>3. (h.from # NotExist => h.from \in DOMAIN st) /\ s \in DOMAIN st
          /\ "final" \in DOMAIN st[s]
      BY <1>5, <3>1, <3>2
    <3>4. /\ "final" \in DOMAIN LinkFrom(st, h, k)[s]
          /\ LinkFrom(st, h, k)[s].final = st[s].final
      BY ONLY <3>2, <3>3, LinkKeepsFinal
    <3> QED
      BY <3>2, <3>4
  <2> QED
    BY <1>2, <2>1, <2>2 DEF StatePlaced
<1>10. \A q \in ToSet(fa_queue') : Ordered(q.regs)
  BY <1>2, <1>3 DEF PlacedInv
<1>11. state_descrs[1] = StartRegs /\ StartRegs' = StartRegs
  BY <1>2, <1>7 DEF PlacedInv, StartRegs
<1> QED
  BY <1>2, <1>8, <1>9, <1>10, <1>11 DEF PlacedInv

LEMMA PlacedNew ==
  ASSUME LexerInv, PlacedInv, TakeNewState
  PROVE  PlacedInv'
<1>1. PICK h, rest, chars, new, state, more :
        /\ h = Head(fa_queue) /\ rest = Tail(fa_queue) /\ chars = MoveChars(h.regs)
        /\ new = Len(fa_states) + 1
        /\ state = [final |-> FinalOf(h.regs),
                    moves |-> [i \in DOMAIN chars |-> Move(chars[i], NotExist)]]
        /\ more = [i \in DOMAIN chars |-> [from |-> new, char |-> chars[i],
                                           regs |-> TargetRegs(h.regs, chars[i])]]
  OBVIOUS
<1>2. PICK st0, ds2 : st0 = Append(fa_states, state) /\ ds2 = Append(state_descrs, h.regs)
  OBVIOUS
<1>3. /\ fa_stage = "product" /\ fa_queue # <<>>
      /\ fa_states' = LinkFrom(st0, h, new) /\ fa_queue' = rest \o more
      /\ state_descrs' = ds2
      /\ UNCHANGED <<fa_stage, terminals, states_array>>
  BY <1>1, <1>2 DEF TakeNewState, InProduct
<1>4. /\ rest \in Seq(ToSet(fa_queue)) /\ ToSet(fa_queue) = {h} \union ToSet(rest)
      /\ ElementRight(states_array, fa_states, state_descrs, Places, h)
      /\ \A s \in DOMAIN fa_states :
           StateLinked(states_array, fa_states, state_descrs, fa_queue, s)
  BY <1>1, <1>3, ElementTaken
<1>5. PICK n : /\ n = Len(fa_states) /\ n \in Nat /\ new = n + 1
               /\ DOMAIN state_descrs = 1 .. n /\ DOMAIN fa_states = 1 .. n
               /\ Len(state_descrs) = n
  BY <1>1, DescrsAre DEF LexerInv, ProductInv
<1>6. h.regs \in Seq(Places) /\ Ordered(h.regs)
  BY <1>4 DEF ElementRight, PlacedInv
<1>7. PICK S, D : /\ D = Seq(Places)
                  /\ fa_states \in Seq(S) /\ state_descrs \in Seq(D)
                  /\ state \in S /\ h.regs \in D
  <2>1. state_descrs \in Seq(Seq(Places)) /\ fa_states \in Seq(ToSet(fa_states))
    BY DEF LexerInv, ProductInv
  <2>2. PICK A, S : A = ToSet(fa_states) /\ S = A \union {state}
    OBVIOUS
  <2>3. fa_states \in Seq(S) /\ state \in S
    <3>1. A \subseteq S /\ fa_states \in Seq(A)
      BY <2>1, <2>2
    <3> QED
      BY <2>2, <3>1, SeqWider
  <2> QED
    BY <1>6, <2>1, <2>3
<1>8. /\ st0 \in Seq(S) /\ Len(st0) = n + 1 /\ DOMAIN st0 = 1 .. n + 1
      /\ st0[new] = state /\ \A s \in 1 .. n : st0[s] = fa_states[s]
  BY <1>2, <1>5, <1>7
<1>9. /\ DOMAIN ds2 = 1 .. n + 1
      /\ ds2[new] = h.regs /\ \A s \in 1 .. n : ds2[s] = state_descrs[s]
  BY <1>2, <1>5, <1>7
<1>10. h.from # NotExist => h.from \in 1 .. n
  BY <1>4, <1>5 DEF ElementRight
<1>11. h.from # NotExist => h.from \in DOMAIN st0
  BY <1>5, <1>8, <1>10
<1>12. DOMAIN fa_states' = 1 .. n + 1
  <2>1. h.from # NotExist => "moves" \in DOMAIN st0[h.from]
    BY <1>4, <1>5, <1>8, <1>10 DEF StateLinked
  <2>2. LinkMade(st0, fa_states', h, new)
    BY <1>3, <1>8, <1>11, <2>1, LinkIs
  <2> QED
    BY <1>8, <2>2 DEF LinkMade
<1>13. ASSUME NEW s \in 1 .. n + 1
       PROVE  StatePlaced(states_array, fa_states', ds2, s)
  <2>1. StatePlaced(states_array, st0, ds2, s)
    <3>1. CASE s \in 1 .. n
      <4>1. StatePlaced(states_array, fa_states, state_descrs, s)
        BY <1>5, <3>1 DEF PlacedInv
      <4> QED
        BY <1>8, <1>9, <3>1, <4>1 DEF StatePlaced
    <3>2. CASE s = new
      <4>1. FinalOf(h.regs) = FinalFrom(states_array, h.regs)
        <5>1. DOMAIN h.regs = 1 .. Len(h.regs)
          BY <1>6
        <5> QED
          BY <5>1, FinalOfIs
      <4>2. "final" \in DOMAIN state /\ state.final = FinalOf(h.regs)
        BY <1>1
      <4> QED
        BY <1>6, <1>8, <1>9, <3>2, <4>1, <4>2 DEF StatePlaced
    <3> QED
      BY <1>5, <3>1, <3>2
  <2>2. /\ "final" \in DOMAIN LinkFrom(st0, h, new)[s]
        /\ LinkFrom(st0, h, new)[s].final = st0[s].final
    <3>1. s \in DOMAIN st0 /\ "final" \in DOMAIN st0[s]
      BY <1>8, <2>1 DEF StatePlaced
    <3> QED
      BY <1>8, <1>11, <3>1, LinkKeepsFinal
  <2> QED
    BY <1>3, <2>1, <2>2 DEF StatePlaced
<1>14. ASSUME NEW q \in ToSet(fa_queue')
       PROVE  Ordered(q.regs)
  <2>0. PICK B : B = ToSet(fa_queue) \union ToSet(more)
    OBVIOUS
  <2>1. PICK k : k = Len(chars) /\ k \in Nat /\ DOMAIN chars = 1 .. k
    <3>1. chars \in Seq(CharIdx)
      BY <1>1, <1>6, MoveCharsIs DEF LexerInv
    <3> QED
      BY <3>1
  <2>2. more \in Seq(ToSet(more))
    <3>1. PICK E : E = ToSet(more)
      OBVIOUS
    <3>2. \A i \in 1 .. k : more[i] \in E
      BY <1>1, <2>1, <3>1 DEF ToSet
    <3>3. \E f : more = [i \in 1 .. k |-> f[i]]
      BY <1>1, <2>1
    <3>4. more \in Seq(E)
      BY ONLY <2>1, <3>2, <3>3
    <3> QED
      BY <3>1, <3>4
  <2>3. rest \in Seq(B) /\ more \in Seq(B)
    BY <1>4, <2>0, <2>2, SeqWider
  <2>4. ToSet(fa_queue') = ToSet(rest) \union ToSet(more)
    BY <1>3, <2>3, ToSetConcat
  <2>5. CASE q \in ToSet(rest)
    BY <1>4, <2>5 DEF PlacedInv
  <2>6. CASE q \in ToSet(more)
    <3>1. PICK i \in DOMAIN chars : q = more[i]
      BY <1>1, <2>6 DEF ToSet
    <3>2. q.regs = TargetRegs(h.regs, chars[i])
      BY <1>1, <3>1
    <3>3. Ordered(TargetRegs(h.regs, chars[i]))
      BY <1>6, TargetsOrdered DEF LexerInv
    <3> QED
      BY <3>2, <3>3
  <2> QED
    BY <1>14, <2>4, <2>5, <2>6
<1>15. fa_states' # <<>>
  BY <1>5, <1>12
<1>16. ds2[1] = StartRegs
  <2>1. CASE n = 0
    <3>1. fa_states = <<>>
      BY <1>5, <1>7, <2>1
    <3>2. h.regs = StartRegs
      BY <1>1, <1>3, <3>1 DEF PlacedInv
    <3> QED
      BY <1>5, <1>9, <2>1, <3>2
  <2>2. CASE n # 0
    <3>1. fa_states # <<>> /\ 1 \in 1 .. n
      BY <1>5, <2>2
    <3>2. state_descrs[1] = StartRegs
      BY <1>3, <3>1 DEF PlacedInv
    <3> QED
      BY <1>9, <3>1, <3>2
  <2> QED
    BY <2>1, <2>2
<1>17. StartRegs' = StartRegs
  BY <1>3 DEF StartRegs
<1> QED
  BY <1>3, <1>12, <1>13, <1>14, <1>15, <1>16, <1>17 DEF PlacedInv

LEMMA PlacedKeeps ==
  ASSUME LexerInv, PlacedInv, [LexerNext]_lexerVars
  PROVE  PlacedInv'
<1>1. ASSUME \/ RegExpNext /\ UNCHANGED faVars
             \/ UNCHANGED lexerVars
      PROVE  PlacedInv'
  <2>1. UNCHANGED faVars
    BY <1>1 DEF lexerVars
  <2>2. UNCHANGED <<fa_stage, terminals, states_array, fa_states, fa_queue,
                    state_descrs, state_moves>>
    BY <2>1 DEF faVars, productVars
  <2>3. fa_stage' = "ready" => Len(state_moves') = Len(fa_states)
    BY <2>2 DEF PlacedInv
  <2> QED
    BY <2>2, <2>3, PlacedStays
<1>2. CASE NextTerminal
  <2>1. fa_stage = "terminals" /\ UNCHANGED <<fa_stage, fa_states, fa_queue>>
    BY <1>2 DEF NextTerminal, productVars
  <2>2. fa_states = <<>> /\ fa_queue = <<>>
    BY <2>1, InTerminals
  <2> QED
    BY <2>1, <2>2 DEF PlacedInv, ToSet
<1>3. CASE StartProduct
  BY <1>3, PlacedStart
<1>4. CASE TakeKnownState
  BY <1>4, PlacedKnown
<1>5. CASE TakeNewState
  BY <1>5, PlacedNew
<1>6. CASE RegExpError \/ StartRows \/ FillRow \/ RowsDone \/ Recognize
  <2>1. /\ UNCHANGED <<terminals, states_array, fa_states, fa_queue, state_descrs>>
        /\ \/ fa_stage' = "failed"
           \/ fa_stage = "product" /\ fa_queue = <<>> /\ fa_stage' = "rows"
           \/ fa_stage = "rows" /\ fa_stage' = "rows"
           \/ /\ fa_stage = "rows" /\ fa_stage' = "ready"
              /\ Len(state_moves) = Len(fa_states) /\ state_moves' = state_moves
           \/ fa_stage = "ready" /\ fa_stage' = "ready" /\ state_moves' = state_moves
    BY <1>6 DEF RegExpError, StartRows, FillRow, RowsDone, Recognize, RecNext, StartText,
                StepText, ReturnFinal, automatonVars, productVars
  <2>2. fa_stage' = "ready" => Len(state_moves') = Len(fa_states)
    BY <2>1 DEF PlacedInv
  <2> QED
    BY <2>1, <2>2, PlacedStays
<1> QED
  BY <1>1, <1>2, <1>3, <1>4, <1>5, <1>6 DEF LexerNext, FaNext

LEMMA AllApartStays ==
  ASSUME UNCHANGED <<states_array, state_descrs>>
  PROVE  AllApart' <=> AllApart
BY DEF AllApart, ExceptionsApart, IdxsAt, PosState

(* Where recognize starts. *)
LEMMA StartIs ==
  ASSUME LexerInv, PlacedInv, fa_stage \in {"rows", "ready"}, NEW w, Len(w) = 0
  PROVE  /\ 1 \in DOMAIN fa_states /\ ToSet(state_descrs[1]) # {}
         /\ ToSet(state_descrs[1]) = ReadOver(terminals, states_array, w)
<1>1. fa_states # <<>> /\ state_descrs[1] = StartRegs
  BY DEF PlacedInv
<1>2. 1 \in DOMAIN fa_states
  <2>1. fa_states \in Seq(ToSet(fa_states))
    BY DEF LexerInv, ProductInv
  <2> QED
    BY <1>1, <2>1
<1>3. PICK n : n = Len(terminals) /\ n \in Nat \ {0} /\ DOMAIN terminals = 1 .. n
  <2>1. terminals \in Seq(RegExps) /\ terminals # <<>>
    BY FinalAutomataAssumption DEF LexerInv, ArraysInv
  <2> QED
    BY <2>1
<1>4. ToSet(StartRegs) = {<<t, 1>> : t \in 1 .. n}
  BY <1>3 DEF StartRegs, ToSet
<1>5. <<1, 1>> \in ToSet(StartRegs)
  <2>1. 1 \in 1 .. n
    BY <1>3
  <2> QED
    BY <1>4, <2>1
<1>6. ReadOver(terminals, states_array, w) = {<<t, 1>> : t \in 1 .. n}
  BY <1>3, ReadNothing
<1> QED
  BY <1>1, <1>2, <1>4, <1>5, <1>6

LEMMA PrefixIs ==
  ASSUME NEW S, NEW w \in Seq(S), NEW k \in 0 .. Len(w)
  PROVE  /\ Len(SubSeq(w, 1, k)) = k
         /\ \A i \in 1 .. k : SubSeq(w, 1, k)[i] = w[i]
OBVIOUS

(* Two readings of a text, the second one character longer. *)
OneApart(seq, k, v, w) ==
  /\ v = SubSeq(seq, 1, k) /\ w = SubSeq(seq, 1, k + 1)
  /\ Len(v) = k /\ Len(w) = k + 1
  /\ w[k + 1] = seq[k + 1] /\ \A i \in 1 .. k : w[i] = v[i]

LEMMA PrefixesAre ==
  ASSUME NEW S, NEW seq \in Seq(S), NEW k \in Nat, k + 1 \in 0 .. Len(seq)
  PROVE  \E v, w : OneApart(seq, k, v, w)
<1>1. PICK v, w : v = SubSeq(seq, 1, k) /\ w = SubSeq(seq, 1, k + 1)
  OBVIOUS
<1>2. k \in 0 .. Len(seq) /\ k + 1 \in 1 .. k + 1 /\ \A i \in 1 .. k : i \in 1 .. k + 1
  OBVIOUS
<1>3. Len(v) = k /\ \A i \in 1 .. k : v[i] = seq[i]
  BY <1>1, <1>2, PrefixIs
<1>4. Len(w) = k + 1 /\ \A i \in 1 .. k + 1 : w[i] = seq[i]
  BY <1>1, PrefixIs
<1>5. OneApart(seq, k, v, w)
  BY <1>1, <1>2, <1>3, <1>4 DEF OneApart
<1> QED
  BY <1>5

(* The state that a row leads to, when all that a row needs is apart. *)
LEMMA NextStateIs ==
  ASSUME LexerInv, PlacedInv, TextInv, fa_stage = "ready"
  PROVE  /\ InChar \in Chars /\ state_idx \in DOMAIN fa_states
         /\ \/ NextState = NotExist
            \/ NextState \in DOMAIN fa_states /\ ToSet(state_descrs[NextState]) # {}
         /\ AllApart =>
              LET reached == StepOver(states_array,
                               ReadOver(terminals, states_array, SubSeq(text, 1, text_idx)),
                               InChar)
              IN  IF NextState = NotExist THEN reached = {}
                  ELSE ToSet(state_descrs[NextState]) = reached
<1>1. state_idx \in DOMAIN fa_states /\ text \in Seq(Chars) /\ text_idx \in 0 .. Len(text)
  BY DEF TextInv
<1>2. InChar \in Chars
  <2>1. 0 \in Chars
    BY CharCountAssumption DEF Chars
  <2>2. CASE AtTextEnd
    BY <2>1, <2>2 DEF InChar
  <2>3. CASE ~AtTextEnd
    <3>1. text_idx + 1 \in 1 .. Len(text)
      BY <1>1, <2>3 DEF AtTextEnd
    <3>2. text[text_idx + 1] \in Chars
      BY <1>1, <3>1
    <3> QED
      BY <2>3, <3>2 DEF InChar
  <2> QED
    BY <2>2, <2>3
<1>3. state_idx \in DOMAIN state_moves /\ state_idx \in DOMAIN state_descrs
  <2>1. PICK n : n = Len(state_moves) /\ n \in Nat /\ n = Len(fa_states)
    BY DEF LexerInv, RowsInv, PlacedInv
  <2>2. state_moves = [s \in 1 .. n |-> Row(fa_states[s].moves)]
    BY <2>1 DEF LexerInv, RowsInv
  <2>3. DOMAIN fa_states = 1 .. n /\ DOMAIN state_descrs = 1 .. n
    BY <2>1, DescrsAre DEF LexerInv
  <2> QED
    BY <1>1, <2>2, <2>3
<1>4. PICK next : next = state_moves[state_idx][InChar] /\ next = NextState
  BY DEF NextState
<1>5. \/ next = NotExist
      \/ next \in DOMAIN fa_states /\ ToSet(state_descrs[next]) # {}
  <2>1. PICK s, c : /\ s = state_idx /\ c = InChar /\ s \in DOMAIN state_moves
                    /\ c \in Chars /\ next = state_moves[s][c]
    BY <1>2, <1>3, <1>4
  <2>2. \/ state_moves[s][c] = NotExist
        \/ /\ state_moves[s][c] \in DOMAIN fa_states
           /\ ToSet(state_descrs[state_moves[s][c]]) # {}
    BY <2>1, NextIs
  <2> QED
    BY <2>1, <2>2
<1>6. ASSUME AllApart
      PROVE  LET reached == StepOver(states_array,
                              ReadOver(terminals, states_array, SubSeq(text, 1, text_idx)),
                              InChar)
             IN  IF next = NotExist THEN reached = {}
                 ELSE ToSet(state_descrs[next]) = reached
  <2>1. ExceptionsApart(ToSet(state_descrs[state_idx]))
    BY <1>3, <1>6 DEF AllApart
  <2>2. RowExact(state_idx, InChar)
    BY <1>2, <1>3, <2>1, RowsAreExact DEF RowsExact
  <2>3. ToSet(state_descrs[state_idx]) = ReadTo(SubSeq(text, 1, text_idx))
    BY <1>6 DEF TextInv
  <2>4. ToSet(state_descrs[state_idx]) =
          ReadOver(terminals, states_array, SubSeq(text, 1, text_idx))
    BY <2>3, ReadToIs
  <2>5. PICK P : P = ToSet(state_descrs[state_idx])
    OBVIOUS
  <2>6. StepFrom(P, InChar) = StepOver(states_array, P, InChar)
    BY ReadToIs
  <2> QED
    BY <1>4, <2>2, <2>4, <2>5, <2>6 DEF RowExact
<1> QED
  BY <1>1, <1>2, <1>4, <1>5, <1>6

LEMMA TextStays ==
  ASSUME TextInv, UNCHANGED textVars,
         UNCHANGED <<fa_stage, terminals, states_array, fa_states, state_descrs>>
  PROVE  TextInv'
<1>1. UNCHANGED <<read_stage, text, text_idx, state_idx, recognized>>
  BY DEF textVars
<1>2. AllApart' <=> AllApart
  BY AllApartStays
<1>3. RecognizesFarthest'
  BY <1>1, <1>2, FarthestIs DEF TextInv
<1>4. \A w : (ReadTo(w) = ReadOver(terminals, states_array, w))'
  BY ReadToIs
<1>5. fa_stage' = "ready" /\ AllApart' =>
        ToSet(state_descrs'[state_idx']) =
          ReadOver(terminals, states_array, SubSeq(text, 1, text_idx))
  BY <1>1, <1>2, ReadToIs DEF TextInv
<1>6. fa_stage' = "ready" /\ AllApart' =>
        ToSet(state_descrs'[state_idx']) = (ReadTo(SubSeq(text, 1, text_idx)))'
  BY <1>1, <1>4, <1>5
<1> QED
  BY <1>1, <1>3, <1>6 DEF TextInv

LEMMA TextIdle ==
  ASSUME TextInv, UNCHANGED textVars, fa_stage # "ready", fa_stage' # "ready"
  PROVE  TextInv'
<1>1. UNCHANGED <<read_stage, text, text_idx, state_idx, recognized>>
  BY DEF textVars
<1>2. RecognizesFarthest'
  BY <1>1, FarthestIs DEF TextInv
<1> QED
  BY <1>1, <1>2 DEF TextInv

LEMMA ReadyStep ==
  ASSUME LexerInv, PlacedInv, TextInv, RowsDone
  PROVE  TextInv'
<1>1. /\ fa_stage = "rows" /\ fa_stage' = "ready" /\ UNCHANGED textVars
      /\ UNCHANGED <<terminals, states_array, fa_states, state_descrs>>
  BY DEF RowsDone, productVars
<1>2. /\ read_stage = "idle" /\ text_idx = 0 /\ state_idx = 1
      /\ UNCHANGED <<read_stage, text, text_idx, state_idx, recognized>>
  BY <1>1 DEF TextInv, textVars
<1>3. PICK w : w = SubSeq(text, 1, 0) /\ Len(w) = 0
  <2>1. text \in Seq(Chars) /\ 0 \in 0 .. Len(text)
    BY DEF TextInv
  <2> QED
    BY <2>1, PrefixIs
<1>4. /\ 1 \in DOMAIN fa_states /\ ToSet(state_descrs[1]) # {}
      /\ ToSet(state_descrs[1]) = ReadOver(terminals, states_array, w)
  BY <1>1, <1>3, StartIs
<1>5. ToSet(state_descrs'[state_idx']) = (ReadTo(SubSeq(text, 1, text_idx)))'
  <2>1. \A v : (ReadTo(v) = ReadOver(terminals, states_array, v))'
    BY ReadToIs
  <2> QED
    BY <1>1, <1>2, <1>3, <1>4, <2>1
<1>6. RecognizesFarthest'
  BY <1>2, FarthestIs
<1> QED
  BY <1>1, <1>2, <1>4, <1>5, <1>6 DEF TextInv

LEMMA StartTextStep ==
  ASSUME LexerInv, PlacedInv, TextInv, fa_stage = "ready", StartText,
         UNCHANGED <<fa_stage, terminals, states_array, state_descrs>>
  PROVE  TextInv'
<1>1. /\ read_stage = "idle" /\ text' \in Texts /\ read_stage' = "reading"
      /\ UNCHANGED <<fa_states, text_idx, state_idx, recognized>>
  BY DEF StartText, automatonVars
<1>2. text_idx = 0 /\ state_idx = 1
  BY <1>1 DEF TextInv
<1>3. text' \in Seq(Chars)
  <2>1. PICK n \in 0 .. TextMax : text' \in [1 .. n -> Chars]
    BY <1>1 DEF Texts
  <2> QED
    BY <2>1
<1>4. PICK w : w = SubSeq(text', 1, 0) /\ Len(w) = 0
  <2>1. 0 \in 0 .. Len(text')
    BY <1>3
  <2> QED
    BY <1>3, <2>1, PrefixIs
<1>5. /\ 1 \in DOMAIN fa_states /\ ToSet(state_descrs[1]) # {}
      /\ ToSet(state_descrs[1]) = ReadOver(terminals, states_array, w)
  BY <1>4, StartIs
<1>6. ToSet(state_descrs'[state_idx']) = (ReadTo(SubSeq(text, 1, text_idx)))'
  <2>1. \A v : (ReadTo(v) = ReadOver(terminals, states_array, v))'
    BY ReadToIs
  <2> QED
    BY <1>1, <1>2, <1>4, <1>5, <2>1
<1>7. RecognizesFarthest'
  BY <1>1, FarthestIs
<1>8. 0 \in 0 .. Len(text')
  BY <1>3
<1> QED
  BY <1>1, <1>2, <1>3, <1>5, <1>6, <1>7, <1>8 DEF TextInv

LEMMA StepTextStep ==
  ASSUME LexerInv, PlacedInv, TextInv, fa_stage = "ready", StepText,
         UNCHANGED <<fa_stage, terminals, states_array, state_descrs>>
  PROVE  TextInv'
<1>1. /\ read_stage = "reading" /\ NextState # NotExist /\ ~AtTextEnd
      /\ text_idx' = text_idx + 1 /\ state_idx' = NextState
      /\ UNCHANGED <<fa_states, read_stage, text, recognized>>
  BY DEF StepText, automatonVars
<1>2. PICK k : k = text_idx /\ k \in 0 .. Len(text) /\ k + 1 \in 0 .. Len(text)
               /\ k \in Nat /\ text \in Seq(Chars)
  BY <1>1 DEF TextInv, AtTextEnd
<1>3. PICK v, w : /\ v = SubSeq(text, 1, k) /\ w = SubSeq(text, 1, k + 1)
                  /\ Len(v) = k /\ Len(w) = k + 1
                  /\ w[k + 1] = text[k + 1] /\ \A i \in 1 .. k : w[i] = v[i]
  <2>1. \E v, w : OneApart(text, k, v, w)
    BY <1>2, PrefixesAre
  <2> QED
    BY <2>1 DEF OneApart
<1>4. InChar = w[k + 1]
  BY <1>1, <1>2, <1>3 DEF InChar
<1>5. NextState \in DOMAIN fa_states /\ ToSet(state_descrs[NextState]) # {}
  BY <1>1, NextStateIs
<1>6. AllApart => ToSet(state_descrs[NextState]) =
        StepOver(states_array, ReadOver(terminals, states_array, v), w[k + 1])
  BY <1>1, <1>2, <1>3, <1>4, NextStateIs
<1>7. ReadOver(terminals, states_array, w) =
        StepOver(states_array, ReadOver(terminals, states_array, v), w[k + 1])
  <2>1. k \in Nat /\ Len(v) = k /\ Len(w) = k + 1 /\ \A i \in 1 .. k : w[i] = v[i]
    BY <1>2, <1>3
  <2> QED
    BY ONLY <2>1, ReadOneMore
<1>8. AllApart' <=> AllApart
  BY AllApartStays
<1>9. AllApart' =>
        ToSet(state_descrs'[state_idx']) = (ReadTo(SubSeq(text, 1, text_idx)))'
  <2>1. \A x : (ReadTo(x) = ReadOver(terminals, states_array, x))'
    BY ReadToIs
  <2> QED
    BY <1>1, <1>2, <1>3, <1>6, <1>7, <1>8, <2>1
<1>10. RecognizesFarthest'
  BY <1>1, FarthestIs
<1> QED
  BY <1>1, <1>2, <1>5, <1>9, <1>10 DEF TextInv

(* The winner of the positions that a state stands for is its terminal. *)
LEMMA FinalIs ==
  ASSUME LexerInv, PlacedInv, NEW s \in DOMAIN fa_states
  PROVE  fa_states[s].final = WinnerOver(states_array, ToSet(state_descrs[s]))
<1>1. /\ fa_states[s].final = FinalFrom(states_array, state_descrs[s])
      /\ Ordered(state_descrs[s])
  BY DEF PlacedInv, StatePlaced
<1>2. PICK d, P : d = state_descrs[s] /\ P = ToSet(d) /\ d \in Seq(Places)
  BY DescrsAre DEF LexerInv
<1>3. FinalOf(d) = FinalFrom(states_array, d)
  <2>1. DOMAIN d = 1 .. Len(d)
    BY <1>2
  <2> QED
    BY <2>1, FinalOfIs
<1>4. FinalOf(d) = WinnerAt(P)
  BY <1>1, <1>2, WinnerIs
<1>5. WinnerAt(P) = WinnerOver(states_array, P)
  BY ReadToIs
<1> QED
  BY <1>1, <1>2, <1>3, <1>4, <1>5

LEMMA ReturnFinalStep ==
  ASSUME LexerInv, PlacedInv, TextInv, fa_stage = "ready", ReturnFinal,
         UNCHANGED <<fa_stage, terminals, states_array, state_descrs>>
  PROVE  TextInv'
<1>1. /\ read_stage = "reading"
      /\ \/ NextState = NotExist /\ recognized' = fa_states[state_idx].final
         \/ /\ NextState # NotExist /\ AtTextEnd
            /\ recognized' = fa_states[NextState].final
      /\ read_stage' = "returned"
      /\ UNCHANGED <<fa_states, text, text_idx, state_idx>>
  BY DEF ReturnFinal, automatonVars
<1>2. PICK k, L, seen : /\ k = text_idx /\ L = Len(text) /\ seen = Append(text, 0)
                        /\ k \in 0 .. L /\ L \in Nat /\ k \in Nat /\ text \in Seq(Chars)
  <2>1. text \in Seq(Chars) /\ text_idx \in 0 .. Len(text)
    BY DEF TextInv
  <2>2. Len(text) \in Nat /\ text_idx \in Nat
    BY <2>1
  <2> QED
    BY <2>1, <2>2
<1>3. 0 \in Chars
  BY CharCountAssumption DEF Chars
<1>4. /\ seen \in Seq(Chars) /\ Len(seen) = L + 1 /\ seen[L + 1] = 0
      /\ \A i \in 1 .. L : seen[i] = text[i]
  BY <1>2, <1>3
<1>5. InChar = seen[k + 1]
  <2>1. CASE k = L
    BY <1>2, <1>4, <2>1 DEF InChar, AtTextEnd
  <2>2. CASE k # L
    <3>1. k < L /\ k + 1 \in 1 .. L
      BY <1>2, <2>2
    <3> QED
      BY <1>2, <1>4, <3>1 DEF InChar, AtTextEnd
  <2> QED
    BY <2>1, <2>2
<1>6. PICK v, w : /\ v = SubSeq(seen, 1, k) /\ w = SubSeq(seen, 1, k + 1)
                  /\ Len(v) = k /\ Len(w) = k + 1
                  /\ w[k + 1] = seen[k + 1] /\ \A i \in 1 .. k : w[i] = v[i]
  <2>1. k + 1 \in 0 .. Len(seen)
    BY <1>2, <1>4
  <2>2. \E v, w : OneApart(seen, k, v, w)
    BY <1>2, <1>4, <2>1, PrefixesAre
  <2> QED
    BY <2>2 DEF OneApart
<1>7. v = SubSeq(text, 1, k)
  <2>1. PICK u : u = SubSeq(text, 1, k) /\ Len(u) = k /\ \A i \in 1 .. k : u[i] = text[i]
    BY <1>2, PrefixIs
  <2>2. \A i \in 1 .. k : v[i] = seen[i]
    <3>1. k \in 0 .. Len(seen)
      BY <1>2, <1>4
    <3> QED
      BY <1>4, <1>6, <3>1, PrefixIs
  <2>3. u \in Seq(Chars) /\ v \in Seq(Chars)
    BY <1>2, <1>4, <1>6, <2>1
  <2>4. \A i \in 1 .. k : u[i] = v[i]
    BY <1>2, <1>4, <2>1, <2>2
  <2> QED
    BY <1>2, <1>6, <2>1, <2>3, <2>4
<1> DEFINE After(x) == ReadOver(terminals, states_array, x)
<1>8. After(w) = StepOver(states_array, After(v), InChar)
  <2>1. k \in Nat /\ Len(v) = k /\ Len(w) = k + 1 /\ \A i \in 1 .. k : w[i] = v[i]
    BY <1>2, <1>6
  <2>2. After(w) = StepOver(states_array, After(v), w[k + 1])
    BY ONLY <2>1, ReadOneMore
  <2> QED
    BY <1>5, <1>6, <2>2
<1>9. ASSUME AllApart
      PROVE  Farthest(terminals, states_array, text, k, recognized')
  <2>1. /\ After(v) = ToSet(state_descrs[state_idx]) /\ After(v) # {}
        /\ state_idx \in DOMAIN fa_states
    <3>1. ToSet(state_descrs[state_idx]) = ReadTo(v)
      BY <1>2, <1>7, <1>9 DEF TextInv
    <3>2. ReadTo(v) = After(v)
      BY ReadToIs
    <3> QED
      BY <3>1, <3>2 DEF TextInv
  <2>2. IF NextState = NotExist THEN After(w) = {}
        ELSE ToSet(state_descrs[NextState]) = After(w)
    <3>1. SubSeq(text, 1, text_idx) = v
      BY <1>2, <1>7
    <3> QED
      BY <1>8, <1>9, <3>1, NextStateIs
  <2> HIDE DEF After
  <2>3. CASE NextState = NotExist
    <3>1. recognized' = WinnerOver(states_array, After(v))
      BY <1>1, <2>1, <2>3, FinalIs
    <3>2. k \in 0 .. Len(seen) /\ k # Len(seen)
      BY <1>2, <1>4
    <3>3. ReadsUpTo(terminals, states_array, text, k, recognized', k)
      BY <1>2, <1>6, <2>1, <2>2, <2>3, <3>1, <3>2 DEF ReadsUpTo, After
    <3> QED
      BY <1>2, <3>2, <3>3 DEF Farthest
  <2>4. CASE NextState # NotExist
    <3>1. k = L
      BY <1>1, <1>2, <2>4 DEF AtTextEnd
    <3>2. NextState \in DOMAIN fa_states /\ ToSet(state_descrs[NextState]) # {}
      BY <2>4, NextStateIs
    <3>3. recognized' = WinnerOver(states_array, After(w)) /\ After(w) # {}
      <4>1. PICK s : s = NextState
        OBVIOUS
      <4>2. fa_states[s].final = WinnerOver(states_array, ToSet(state_descrs[s]))
        BY <3>2, <4>1, FinalIs
      <4> QED
        BY <1>1, <2>2, <2>4, <3>2, <4>1, <4>2
    <3>4. k + 1 \in 0 .. Len(seen) /\ k + 1 = Len(seen)
      BY <1>2, <1>4, <3>1
    <3>5. ReadsUpTo(terminals, states_array, text, k, recognized', k + 1)
      <4>1. PICK n : n = k + 1 /\ n = Len(seen) /\ ~(n < Len(seen)) /\ Len(text) = k
        BY <1>2, <3>1, <3>4
      <4>2. PICK now : now = After(w)
        OBVIOUS
      <4>3. ReadOver(terminals, states_array, SubSeq(seen, 1, n)) = now
        BY <1>6, <4>1, <4>2 DEF After
      <4>4. now # {} /\ recognized' = WinnerOver(states_array, now)
        BY <3>3, <4>2
      <4>5. ReadsUpTo(terminals, states_array, text, k, recognized', n)
        BY <1>2, <4>1, <4>3, <4>4 DEF ReadsUpTo
      <4> QED
        BY <4>1, <4>5
    <3> QED
      BY <1>2, <3>4, <3>5 DEF Farthest
  <2> QED
    BY <2>3, <2>4
<1>10. AllApart' <=> AllApart
  BY AllApartStays
<1>11. RecognizesFarthest'
  <2>1. text' = text /\ text_idx' = k
    BY <1>1, <1>2
  <2> QED
    BY <1>9, <1>10, <2>1, FarthestIs
<1>12. AllApart' =>
         ToSet(state_descrs'[state_idx']) = (ReadTo(SubSeq(text, 1, text_idx)))'
  <2>1. \A x : (ReadTo(x) = ReadOver(terminals, states_array, x))'
    BY ReadToIs
  <2>2. AllApart => ToSet(state_descrs[state_idx]) =
                      ReadOver(terminals, states_array, SubSeq(text, 1, text_idx))
    BY ReadToIs DEF TextInv
  <2> QED
    BY <1>1, <1>10, <2>1, <2>2
<1> QED
  BY <1>1, <1>11, <1>12 DEF TextInv

LEMMA TextKeeps ==
  ASSUME LexerInv, PlacedInv, TextInv, [LexerNext]_lexerVars
  PROVE  TextInv'
<1>1. ASSUME \/ RegExpNext /\ UNCHANGED faVars
             \/ UNCHANGED lexerVars
      PROVE  TextInv'
  <2>1. UNCHANGED faVars
    BY <1>1 DEF lexerVars
  <2>2. UNCHANGED textVars
    BY <2>1 DEF faVars
  <2>3. UNCHANGED <<fa_stage, terminals, states_array, fa_states, state_descrs>>
    BY <2>1 DEF faVars, productVars
  <2> QED
    BY <2>2, <2>3, TextStays
<1>2. CASE \/ NextTerminal \/ RegExpError \/ StartProduct \/ TakeKnownState
           \/ TakeNewState \/ StartRows \/ FillRow
  <2>1. fa_stage # "ready" /\ fa_stage' # "ready" /\ UNCHANGED textVars
    BY <1>2 DEF NextTerminal, RegExpError, StartProduct, TakeKnownState, TakeNewState,
                StartRows, FillRow, InProduct
  <2> QED
    BY <2>1, TextIdle
<1>3. CASE RowsDone
  BY <1>3, ReadyStep
<1>4. CASE Recognize
  <2>1. /\ fa_stage = "ready" /\ RecNext
        /\ UNCHANGED <<fa_stage, terminals, states_array, state_descrs>>
    BY <1>4 DEF Recognize
  <2> QED
    BY <2>1, StartTextStep, StepTextStep, ReturnFinalStep DEF RecNext
<1> QED
  BY <1>1, <1>2, <1>3, <1>4 DEF LexerNext, FaNext

(* recognize (parser_code.cc:758-807) runs only on a finished automaton, and
   the state that it is in always stands for the positions that the characters
   it has read lead the automata of all the terminals to. *)
THEOREM RecognizeInvariant == LexerSpec => []RecognizeInv
<1>1. LexerInit => RecognizeInv
  <2> SUFFICES ASSUME LexerInit
               PROVE  RecognizeInv
    OBVIOUS
  <2>1. /\ fa_stage = "terminals" /\ fa_states = <<>> /\ fa_queue = <<>>
        /\ read_stage = "idle" /\ text = <<>> /\ text_idx = 0 /\ state_idx = 1
    BY DEF LexerInit, FaInit, RecInit
  <2>2. PlacedInv
    BY <2>1 DEF PlacedInv, ToSet
  <2>3. RecognizesFarthest
    BY <2>1, FarthestIs
  <2>4. TextInv
    BY <2>1, <2>3 DEF TextInv
  <2> QED
    BY <2>2, <2>4, LexerStarts DEF RecognizeInv
<1>2. RecognizeInv /\ [LexerNext]_lexerVars => RecognizeInv'
  BY LexerKeeps, PlacedKeeps, TextKeeps DEF RecognizeInv
<1> QED
  BY <1>1, <1>2, PTL DEF LexerSpec

(* recognize on the automaton that create_new (331-756) makes of the automata
   of all the terminals reads just as far as any of them goes on, and returns
   the terminal that wins where they stand then, for every list of expressions
   and every text. *)
THEOREM RecognizesTheFarthest == LexerSpec => []RecognizesFarthest
<1>1. RecognizeInv => RecognizesFarthest
  BY DEF RecognizeInv, TextInv
<1> QED
  BY <1>1, RecognizeInvariant, PTL

=============================================================================
