--------------------------- MODULE SequenceLemmas ---------------------------
(***************************************************************************)
(* What the proofs about arrays need of sequences: induction over their    *)
(* length, for sets in place of predicates, and what functions that refer  *)
(* to themselves compute of a sequence.                                    *)
(***************************************************************************)
EXTENDS Integers, SequencesExt, FiniteSetTheorems, TLAPS

(* Every nonempty set of natural numbers has a least element: of the
   intervals from zero to its elements, which are finite sets, one is in no
   other. *)
LEMMA LeastNat ==
  ASSUME NEW S \in SUBSET Nat, S # {}
  PROVE  \E x \in S : \A y \in S : x <= y
<1> DEFINE Fin == FiniteSubsetsOf(Nat)
           Below == {0 .. k : k \in S}
<1>1. ASSUME NEW k \in Nat
      PROVE  0 .. k \in Fin
  <2>1. IsFiniteSet(0 .. k)
    BY FS_Interval
  <2> QED
    BY <2>1 DEF FiniteSubsetsOf
<1>2. Below \subseteq Fin /\ Below # {}
  BY <1>1
<1>3. IsWellFoundedOn(StrictSubsetOrdering(Nat), Fin)
  BY FS_StrictSubsetOrderingWellFounded
<1>4. PICK least \in Below :
        \A x \in Below : <<x, least>> \notin StrictSubsetOrdering(Nat)
  <2> HIDE DEF Fin, Below
  <2> QED
    BY <1>2, <1>3, WFMin
<1>5. PICK k \in S : least = 0 .. k
  OBVIOUS
<1>6. ASSUME NEW y \in S, y < k
      PROVE  FALSE
  <2>1. 0 .. y \in Below /\ 0 .. y \in SUBSET Nat /\ 0 .. k \in SUBSET Nat
    OBVIOUS
  <2>2. 0 .. y \subseteq 0 .. k /\ 0 .. y # 0 .. k
    <3>1. k \in 0 .. k /\ k \notin 0 .. y
      BY <1>6
    <3> QED
      BY <1>6, <3>1
  <2> HIDE DEF Below
  <2>3. <<0 .. y, 0 .. k>> \in StrictSubsetOrdering(Nat)
    BY <2>1, <2>2 DEF StrictSubsetOrdering
  <2> QED
    BY <1>4, <1>5, <2>1, <2>3
<1> QED
  BY <1>6

(* Induction over the natural numbers, for a set in place of a predicate. *)
LEMMA SetInduction ==
  ASSUME NEW S, 0 \in S, \A n \in Nat : n \in S => n + 1 \in S
  PROVE  \A n \in Nat : n \in S
<1> SUFFICES ASSUME {n \in Nat : n \notin S} # {}
             PROVE  FALSE
  OBVIOUS
<1>1. PICK k \in Nat : k \notin S /\ \A y \in Nat : y \notin S => k <= y
  BY LeastNat
<1>2. k # 0 /\ k - 1 \in Nat /\ k = (k - 1) + 1
  BY <1>1
<1> QED
  BY <1>1, <1>2

-----------------------------------------------------------------------------
LEMMA AppendOne ==
  ASSUME NEW S, NEW s \in Seq(S), NEW e \in S
  PROVE  /\ s \o <<e>> = Append(s, e) /\ s \o <<>> = s /\ <<>> \o s = s
         /\ <<e>> \in Seq(S) /\ Append(s, e) \in Seq(S)
OBVIOUS

LEMMA ConcatInSeq ==
  ASSUME NEW S, NEW s \in Seq(S), NEW t \in Seq(S), NEW e \in S
  PROVE  s \o t \in Seq(S) /\ s \o Append(t, e) = Append(s \o t, e)
OBVIOUS

LEMMA ConcatAt ==
  ASSUME NEW S, NEW s \in Seq(S), NEW t \in Seq(S)
  PROVE  /\ s \o t \in Seq(S)
         /\ Len(s) \in Nat /\ Len(t) \in Nat /\ Len(s \o t) = Len(s) + Len(t)
         /\ \A i \in 1 .. Len(s) : (s \o t)[i] = s[i]
         /\ \A i \in 1 .. Len(t) : (s \o t)[Len(s) + i] = t[i]
OBVIOUS

LEMMA ToSetConcat ==
  ASSUME NEW S, NEW s \in Seq(S), NEW t \in Seq(S)
  PROVE  ToSet(s \o t) = ToSet(s) \union ToSet(t)
<1>1. PICK n, m, st : n = Len(s) /\ m = Len(t) /\ st = s \o t
  OBVIOUS
<1>2. /\ n \in Nat /\ m \in Nat /\ Len(st) = n + m /\ st \in Seq(S)
      /\ \A i \in 1 .. n : st[i] = s[i]
      /\ \A i \in 1 .. m : st[n + i] = t[i]
  BY <1>1, ConcatAt
<1>3. /\ ToSet(s) = {s[i] : i \in 1 .. n} /\ ToSet(t) = {t[i] : i \in 1 .. m}
      /\ ToSet(st) = {st[i] : i \in 1 .. n + m}
  <2>1. DOMAIN s = 1 .. n /\ DOMAIN t = 1 .. m /\ DOMAIN st = 1 .. n + m
    BY <1>1, <1>2
  <2> QED
    BY <2>1 DEF ToSet
<1>4. ToSet(s) \subseteq ToSet(st)
  BY <1>2, <1>3
<1>5. ToSet(t) \subseteq ToSet(st)
  <2>1. \A i \in 1 .. m : n + i \in 1 .. n + m
    BY <1>2
  <2> QED
    BY <1>2, <1>3, <2>1
<1>6. ASSUME NEW i \in 1 .. n + m
      PROVE  st[i] \in ToSet(s) \union ToSet(t)
  <2>1. CASE i <= n
    BY <1>2, <1>3, <2>1
  <2>2. CASE ~(i <= n)
    <3>1. i - n \in 1 .. m /\ n + (i - n) = i
      BY <1>2, <2>2
    <3>2. st[n + (i - n)] = t[i - n]
      BY <1>2, <3>1
    <3> QED
      BY <1>3, <3>1, <3>2
  <2> QED
    BY <2>1, <2>2
<1> QED
  BY <1>1, <1>3, <1>4, <1>5, <1>6

LEMMA AppendNotEmpty ==
  ASSUME NEW T, NEW s \in Seq(T), NEW e \in T
  PROVE  Append(s, e) # <<>>
<1>1. Len(Append(s, e)) = Len(s) + 1 /\ Len(s) \in Nat /\ Len(<<>>) = 0
  OBVIOUS
<1>2. PICK n : n = Len(s)
  OBVIOUS
<1>3. n + 1 # 0
  BY <1>1, <1>2
<1> QED
  BY <1>1, <1>2, <1>3

LEMMA ToSetAppend ==
  ASSUME NEW T, NEW s \in Seq(T), NEW e \in T
  PROVE  ToSet(Append(s, e)) = ToSet(s) \union {e}
<1>1. PICK n, more : n = Len(s) /\ more = Append(s, e)
  OBVIOUS
<1>2. /\ n \in Nat /\ DOMAIN s = 1 .. n /\ DOMAIN more = 1 .. n + 1
      /\ more[n + 1] = e /\ \A i \in 1 .. n : more[i] = s[i]
  BY <1>1
<1>3. \A i : i \in 1 .. n + 1 <=> i \in 1 .. n \/ i = n + 1
  BY <1>2
<1> QED
  BY <1>1, <1>2, <1>3 DEF ToSet

LEMMA InjectiveAppend ==
  ASSUME NEW T, NEW s \in Seq(T), NEW e \in T, IsInjective(s), e \notin ToSet(s)
  PROVE  IsInjective(Append(s, e))
<1>1. PICK n, more : n = Len(s) /\ more = Append(s, e)
  OBVIOUS
<1>2. /\ n \in Nat /\ DOMAIN s = 1 .. n /\ DOMAIN more = 1 .. n + 1
      /\ more[n + 1] = e /\ \A i \in 1 .. n : more[i] = s[i] /\ s[i] # e
  BY <1>1 DEF ToSet
<1>3. \A i, j \in 1 .. n : s[i] = s[j] => i = j
  BY <1>2 DEF IsInjective
<1>4. \A i \in 1 .. n + 1 : i \in 1 .. n \/ i = n + 1
  BY <1>2
<1>5. \A i, j \in 1 .. n + 1 : more[i] = more[j] => i = j
  BY <1>2, <1>3, <1>4
<1> QED
  BY <1>1, <1>2, <1>5 DEF IsInjective

-----------------------------------------------------------------------------
(* FlattenSeq, whose definition is a function that refers to itself: there is
   such a function, and it is the only one. *)
Flattens(f, seqs, n) ==
  f = [i \in 1 .. n |-> IF i = 1 THEN seqs[i] ELSE f[i - 1] \o seqs[i]]

LEMMA FlatteningStep ==
  ASSUME NEW seqs, NEW n \in Nat, NEW f, Flattens(f, seqs, n), NEW i \in 1 .. n
  PROVE  f[i] = IF i = 1 THEN seqs[i] ELSE f[i - 1] \o seqs[i]
<1> DEFINE F(g) == [j \in 1 .. n |-> IF j = 1 THEN seqs[j] ELSE g[j - 1] \o seqs[j]]
<1>1. f = F(f)
  BY DEF Flattens
<1>2. F(f)[i] = IF i = 1 THEN seqs[i] ELSE f[i - 1] \o seqs[i]
  OBVIOUS
<1> HIDE DEF F
<1> QED
  BY <1>1, <1>2

LEMMA FlatteningExists ==
  ASSUME NEW seqs, NEW n \in Nat
  PROVE  \E f : Flattens(f, seqs, n)
<1> DEFINE S == {k \in Nat : \E f : Flattens(f, seqs, k)}
<1>1. 0 \in S
  <2>1. Flattens([i \in 1 .. 0 |-> {}], seqs, 0)
    BY DEF Flattens
  <2> QED
    BY <2>1
<1>2. ASSUME NEW k \in Nat, k \in S
      PROVE  k + 1 \in S
  <2>1. PICK f : Flattens(f, seqs, k)
    BY <1>2
  <2> DEFINE g == [i \in 1 .. k + 1 |->
                     IF i = 1 THEN seqs[i] ELSE f[i - 1] \o seqs[i]]
  <2>2. ASSUME NEW i \in 1 .. k
        PROVE  g[i] = f[i]
    <3>1. f[i] = IF i = 1 THEN seqs[i] ELSE f[i - 1] \o seqs[i]
      BY <2>1, FlatteningStep
    <3> QED
      BY <3>1
  <2>3. ASSUME NEW i \in 1 .. k + 1
        PROVE  g[i] = IF i = 1 THEN seqs[i] ELSE g[i - 1] \o seqs[i]
    <3>1. CASE i = 1
      BY <3>1
    <3>2. CASE i # 1
      <4>1. i - 1 \in 1 .. k
        BY <3>2
      <4> QED
        BY <2>2, <3>2, <4>1
    <3> QED
      BY <3>1, <3>2
  <2>4. Flattens(g, seqs, k + 1)
    BY <2>3 DEF Flattens
  <2> QED
    BY <2>4
<1> HIDE DEF S
<1>3. \A k \in Nat : k \in S
  BY <1>1, <1>2, SetInduction
<1> QED
  BY <1>3 DEF S

LEMMA FlatteningUnique ==
  ASSUME NEW seqs, NEW more, NEW n \in Nat, NEW m \in Nat, n <= m, NEW f, NEW g,
         \A i \in 1 .. n : seqs[i] = more[i],
         Flattens(f, seqs, n), Flattens(g, more, m)
  PROVE  \A i \in 1 .. n : f[i] = g[i]
<1> DEFINE S == {k \in Nat : k \in 1 .. n => f[k] = g[k]}
<1>1. 0 \in S
  OBVIOUS
<1>2. ASSUME NEW k \in Nat, k \in S
      PROVE  k + 1 \in S
  <2> SUFFICES ASSUME k + 1 \in 1 .. n
               PROVE  f[k + 1] = g[k + 1]
    OBVIOUS
  <2>1. k + 1 \in 1 .. m /\ seqs[k + 1] = more[k + 1]
    OBVIOUS
  <2>2. CASE k = 0
    BY <2>1, <2>2 DEF Flattens
  <2>3. CASE k # 0
    <3>1. f[k] = g[k]
      BY <1>2, <2>3
    <3>2. f[k + 1] = f[k] \o seqs[k + 1]
      <4>1. f[k + 1] = IF k + 1 = 1 THEN seqs[k + 1] ELSE f[(k + 1) - 1] \o seqs[k + 1]
        BY FlatteningStep
      <4>2. (k + 1) - 1 = k /\ k + 1 # 1
        BY <2>3
      <4> QED
        BY <4>1, <4>2
    <3>3. g[k + 1] = g[k] \o more[k + 1]
      <4>1. g[k + 1] = IF k + 1 = 1 THEN more[k + 1] ELSE g[(k + 1) - 1] \o more[k + 1]
        BY <2>1, FlatteningStep
      <4>2. (k + 1) - 1 = k /\ k + 1 # 1
        BY <2>3
      <4> QED
        BY <4>1, <4>2
    <3> QED
      BY <2>1, <3>1, <3>2, <3>3
  <2> QED
    BY <2>2, <2>3
<1> HIDE DEF S
<1>3. \A k \in Nat : k \in S
  BY <1>1, <1>2, SetInduction
<1> QED
  BY <1>3 DEF S

LEMMA FlattenIs ==
  ASSUME NEW seqs, Len(seqs) \in Nat \ {0}
  PROVE  \E f : Flattens(f, seqs, Len(seqs)) /\ FlattenSeq(seqs) = f[Len(seqs)]
<1> DEFINE f == CHOOSE f : Flattens(f, seqs, Len(seqs))
<1>1. Flattens(f, seqs, Len(seqs))
  BY FlatteningExists
<1>2. FlattenSeq(seqs) = f[Len(seqs)]
  BY DEF FlattenSeq, Flattens
<1> QED
  BY <1>1, <1>2

LEMMA FlattenEmpty == FlattenSeq(<<>>) = <<>>
BY DEF FlattenSeq

(* Flattening one sequence more adds it at the end. *)
LEMMA FlattenAppend ==
  ASSUME NEW S, NEW seqs \in Seq(Seq(S)), NEW s \in Seq(S)
  PROVE  /\ FlattenSeq(seqs) \in Seq(S)
         /\ FlattenSeq(Append(seqs, s)) = FlattenSeq(seqs) \o s
<1> DEFINE more == Append(seqs, s)
           n == Len(seqs)
<1>1. /\ n \in Nat /\ Len(more) = n + 1 /\ n + 1 \in Nat \ {0}
      /\ more[n + 1] = s
      /\ \A i \in 1 .. n : seqs[i] = more[i] /\ seqs[i] \in Seq(S)
  OBVIOUS
<1>2. PICK g : Flattens(g, more, n + 1) /\ FlattenSeq(more) = g[n + 1]
  <2> HIDE DEF more, n
  <2> QED
    BY <1>1, FlattenIs
<1> HIDE DEF more
<1>3. g[n + 1] = IF n + 1 = 1 THEN s ELSE g[(n + 1) - 1] \o s
  <2>1. n + 1 \in 1 .. n + 1
    BY <1>1
  <2> HIDE DEF n
  <2> QED
    BY <1>1, <1>2, <2>1, FlatteningStep
<1>4. CASE n = 0
  <2>1. seqs = <<>> /\ n + 1 = 1
    BY <1>4
  <2>2. FlattenSeq(more) = s
    <3> HIDE DEF n
    <3> QED
      BY <1>2, <1>3, <2>1
  <2>3. <<>> \o s = s /\ <<>> \in Seq(S)
    OBVIOUS
  <2> QED
    BY <2>1, <2>2, <2>3, FlattenEmpty DEF more
<1>5. CASE n # 0
  <2>1. PICK f : Flattens(f, seqs, n) /\ FlattenSeq(seqs) = f[n]
    BY <1>5, FlattenIs
  <2>2. f[n] = g[n]
    <3> HIDE DEF n
    <3>1. n <= n + 1 /\ n \in 1 .. n
      BY <1>1, <1>5
    <3>2. \A i \in 1 .. n : f[i] = g[i]
      <4>1. \A i \in 1 .. n : seqs[i] = more[i]
        BY <1>1
      <4>2. n \in Nat /\ n + 1 \in Nat
        BY <1>1
      <4> QED
        BY <1>2, <2>1, <3>1, <4>1, <4>2, FlatteningUnique
    <3> QED
      BY <3>1, <3>2
  <2> DEFINE T == {k \in Nat : k \in 1 .. n => f[k] \in Seq(S)}
  <2>3. 0 \in T
    OBVIOUS
  <2>4. ASSUME NEW k \in Nat, k \in T
        PROVE  k + 1 \in T
    <3> SUFFICES ASSUME k + 1 \in 1 .. n
                 PROVE  f[k + 1] \in Seq(S)
      OBVIOUS
    <3>1. f[k + 1] = IF k + 1 = 1 THEN seqs[k + 1] ELSE f[(k + 1) - 1] \o seqs[k + 1]
      BY <2>1, FlatteningStep
    <3>2. seqs[k + 1] \in Seq(S)
      BY <1>1
    <3>3. k # 0 => f[k] \in Seq(S)
      BY <2>4
    <3> QED
      BY <3>1, <3>2, <3>3
  <2> HIDE DEF T
  <2>5. n \in T
    BY <1>1, <2>3, <2>4, SetInduction
  <2> QED
    BY <1>1, <1>2, <1>3, <1>5, <2>1, <2>2, <2>5 DEF T, more
<1> QED
  BY <1>1, <1>4, <1>5

LEMMA ConcatsAssociate ==
  ASSUME NEW S, NEW a \in Seq(S), NEW b \in Seq(S), NEW c \in Seq(S)
  PROVE  (a \o b) \o c = a \o (b \o c)
OBVIOUS
-----------------------------------------------------------------------------
(* Functions that keep some elements of a sequence: those that end one of the
   sequences K, when the rest is cut off. *)
KeepStep(d, t, K) ==
  IF t = <<>> THEN <<>>
  ELSE IF t \in K THEN Append(d[Front(t)], Last(t)) ELSE d[Front(t)]

ShortSeq(S, n) == {t \in Seq(S) : Len(t) <= n}

Keeps(d, D, K) == d = [t \in D |-> KeepStep(d, t, K)]

(* A sequence is empty, or its front with its last element added. *)
LEMMA FrontAndLast ==
  ASSUME NEW S, NEW t \in Seq(S), t # <<>>
  PROVE  /\ Front(t) \in Seq(S) /\ Last(t) \in S
         /\ Len(t) \in Nat \ {0} /\ Len(Front(t)) = Len(t) - 1
         /\ t = Append(Front(t), Last(t))
<1>1. PICK n : n = Len(t) /\ n \in Nat \ {0}
  OBVIOUS
<1>2. PICK front : front = SubSeq(t, 1, n - 1)
  OBVIOUS
<1>3. /\ front \in Seq(S) /\ Len(front) = n - 1 /\ t[n] \in S
      /\ \A i \in 1 .. n - 1 : front[i] = t[i]
  BY <1>1, <1>2
<1>4. PICK more : more = Append(front, t[n])
  OBVIOUS
<1>5. /\ more \in Seq(S) /\ Len(more) = n /\ more[n] = t[n]
      /\ \A i \in 1 .. n - 1 : more[i] = t[i]
  BY <1>1, <1>3, <1>4
<1>6. \A i \in 1 .. n : more[i] = t[i]
  BY <1>1, <1>5
<1>7. more = t
  BY <1>1, <1>5, <1>6
<1> QED
  BY <1>1, <1>2, <1>3, <1>4, <1>7 DEF Front, Last

LEMMA KeepsAt ==
  ASSUME NEW D, NEW K, NEW d, Keeps(d, D, K), NEW t \in D
  PROVE  d[t] = KeepStep(d, t, K)
<1> DEFINE F(g) == [u \in D |-> KeepStep(g, u, K)]
<1>1. d = F(d)
  BY DEF Keeps
<1>2. F(d)[t] = KeepStep(d, t, K)
  OBVIOUS
<1> HIDE DEF F
<1> QED
  BY <1>1, <1>2

LEMMA ShorterSeq ==
  ASSUME NEW S, NEW n \in Nat, NEW t \in ShortSeq(S, n + 1), t # <<>>
  PROVE  Front(t) \in ShortSeq(S, n)
<1>1. t \in Seq(S) /\ Len(t) <= n + 1
  BY DEF ShortSeq
<1>2. Front(t) \in Seq(S) /\ Len(t) \in Nat /\ Len(Front(t)) = Len(t) - 1
  BY <1>1, FrontAndLast
<1> QED
  BY <1>1, <1>2 DEF ShortSeq

LEMMA KeepsShort ==
  ASSUME NEW S, NEW K, NEW n \in Nat
  PROVE  \E g : Keeps(g, ShortSeq(S, n), K)
<1> DEFINE P == {k \in Nat : \E g : Keeps(g, ShortSeq(S, k), K)}
<1>1. 0 \in P
  <2> DEFINE g == [t \in ShortSeq(S, 0) |-> <<>>]
  <2>1. ASSUME NEW t \in ShortSeq(S, 0)
        PROVE  t = <<>>
    <3>1. t \in Seq(S) /\ Len(t) <= 0
      BY DEF ShortSeq
    <3> QED
      BY <3>1
  <2>2. \A t \in ShortSeq(S, 0) : KeepStep(g, t, K) = <<>>
    BY <2>1 DEF KeepStep
  <2>3. Keeps(g, ShortSeq(S, 0), K)
    BY <2>2 DEF Keeps
  <2> QED
    BY <2>3
<1>2. ASSUME NEW k \in Nat, k \in P
      PROVE  k + 1 \in P
  <2>1. PICK g : Keeps(g, ShortSeq(S, k), K)
    BY <1>2
  <2> DEFINE h == [t \in ShortSeq(S, k + 1) |-> KeepStep(g, t, K)]
  <2>2. ASSUME NEW t \in ShortSeq(S, k)
        PROVE  h[t] = g[t]
    <3>1. t \in ShortSeq(S, k + 1)
      BY DEF ShortSeq
    <3>2. g[t] = KeepStep(g, t, K)
      BY <2>1, KeepsAt
    <3> QED
      BY <3>1, <3>2
  <2>3. ASSUME NEW t \in ShortSeq(S, k + 1)
        PROVE  KeepStep(h, t, K) = KeepStep(g, t, K)
    <3>1. CASE t = <<>>
      BY <3>1 DEF KeepStep
    <3>2. CASE t # <<>>
      <4>1. h[Front(t)] = g[Front(t)]
        <5>1. Front(t) \in ShortSeq(S, k)
          BY <3>2, ShorterSeq
        <5> HIDE DEF h
        <5> QED
          BY <2>2, <5>1
      <4> HIDE DEF h
      <4> QED
        BY <4>1 DEF KeepStep
    <3> QED
      BY <3>1, <3>2
  <2>4. Keeps(h, ShortSeq(S, k + 1), K)
    <3>1. h = [t \in ShortSeq(S, k + 1) |-> KeepStep(h, t, K)]
      BY <2>3
    <3> HIDE DEF h
    <3> QED
      BY <3>1 DEF Keeps
  <2> HIDE DEF h
  <2> QED
    BY <2>4
<1> HIDE DEF P
<1>3. \A k \in Nat : k \in P
  BY <1>1, <1>2, SetInduction
<1> QED
  BY <1>3 DEF P

LEMMA KeepsUnique ==
  ASSUME NEW S, NEW K, NEW n \in Nat, NEW m \in Nat, NEW g, NEW h,
         Keeps(g, ShortSeq(S, n), K), Keeps(h, ShortSeq(S, m), K), n <= m
  PROVE  \A t \in ShortSeq(S, n) : g[t] = h[t]
<1> DEFINE P == {k \in Nat : k <= n => \A t \in ShortSeq(S, k) : g[t] = h[t]}
<1>0. ASSUME NEW k \in Nat, k <= n, NEW t \in ShortSeq(S, k)
      PROVE  /\ t \in ShortSeq(S, n) /\ t \in ShortSeq(S, m)
             /\ g[t] = KeepStep(g, t, K) /\ h[t] = KeepStep(h, t, K)
  <2>1. t \in Seq(S) /\ Len(t) <= k
    BY <1>0 DEF ShortSeq
  <2>2. Len(t) \in Nat
    BY <2>1
  <2>3. t \in ShortSeq(S, n) /\ t \in ShortSeq(S, m)
    BY <1>0, <2>1, <2>2 DEF ShortSeq
  <2> QED
    BY <2>3, KeepsAt
<1>1. 0 \in P
  <2>1. ASSUME NEW t \in ShortSeq(S, 0)
        PROVE  g[t] = h[t]
    <3>1. t \in Seq(S) /\ Len(t) <= 0
      BY DEF ShortSeq
    <3>2. t = <<>>
      BY <3>1
    <3>3. g[t] = KeepStep(g, t, K) /\ h[t] = KeepStep(h, t, K)
      BY <1>0
    <3> QED
      BY <3>2, <3>3 DEF KeepStep
  <2> QED
    BY <2>1
<1>2. ASSUME NEW k \in Nat, k \in P
      PROVE  k + 1 \in P
  <2> SUFFICES ASSUME k + 1 <= n, NEW t \in ShortSeq(S, k + 1)
               PROVE  g[t] = h[t]
    OBVIOUS
  <2>1. g[t] = KeepStep(g, t, K) /\ h[t] = KeepStep(h, t, K)
    BY <1>0
  <2>2. CASE t = <<>>
    BY <2>1, <2>2 DEF KeepStep
  <2>3. CASE t # <<>>
    <3>1. Front(t) \in ShortSeq(S, k)
      BY <2>3, ShorterSeq
    <3>2. g[Front(t)] = h[Front(t)]
      BY <1>2, <3>1
    <3> QED
      BY <2>1, <3>2 DEF KeepStep
  <2> QED
    BY <2>2, <2>3
<1> HIDE DEF P
<1>3. n \in P
  BY <1>1, <1>2, SetInduction
<1> QED
  BY <1>3 DEF P

LEMMA KeepsExists ==
  ASSUME NEW S, NEW K
  PROVE  \E d : Keeps(d, Seq(S), K)
<1> DEFINE g(n) == CHOOSE g : Keeps(g, ShortSeq(S, n), K)
           d == [t \in Seq(S) |-> g(Len(t))[t]]
<1>1. ASSUME NEW n \in Nat
      PROVE  Keeps(g(n), ShortSeq(S, n), K)
  BY KeepsShort
<1>2. ASSUME NEW t \in Seq(S)
      PROVE  KeepStep(g(Len(t)), t, K) = KeepStep(d, t, K)
  <2>1. CASE t = <<>>
    BY <2>1 DEF KeepStep
  <2>2. CASE t # <<>>
    <3> DEFINE n == Len(Front(t))
    <3>1. /\ Front(t) \in Seq(S) /\ n \in Nat /\ Len(t) \in Nat /\ n <= Len(t)
      BY <2>2, FrontAndLast
    <3>2. Front(t) \in ShortSeq(S, n)
      BY <3>1 DEF ShortSeq
    <3>3. g(n)[Front(t)] = g(Len(t))[Front(t)]
      <4>1. Keeps(g(n), ShortSeq(S, n), K) /\ Keeps(g(Len(t)), ShortSeq(S, Len(t)), K)
        BY <1>1, <3>1
      <4> HIDE DEF n, g
      <4> QED
        BY <3>1, <3>2, <4>1, KeepsUnique
    <3>4. d[Front(t)] = g(n)[Front(t)]
      BY <3>1
    <3> HIDE DEF g, d, n
    <3> QED
      BY <3>3, <3>4 DEF KeepStep
  <2> QED
    BY <2>1, <2>2
<1>3. ASSUME NEW t \in Seq(S)
      PROVE  g(Len(t))[t] = KeepStep(d, t, K)
  <2>1. Len(t) \in Nat /\ t \in ShortSeq(S, Len(t))
    BY DEF ShortSeq
  <2>2. Keeps(g(Len(t)), ShortSeq(S, Len(t)), K)
    BY <1>1, <2>1
  <2> HIDE DEF g, d
  <2> QED
    BY <1>2, <2>1, <2>2, KeepsAt
<1>4. d = [t \in Seq(S) |-> KeepStep(d, t, K)]
  <2>1. \A t \in Seq(S) : g(Len(t))[t] = KeepStep(d, t, K)
    BY <1>3
  <2> QED
    BY <2>1
<1> HIDE DEF d
<1> QED
  BY <1>4 DEF Keeps

LEMMA HeadAndTail ==
  ASSUME NEW S, NEW t \in Seq(S), t # <<>>
  PROVE  /\ Head(t) \in S /\ Tail(t) \in Seq(S)
         /\ ToSet(t) = {Head(t)} \union ToSet(Tail(t))
<1>1. PICK n, rest : n = Len(t) /\ rest = Tail(t)
  OBVIOUS
<1>2. /\ n \in Nat \ {0} /\ rest \in Seq(S) /\ Len(rest) = n - 1
      /\ \A i \in 1 .. n - 1 : rest[i] = t[i + 1]
      /\ Head(t) = t[1] /\ t[1] \in S
  BY <1>1
<1>3. DOMAIN t = 1 .. n /\ DOMAIN rest = 1 .. n - 1
  BY <1>1, <1>2
<1>4. ToSet(t) = {t[i] : i \in 1 .. n} /\ ToSet(rest) = {rest[i] : i \in 1 .. n - 1}
  BY <1>3 DEF ToSet
<1>5. ASSUME NEW i \in 1 .. n
      PROVE  t[i] \in {Head(t)} \union ToSet(rest)
  <2>1. CASE i = 1
    BY <1>2, <2>1
  <2>2. CASE i # 1
    <3>1. i - 1 \in 1 .. n - 1 /\ (i - 1) + 1 = i
      BY <1>2, <2>2
    <3>2. rest[i - 1] = t[(i - 1) + 1]
      BY <1>2, <3>1
    <3> QED
      BY <1>4, <3>1, <3>2
  <2> QED
    BY <2>1, <2>2
<1>6. ASSUME NEW i \in 1 .. n - 1
      PROVE  rest[i] \in ToSet(t)
  <2>1. i + 1 \in 1 .. n
    BY <1>2
  <2> QED
    BY <1>2, <1>4, <2>1
<1>7. Head(t) \in ToSet(t)
  <2>1. 1 \in 1 .. n
    BY <1>2
  <2> QED
    BY <1>2, <1>4, <2>1
<1> QED
  BY <1>1, <1>2, <1>4, <1>5, <1>6, <1>7

(* A sequence without repetition has as many elements as its length says. *)
LEMMA InjectiveCount ==
  ASSUME NEW S, NEW s \in Seq(S), IsInjective(s)
  PROVE  IsFiniteSet(ToSet(s)) /\ Cardinality(ToSet(s)) = Len(s)
<1>1. PICK n : n = Len(s) /\ n \in Nat
  OBVIOUS
<1>2. DOMAIN s = 1 .. n /\ s = [i \in 1 .. n |-> s[i]]
  BY <1>1
<1>3. s \in [1 .. n -> ToSet(s)]
  BY <1>2 DEF ToSet
<1>4. s \in Bijection(1 .. n, ToSet(s))
  <2>1. \A a, b \in 1 .. n : s[a] = s[b] => a = b
    BY <1>2 DEF IsInjective
  <2>2. \A e \in ToSet(s) : \E i \in 1 .. n : s[i] = e
    BY <1>2 DEF ToSet
  <2> QED
    BY <1>3, <2>1, <2>2 DEF Bijection, Injection, Surjection, IsInjective
<1>5. ExistsBijection(1 .. n, ToSet(s))
  BY <1>4 DEF ExistsBijection
<1>6. IsFiniteSet(1 .. n) /\ Cardinality(1 .. n) = n
  <2>1. PICK a : a = 1
    OBVIOUS
  <2>2. a \in Int /\ n \in Int
    BY <1>1, <2>1
  <2>3. /\ IsFiniteSet(a .. n)
        /\ Cardinality(a .. n) = IF a > n THEN 0 ELSE n - a + 1
    BY <2>2, FS_Interval
  <2> QED
    BY <1>1, <2>1, <2>3
<1> QED
  BY <1>1, <1>5, <1>6, FS_Bijection

LEMMA FlattenToSet ==
  ASSUME NEW S, NEW seqs \in Seq(Seq(S))
  PROVE  /\ FlattenSeq(seqs) \in Seq(S)
         /\ ToSet(FlattenSeq(seqs)) = UNION {ToSet(t) : t \in ToSet(seqs)}
<1> DEFINE R == Seq(S)
           Good(q) == ToSet(FlattenSeq(q)) = UNION {ToSet(t) : t \in ToSet(q)}
           P == {n \in Nat : \A q \in Seq(R) : Len(q) = n => Good(q)}
<1>1. ToSet(<<>>) = {}
  BY DEF ToSet
<1>2. 0 \in P
  <2>1. ASSUME NEW q \in Seq(R), Len(q) = 0
        PROVE  Good(q)
    <3>1. q = <<>>
      BY <2>1
    <3> QED
      BY <1>1, <3>1, FlattenEmpty
  <2> HIDE DEF Good
  <2> QED
    BY <2>1
<1>3. ASSUME NEW n \in Nat, n \in P
      PROVE  n + 1 \in P
  <2>1. ASSUME NEW q \in Seq(R), Len(q) = n + 1
        PROVE  Good(q)
    <3>0. q # <<>>
      BY <2>1
    <3>1. PICK u, e : /\ u = Front(q) /\ e = Last(q)
                      /\ u \in Seq(R) /\ e \in R /\ Len(u) = n /\ q = Append(u, e)
      <4>1. /\ Front(q) \in Seq(R) /\ Last(q) \in R /\ Len(Front(q)) = Len(q) - 1
            /\ q = Append(Front(q), Last(q))
        BY <3>0, FrontAndLast
      <4> QED
        BY <2>1, <4>1
    <3>2. Good(u)
      BY <1>3, <3>1
    <3>3. ToSet(q) = ToSet(u) \cup {e}
      <4> HIDE DEF R
      <4>1. ToSet(Append(u, e)) = ToSet(u) \cup {e}
        BY <3>1, ToSetAppend
      <4> QED
        BY <3>1, <4>1
    <3>4. FlattenSeq(u) \in Seq(S) /\ FlattenSeq(q) = FlattenSeq(u) \o e /\ e \in Seq(S)
      BY <3>1, FlattenAppend
    <3>5. ToSet(FlattenSeq(q)) = ToSet(FlattenSeq(u)) \cup ToSet(e)
      BY <3>4, ToSetConcat
    <3> QED
      BY <3>2, <3>3, <3>5
  <2> HIDE DEF Good
  <2> QED
    BY <2>1
<1> HIDE DEF P
<1>4. \A n \in Nat : n \in P
  BY <1>2, <1>3, SetInduction
<1>5. Len(seqs) \in P
  BY <1>4
<1>6. FlattenSeq(seqs) \in Seq(S)
  <2>1. <<>> \in Seq(S)
    OBVIOUS
  <2> QED
    BY <2>1, FlattenAppend
<1> QED
  BY <1>5, <1>6 DEF P
=============================================================================
