---------------------------- MODULE InductionLemmas ----------------------------
(***************************************************************************)
(* Lemmas the proofs about lists rest on: induction over the naturals in   *)
(* the form of a set closed under successor, and what FlattenSeq returns   *)
(* on every list of lists.                                                 *)
(***************************************************************************)
EXTENDS Integers, Sequences, SequencesExt, SequenceTheorems, FiniteSetTheorems,
        WellFoundedInduction, TLAPS

\* Induction without a predicate as a parameter: a set of naturals that holds 0
\* and the successor of each of its elements holds all of them.  Were one
\* missing, the intervals 0..n of the missing n would have one with no smaller
\* one inside it, and its end would be the successor of an element.
LEMMA SetInduction ==
  ASSUME NEW S \in SUBSET Nat, 0 \in S, \A n \in S : n + 1 \in S
  PROVE  S = Nat
<1>1. SUFFICES ASSUME Nat \ S # {} PROVE FALSE
  OBVIOUS
<1> DEFINE T == {0..n : n \in Nat \ S}
<1>2. IsWellFoundedOn(StrictSubsetOrdering(Nat), FiniteSubsetsOf(Nat))
  BY FS_StrictSubsetOrderingWellFounded
<1>3. T # {} /\ T \subseteq FiniteSubsetsOf(Nat)
  <2>1. \A n \in Nat : IsFiniteSet(0..n)
    BY FS_Interval
  <2> QED BY <2>1, <1>1 DEF FiniteSubsetsOf
<1>4. PICK t \in T : \A u \in T : ~(<<u, t>> \in StrictSubsetOrdering(Nat))
  <2> HIDE DEF T
  <2> QED BY <1>2, <1>3, WFMin
<1>5. PICK x \in Nat \ S : t = 0..x
  OBVIOUS
<1>6. x # 0 /\ x - 1 \in Nat \ S
  <2>1. x # 0 /\ x - 1 \in Nat
    BY SMT
  <2>2. (x - 1) + 1 = x
    OBVIOUS
  <2> QED BY <2>1, <2>2
<1>7. 0..(x - 1) \in T
  BY <1>6
<1>8. <<0..(x - 1), t>> \in StrictSubsetOrdering(Nat)
  BY <1>5, <1>6 DEF StrictSubsetOrdering
<1> QED BY <1>4, <1>7, <1>8

\* The recursive function FlattenSeq is defined by.
FlattenDef(f, ss, n) ==
  f = [i \in 1..n |-> IF i = 1 THEN ss[i] ELSE f[i - 1] \o ss[i]]

\* What it gives at a position.
LEMMA FlattenAt ==
  ASSUME NEW f, NEW ss, NEW n \in Nat, FlattenDef(f, ss, n), NEW i \in 1..n
  PROVE  f[i] = IF i = 1 THEN ss[i] ELSE f[i - 1] \o ss[i]
BY DEF FlattenDef

\* There is such a function for a list of any length.
LEMMA FlattenExists ==
  ASSUME NEW ss, NEW n \in Nat
  PROVE  \E f : FlattenDef(f, ss, n)
<1> DEFINE S == {k \in Nat : \E f : FlattenDef(f, ss, k)}
<1>1. 0 \in S
  <2>1. FlattenDef([i \in 1..0 |-> i], ss, 0)
    BY DEF FlattenDef
  <2> QED BY <2>1
<1>2. ASSUME NEW k \in S PROVE k + 1 \in S
  <2>1. PICK f : FlattenDef(f, ss, k)
    OBVIOUS
  <2> DEFINE last == IF k = 0 THEN ss[1] ELSE f[k] \o ss[k + 1]
             g == [i \in 1..(k + 1) |-> IF i = k + 1 THEN last ELSE f[i]]
  <2>2. ASSUME NEW i \in 1..(k + 1)
        PROVE  g[i] = IF i = 1 THEN ss[i] ELSE g[i - 1] \o ss[i]
    <3>1. CASE i = k + 1
      <4>1. CASE k = 0
        BY <3>1, <4>1
      <4>2. CASE k # 0
        <5>1. i # 1 /\ i - 1 \in 1..(k + 1) /\ i - 1 # k + 1 /\ i - 1 = k
          BY <3>1, <4>2
        <5>2. g[i - 1] = f[k]
          BY <5>1
        <5> QED BY <3>1, <4>2, <5>1, <5>2
      <4> QED BY <4>1, <4>2
    <3>2. CASE i # k + 1
      <4>1. i \in 1..k /\ g[i] = f[i]
        BY <3>2
      <4>2. f[i] = IF i = 1 THEN ss[i] ELSE f[i - 1] \o ss[i]
        BY <2>1, <4>1 DEF FlattenDef
      <4>3. CASE i = 1
        BY <4>1, <4>2, <4>3
      <4>4. CASE i # 1
        <5>1. i - 1 \in 1..(k + 1) /\ i - 1 # k + 1
          BY <4>1, <4>4
        <5>2. g[i - 1] = f[i - 1]
          BY <5>1
        <5> QED BY <4>1, <4>2, <4>4, <5>2
      <4> QED BY <4>3, <4>4
    <3> QED BY <3>1, <3>2
  <2>3. g = [i \in 1..(k + 1) |-> IF i = 1 THEN ss[i] ELSE g[i - 1] \o ss[i]]
    <3>1. g = [i \in 1..(k + 1) |-> g[i]]
      OBVIOUS
    <3> HIDE DEF g
    <3> QED BY <2>2, <3>1
  <2>4. FlattenDef(g, ss, k + 1)
    <3> HIDE DEF g
    <3> QED BY <2>3 DEF FlattenDef
  <2> HIDE DEF g
  <2> QED BY <2>4
<1>3. S = Nat
  <2> HIDE DEF S
  <2>1. S \in SUBSET Nat
    BY DEF S
  <2> QED BY <1>1, <1>2, <2>1, SetInduction
<1> QED BY <1>3

Agree(s, t, n) == \A i \in 1..n : s[i] = t[i]

\* What such a function gives at i depends on the first i lists only.
LEMMA FlattenSame ==
  ASSUME NEW f, NEW ss, NEW m \in Nat, FlattenDef(f, ss, m),
         NEW g, NEW tt, NEW n \in Nat, FlattenDef(g, tt, n),
         n <= m, Agree(ss, tt, n)
  PROVE  Agree(f, g, n)
<1> USE DEF Agree
<1> DEFINE S == {j \in Nat : j \in 1..n => f[j] = g[j]}
<1>1. 0 \in S
  OBVIOUS
<1>2. ASSUME NEW j \in S PROVE j + 1 \in S
  <2>1. SUFFICES ASSUME j + 1 \in 1..n PROVE f[j + 1] = g[j + 1]
    OBVIOUS
  <2>2. /\ f[j + 1] = IF j + 1 = 1 THEN ss[j + 1] ELSE f[j + 1 - 1] \o ss[j + 1]
        /\ g[j + 1] = IF j + 1 = 1 THEN tt[j + 1] ELSE g[j + 1 - 1] \o tt[j + 1]
    <3>1. j + 1 \in 1..m /\ j + 1 \in 1..n
      BY <2>1
    <3> QED BY <3>1, FlattenAt
  <2>3. ss[j + 1] = tt[j + 1]
    BY <2>1
  <2>4. CASE j = 0
    BY <2>2, <2>3, <2>4
  <2>5. CASE j # 0
    <3>1. j + 1 # 1 /\ j + 1 - 1 = j /\ j \in 1..n
      BY <2>1, <2>5
    <3>2. f[j] = g[j]
      BY <3>1
    <3> QED BY <2>2, <2>3, <3>1, <3>2
  <2> QED BY <2>4, <2>5
<1>3. S = Nat
  <2> HIDE DEF S
  <2>1. S \in SUBSET Nat
    BY DEF S
  <2> QED BY <1>1, <1>2, <2>1, SetInduction
<1> QED BY <1>3

\* No lists flattened are no elements.
LEMMA FlattenEmpty == FlattenSeq(<<>>) = <<>>
BY DEF FlattenSeq

\* FlattenSeq gives the last value of such a function.
LEMMA FlattenIsDef ==
  ASSUME NEW ss, Len(ss) \in Nat \ {0}
  PROVE  \E f : FlattenDef(f, ss, Len(ss)) /\ FlattenSeq(ss) = f[Len(ss)]
<1> DEFINE n == Len(ss)
           f == CHOOSE g : g = [i \in 1..n |-> IF i = 1 THEN ss[i] ELSE g[i - 1] \o ss[i]]
<1>1. FlattenSeq(ss) = f[n]
  BY DEF FlattenSeq
<1>2. FlattenDef(f, ss, n)
  <2>1. \E g : g = [i \in 1..n |-> IF i = 1 THEN ss[i] ELSE g[i - 1] \o ss[i]]
    BY FlattenExists DEF FlattenDef
  <2> QED BY <2>1 DEF FlattenDef
<1> HIDE DEF f
<1> QED BY <1>1, <1>2

\* A function on 1..n is a list of length n, and so are the first k of a list.
LEMMA IntervalIsSeq ==
  ASSUME NEW W, NEW n \in Nat, NEW f \in [1..n -> W]
  PROVE  f \in Seq(W) /\ Len(f) = n
<1>1. f \in Seq(W)
  BY SeqDef
<1>2. Len(f) \in Nat /\ DOMAIN f = 1..Len(f)
  BY <1>1, LenProperties
<1>3. 1..Len(f) = 1..n
  BY <1>2
<1>4. Len(f) = n
  BY <1>2, <1>3
<1> QED BY <1>1, <1>4

\* The first k of a list.
LEMMA FirstOnes ==
  ASSUME NEW W, NEW s \in Seq(W), NEW k \in 0..Len(s)
  PROVE  /\ SubSeq(s, 1, k) \in Seq(W)
         /\ Len(SubSeq(s, 1, k)) = k
         /\ \A i \in 1..k : SubSeq(s, 1, k)[i] = s[i]
<1>1. \A i \in 1..k : s[i] \in W
  BY ElementOfSeq
<1>2. /\ SubSeq(s, 1, k) \in Seq(W)
      /\ Len(SubSeq(s, 1, k)) = IF 1 <= k THEN k - 1 + 1 ELSE 0
      /\ \A i \in 1 .. k - 1 + 1 : SubSeq(s, 1, k)[i] = s[1 + i - 1]
  BY <1>1, SubSeqProperties
<1> QED BY <1>2

\* The first k lists flattened are the first k - 1 flattened and the k-th.
LEMMA FlattenStep ==
  ASSUME NEW W, NEW ss \in Seq(Seq(W)), NEW k \in 1..Len(ss)
  PROVE  FlattenSeq(SubSeq(ss, 1, k)) = FlattenSeq(SubSeq(ss, 1, k - 1)) \o ss[k]
<1> DEFINE now == SubSeq(ss, 1, k)
           before == SubSeq(ss, 1, k - 1)
<1>0. Len(ss) \in Nat /\ k \in 0..Len(ss) /\ k - 1 \in 0..Len(ss) /\ ss[k] \in Seq(W)
  <2>1. Len(ss) \in Nat
    BY LenProperties
  <2>2. ss[k] \in Seq(W)
    BY ElementOfSeq
  <2> QED BY <2>1, <2>2
<1>1. Len(now) = k /\ \A i \in 1..k : now[i] = ss[i]
  BY <1>0, FirstOnes
<1>2. Len(before) = k - 1 /\ \A i \in 1..(k - 1) : before[i] = ss[i]
  BY <1>0, FirstOnes
<1> HIDE DEF now, before
<1>3. PICK f : FlattenDef(f, now, k) /\ FlattenSeq(now) = f[k]
  <2>1. k \in Nat \ {0}
    BY <1>0
  <2> QED BY <1>1, <2>1, FlattenIsDef
<1>4. f[k] = IF k = 1 THEN ss[k] ELSE f[k - 1] \o ss[k]
  <2>1. k \in Nat /\ k \in 1..k
    BY <1>0
  <2>2. f[k] = IF k = 1 THEN now[k] ELSE f[k - 1] \o now[k]
    BY <1>3, <2>1, FlattenAt
  <2> QED BY <1>1, <2>1, <2>2
<1>5. CASE k = 1
  <2>1. before = <<>>
    BY <1>5, SubSeqEmpty DEF before
  <2>2. <<>> \o ss[k] = ss[k]
    BY <1>0, ConcatEmptySeq
  <2> QED BY <1>3, <1>4, <1>5, <2>1, <2>2, FlattenEmpty DEF now, before
<1>6. CASE k # 1
  <2>1. k - 1 \in Nat \ {0} /\ k \in Nat
    BY <1>0, <1>6
  <2>2. PICK g : FlattenDef(g, before, k - 1) /\ FlattenSeq(before) = g[k - 1]
    BY <1>2, <2>1, FlattenIsDef
  <2>3. \A i \in 1..(k - 1) : now[i] = before[i]
    BY <1>1, <1>2, <2>1
  <2>4. k - 1 <= k /\ k - 1 \in 1..(k - 1)
    BY <2>1
  <2>5. \A i \in 1..(k - 1) : f[i] = g[i]
    <3>1. Agree(now, before, k - 1)
      BY <2>3 DEF Agree
    <3>2. k \in Nat /\ k - 1 \in Nat
      BY <2>1
    <3>3. Agree(f, g, k - 1)
      BY <1>3, <2>2, <2>4, <3>1, <3>2, FlattenSame, Zenon
    <3> QED BY <3>3 DEF Agree
  <2>6. f[k - 1] = g[k - 1]
    BY <2>4, <2>5
  <2> QED BY <1>3, <1>4, <1>6, <2>2, <2>6 DEF now, before
<1> QED BY <1>5, <1>6

\* The lists before the k-th stay where they are when more are added.
LEMMA FlattenType ==
  ASSUME NEW W, NEW ss \in Seq(Seq(W))
  PROVE  \A k \in 0..Len(ss) : FlattenSeq(SubSeq(ss, 1, k)) \in Seq(W)
<1> DEFINE S == {k \in Nat : k <= Len(ss) => FlattenSeq(SubSeq(ss, 1, k)) \in Seq(W)}
<1>0. Len(ss) \in Nat
  BY LenProperties
<1>1. 0 \in S
  <2>1. SubSeq(ss, 1, 0) = <<>>
    BY SubSeqEmpty
  <2>2. <<>> \in Seq(W)
    BY EmptySeq
  <2> QED BY <2>1, <2>2, FlattenEmpty
<1>2. ASSUME NEW k \in S PROVE k + 1 \in S
  <2>1. SUFFICES ASSUME k + 1 <= Len(ss) PROVE FlattenSeq(SubSeq(ss, 1, k + 1)) \in Seq(W)
    OBVIOUS
  <2>2. FlattenSeq(SubSeq(ss, 1, k)) \in Seq(W)
    BY <1>0, <2>1
  <2>3. k + 1 \in 1..Len(ss) /\ k + 1 - 1 = k
    BY <1>0, <2>1
  <2>4. ss[k + 1] \in Seq(W)
    BY <2>3, ElementOfSeq
  <2>5. FlattenSeq(SubSeq(ss, 1, k + 1)) = FlattenSeq(SubSeq(ss, 1, k)) \o ss[k + 1]
    <3> DEFINE i == k + 1
    <3>1. i \in 1..Len(ss) /\ i - 1 = k
      BY <2>3
    <3> HIDE DEF i
    <3>2. FlattenSeq(SubSeq(ss, 1, i)) = FlattenSeq(SubSeq(ss, 1, i - 1)) \o ss[i]
      BY <3>1, FlattenStep
    <3> QED BY <3>1, <3>2 DEF i
  <2> QED BY <2>2, <2>4, <2>5, ConcatProperties
<1>3. S = Nat
  <2> HIDE DEF S
  <2>1. S \in SUBSET Nat
    BY DEF S
  <2> QED BY <1>1, <1>2, <2>1, SetInduction
<1> QED BY <1>0, <1>3

\* t begins with s.
Begins(s, t) == Len(s) <= Len(t) /\ \A x \in 1..Len(s) : t[x] = s[x]

\* A list begins with whatever its own beginning begins with.
LEMMA BeginsConcat ==
  ASSUME NEW W, NEW s \in Seq(W), NEW t \in Seq(W), NEW u \in Seq(W), Begins(s, t)
  PROVE  Begins(s, t \o u)
<1>1. Len(s) \in Nat /\ Len(t) \in Nat /\ Len(u) \in Nat
  BY LenProperties
<1>2. /\ Len(t \o u) = Len(t) + Len(u)
      /\ \A x \in 1..(Len(t) + Len(u)) :
           (t \o u)[x] = IF x <= Len(t) THEN t[x] ELSE u[x - Len(t)]
  BY ConcatProperties
<1>3. Len(s) <= Len(t) /\ \A x \in 1..Len(s) : t[x] = s[x]
  BY DEF Begins
<1>4. \A x \in 1..Len(s) : (t \o u)[x] = s[x]
  <2> TAKE x \in 1..Len(s)
  <2>1. x \in 1..(Len(t) + Len(u)) /\ x <= Len(t)
    BY <1>1, <1>3
  <2> QED BY <1>2, <1>3, <2>1
<1>5. Len(s) <= Len(t \o u)
  BY <1>1, <1>2, <1>3
<1> QED BY <1>4, <1>5 DEF Begins

\* More lists flattened begin with fewer of them flattened.
LEMMA FlattenPrefix ==
  ASSUME NEW W, NEW ss \in Seq(Seq(W)), NEW k \in 0..Len(ss), NEW m \in k..Len(ss)
  PROVE  Begins(FlattenSeq(SubSeq(ss, 1, k)), FlattenSeq(SubSeq(ss, 1, m)))
<1> DEFINE Flat(j) == FlattenSeq(SubSeq(ss, 1, j))
           S == {j \in Nat : k + j <= Len(ss) => Begins(Flat(k), Flat(k + j))}
<1>0. Len(ss) \in Nat /\ k \in Nat
  BY LenProperties
<1>1. \A j \in 0..Len(ss) : Flat(j) \in Seq(W)
  BY FlattenType
<1>2. \A j \in 1..Len(ss) : Flat(j) = Flat(j - 1) \o ss[j]
  BY FlattenStep
<1> HIDE DEF Flat
<1>3. 0 \in S
  BY <1>0 DEF Begins
<1>4. ASSUME NEW j \in S PROVE j + 1 \in S
  <2>1. SUFFICES ASSUME k + (j + 1) <= Len(ss) PROVE Begins(Flat(k), Flat(k + (j + 1)))
    OBVIOUS
  <2> DEFINE i == k + (j + 1)
  <2>2. i \in 1..Len(ss) /\ i - 1 = k + j /\ i - 1 \in 0..Len(ss) /\ k + j <= Len(ss)
    BY <1>0, <2>1
  <2>3. Begins(Flat(k), Flat(i - 1))
    BY <2>2
  <2>4. Flat(i) = Flat(i - 1) \o ss[i] /\ ss[i] \in Seq(W)
    BY <1>2, <2>2, ElementOfSeq
  <2>5. Flat(i - 1) \in Seq(W) /\ Flat(k) \in Seq(W)
    BY <1>0, <1>1, <2>2
  <2> HIDE DEF i
  <2>6. Begins(Flat(k), Flat(i))
    BY <2>3, <2>4, <2>5, BeginsConcat
  <2> QED BY <2>6 DEF i
<1>5. S = Nat
  <2> HIDE DEF S
  <2>1. S \in SUBSET Nat
    BY DEF S
  <2> QED BY <1>3, <1>4, <2>1, SetInduction
<1>6. m - k \in Nat /\ k + (m - k) = m /\ m <= Len(ss)
  BY <1>0
<1>7. m - k \in S
  <2> HIDE DEF S
  <2> QED BY <1>5, <1>6
<1>8. Begins(Flat(k), Flat(m))
  BY <1>6, <1>7
<1> QED BY <1>8 DEF Flat

\* The lengths of the lists flattened so far add up.
LEMMA FlattenLengths ==
  ASSUME NEW W, NEW ss \in Seq(Seq(W))
  PROVE  /\ SubSeq(ss, 1, Len(ss)) = ss
         /\ \A k \in 0..Len(ss) : Len(FlattenSeq(SubSeq(ss, 1, k))) \in Nat
         /\ \A k \in 1..Len(ss) :
              Len(FlattenSeq(SubSeq(ss, 1, k))) =
                Len(FlattenSeq(SubSeq(ss, 1, k - 1))) + Len(ss[k])
<1>1. SubSeq(ss, 1, Len(ss)) = ss
  BY SubSeqFull
<1>2. \A k \in 0..Len(ss) : Len(FlattenSeq(SubSeq(ss, 1, k))) \in Nat
  BY FlattenType, LenProperties
<1>3. ASSUME NEW k \in 1..Len(ss)
      PROVE  Len(FlattenSeq(SubSeq(ss, 1, k))) =
               Len(FlattenSeq(SubSeq(ss, 1, k - 1))) + Len(ss[k])
  <2> DEFINE s == FlattenSeq(SubSeq(ss, 1, k - 1))
             t == ss[k]
  <2>1. FlattenSeq(SubSeq(ss, 1, k)) = s \o t
    BY FlattenStep
  <2>2. s \in Seq(W) /\ t \in Seq(W)
    <3>1. k - 1 \in 0..Len(ss)
      BY LenProperties
    <3> QED BY <3>1, FlattenType, ElementOfSeq
  <2> HIDE DEF s, t
  <2>3. Len(s \o t) = Len(s) + Len(t)
    BY <2>2, ConcatProperties
  <2> QED BY <2>1, <2>3 DEF s, t
<1> QED BY <1>1, <1>2, <1>3

\* Where the elements of the k-th list are in the flattened one: right behind
\* those of the lists before it.
LEMMA FlattenElement ==
  ASSUME NEW W, NEW ss \in Seq(Seq(W)), NEW k \in 1..Len(ss), NEW x \in 1..Len(ss[k])
  PROVE  FlattenSeq(ss)[Len(FlattenSeq(SubSeq(ss, 1, k - 1))) + x] = ss[k][x]
<1> DEFINE s == FlattenSeq(SubSeq(ss, 1, k - 1))
           t == ss[k]
           y == Len(s) + x
<1>0. Len(ss) \in Nat /\ k - 1 \in 0..Len(ss) /\ k \in 0..Len(ss) /\ Len(ss) \in k..Len(ss)
  BY LenProperties
<1>1. s \in Seq(W) /\ t \in Seq(W)
  BY <1>0, FlattenType, ElementOfSeq
<1>2. FlattenSeq(SubSeq(ss, 1, k)) = s \o t
  BY FlattenStep
<1>3. Begins(s \o t, FlattenSeq(ss))
  <2>1. Begins(FlattenSeq(SubSeq(ss, 1, k)), FlattenSeq(SubSeq(ss, 1, Len(ss))))
    BY <1>0, FlattenPrefix
  <2> QED BY <1>2, <2>1, SubSeqFull
<1>4. x \in 1..Len(t)
  OBVIOUS
<1> HIDE DEF s, t
<1>5. /\ Len(s \o t) = Len(s) + Len(t)
      /\ \A i \in 1..(Len(s) + Len(t)) :
           (s \o t)[i] = IF i <= Len(s) THEN s[i] ELSE t[i - Len(s)]
  BY <1>1, ConcatProperties
<1>6. Len(s) \in Nat /\ Len(t) \in Nat
  BY <1>1, LenProperties
<1>7. y \in 1..(Len(s) + Len(t)) /\ ~(y <= Len(s)) /\ y - Len(s) = x
  BY <1>4, <1>6
<1> HIDE DEF y
<1>8. (s \o t)[y] = t[x]
  BY <1>5, <1>7
<1>9. FlattenSeq(ss)[y] = (s \o t)[y]
  BY <1>3, <1>5, <1>7 DEF Begins
<1> QED BY <1>8, <1>9 DEF s, t, y
================================================================================
