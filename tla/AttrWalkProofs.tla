---------------------------- MODULE AttrWalkProofs ----------------------------
(***************************************************************************)
(* Proofs about the walk over a reply, for every list of attributes: their *)
(* number, types and sizes are arbitrary.                                  *)
(***************************************************************************)
EXTENDS AttrWalk, InductionLemmas

Words == [len : Nat, type : Nat]

-------------------------------------------------------------------------------
\* The encoding of one attribute: a header that gives its type and its length,
\* and as many words as the length rounded up has.
LEMMA LeafEncoding ==
  ASSUME NEW a, a.type \in Nat, a.size \in Nat
  PROVE  /\ EncodeLeaf(a) \in Seq(Words)
         /\ Len(EncodeLeaf(a)) \in Nat \ {0}
         /\ EncodeLeaf(a)[1] = [len |-> NLA_HDRLEN + a.size, type |-> a.type]
         /\ 4 * Len(EncodeLeaf(a)) = NLA_ALIGN(EncodeLeaf(a)[1].len)
<1> DEFINE h == Header(a.type, a.size)
           c == Contents(a.size)
           n == NLA_ALIGN(a.size) \div 4
<1>1. h \in Seq(Words) /\ Len(h) = 1 /\ h[1] = [len |-> NLA_HDRLEN + a.size, type |-> a.type]
  BY DEF Header, NLA_HDRLEN, Words
<1>2. c \in Seq(Words) /\ Len(c) = n /\ n \in Nat
  <2>1. n \in Nat
    BY DEF NLA_ALIGN
  <2>2. c \in [1..n -> Words]
    BY DEF Contents, Words
  <2> HIDE DEF c, n
  <2> QED BY <2>1, <2>2, IntervalIsSeq
<1> HIDE DEF h, c
<1>3. EncodeLeaf(a) = h \o c
  BY DEF EncodeLeaf, h, c
<1>4. /\ h \o c \in Seq(Words)
      /\ Len(h \o c) = Len(h) + Len(c)
      /\ \A i \in 1..(Len(h) + Len(c)) : (h \o c)[i] = IF i <= Len(h) THEN h[i] ELSE c[i - Len(h)]
  BY <1>1, <1>2, ConcatProperties
<1>5. (h \o c)[1] = h[1]
  <2>1. 1 \in 1..(Len(h) + Len(c)) /\ 1 <= Len(h)
    BY <1>1, <1>2
  <2> QED BY <1>4, <2>1
<1>6. 4 * (1 + n) = NLA_ALIGN(NLA_HDRLEN + a.size)
  BY DEF NLA_ALIGN, NLA_HDRLEN
<1>7. Len(h \o c) = 1 + n
  BY <1>1, <1>2, <1>4
<1> HIDE DEF n
<1> QED BY <1>1, <1>2, <1>3, <1>4, <1>5, <1>6, <1>7

\* Nested attributes one after the other, the j-th behind the j - 1 before it.
LEMMA NestedEncoding ==
  ASSUME NEW as \in Seq(Leaves)
  PROVE  /\ EncodeNested(as) \in Seq(Words)
         /\ EncodeNested(SubSeq(as, 1, 0)) = <<>>
         /\ SubSeq(as, 1, Len(as)) = as
         /\ \A j \in 0..Len(as) : Len(EncodeNested(SubSeq(as, 1, j))) \in Nat
         /\ \A j \in 1..Len(as) :
              LET before == Len(EncodeNested(SubSeq(as, 1, j - 1))) IN
              /\ Len(EncodeNested(SubSeq(as, 1, j))) = before + Len(EncodeLeaf(as[j]))
              /\ before + 1 <= Len(EncodeNested(as))
              /\ EncodeNested(as)[before + 1] = EncodeLeaf(as[j])[1]
         /\ \A j \in 0..Len(as) : \A k \in j..Len(as) :
              Len(EncodeNested(SubSeq(as, 1, j))) <= Len(EncodeNested(SubSeq(as, 1, k)))
<1> DEFINE ss == [j \in DOMAIN as |-> EncodeLeaf(as[j])]
           n == Len(as)
<1>1. n \in Nat /\ DOMAIN as = 1..n /\ \A j \in 1..n : as[j] \in Leaves
  BY LenProperties, ElementOfSeq
<1>2. \A j \in 1..n : EncodeLeaf(as[j]) \in Seq(Words)
  <2> TAKE j \in 1..n
  <2>1. as[j].type \in Nat /\ as[j].size \in Nat
    BY <1>1 DEF Leaves
  <2> QED BY <2>1, LeafEncoding
<1>3. ss \in Seq(Seq(Words)) /\ Len(ss) = n
  <2>1. ss \in [1..n -> Seq(Words)]
    BY <1>1, <1>2
  <2> HIDE DEF ss, n
  <2> QED BY <1>1, <2>1, IntervalIsSeq
<1>4. \A j \in 1..n : ss[j] = EncodeLeaf(as[j])
  BY <1>1
<1>5. ASSUME NEW j \in 0..n
      PROVE  EncodeNested(SubSeq(as, 1, j)) = FlattenSeq(SubSeq(ss, 1, j))
  <2> DEFINE t == SubSeq(as, 1, j)
             u == [i \in DOMAIN t |-> EncodeLeaf(t[i])]
  <2>1. t \in Seq(Leaves) /\ Len(t) = j /\ \A i \in 1..j : t[i] = as[i]
    BY <1>1, FirstOnes
  <2> HIDE DEF t
  <2>2. DOMAIN t = 1..j /\ j \in Nat /\ \A i \in 1..j : i \in 1..n
    <3>1. DOMAIN t = 1..Len(t)
      BY <2>1, LenProperties
    <3>2. j \in Nat /\ \A i \in 1..j : i \in 1..n
      <4>1. n \in Nat /\ j \in 0..n
        BY <1>1
      <4> HIDE DEF n
      <4> QED BY ONLY <4>1
    <3> QED BY <2>1, <3>1, <3>2
  <2>3. u = [i \in 1..j |-> ss[i]]
    BY <1>4, <2>1, <2>2
  <2>4. u \in [1..j -> Seq(Words)] /\ \A i \in 1..j : u[i] = ss[i]
    <3> HIDE DEF ss
    <3> QED BY <1>3, <2>2, <2>3, ElementOfSeq
  <2> HIDE DEF u
  <2>5. u \in Seq(Seq(Words)) /\ Len(u) = j
    BY <2>2, <2>4, IntervalIsSeq
  <2> HIDE DEF ss
  <2>6. /\ SubSeq(ss, 1, j) \in Seq(Seq(Words))
        /\ Len(SubSeq(ss, 1, j)) = j
        /\ \A i \in 1..j : SubSeq(ss, 1, j)[i] = ss[i]
    <3> HIDE DEF n
    <3> QED BY <1>3, FirstOnes
  <2>7. u = SubSeq(ss, 1, j)
    BY <2>4, <2>5, <2>6, SeqEqual
  <2>8. EncodeNested(t) = FlattenSeq(u)
    BY DEF EncodeNested, u
  <2> QED BY <2>7, <2>8 DEF t
<1>6. SubSeq(as, 1, n) = as /\ SubSeq(ss, 1, n) = ss
  <2> HIDE DEF ss
  <2> QED BY <1>3, SubSeqFull
<1>7. EncodeNested(as) = FlattenSeq(ss)
  BY DEF EncodeNested
<1> HIDE DEF ss, n
<1>8. EncodeNested(as) \in Seq(Words)
  <2>1. n \in 0..n
    BY <1>1
  <2>2. FlattenSeq(SubSeq(ss, 1, n)) \in Seq(Words)
    BY <1>3, <2>1, FlattenType
  <2> QED BY <1>6, <1>7, <2>2
<1>9. /\ \A j \in 0..n : Len(FlattenSeq(SubSeq(ss, 1, j))) \in Nat
      /\ \A j \in 1..n : Len(FlattenSeq(SubSeq(ss, 1, j))) =
                           Len(FlattenSeq(SubSeq(ss, 1, j - 1))) + Len(ss[j])
  BY <1>3, FlattenLengths
<1>10. \A j \in 0..n : Len(EncodeNested(SubSeq(as, 1, j))) \in Nat
  BY <1>5, <1>9
<1>11. ASSUME NEW j \in 1..n
       PROVE  LET before == Len(EncodeNested(SubSeq(as, 1, j - 1))) IN
              /\ Len(EncodeNested(SubSeq(as, 1, j))) = before + Len(EncodeLeaf(as[j]))
              /\ before + 1 <= Len(EncodeNested(as))
              /\ EncodeNested(as)[before + 1] = EncodeLeaf(as[j])[1]
  <2> DEFINE before == Len(EncodeNested(SubSeq(as, 1, j - 1)))
  <2>1. j \in 0..n /\ j - 1 \in 0..n /\ n \in j..n
    BY <1>1
  <2>2. before = Len(FlattenSeq(SubSeq(ss, 1, j - 1))) /\ before \in Nat
    BY <1>5, <1>9, <2>1
  <2>3. Len(EncodeNested(SubSeq(as, 1, j))) = before + Len(EncodeLeaf(as[j]))
    BY <1>4, <1>5, <1>9, <2>1, <2>2
  <2>4. Len(EncodeLeaf(as[j])) \in Nat \ {0}
    <3>1. as[j].type \in Nat /\ as[j].size \in Nat
      BY <1>1 DEF Leaves
    <3> QED BY <3>1, LeafEncoding
  <2>5. before + 1 <= Len(EncodeNested(as))
    <3>1. Begins(FlattenSeq(SubSeq(ss, 1, j)), FlattenSeq(SubSeq(ss, 1, n)))
      BY <1>3, <2>1, FlattenPrefix
    <3>2. Len(EncodeNested(SubSeq(as, 1, j))) <= Len(EncodeNested(as))
      BY <1>5, <1>6, <1>7, <2>1, <3>1 DEF Begins
    <3>3. Len(EncodeNested(as)) \in Nat
      BY <1>8, LenProperties
    <3> DEFINE b == Len(EncodeLeaf(as[j]))
               all == Len(EncodeNested(as))
    <3>4. before \in Nat /\ b \in Nat \ {0} /\ all \in Nat /\ before + b <= all
      BY <2>2, <2>3, <2>4, <3>2, <3>3
    <3> HIDE DEF before, b, all
    <3>5. before + 1 <= all
      BY <3>4
    <3> QED BY <3>5 DEF all
  <2>6. EncodeNested(as)[before + 1] = EncodeLeaf(as[j])[1]
    <3>1. 1 \in 1..Len(ss[j])
      <4> DEFINE l == Len(ss[j])
      <4>1. l \in Nat \ {0}
        BY <1>4, <2>4
      <4> HIDE DEF l
      <4>2. 1 \in 1..l
        BY <4>1
      <4> QED BY <4>2 DEF l
    <3>2. j \in 1..Len(ss)
      BY <1>3
    <3>3. FlattenSeq(ss)[Len(FlattenSeq(SubSeq(ss, 1, j - 1))) + 1] = ss[j][1]
      <4> HIDE DEF ss
      <4>1. ss \in Seq(Seq(Words))
        BY <1>3
      <4> QED BY ONLY <4>1, <3>1, <3>2, FlattenElement, SMT
    <3> QED BY <1>4, <1>7, <2>2, <3>3
  <2> QED BY <2>3, <2>5, <2>6
<1>12. EncodeNested(SubSeq(as, 1, 0)) = <<>>
  <2>1. SubSeq(ss, 1, 0) = <<>>
    BY SubSeqEmpty
  <2>2. 0 \in 0..n
    BY <1>1
  <2> QED BY <1>5, <2>1, <2>2, FlattenEmpty
<1>13. ASSUME NEW j \in 0..n, NEW k \in j..n
       PROVE  Len(EncodeNested(SubSeq(as, 1, j))) <= Len(EncodeNested(SubSeq(as, 1, k)))
  <2>1. k \in 0..n
    BY <1>1
  <2>2. Begins(FlattenSeq(SubSeq(ss, 1, j)), FlattenSeq(SubSeq(ss, 1, k)))
    BY <1>3, FlattenPrefix
  <2> QED BY <1>5, <2>1, <2>2 DEF Begins
<1> QED BY <1>6, <1>8, <1>10, <1>11, <1>12, <1>13 DEF n

\* An attribute of a reply: a header and contents, which in an aggregate are the
\* nested attributes.
LEMMA AttributeEncoding ==
  ASSUME NEW a \in Attributes
  PROVE  /\ Encode(a) \in Seq(Words)
         /\ Len(Encode(a)) \in Nat \ {0}
         /\ Encode(a)[1] \in Words
         /\ Encode(a)[1].type = a.type
         /\ 4 * Len(Encode(a)) = NLA_ALIGN(Encode(a)[1].len)
         /\ a.type \in Aggregates =>
              /\ Encode(a)[1].len = NLA_HDRLEN + 4 * Len(EncodeNested(a.nested))
              /\ Len(Encode(a)) = 1 + Len(EncodeNested(a.nested))
              /\ \A x \in 1..Len(EncodeNested(a.nested)) :
                   Encode(a)[1 + x] = EncodeNested(a.nested)[x]
<1>1. a.type \in Nat /\ a.size \in Nat /\ a.nested \in Seq(Leaves)
      /\ (a.type \in Aggregates => a.size = 0)
  BY DEF Attributes
<1>2. CASE a.nested = <<>>
  <2>1. Encode(a) = EncodeLeaf(a)
    BY <1>2 DEF Encode
  <2>2. Encode(a)[1] = [len |-> NLA_HDRLEN + a.size, type |-> a.type]
    BY <1>1, <2>1, LeafEncoding
  <2>3. Encode(a)[1] \in Words /\ Encode(a)[1].type = a.type
    BY <1>1, <2>2 DEF Words, NLA_HDRLEN
  <2>4. EncodeNested(a.nested) = <<>> /\ Len(EncodeNested(a.nested)) = 0
    <3>1. [j \in DOMAIN <<>> |-> EncodeLeaf(<<>>[j])] = <<>>
      OBVIOUS
    <3>2. EncodeNested(a.nested) = <<>>
      BY <1>2, <3>1, FlattenEmpty DEF EncodeNested
    <3> QED BY <3>2
  <2>5. ASSUME a.type \in Aggregates
        PROVE  /\ Encode(a)[1].len = NLA_HDRLEN + 4 * Len(EncodeNested(a.nested))
               /\ Len(Encode(a)) = 1 + Len(EncodeNested(a.nested))
    <3>1. Encode(a)[1].len = NLA_HDRLEN
      BY <1>1, <2>2, <2>5 DEF NLA_HDRLEN
    <3>2. 4 * Len(EncodeLeaf(a)) = NLA_ALIGN(EncodeLeaf(a)[1].len) /\ Len(EncodeLeaf(a)) \in Nat
      BY <1>1, LeafEncoding
    <3>3. Len(Encode(a)) = 1
      <4> DEFINE l == Len(EncodeLeaf(a))
      <4>1. l \in Nat /\ 4 * l = NLA_ALIGN(NLA_HDRLEN)
        BY <2>1, <3>1, <3>2
      <4> HIDE DEF l
      <4>2. l = 1
        BY <4>1 DEF NLA_ALIGN, NLA_HDRLEN
      <4> QED BY <2>1, <4>2 DEF l
    <3>4. NLA_HDRLEN + 4 * 0 = NLA_HDRLEN /\ 1 + 0 = 1
      BY DEF NLA_HDRLEN
    <3> QED BY <2>4, <3>1, <3>3, <3>4
  <2>6. \A x \in 1..Len(EncodeNested(a.nested)) : FALSE
    BY <2>4
  <2> QED BY <1>1, <2>1, <2>3, <2>5, <2>6, LeafEncoding
<1>3. CASE a.nested # <<>>
  <2> DEFINE n == EncodeNested(a.nested)
             h == Header(a.type, 4 * Len(n))
             l == Len(n)
  <2>1. n \in Seq(Words) /\ l \in Nat
    BY <1>1, NestedEncoding, LenProperties
  <2>2. /\ h \in Seq(Words) /\ Len(h) = 1
        /\ h[1] = [len |-> NLA_HDRLEN + 4 * l, type |-> a.type]
    <3> HIDE DEF n
    <3>1. h = <<[len |-> NLA_HDRLEN + 4 * l, type |-> a.type]>>
      BY DEF Header
    <3> HIDE DEF l, h
    <3>2. [len |-> NLA_HDRLEN + 4 * l, type |-> a.type] \in Words
      BY <1>1, <2>1 DEF Words, NLA_HDRLEN
    <3> QED BY <3>1, <3>2
  <2>3. Encode(a) = h \o n
    BY <1>3 DEF Encode
  <2> HIDE DEF n, h
  <2>4. /\ h \o n \in Seq(Words)
        /\ Len(h \o n) = Len(h) + Len(n)
        /\ \A i \in 1..(Len(h) + Len(n)) : (h \o n)[i] = IF i <= Len(h) THEN h[i] ELSE n[i - Len(h)]
    BY <2>1, <2>2, ConcatProperties
  <2>5. Len(Encode(a)) = 1 + l
    BY <2>2, <2>3, <2>4
  <2>6. \A i \in 1..(1 + l) : Encode(a)[i] = IF i <= 1 THEN h[i] ELSE n[i - 1]
    BY <2>2, <2>3, <2>4
  <2> HIDE DEF l
  <2>7. Encode(a)[1] = h[1]
    BY <2>1, <2>6
  <2>8. \A x \in 1..l : Encode(a)[1 + x] = n[x]
    <3> TAKE x \in 1..l
    <3>1. 1 + x \in 1..(1 + l) /\ ~(1 + x <= 1) /\ 1 + x - 1 = x
      BY <2>1
    <3> QED BY <2>6, <3>1
  <2>9. Encode(a)[1].len = NLA_HDRLEN + 4 * l /\ Encode(a)[1].type = a.type
        /\ Encode(a)[1] \in Words
    BY <1>1, <2>1, <2>2, <2>7 DEF Words, NLA_HDRLEN
  <2>10. 4 * (1 + l) = NLA_ALIGN(NLA_HDRLEN + 4 * l) /\ 1 + l \in Nat \ {0}
    BY <2>1 DEF NLA_ALIGN, NLA_HDRLEN
  <2> QED BY <2>3, <2>4, <2>5, <2>8, <2>9, <2>10 DEF n, l
<1> QED BY <1>2, <1>3

\* A reply: each attribute right behind those before it, whole.
LEMMA MessageEncoding ==
  ASSUME NEW m \in Seq(Attributes)
  PROVE  /\ EncodeAll(m) \in Seq(Words)
         /\ EncodeAll(SubSeq(m, 1, 0)) = <<>>
         /\ SubSeq(m, 1, Len(m)) = m
         /\ \A i \in 0..Len(m) : Len(EncodeAll(SubSeq(m, 1, i))) \in Nat
         /\ \A i \in 1..Len(m) :
              LET before == Len(EncodeAll(SubSeq(m, 1, i - 1))) IN
              /\ Len(EncodeAll(SubSeq(m, 1, i))) = before + Len(Encode(m[i]))
              /\ \A x \in 1..Len(Encode(m[i])) : EncodeAll(m)[before + x] = Encode(m[i])[x]
         /\ \A i \in 0..Len(m) : \A k \in i..Len(m) :
              Len(EncodeAll(SubSeq(m, 1, i))) <= Len(EncodeAll(SubSeq(m, 1, k)))
<1> DEFINE ss == [j \in DOMAIN m |-> Encode(m[j])]
           n == Len(m)
<1>1. n \in Nat /\ DOMAIN m = 1..n /\ \A j \in 1..n : m[j] \in Attributes
  BY LenProperties, ElementOfSeq
<1>2. \A j \in 1..n : Encode(m[j]) \in Seq(Words)
  BY <1>1, AttributeEncoding
<1>3. ss \in Seq(Seq(Words)) /\ Len(ss) = n
  <2>1. ss \in [1..n -> Seq(Words)]
    BY <1>1, <1>2
  <2> HIDE DEF ss, n
  <2> QED BY <1>1, <2>1, IntervalIsSeq
<1>4. \A j \in 1..n : ss[j] = Encode(m[j])
  BY <1>1
<1>5. ASSUME NEW j \in 0..n
      PROVE  EncodeAll(SubSeq(m, 1, j)) = FlattenSeq(SubSeq(ss, 1, j))
  <2> DEFINE t == SubSeq(m, 1, j)
             u == [i \in DOMAIN t |-> Encode(t[i])]
  <2>1. t \in Seq(Attributes) /\ Len(t) = j /\ \A i \in 1..j : t[i] = m[i]
    BY <1>1, FirstOnes
  <2> HIDE DEF t
  <2>2. DOMAIN t = 1..j /\ j \in Nat /\ \A i \in 1..j : i \in 1..n
    <3>1. DOMAIN t = 1..Len(t)
      BY <2>1, LenProperties
    <3>2. j \in Nat /\ \A i \in 1..j : i \in 1..n
      <4>1. n \in Nat /\ j \in 0..n
        BY <1>1
      <4> HIDE DEF n
      <4> QED BY ONLY <4>1
    <3> QED BY <2>1, <3>1, <3>2
  <2>3. u = [i \in 1..j |-> ss[i]]
    BY <1>4, <2>1, <2>2
  <2>4. u \in [1..j -> Seq(Words)] /\ \A i \in 1..j : u[i] = ss[i]
    <3> HIDE DEF ss
    <3> QED BY <1>3, <2>2, <2>3, ElementOfSeq
  <2> HIDE DEF u
  <2>5. u \in Seq(Seq(Words)) /\ Len(u) = j
    BY <2>2, <2>4, IntervalIsSeq
  <2> HIDE DEF ss
  <2>6. /\ SubSeq(ss, 1, j) \in Seq(Seq(Words))
        /\ Len(SubSeq(ss, 1, j)) = j
        /\ \A i \in 1..j : SubSeq(ss, 1, j)[i] = ss[i]
    <3> HIDE DEF n
    <3> QED BY <1>3, FirstOnes
  <2>7. u = SubSeq(ss, 1, j)
    BY <2>4, <2>5, <2>6, SeqEqual
  <2>8. EncodeAll(t) = FlattenSeq(u)
    BY DEF EncodeAll, u
  <2> QED BY <2>7, <2>8 DEF t
<1>6. SubSeq(m, 1, n) = m /\ SubSeq(ss, 1, n) = ss
  <2> HIDE DEF ss
  <2> QED BY <1>3, SubSeqFull
<1>7. EncodeAll(m) = FlattenSeq(ss)
  BY DEF EncodeAll
<1> HIDE DEF ss, n
<1>8. EncodeAll(m) \in Seq(Words)
  <2>1. n \in 0..n
    BY <1>1
  <2>2. FlattenSeq(SubSeq(ss, 1, n)) \in Seq(Words)
    BY <1>3, <2>1, FlattenType
  <2> QED BY <1>6, <1>7, <2>2
<1>9. /\ \A j \in 0..n : Len(FlattenSeq(SubSeq(ss, 1, j))) \in Nat
      /\ \A j \in 1..n : Len(FlattenSeq(SubSeq(ss, 1, j))) =
                           Len(FlattenSeq(SubSeq(ss, 1, j - 1))) + Len(ss[j])
  BY <1>3, FlattenLengths
<1>10. \A j \in 0..n : Len(EncodeAll(SubSeq(m, 1, j))) \in Nat
  BY <1>5, <1>9
<1>11. EncodeAll(SubSeq(m, 1, 0)) = <<>>
  <2>1. SubSeq(ss, 1, 0) = <<>>
    BY SubSeqEmpty
  <2>2. 0 \in 0..n
    BY <1>1
  <2> QED BY <1>5, <2>1, <2>2, FlattenEmpty
<1>12. ASSUME NEW i \in 1..n
       PROVE  LET before == Len(EncodeAll(SubSeq(m, 1, i - 1))) IN
              /\ Len(EncodeAll(SubSeq(m, 1, i))) = before + Len(Encode(m[i]))
              /\ \A x \in 1..Len(Encode(m[i])) : EncodeAll(m)[before + x] = Encode(m[i])[x]
  <2> DEFINE before == Len(EncodeAll(SubSeq(m, 1, i - 1)))
  <2>1. i \in 0..n /\ i - 1 \in 0..n
    BY <1>1
  <2>2. before = Len(FlattenSeq(SubSeq(ss, 1, i - 1)))
    BY <1>5, <2>1
  <2>3. Len(EncodeAll(SubSeq(m, 1, i))) = before + Len(Encode(m[i]))
    BY <1>4, <1>5, <1>9, <2>1, <2>2
  <2>4. ASSUME NEW x \in 1..Len(Encode(m[i]))
        PROVE  EncodeAll(m)[before + x] = Encode(m[i])[x]
    <3>1. x \in 1..Len(ss[i]) /\ ss[i] = Encode(m[i])
      BY <1>4
    <3>2. FlattenSeq(ss)[Len(FlattenSeq(SubSeq(ss, 1, i - 1))) + x] = ss[i][x]
      BY <1>3, <3>1, FlattenElement
    <3> QED BY <1>7, <2>2, <3>1, <3>2
  <2> QED BY <2>3, <2>4
<1>13. ASSUME NEW i \in 0..n, NEW k \in i..n
       PROVE  Len(EncodeAll(SubSeq(m, 1, i))) <= Len(EncodeAll(SubSeq(m, 1, k)))
  <2>1. k \in 0..n
    BY <1>1
  <2>2. Begins(FlattenSeq(SubSeq(ss, 1, i)), FlattenSeq(SubSeq(ss, 1, k)))
    BY <1>3, FlattenPrefix
  <2> QED BY <1>5, <2>1, <2>2 DEF Begins
<1> QED BY <1>6, <1>8, <1>10, <1>11, <1>12, <1>13 DEF n

-------------------------------------------------------------------------------
\* The same in bytes: the word at an offset, where the i-th attribute of a reply
\* starts, and the bytes the first j nested attributes take.
HeaderAt(m, o) == EncodeAll(m)[o \div 4 + 1]
StartIn(m, i) == 4 * Len(EncodeAll(SubSeq(m, 1, i - 1)))
NestedBytes(as, j) == 4 * Len(EncodeNested(SubSeq(as, 1, j)))

\* A header's length, rounded up, leads from an attribute to the next one.
LEMMA MessageOffsets ==
  ASSUME NEW m \in Seq(Attributes)
  PROVE  /\ Len(m) \in Nat
         /\ StartIn(m, 1) = 0
         /\ StartIn(m, Len(m) + 1) = 4 * Len(EncodeAll(m))
         /\ \A i \in 1..(Len(m) + 1) : StartIn(m, i) \in Nat
         /\ \A i \in 1..(Len(m) + 1) : \A k \in i..(Len(m) + 1) : StartIn(m, i) <= StartIn(m, k)
         /\ \A i \in 1..Len(m) :
              LET header == HeaderAt(m, StartIn(m, i)) IN
              /\ header.type = m[i].type /\ header.len \in Nat
              /\ StartIn(m, i + 1) = StartIn(m, i) + NLA_ALIGN(header.len)
              /\ StartIn(m, i) + NLA_HDRLEN <= StartIn(m, i + 1)
<1> DEFINE n == Len(m)
           words(i) == Len(EncodeAll(SubSeq(m, 1, i)))
<1>1. n \in Nat /\ \A i \in 1..n : m[i] \in Attributes
  BY LenProperties, ElementOfSeq
<1>2. /\ words(0) = 0
      /\ words(n) = Len(EncodeAll(m))
      /\ \A i \in 0..n : words(i) \in Nat
      /\ \A i \in 0..n : \A k \in i..n : words(i) <= words(k)
      /\ \A i \in 1..n : words(i) = words(i - 1) + Len(Encode(m[i]))
      /\ \A i \in 1..n : \A x \in 1..Len(Encode(m[i])) :
           EncodeAll(m)[words(i - 1) + x] = Encode(m[i])[x]
  <2>1. Len(<<>>) = 0
    OBVIOUS
  <2> QED BY <2>1, MessageEncoding
<1>3. \A i : StartIn(m, i) = 4 * words(i - 1)
  BY DEF StartIn
<1> HIDE DEF n, words
<1>4. StartIn(m, 1) = 0 /\ StartIn(m, n + 1) = 4 * Len(EncodeAll(m))
  <2>1. 1 - 1 = 0 /\ n + 1 - 1 = n
    BY <1>1
  <2>2. StartIn(m, 1) = 4 * words(0) /\ 4 * 0 = 0
    BY <1>3, <2>1
  <2>3. StartIn(m, n + 1) = 4 * words(n)
    <3> DEFINE i == n + 1
    <3>1. i - 1 = n
      BY <1>1
    <3> HIDE DEF i
    <3>2. StartIn(m, i) = 4 * words(n)
      BY <1>3, <3>1
    <3> QED BY <3>2 DEF i
  <2>4. StartIn(m, 1) = 0
    BY <1>2, <2>2
  <2> QED BY <1>2, <2>3, <2>4
<1>5. ASSUME NEW i \in 1..(n + 1) PROVE StartIn(m, i) \in Nat
  <2>1. i - 1 \in 0..n
    BY <1>1
  <2> QED BY <1>2, <1>3, <2>1
<1>6. ASSUME NEW i \in 1..(n + 1), NEW k \in i..(n + 1) PROVE StartIn(m, i) <= StartIn(m, k)
  <2>1. i - 1 \in 0..n /\ k - 1 \in (i - 1)..n /\ k - 1 \in 0..n
    BY <1>1
  <2>2. words(i - 1) <= words(k - 1) /\ words(i - 1) \in Nat /\ words(k - 1) \in Nat
    BY <1>2, <2>1
  <2> QED BY <1>3, <2>2
<1>7. ASSUME NEW i \in 1..n
      PROVE  LET header == HeaderAt(m, StartIn(m, i)) IN
             /\ header.type = m[i].type /\ header.len \in Nat
             /\ StartIn(m, i + 1) = StartIn(m, i) + NLA_ALIGN(header.len)
             /\ StartIn(m, i) + NLA_HDRLEN <= StartIn(m, i + 1)
  <2> DEFINE before == words(i - 1)
             own == Len(Encode(m[i]))
  <2>1. before \in Nat /\ i + 1 - 1 = i
    <3>1. i - 1 \in 0..n /\ i + 1 - 1 = i
      BY <1>1
    <3> QED BY <1>2, <3>1
  <2>2. own \in Nat \ {0} /\ Encode(m[i])[1] \in Words /\ Encode(m[i])[1].type = m[i].type
        /\ 4 * own = NLA_ALIGN(Encode(m[i])[1].len)
    BY <1>1, AttributeEncoding
  <2>3. StartIn(m, i) = 4 * before /\ StartIn(m, i + 1) = 4 * words(i)
    BY <1>3, <2>1
  <2>4. words(i) = before + own
    BY <1>2
  <2>5. HeaderAt(m, StartIn(m, i)) = Encode(m[i])[1]
    <3>1. EncodeAll(m)[before + 1] = Encode(m[i])[1]
      <4>1. 1 \in 1..own
        <5> HIDE DEF own
        <5> QED BY <2>2
      <4> QED BY <1>2, <4>1
    <3>2. (4 * before) \div 4 = before
      <4> HIDE DEF before
      <4> QED BY <2>1
    <3> QED BY <2>3, <3>1, <3>2 DEF HeaderAt
  <2> HIDE DEF before, own
  <2>6. 4 * (before + own) = 4 * before + 4 * own /\ 4 * before + NLA_HDRLEN <= 4 * (before + own)
    BY <2>1, <2>2 DEF NLA_HDRLEN
  <2>7. Encode(m[i])[1].len \in Nat
    BY <2>2 DEF Words
  <2> QED BY <2>2, <2>3, <2>4, <2>5, <2>6, <2>7
<1> QED BY <1>1, <1>4, <1>5, <1>6, <1>7 DEF n

\* And from one nested attribute to the next one in an aggregate, up to its end.
LEMMA NestedOffsets ==
  ASSUME NEW m \in Seq(Attributes), NEW i \in 1..Len(m), m[i].type \in Aggregates
  PROVE  LET as == m[i].nested
             first == StartIn(m, i) + NLA_HDRLEN
         IN /\ Len(as) \in Nat
            /\ NestedBytes(as, 0) = 0
            /\ \A j \in 0..Len(as) : NestedBytes(as, j) \in Nat
            /\ \A j \in 0..Len(as) : \A k \in j..Len(as) : NestedBytes(as, j) <= NestedBytes(as, k)
            /\ HeaderAt(m, StartIn(m, i)).len = NLA_HDRLEN + NestedBytes(as, Len(as))
            /\ StartIn(m, i + 1) = first + NestedBytes(as, Len(as))
            /\ \A j \in 1..Len(as) :
                 LET header == HeaderAt(m, first + NestedBytes(as, j - 1)) IN
                 /\ header.type = as[j].type /\ header.len \in Nat
                 /\ NestedBytes(as, j) = NestedBytes(as, j - 1) + NLA_ALIGN(header.len)
                 /\ NestedBytes(as, j - 1) + NLA_HDRLEN <= NestedBytes(as, j)
<1> DEFINE a == m[i]
           as == a.nested
           n == Len(as)
           words(j) == Len(EncodeNested(SubSeq(as, 1, j)))
           before == Len(EncodeAll(SubSeq(m, 1, i - 1)))
<1>1. a \in Attributes /\ as \in Seq(Leaves) /\ a.type \in Aggregates
  <2>1. a \in Attributes
    BY ElementOfSeq
  <2> HIDE DEF a
  <2>2. a.nested \in Seq(Leaves)
    BY <2>1 DEF Attributes
  <2> QED BY <2>1, <2>2 DEF a
<1>2. n \in Nat /\ \A j \in 1..n : as[j] \in Leaves
  <2> HIDE DEF as
  <2> QED BY <1>1, LenProperties, ElementOfSeq
<1>3. /\ words(0) = 0
      /\ words(n) = Len(EncodeNested(as))
      /\ \A j \in 0..n : words(j) \in Nat
      /\ \A j \in 0..n : \A k \in j..n : words(j) <= words(k)
      /\ \A j \in 1..n : /\ words(j) = words(j - 1) + Len(EncodeLeaf(as[j]))
                         /\ words(j - 1) + 1 <= Len(EncodeNested(as))
                         /\ EncodeNested(as)[words(j - 1) + 1] = EncodeLeaf(as[j])[1]
  <2>1. Len(<<>>) = 0
    OBVIOUS
  <2> HIDE DEF as
  <2> QED BY <1>1, <2>1, NestedEncoding
<1>4. /\ Encode(a)[1].len = NLA_HDRLEN + 4 * Len(EncodeNested(as))
      /\ Len(Encode(a)) = 1 + Len(EncodeNested(as))
      /\ \A x \in 1..Len(EncodeNested(as)) : Encode(a)[1 + x] = EncodeNested(as)[x]
  <2> HIDE DEF a
  <2> QED BY <1>1, AttributeEncoding
<1>5. /\ before \in Nat
      /\ Len(EncodeAll(SubSeq(m, 1, i))) = before + Len(Encode(a))
      /\ \A x \in 1..Len(Encode(a)) : EncodeAll(m)[before + x] = Encode(a)[x]
  <2>1. i - 1 \in 0..Len(m)
    BY LenProperties
  <2> QED BY <2>1, MessageEncoding
<1>6. StartIn(m, i) = 4 * before
  BY DEF StartIn
<1>7. StartIn(m, i + 1) = 4 * Len(EncodeAll(SubSeq(m, 1, i)))
  <2>1. i + 1 - 1 = i
    BY LenProperties
  <2> QED BY <2>1 DEF StartIn
<1>8. \A j \in 0..n : NestedBytes(as, j) = 4 * words(j)
  BY DEF NestedBytes
<1>9. i \in Nat \ {0}
  BY LenProperties
<1> HIDE DEF a, as, n, words, before
<1>10. NestedBytes(as, 0) = 0
  <2>1. 0 \in 0..n /\ 4 * 0 = 0
    BY <1>2
  <2>2. NestedBytes(as, 0) = 4 * words(0)
    BY <1>8, <2>1
  <2> QED BY <1>3, <2>1, <2>2
<1>11. ASSUME NEW j \in 0..n PROVE NestedBytes(as, j) \in Nat
  <2>1. words(j) \in Nat /\ NestedBytes(as, j) = 4 * words(j)
    BY <1>3, <1>8
  <2>2. 4 * words(j) \in Nat
    BY <2>1
  <2> QED BY <2>1, <2>2
<1>12. ASSUME NEW j \in 0..n, NEW k \in j..n PROVE NestedBytes(as, j) <= NestedBytes(as, k)
  <2>1. k \in 0..n
    BY <1>2
  <2>2. words(j) <= words(k) /\ words(j) \in Nat /\ words(k) \in Nat
    BY <1>3, <2>1
  <2>3. NestedBytes(as, j) = 4 * words(j) /\ NestedBytes(as, k) = 4 * words(k)
    BY <1>8, <2>1
  <2>4. 4 * words(j) <= 4 * words(k)
    BY <2>2
  <2> QED BY <2>3, <2>4
<1>13. words(n) \in Nat /\ NestedBytes(as, n) = 4 * words(n)
  <2>1. n \in 0..n
    BY <1>2
  <2> QED BY <1>3, <1>8, <2>1
<1>14. HeaderAt(m, StartIn(m, i)).len = NLA_HDRLEN + NestedBytes(as, n)
  <2>1. (4 * before) \div 4 = before
    BY <1>5
  <2>2. EncodeAll(m)[before + 1] = Encode(a)[1]
    <3>1. 1 \in 1..(1 + words(n))
      BY <1>13
    <3> QED BY <1>3, <1>4, <1>5, <3>1
  <2> QED BY <1>3, <1>4, <1>6, <1>13, <2>1, <2>2 DEF HeaderAt
<1>15. StartIn(m, i + 1) = StartIn(m, i) + NLA_HDRLEN + NestedBytes(as, n)
  <2>1. StartIn(m, i + 1) = 4 * (before + (1 + words(n)))
    BY <1>3, <1>4, <1>5, <1>7
  <2>2. 4 * (before + (1 + words(n))) = 4 * before + 4 + 4 * words(n)
    BY <1>5, <1>13
  <2> QED BY <1>6, <1>13, <2>1, <2>2 DEF NLA_HDRLEN
<1>16. ASSUME NEW j \in 1..n
       PROVE  LET header == HeaderAt(m, StartIn(m, i) + NLA_HDRLEN + NestedBytes(as, j - 1)) IN
              /\ header.type = as[j].type /\ header.len \in Nat
              /\ NestedBytes(as, j) = NestedBytes(as, j - 1) + NLA_ALIGN(header.len)
              /\ NestedBytes(as, j - 1) + NLA_HDRLEN <= NestedBytes(as, j)
  <2> DEFINE past == words(j - 1)
             own == Len(EncodeLeaf(as[j]))
             header == EncodeLeaf(as[j])[1]
  <2>1. /\ words(j) = past + own
        /\ past + 1 <= words(n)
        /\ EncodeNested(as)[past + 1] = header
    BY <1>3
  <2>2. past \in Nat /\ words(j) \in Nat
    <3>1. j - 1 \in 0..n /\ j \in 0..n
      BY <1>2
    <3> QED BY <1>3, <3>1
  <2>3. /\ own \in Nat \ {0} /\ 4 * own = NLA_ALIGN(header.len)
        /\ header = [len |-> NLA_HDRLEN + as[j].size, type |-> as[j].type]
        /\ as[j].size \in Nat
    <3>1. as[j].type \in Nat /\ as[j].size \in Nat
      BY <1>2 DEF Leaves
    <3> QED BY <3>1, LeafEncoding
  <2>4. NestedBytes(as, j - 1) = 4 * past /\ NestedBytes(as, j) = 4 * words(j)
    <3>1. j - 1 \in 0..n /\ j \in 0..n
      BY <1>2
    <3> QED BY <1>8, <3>1
  <2> HIDE DEF past, own, header
  <2>5. header.type = as[j].type /\ header.len \in Nat
    <3>1. header.type = as[j].type /\ header.len = NLA_HDRLEN + as[j].size
      BY <2>3
    <3>2. as[j].size \in Nat
      BY <2>3
    <3>3. NLA_HDRLEN + as[j].size \in Nat
      <4> DEFINE size == as[j].size
      <4> HIDE DEF size
      <4>1. ASSUME size \in Nat PROVE NLA_HDRLEN + size \in Nat
        BY <4>1 DEF NLA_HDRLEN
      <4> QED BY <3>2, <4>1 DEF size
    <3> QED BY <3>1, <3>3
  <2>6. HeaderAt(m, StartIn(m, i) + NLA_HDRLEN + NestedBytes(as, j - 1)) = header
    <3>0. past + 1 \in 1..words(n) /\ 1 + (past + 1) \in 1..(1 + words(n))
      <4> DEFINE total == words(n)
      <4>1. past \in Nat /\ total \in Nat /\ past + 1 <= total
        BY <1>13, <2>1, <2>2
      <4> HIDE DEF total
      <4>2. past + 1 \in 1..total /\ 1 + (past + 1) \in 1..(1 + total)
        BY <4>1
      <4> QED BY <4>2 DEF total
    <3>1. past + 1 \in 1..Len(EncodeNested(as))
      BY <1>3, <3>0
    <3>2. Encode(a)[1 + (past + 1)] = header
      BY <1>4, <2>1, <3>1
    <3>3. 1 + (past + 1) \in 1..Len(Encode(a))
      BY <1>3, <1>4, <3>0
    <3>4. EncodeAll(m)[before + (1 + (past + 1))] = header
      BY <1>5, <3>2, <3>3
    <3>5. (4 * before + 4 + 4 * past) \div 4 + 1 = before + (1 + (past + 1))
      BY <1>5, <2>2
    <3>6. StartIn(m, i) + NLA_HDRLEN + NestedBytes(as, j - 1) = 4 * before + 4 + 4 * past
      BY <1>6, <2>4 DEF NLA_HDRLEN
    <3> QED BY <3>4, <3>5, <3>6 DEF HeaderAt
  <2>7. 4 * (past + own) = 4 * past + 4 * own /\ 4 * past + NLA_HDRLEN <= 4 * (past + own)
    BY <2>2, <2>3 DEF NLA_HDRLEN
  <2> QED BY <2>1, <2>3, <2>4, <2>5, <2>6, <2>7
<1> QED BY <1>2, <1>10, <1>11, <1>12, <1>14, <1>15, <1>16 DEF a, as, n

-------------------------------------------------------------------------------
\* The inductive invariant.  While the outer loop runs, the pointer and the count
\* both stand at the start of one attribute and no statistics have been passed.
\* Inside an aggregate the outer count is past it, the inner count is at the
\* start of a nested attribute or at the end, and the pointer, which the code
\* moves by the count, is where the count is as long as a header is left to read.
NoStatsIn(as, j) == \A k \in 1..j : as[k].type # TASKSTATS_TYPE_STATS
NoStatsBefore(m, i) ==
  \A k \in 1..(i - 1) : m[k].type \in Aggregates => NoStatsIn(m[k].nested, Len(m[k].nested))

AtAttribute ==
  \E i \in 1..(Len(msg) + 1) :
    /\ len = StartIn(msg, i) /\ na = len
    /\ NoStatsBefore(msg, i)

InAggregateAt(i, j) ==
  /\ msg[i].type \in Aggregates
  /\ len = StartIn(msg, i + 1)
  /\ aggr_len = NestedBytes(msg[i].nested, Len(msg[i].nested))
  /\ len2 = NestedBytes(msg[i].nested, j - 1)
  /\ j <= Len(msg[i].nested) => na = StartIn(msg, i) + NLA_HDRLEN + len2
  /\ NoStatsBefore(msg, i) /\ NoStatsIn(msg[i].nested, j - 1)
InAggregate ==
  \E i \in 1..Len(msg) : \E j \in 1..(Len(msg[i].nested) + 1) : InAggregateAt(i, j)

WalkInv ==
  /\ TypeOK
  /\ pc = "outer" => AtAttribute /\ copied = Nothing
  /\ pc = "inner" => InAggregate /\ copied = Nothing
  /\ FindsFirstStats
LEMMA Replies ==
  ASSUME TypeOK
  PROVE  /\ msg \in Seq(Attributes)
         /\ rep_len = StartIn(msg, Len(msg) + 1)
         /\ rep_len \in Nat
<1>1. msg \in Seq(Attributes)
  BY RepliesAreAttributes DEF TypeOK
<1>2. Len(msg) \in Nat /\ Len(msg) + 1 \in 1..(Len(msg) + 1)
  BY <1>1, LenProperties
<1> QED BY <1>1, <1>2, MessageOffsets DEF rep_len

\* What a header at an attribute's start says, for At and in the outer loop.
LEMMA AtStart ==
  ASSUME TypeOK, NEW i \in 1..Len(msg), na = StartIn(msg, i)
  PROVE  /\ At(na).type = msg[i].type
         /\ StartIn(msg, i + 1) = StartIn(msg, i) + NLA_ALIGN(At(na).len)
         /\ StartIn(msg, i) + NLA_HDRLEN <= StartIn(msg, i + 1)
         /\ StartIn(msg, i) \in Nat /\ StartIn(msg, i + 1) \in 0..rep_len
         /\ msg[i].type \in Aggregates =>
              /\ NLA_PAYLOAD(At(na).len) = NestedBytes(msg[i].nested, Len(msg[i].nested))
              /\ NLA_PAYLOAD(At(na).len) \in 0..StartIn(msg, i + 1)
<1> DEFINE n == Len(msg)
           start(k) == StartIn(msg, k)
           header == At(na)
<1>1. msg \in Seq(Attributes) /\ rep_len = start(n + 1) /\ n \in Nat
  BY Replies, LenProperties
<1>2. header = HeaderAt(msg, start(i))
  BY DEF At, HeaderAt
<1>3. header.type = msg[i].type /\ header.len \in Nat
      /\ start(i + 1) = start(i) + NLA_ALIGN(header.len)
      /\ start(i) + NLA_HDRLEN <= start(i + 1)
  BY <1>1, <1>2, MessageOffsets
<1>4. start(i) \in Nat /\ start(i + 1) \in Nat /\ start(n + 1) \in Nat
      /\ start(i + 1) <= start(n + 1)
  <2>1. i \in 1..(n + 1) /\ i + 1 \in 1..(n + 1) /\ n + 1 \in (i + 1)..(n + 1)
        /\ n + 1 \in 1..(n + 1)
    BY <1>1
  <2> QED BY <1>1, <2>1, MessageOffsets
<1>5. ASSUME msg[i].type \in Aggregates
      PROVE  /\ NLA_PAYLOAD(header.len) = NestedBytes(msg[i].nested, Len(msg[i].nested))
             /\ NLA_PAYLOAD(header.len) \in 0..start(i + 1)
  <2> DEFINE bytes == NestedBytes(msg[i].nested, Len(msg[i].nested))
  <2>1. /\ header.len = NLA_HDRLEN + bytes
        /\ start(i + 1) = start(i) + NLA_HDRLEN + bytes
    BY <1>1, <1>2, <1>5, NestedOffsets
  <2>2. bytes \in Nat
    <3>1. Len(msg[i].nested) \in 0..Len(msg[i].nested)
      BY <1>1, <1>5, NestedOffsets
    <3> QED BY <1>1, <1>5, <3>1, NestedOffsets
  <2> HIDE DEF bytes, start, header
  <2>3. NLA_PAYLOAD(header.len) = bytes
    BY <2>1, <2>2 DEF NLA_PAYLOAD, NLA_HDRLEN
  <2>4. bytes \in 0..start(i + 1)
    BY <1>4, <2>1, <2>2 DEF NLA_HDRLEN
  <2> QED BY <2>3, <2>4 DEF bytes
<1>6. start(i + 1) \in 0..start(n + 1)
  BY <1>4
<1> QED BY <1>1, <1>3, <1>4, <1>5, <1>6

\* One turn of the outer loop, into an aggregate or on to the next attribute.
LEMMA OuterStep ==
  ASSUME WalkInv, Outer
  PROVE  WalkInv'
<1>1. TypeOK /\ AtAttribute /\ copied = Nothing /\ pc = "outer" /\ len < rep_len
  BY DEF WalkInv, Outer
<1>2. msg \in Seq(Attributes) /\ rep_len = StartIn(msg, Len(msg) + 1) /\ Len(msg) \in Nat
  BY <1>1, Replies, LenProperties
<1>3. PICK i \in 1..Len(msg) :
        len = StartIn(msg, i) /\ na = StartIn(msg, i) /\ NoStatsBefore(msg, i)
  <2>1. PICK i \in 1..(Len(msg) + 1) :
          len = StartIn(msg, i) /\ na = len /\ NoStatsBefore(msg, i)
    BY <1>1 DEF AtAttribute
  <2>2. len \in Nat /\ rep_len \in Nat
    BY <1>1, Replies DEF TypeOK
  <2>3. i # Len(msg) + 1
    BY <1>1, <1>2, <2>1, <2>2
  <2>4. i \in 1..Len(msg)
    BY <1>2, <2>3
  <2> QED BY <2>1, <2>4
<1> DEFINE next == StartIn(msg, i + 1)
           nested == msg[i].nested
<1>4. /\ At(na).type = msg[i].type
      /\ next = StartIn(msg, i) + NLA_ALIGN(At(na).len)
      /\ StartIn(msg, i) \in Nat /\ next \in 0..rep_len
      /\ msg[i].type \in Aggregates =>
           /\ NLA_PAYLOAD(At(na).len) = NestedBytes(nested, Len(nested))
           /\ NLA_PAYLOAD(At(na).len) \in 0..next
  BY <1>1, <1>3, AtStart
<1>5. len' = next /\ msg' = msg /\ copied' = copied /\ rep_len' = rep_len
  BY <1>3, <1>4 DEF Outer, rep_len
<1>6. next \in Nat /\ rep_len \in Nat
  BY <1>1, <1>4, Replies
<1>7. CASE msg[i].type \in Aggregates
  <2>1. pc' = "inner" /\ aggr_len' = NestedBytes(nested, Len(nested)) /\ len2' = 0
        /\ na' = StartIn(msg, i) + NLA_HDRLEN
    BY <1>3, <1>4, <1>7 DEF Outer
  <2>2. TypeOK'
    <3>1. aggr_len' \in 0..rep_len /\ len2' \in 0..aggr_len'
      <4> HIDE DEF next
      <4> QED BY <1>4, <1>6, <1>7, <2>1
    <3>2. na' \in Nat
      BY <1>4, <2>1 DEF NLA_HDRLEN
    <3> QED BY <1>1, <1>4, <1>5, <2>1, <3>1, <3>2 DEF TypeOK
  <2>3. InAggregate'
    <3>1. NestedBytes(nested, 0) = 0 /\ Len(nested) \in Nat
      BY <1>2, <1>7, NestedOffsets
    <3>2. 1 \in 1..(Len(nested) + 1) /\ 1 - 1 = 0
      BY <3>1
    <3>3. NoStatsIn(nested, 0)
      BY DEF NoStatsIn
    <3>4. na' = StartIn(msg, i) + NLA_HDRLEN + len2'
      BY <1>4, <2>1 DEF NLA_HDRLEN
    <3>5. InAggregateAt(i, 1)'
      BY <1>3, <1>5, <1>7, <2>1, <3>1, <3>2, <3>3, <3>4 DEF InAggregateAt
    <3> QED BY <1>5, <3>2, <3>5 DEF InAggregate
  <2> QED BY <1>1, <1>5, <2>1, <2>2, <2>3 DEF WalkInv, FindsFirstStats
<1>8. CASE msg[i].type \notin Aggregates
  <2>1. pc' = "outer" /\ aggr_len' = aggr_len /\ len2' = len2 /\ na' = next
    BY <1>1, <1>3, <1>4, <1>5, <1>8 DEF Outer
  <2>2. TypeOK'
    BY <1>1, <1>4, <1>5, <1>6, <2>1 DEF TypeOK
  <2>3. NoStatsBefore(msg, i + 1)
    <3>1. \A k \in 1..(i + 1 - 1) : k \in 1..(i - 1) \/ k = i
      BY <1>2
    <3> QED BY <1>3, <1>8, <3>1 DEF NoStatsBefore
  <2>4. AtAttribute'
    <3>1. i + 1 \in 1..(Len(msg) + 1)
      BY <1>2
    <3> QED BY <1>5, <2>1, <2>3, <3>1 DEF AtAttribute
  <2> QED BY <1>1, <1>5, <2>1, <2>2, <2>4 DEF WalkInv, FindsFirstStats
<1> QED BY <1>7, <1>8

\* What a header at a nested attribute says, in the inner loop.
LEMMA AtNested ==
  ASSUME TypeOK, NEW i \in 1..Len(msg), msg[i].type \in Aggregates,
         NEW j \in 1..Len(msg[i].nested),
         na = StartIn(msg, i) + NLA_HDRLEN + NestedBytes(msg[i].nested, j - 1)
  PROVE  /\ At(na).type = msg[i].nested[j].type
         /\ NestedBytes(msg[i].nested, j) =
              NestedBytes(msg[i].nested, j - 1) + NLA_ALIGN(At(na).len)
<1>1. msg \in Seq(Attributes)
  BY Replies
<1>2. At(na) = HeaderAt(msg, StartIn(msg, i) + NLA_HDRLEN + NestedBytes(msg[i].nested, j - 1))
  BY DEF At, HeaderAt
<1> QED BY <1>1, <1>2, NestedOffsets

\* Two statistics in a reply: the one the walk meets first is at the lower offset.
StatsAt(m, i, j) ==
  /\ m[i].type \in Aggregates
  /\ m[i].nested[j].type = TASKSTATS_TYPE_STATS
NestedStart(m, i, j) == StartIn(m, i) + NLA_HDRLEN + NestedBytes(m[i].nested, j - 1)

\* Statistics of an earlier attribute, or earlier in the same one, start lower.
LEMMA StatsOrder ==
  ASSUME NEW m \in Seq(Attributes),
         NEW i \in 1..Len(m), NEW j \in 1..Len(m[i].nested), StatsAt(m, i, j),
         NoStatsBefore(m, i), NoStatsIn(m[i].nested, j - 1),
         NEW k \in 1..Len(m), NEW l \in 1..Len(m[k].nested), StatsAt(m, k, l)
  PROVE  NestedStart(m, i, j) <= NestedStart(m, k, l)
<1> DEFINE a == m[i].nested
           b == m[k].nested
<1>1. Len(m) \in Nat /\ Len(a) \in Nat /\ Len(b) \in Nat
  BY LenProperties, NestedOffsets DEF StatsAt
<1>2. j - 1 \in 0..Len(a) /\ l - 1 \in 0..Len(b)
  BY <1>1
<1>3. /\ StartIn(m, i) \in Nat /\ StartIn(m, k) \in Nat
      /\ NestedBytes(a, j - 1) \in Nat /\ NestedBytes(b, l - 1) \in Nat
  <2>1. i \in 1..(Len(m) + 1) /\ k \in 1..(Len(m) + 1)
    BY <1>1
  <2>2. NestedBytes(a, j - 1) \in Nat
    BY <1>2, NestedOffsets DEF StatsAt
  <2>3. NestedBytes(b, l - 1) \in Nat
    BY <1>2, NestedOffsets DEF StatsAt
  <2> QED BY <2>1, <2>2, <2>3, MessageOffsets
<1>4. k >= i
  <2>1. SUFFICES ASSUME k < i PROVE FALSE
    BY <1>1
  <2>2. k \in 1..(i - 1)
    BY <1>1, <2>1
  <2>3. NoStatsIn(b, Len(b))
    BY <2>2 DEF NoStatsBefore, StatsAt
  <2> QED BY <2>3 DEF NoStatsIn, StatsAt
<1>5. CASE k = i
  <2>1. l >= j
    <3>1. SUFFICES ASSUME l < j PROVE FALSE
      BY <1>1, <1>5
    <3>2. l \in 1..(j - 1)
      BY <1>1, <1>5, <3>1
    <3> QED BY <1>5, <3>2 DEF NoStatsIn, StatsAt
  <2>2. l - 1 \in (j - 1)..Len(a)
    BY <1>1, <1>5, <2>1
  <2>3. NestedBytes(a, j - 1) <= NestedBytes(a, l - 1)
    BY <1>2, <2>2, NestedOffsets DEF StatsAt
  <2> QED BY <1>3, <1>5, <2>3 DEF NestedStart, NLA_HDRLEN
<1>6. CASE k # i
  <2>1. i + 1 \in 1..(Len(m) + 1) /\ k \in (i + 1)..(Len(m) + 1)
    BY <1>1, <1>4, <1>6
  <2>2. StartIn(m, i + 1) <= StartIn(m, k) /\ StartIn(m, i + 1) \in Nat
    BY <2>1, MessageOffsets
  <2>3. StartIn(m, i + 1) = StartIn(m, i) + NLA_HDRLEN + NestedBytes(a, Len(a))
    BY NestedOffsets DEF StatsAt
  <2>4. NestedBytes(a, j - 1) <= NestedBytes(a, Len(a)) /\ NestedBytes(a, Len(a)) \in Nat
    <3>1. Len(a) \in (j - 1)..Len(a) /\ Len(a) \in 0..Len(a)
      BY <1>1
    <3> QED BY <1>2, <3>1, NestedOffsets DEF StatsAt
  <2> DEFINE s == StartIn(m, i)
             t == StartIn(m, k)
             p == NestedBytes(a, j - 1)
             q == NestedBytes(b, l - 1)
             whole == NestedBytes(a, Len(a))
  <2>5. /\ s \in Nat /\ t \in Nat /\ p \in Nat /\ q \in Nat /\ whole \in Nat
        /\ s + NLA_HDRLEN + whole <= t /\ p <= whole
    BY <1>3, <2>2, <2>3, <2>4
  <2> HIDE DEF s, t, p, q, whole
  <2>6. s + NLA_HDRLEN + p <= t + NLA_HDRLEN + q
    BY <2>5 DEF NLA_HDRLEN
  <2> QED BY <2>6 DEF NestedStart, s, t, p, q
<1> QED BY <1>5, <1>6

\* The starts of all statistics, as NestedStart gives them.
LEMMA StatsStartsAre ==
  ASSUME msg \in Seq(Attributes)
  PROVE  \A o : o \in StatsStarts <=>
           \E i \in 1..Len(msg) : \E j \in 1..Len(msg[i].nested) :
             StatsAt(msg, i, j) /\ o = NestedStart(msg, i, j)
<1>1. DOMAIN msg = 1..Len(msg)
  BY LenProperties
<1>2. \A i \in 1..Len(msg) :
        msg[i].type \in Aggregates => DOMAIN msg[i].nested = 1..Len(msg[i].nested)
  <2> TAKE i \in 1..Len(msg)
  <2>1. msg[i] \in Attributes
    BY ElementOfSeq
  <2>2. msg[i].nested \in Seq(Leaves)
    <3> DEFINE a == msg[i]
    <3> HIDE DEF a
    <3>1. a \in Attributes => a.nested \in Seq(Leaves)
      BY DEF Attributes
    <3> QED BY <2>1, <3>1 DEF a
  <2> QED BY <2>2, LenProperties
<1>3. \A i, j : InnerStart(i, j) = NestedStart(msg, i, j)
  BY DEF InnerStart, OuterStart, NestedStart, StartIn, NestedBytes
<1> QED BY <1>1, <1>2, <1>3 DEF StatsStarts, StatsAt

\* The statistics at the j-th place of the i-th attribute are the first ones.
LEMMA FirstStats ==
  ASSUME msg \in Seq(Attributes),
         NEW i \in 1..Len(msg), NEW j \in 1..Len(msg[i].nested), StatsAt(msg, i, j),
         NoStatsBefore(msg, i), NoStatsIn(msg[i].nested, j - 1)
  PROVE  StatsStarts # {} /\ Min(StatsStarts) = NestedStart(msg, i, j)
<1> DEFINE o == NestedStart(msg, i, j)
<1>1. o \in StatsStarts
  BY StatsStartsAre
<1>2. ASSUME NEW x \in StatsStarts PROVE o <= x
  <2>0. PICK k \in 1..Len(msg) : \E l \in 1..Len(msg[k].nested) :
          StatsAt(msg, k, l) /\ x = NestedStart(msg, k, l)
    BY StatsStartsAre
  <2>1. PICK l \in 1..Len(msg[k].nested) : StatsAt(msg, k, l) /\ x = NestedStart(msg, k, l)
    BY <2>0
  <2> QED BY <2>1, StatsOrder
<1>3. \A x \in StatsStarts : x \in Nat
  <2> TAKE x \in StatsStarts
  <2>0. PICK k \in 1..Len(msg) : \E l \in 1..Len(msg[k].nested) :
          StatsAt(msg, k, l) /\ x = NestedStart(msg, k, l)
    BY StatsStartsAre
  <2>1. PICK l \in 1..Len(msg[k].nested) : StatsAt(msg, k, l) /\ x = NestedStart(msg, k, l)
    BY <2>0
  <2>2. Len(msg) \in Nat /\ Len(msg[k].nested) \in Nat
    BY <2>1, LenProperties, NestedOffsets DEF StatsAt
  <2>3. k \in 1..(Len(msg) + 1) /\ l - 1 \in 0..Len(msg[k].nested)
    BY <2>2
  <2>4. StartIn(msg, k) \in Nat /\ NestedBytes(msg[k].nested, l - 1) \in Nat
    BY <2>1, <2>3, MessageOffsets, NestedOffsets DEF StatsAt
  <2> DEFINE s == StartIn(msg, k)
             p == NestedBytes(msg[k].nested, l - 1)
  <2>5. s \in Nat /\ p \in Nat
    BY <2>4
  <2> HIDE DEF s, p
  <2>6. s + NLA_HDRLEN + p \in Nat
    BY <2>5 DEF NLA_HDRLEN
  <2> QED BY <2>1, <2>6 DEF NestedStart, s, p
<1> HIDE DEF o
<1>4. \A x \in StatsStarts : (\A y \in StatsStarts : x <= y) => x = o
  BY <1>1, <1>2, <1>3
<1>5. Min(StatsStarts) = o
  BY <1>1, <1>2, <1>4 DEF Min
<1> QED BY <1>1, <1>5 DEF o

\* A reply the walk has passed without statistics has none.
LEMMA NoStats ==
  ASSUME msg \in Seq(Attributes), NoStatsBefore(msg, Len(msg) + 1)
  PROVE  StatsStarts = {}
<1>1. SUFFICES ASSUME NEW x \in StatsStarts PROVE FALSE
  OBVIOUS
<1>0. PICK k \in 1..Len(msg) : \E l \in 1..Len(msg[k].nested) : StatsAt(msg, k, l)
  BY <1>1, StatsStartsAre
<1>2. PICK l \in 1..Len(msg[k].nested) : StatsAt(msg, k, l)
  BY <1>0
<1>3. k \in 1..(Len(msg) + 1 - 1)
  BY LenProperties
<1>4. NoStatsIn(msg[k].nested, Len(msg[k].nested))
  BY <1>2, <1>3 DEF NoStatsBefore, StatsAt
<1> QED BY <1>2, <1>4 DEF NoStatsIn, StatsAt

\* Where the inner loop is, and how many bytes of the aggregate are left.
LEMMA InnerPlace ==
  ASSUME WalkInv, pc = "inner"
  PROVE  /\ TypeOK /\ copied = Nothing
         /\ msg \in Seq(Attributes) /\ Len(msg) \in Nat
         /\ \E i \in 1..Len(msg) : \E j \in 1..(Len(msg[i].nested) + 1) :
              /\ InAggregateAt(i, j)
              /\ Len(msg[i].nested) \in Nat
              /\ len2 < aggr_len => j \in 1..Len(msg[i].nested)
              /\ len2 >= aggr_len => j = Len(msg[i].nested) + 1
<1>1. TypeOK /\ copied = Nothing /\ InAggregate
  BY DEF WalkInv
<1>2. msg \in Seq(Attributes) /\ Len(msg) \in Nat
  BY <1>1, Replies, LenProperties
<1>3. PICK i \in 1..Len(msg) : \E j \in 1..(Len(msg[i].nested) + 1) : InAggregateAt(i, j)
  BY <1>1 DEF InAggregate
<1>4. PICK j \in 1..(Len(msg[i].nested) + 1) : InAggregateAt(i, j)
  BY <1>3
<1> DEFINE as == msg[i].nested
           n == Len(as)
<1>5. /\ msg[i].type \in Aggregates
      /\ aggr_len = NestedBytes(as, n) /\ len2 = NestedBytes(as, j - 1)
  BY <1>4 DEF InAggregateAt
<1>6. n \in Nat /\ \A k \in 0..n : NestedBytes(as, k) \in Nat
  BY <1>2, <1>5, NestedOffsets
<1>7. ASSUME len2 < aggr_len PROVE j \in 1..n
  <2>1. j - 1 # n
    <3>1. n \in 0..n
      BY <1>6
    <3>2. aggr_len \in Nat /\ (j - 1 = n => len2 = aggr_len)
      BY <1>5, <1>6, <3>1
    <3> QED BY <1>7, <3>2
  <2> HIDE DEF n
  <2> QED BY <1>6, <2>1 DEF n
<1>8. ASSUME len2 >= aggr_len PROVE j = n + 1
  <2>1. SUFFICES ASSUME j # n + 1 PROVE FALSE
    OBVIOUS
  <2>2. j \in 1..n
    <3> HIDE DEF n
    <3> QED BY <1>6, <2>1 DEF n
  <2>3. NestedBytes(as, j - 1) + NLA_HDRLEN <= NestedBytes(as, j)
    BY <1>2, <1>5, <2>2, NestedOffsets
  <2>4. j \in 0..n /\ n \in j..n /\ n \in 0..n /\ j - 1 \in 0..n
    <3> HIDE DEF n
    <3> QED BY <1>6, <2>2
  <2>5. NestedBytes(as, j) <= NestedBytes(as, n)
    BY <1>2, <1>5, <2>4, NestedOffsets
  <2>6. NestedBytes(as, j) \in Nat /\ NestedBytes(as, n) \in Nat /\ NestedBytes(as, j - 1) \in Nat
    BY <1>6, <2>4
  <2> QED BY <1>5, <1>8, <2>3, <2>5, <2>6 DEF NLA_HDRLEN
<1> QED BY <1>1, <1>2, <1>4, <1>6, <1>7, <1>8

\* One turn of the inner loop: with at most two nested attributes the pointer moves
\* by the count to where the next one starts.
LEMMA InnerStep ==
  ASSUME AtMostTwoNested, WalkInv, Inner
  PROVE  WalkInv'
<1>1. pc = "inner" /\ len2 < aggr_len
  BY DEF Inner
<1>2. TypeOK /\ copied = Nothing /\ msg \in Seq(Attributes) /\ Len(msg) \in Nat
  BY <1>1, InnerPlace
<1>3. PICK i \in 1..Len(msg) : \E j \in 1..(Len(msg[i].nested) + 1) :
        InAggregateAt(i, j) /\ Len(msg[i].nested) \in Nat /\ j \in 1..Len(msg[i].nested)
  BY <1>1, InnerPlace
<1>4. PICK j \in 1..Len(msg[i].nested) : InAggregateAt(i, j) /\ Len(msg[i].nested) \in Nat
  BY <1>3
<1> DEFINE as == msg[i].nested
           n == Len(as)
<1>5. /\ msg[i].type \in Aggregates
      /\ len = StartIn(msg, i + 1)
      /\ aggr_len = NestedBytes(as, n) /\ len2 = NestedBytes(as, j - 1)
      /\ NoStatsBefore(msg, i) /\ NoStatsIn(as, j - 1)
      /\ n \in Nat
  BY <1>4 DEF InAggregateAt
<1>6. na = NestedStart(msg, i, j)
  <2>1. j <= n
    BY <1>5
  <2> QED BY <1>4, <2>1 DEF InAggregateAt, NestedStart
<1>7. /\ At(na).type = as[j].type
      /\ NestedBytes(as, j) = len2 + NLA_ALIGN(At(na).len)
  BY <1>2, <1>5, <1>6, AtNested DEF NestedStart
<1>8. msg' = msg /\ len' = len /\ aggr_len' = aggr_len /\ rep_len' = rep_len
  BY DEF Inner, rep_len
<1>9. CASE as[j].type = TASKSTATS_TYPE_STATS
  <2>1. pc' = "done" /\ copied' = na + NLA_HDRLEN /\ na' = na /\ len2' = len2
    BY <1>7, <1>9 DEF Inner
  <2>2. TypeOK'
    <3>1. na + NLA_HDRLEN \in Nat
      BY <1>2 DEF TypeOK, NLA_HDRLEN
    <3> QED BY <1>2, <1>8, <2>1, <3>1 DEF TypeOK
  <2>3. StatsStarts # {} /\ Min(StatsStarts) = na
    BY <1>2, <1>5, <1>6, <1>9, FirstStats DEF StatsAt
  <2>4. StatsStarts' = StatsStarts
    BY <1>8 DEF StatsStarts, InnerStart, OuterStart
  <2>5. FindsFirstStats'
    BY <2>1, <2>3, <2>4 DEF FindsFirstStats
  <2> QED BY <2>1, <2>2, <2>5 DEF WalkInv
<1>10. CASE as[j].type # TASKSTATS_TYPE_STATS
  <2>1. /\ pc' = "inner" /\ copied' = Nothing
        /\ len2' = NestedBytes(as, j) /\ na' = na + len2'
    BY <1>1, <1>2, <1>7, <1>10 DEF Inner
  <2>2. len2' \in 0..aggr_len
    <3>1. j \in 0..n /\ n \in j..n /\ n \in 0..n
      <4> HIDE DEF n
      <4> QED BY <1>5 DEF n
    <3>2. NestedBytes(as, j) <= NestedBytes(as, n) /\ NestedBytes(as, j) \in Nat
          /\ NestedBytes(as, n) \in Nat
      BY <1>2, <1>5, <3>1, NestedOffsets
    <3> QED BY <1>5, <2>1, <3>2
  <2>3. TypeOK'
    <3>1. na' \in Nat
      BY <1>2, <2>1, <2>2 DEF TypeOK
    <3> QED BY <1>2, <1>8, <2>1, <2>2, <3>1 DEF TypeOK
  <2>4. NoStatsIn(as, j)
    <3>1. \A k \in 1..j : k \in 1..(j - 1) \/ k = j
      BY <1>5
    <3> QED BY <1>5, <1>10, <3>1 DEF NoStatsIn
  <2>5. j + 1 <= n => na' = StartIn(msg, i) + NLA_HDRLEN + len2'
    <3>1. SUFFICES ASSUME j + 1 <= n PROVE na' = StartIn(msg, i) + NLA_HDRLEN + len2'
      OBVIOUS
    <3>2. n <= 2
      <4>1. msg \in Messages /\ i \in DOMAIN msg
        BY <1>2, LenProperties DEF TypeOK
      <4> QED BY <1>5, <4>1 DEF AtMostTwoNested
    <3>3. j = 1 /\ j - 1 = 0
      BY <1>5, <3>1, <3>2
    <3>4. NestedBytes(as, 0) = 0
      BY <1>2, <1>5, NestedOffsets
    <3>5. StartIn(msg, i) \in Nat
      <4>1. i \in 1..(Len(msg) + 1)
        BY <1>2
      <4> QED BY <1>2, <4>1, MessageOffsets
    <3>6. na = StartIn(msg, i) + NLA_HDRLEN
      BY <1>6, <3>3, <3>4, <3>5 DEF NestedStart, NLA_HDRLEN
    <3> QED BY <2>1, <3>6
  <2>6. InAggregate'
    <3>1. j + 1 \in 1..(n + 1) /\ j + 1 - 1 = j
      BY <1>5
    <3>2. InAggregateAt(i, j + 1)'
      BY <1>5, <1>8, <2>1, <2>4, <2>5, <3>1 DEF InAggregateAt
    <3> QED BY <1>8, <3>1, <3>2 DEF InAggregate
  <2> QED BY <2>1, <2>3, <2>6 DEF WalkInv, FindsFirstStats
<1> QED BY <1>9, <1>10

\* Back to the outer loop, behind the aggregate.
LEMMA InnerEndStep ==
  ASSUME WalkInv, InnerEnd
  PROVE  WalkInv'
<1>1. pc = "inner" /\ len2 >= aggr_len
  BY DEF InnerEnd
<1>2. TypeOK /\ copied = Nothing /\ msg \in Seq(Attributes) /\ Len(msg) \in Nat
  BY <1>1, InnerPlace
<1>3. PICK i \in 1..Len(msg) : \E j \in 1..(Len(msg[i].nested) + 1) :
        InAggregateAt(i, j) /\ Len(msg[i].nested) \in Nat /\ j = Len(msg[i].nested) + 1
  BY <1>1, InnerPlace
<1> DEFINE n == Len(msg[i].nested)
<1>4. n \in Nat /\ n + 1 - 1 = n /\ InAggregateAt(i, n + 1)
  BY <1>3
<1>5. len = StartIn(msg, i + 1) /\ NoStatsBefore(msg, i) /\ NoStatsIn(msg[i].nested, n)
  BY <1>4 DEF InAggregateAt
<1>6. NoStatsBefore(msg, i + 1)
  <2>1. \A k \in 1..(i + 1 - 1) : k \in 1..(i - 1) \/ k = i
    BY <1>2
  <2> QED BY <1>5, <2>1 DEF NoStatsBefore
<1>7. pc' = "outer" /\ na' = len /\ UNCHANGED <<msg, len, len2, aggr_len, copied>>
      /\ rep_len' = rep_len
  BY DEF InnerEnd, rep_len
<1>8. TypeOK'
  <2>1. len \in Nat
    BY <1>2, Replies DEF TypeOK
  <2> QED BY <1>2, <1>7, <2>1 DEF TypeOK
<1>9. AtAttribute'
  <2>1. i + 1 \in 1..(Len(msg) + 1)
    BY <1>2
  <2> QED BY <1>5, <1>6, <1>7, <2>1 DEF AtAttribute
<1> QED BY <1>2, <1>7, <1>8, <1>9 DEF WalkInv, FindsFirstStats

\* The end of the reply: nothing was copied and there was nothing to copy.
LEMMA OuterEndStep ==
  ASSUME WalkInv, OuterEnd
  PROVE  WalkInv'
<1>1. TypeOK /\ AtAttribute /\ copied = Nothing /\ len >= rep_len
  BY DEF WalkInv, OuterEnd
<1>2. msg \in Seq(Attributes) /\ rep_len = StartIn(msg, Len(msg) + 1) /\ Len(msg) \in Nat
      /\ rep_len \in Nat
  BY <1>1, Replies, LenProperties
<1>3. PICK i \in 1..(Len(msg) + 1) : len = StartIn(msg, i) /\ NoStatsBefore(msg, i)
  BY <1>1 DEF AtAttribute
<1>4. i = Len(msg) + 1
  <2>1. SUFFICES ASSUME i # Len(msg) + 1 PROVE FALSE
    OBVIOUS
  <2>2. i \in 1..Len(msg) /\ i + 1 \in 1..(Len(msg) + 1)
        /\ Len(msg) + 1 \in (i + 1)..(Len(msg) + 1)
    BY <1>2, <2>1
  <2>3. /\ StartIn(msg, i) + NLA_HDRLEN <= StartIn(msg, i + 1)
        /\ StartIn(msg, i + 1) <= StartIn(msg, Len(msg) + 1)
        /\ StartIn(msg, i) \in Nat /\ StartIn(msg, i + 1) \in Nat
    BY <1>2, <2>2, MessageOffsets
  <2> QED BY <1>1, <1>2, <1>3, <2>3 DEF NLA_HDRLEN
<1>5. StatsStarts = {}
  BY <1>2, <1>3, <1>4, NoStats
<1>6. pc' = "done" /\ UNCHANGED <<msg, na, len, len2, aggr_len, copied>> /\ rep_len' = rep_len
      /\ StatsStarts' = StatsStarts
  BY DEF OuterEnd, rep_len, StatsStarts, InnerStart, OuterStart
<1>7. TypeOK'
  BY <1>1, <1>6 DEF TypeOK
<1>8. FindsFirstStats'
  BY <1>1, <1>5, <1>6 DEF FindsFirstStats
<1> QED BY <1>6, <1>7, <1>8 DEF WalkInv

\* The walk starts at the first attribute.
LEMMA WalkInit ==
  ASSUME Init
  PROVE  WalkInv
<1>1. msg \in Seq(Attributes) /\ msg \in Messages
  BY RepliesAreAttributes DEF Init
<1>2. Len(msg) \in Nat /\ StartIn(msg, 1) = 0 /\ Len(msg) + 1 \in 1..(Len(msg) + 1)
      /\ 1 \in 1..(Len(msg) + 1)
  BY <1>1, MessageOffsets
<1>3. rep_len \in Nat
  BY <1>1, <1>2, MessageOffsets DEF rep_len
<1>4. TypeOK
  BY <1>1, <1>3 DEF Init, TypeOK
<1>5. NoStatsBefore(msg, 1)
  BY DEF NoStatsBefore
<1>6. AtAttribute
  BY <1>2, <1>5 DEF Init, AtAttribute
<1> QED BY <1>4, <1>6 DEF Init, WalkInv, FindsFirstStats

\* Every step keeps the invariant.
LEMMA WalkStep ==
  ASSUME AtMostTwoNested, WalkInv, [Next]_vars
  PROVE  WalkInv'
<1>1. CASE Outer
  BY <1>1, OuterStep
<1>2. CASE Inner
  BY <1>2, InnerStep
<1>3. CASE InnerEnd
  BY <1>3, InnerEndStep
<1>4. CASE OuterEnd
  BY <1>4, OuterEndStep
<1>5. CASE UNCHANGED vars
  <2>1. rep_len' = rep_len /\ StatsStarts' = StatsStarts
    BY <1>5 DEF vars, rep_len, StatsStarts, InnerStart, OuterStart
  <2>2. TypeOK' /\ FindsFirstStats'
    BY <1>5, <2>1 DEF vars, WalkInv, TypeOK, FindsFirstStats
  <2>3. (pc' = "outer" => AtAttribute') /\ (pc' = "inner" => InAggregate')
    BY <1>5 DEF vars, WalkInv, AtAttribute, InAggregate, InAggregateAt
  <2> QED BY <1>5, <2>2, <2>3 DEF vars, WalkInv
<1> QED BY <1>1, <1>2, <1>3, <1>4, <1>5 DEF Next, Done

\* The invariant, for every list of replies whose aggregates hold at most two
\* attributes.  (get_taskstats.c:496-552)
THEOREM WalkInvariant ==
  ASSUME AtMostTwoNested
  PROVE  Spec => []WalkInv
<1>1. Init => WalkInv
  BY WalkInit
<1>2. WalkInv /\ [Next]_vars => WalkInv'
  BY WalkStep
<1> QED BY <1>1, <1>2, PTL DEF Spec

\* Pointer and counters stay what their types in the code are for, and no count
\* passes the length of what it counts.
THEOREM WalkTypes ==
  ASSUME AtMostTwoNested
  PROVE  Spec => []TypeOK
<1>1. WalkInv => TypeOK
  BY DEF WalkInv
<1> QED BY <1>1, WalkInvariant, PTL

\* The walk reads headers only where attributes start, for replies of any number
\* of attributes of any sizes and types.
THEOREM ReadsOnBoundaries ==
  ASSUME AtMostTwoNested
  PROVE  Spec => []OnBoundary
<1>1. ASSUME WalkInv PROVE OnBoundary
  <2>1. ASSUME pc = "outer", len < rep_len
        PROVE  na \in {OuterStart(i) : i \in DOMAIN msg}
    <3>1. msg \in Seq(Attributes) /\ rep_len = StartIn(msg, Len(msg) + 1) /\ rep_len \in Nat
          /\ DOMAIN msg = 1..Len(msg) /\ Len(msg) \in Nat
      BY <1>1, Replies, LenProperties DEF WalkInv
    <3>2. PICK i \in 1..(Len(msg) + 1) : len = StartIn(msg, i) /\ na = len
      BY <1>1, <2>1 DEF WalkInv, AtAttribute
    <3>3. i # Len(msg) + 1
      BY <2>1, <3>1, <3>2
    <3>4. i \in DOMAIN msg
      BY <3>1, <3>3
    <3>5. na = OuterStart(i)
      BY <3>2 DEF StartIn, OuterStart
    <3> QED BY <3>4, <3>5
  <2>2. ASSUME pc = "inner", len2 < aggr_len
        PROVE  \E i \in DOMAIN msg :
                 /\ OuterStart(i) < len /\ len = OuterStart(i + 1)
                 /\ na \in {InnerStart(i, j) : j \in DOMAIN msg[i].nested}
    <3>1. msg \in Seq(Attributes) /\ Len(msg) \in Nat /\ TypeOK
      BY <1>1, <2>2, InnerPlace
    <3>2. PICK i \in 1..Len(msg) : \E j \in 1..(Len(msg[i].nested) + 1) :
            InAggregateAt(i, j) /\ Len(msg[i].nested) \in Nat /\ j \in 1..Len(msg[i].nested)
      BY <1>1, <2>2, InnerPlace
    <3>3. PICK j \in 1..Len(msg[i].nested) : InAggregateAt(i, j) /\ Len(msg[i].nested) \in Nat
      BY <3>2
    <3>4. na = InnerStart(i, j)
      <4>1. j <= Len(msg[i].nested)
        BY <3>3
      <4> QED BY <3>3, <4>1 DEF InAggregateAt, InnerStart, OuterStart, StartIn, NestedBytes
    <3>5. len = OuterStart(i + 1)
      BY <3>3 DEF InAggregateAt, StartIn, OuterStart
    <3>6. OuterStart(i) < len
      <4>1. StartIn(msg, i) + NLA_HDRLEN <= StartIn(msg, i + 1) /\ StartIn(msg, i) \in Nat
            /\ StartIn(msg, i + 1) \in Nat
        <5>1. i \in 1..(Len(msg) + 1) /\ i + 1 \in 1..(Len(msg) + 1)
          BY <3>1
        <5> QED BY <3>1, <5>1, MessageOffsets
      <4>2. StartIn(msg, i) < StartIn(msg, i + 1)
        BY <4>1 DEF NLA_HDRLEN
      <4> QED BY <3>5, <4>2 DEF StartIn, OuterStart
    <3>7. i \in DOMAIN msg /\ j \in DOMAIN msg[i].nested
      <4>1. msg[i] \in Attributes
        BY <3>1, ElementOfSeq
      <4>2. msg[i].nested \in Seq(Leaves)
        <5> DEFINE a == msg[i]
        <5> HIDE DEF a
        <5>1. a \in Attributes => a.nested \in Seq(Leaves)
          BY DEF Attributes
        <5> QED BY <4>1, <5>1 DEF a
      <4> QED BY <3>1, <4>2, LenProperties
    <3> QED BY <3>4, <3>5, <3>6, <3>7
  <2> QED BY <2>1, <2>2 DEF OnBoundary
<1>2. WalkInv => OnBoundary
  BY <1>1
<1> QED BY <1>2, WalkInvariant, PTL

\* The caller is given the first statistics of the reply, or nothing when it has
\* none, whatever else is in it.
THEOREM GivesFirstStats ==
  ASSUME AtMostTwoNested
  PROVE  Spec => []FindsFirstStats
<1>1. WalkInv => FindsFirstStats
  BY DEF WalkInv
<1> QED BY <1>1, WalkInvariant, PTL

\* Wherever the walk is about to read a header there is a word in the message.
ReadsInside ==
  /\ pc = "outer" /\ len < rep_len => Readable(na)
  /\ pc = "inner" /\ len2 < aggr_len => Readable(na)

\* The pointer of get_taskstats.c:496-552 never leaves the reply for a read, so
\* the guard Readable of the two loops never stops the model short of the code.
THEOREM NeverReadsOutside ==
  ASSUME AtMostTwoNested
  PROVE  Spec => []ReadsInside
<1>1. ASSUME WalkInv, pc = "outer", len < rep_len PROVE Readable(na)
  <2>1. TypeOK /\ msg \in Seq(Attributes) /\ rep_len = StartIn(msg, Len(msg) + 1)
        /\ rep_len \in Nat /\ Len(msg) \in Nat
    BY <1>1, Replies, LenProperties DEF WalkInv
  <2>2. PICK i \in 1..(Len(msg) + 1) : len = StartIn(msg, i) /\ na = len
    BY <1>1 DEF WalkInv, AtAttribute
  <2>3. i \in 1..Len(msg)
    BY <1>1, <2>1, <2>2
  <2>4. StartIn(msg, i) + NLA_HDRLEN <= StartIn(msg, i + 1)
        /\ StartIn(msg, i) \in Nat /\ StartIn(msg, i + 1) \in 0..rep_len
    BY <2>1, <2>2, <2>3, AtStart
  <2>5. PICK w \in Nat : StartIn(msg, i) = 4 * w
    <3>1. i - 1 \in 0..Len(msg)
      BY <2>1, <2>3
    <3> QED BY <2>1, <3>1, MessageEncoding DEF StartIn
  <2> DEFINE next == StartIn(msg, i + 1)
  <2>6. na = 4 * w /\ na + 4 <= next /\ next \in 0..rep_len
    BY <2>2, <2>4, <2>5 DEF NLA_HDRLEN
  <2> HIDE DEF next
  <2>7. na \in 0..(rep_len - 4) /\ na % 4 = 0
    BY <2>1, <2>5, <2>6
  <2> QED BY <2>7 DEF Readable
<1>2. ASSUME WalkInv, pc = "inner", len2 < aggr_len PROVE Readable(na)
  <2>1. msg \in Seq(Attributes) /\ Len(msg) \in Nat /\ TypeOK
    BY <1>2, InnerPlace
  <2>2. PICK i \in 1..Len(msg) : \E j \in 1..(Len(msg[i].nested) + 1) :
          InAggregateAt(i, j) /\ Len(msg[i].nested) \in Nat /\ j \in 1..Len(msg[i].nested)
    BY <1>2, InnerPlace
  <2>3. PICK j \in 1..Len(msg[i].nested) : InAggregateAt(i, j) /\ Len(msg[i].nested) \in Nat
    BY <2>2
  <2> DEFINE as == msg[i].nested
             n == Len(as)
             start == StartIn(msg, i)
             next == StartIn(msg, i + 1)
             before == NestedBytes(as, j - 1)
             upto == NestedBytes(as, j)
             all == NestedBytes(as, n)
  <2>4. msg[i].type \in Aggregates /\ len2 = before /\ n \in Nat /\ j \in 1..n /\ len = next
    BY <2>3 DEF InAggregateAt
  <2>5. na = start + NLA_HDRLEN + before
    <3>1. j <= n
      BY <2>4
    <3> QED BY <2>3, <2>4, <3>1 DEF InAggregateAt
  <2>6. j - 1 \in 0..n /\ j \in 0..n /\ n \in j..n /\ n \in 0..n
    <3> HIDE DEF n
    <3> QED BY <2>4
  <2>7. /\ upto \in Nat /\ all \in Nat /\ upto <= all
        /\ before + NLA_HDRLEN <= upto /\ next = start + NLA_HDRLEN + all
    BY <2>1, <2>4, <2>6, NestedOffsets
  <2>8. PICK w \in Nat : start = 4 * w
    <3>1. i - 1 \in 0..Len(msg)
      BY <2>1
    <3> QED BY <2>1, <3>1, MessageEncoding DEF StartIn
  <2>9. PICK x \in Nat : before = 4 * x
    <3>1. as \in Seq(Leaves)
      <4> DEFINE a == msg[i]
      <4>1. a \in Attributes
        BY <2>1, ElementOfSeq
      <4> HIDE DEF a
      <4>2. a.nested \in Seq(Leaves)
        BY <4>1 DEF Attributes
      <4> QED BY <4>2 DEF a
    <3> QED BY <2>6, <3>1, NestedEncoding DEF NestedBytes
  <2>10. next \in 0..rep_len /\ rep_len \in Nat
    <3>1. rep_len \in Nat
      BY <2>1, Replies
    <3> QED BY <2>1, <2>4, <3>1 DEF TypeOK
  <2> HIDE DEF as, n, start, next, before, upto, all
  <2>11. na = 4 * w + 4 + 4 * x /\ na + 4 <= next
    BY <2>5, <2>7, <2>8, <2>9 DEF NLA_HDRLEN
  <2>12. na \in 0..(rep_len - 4) /\ na % 4 = 0
    BY <2>8, <2>9, <2>10, <2>11
  <2> QED BY <2>12 DEF Readable
<1>3. WalkInv => ReadsInside
  BY <1>1, <1>2 DEF ReadsInside
<1> QED BY <1>3, WalkInvariant, PTL
===============================================================================
