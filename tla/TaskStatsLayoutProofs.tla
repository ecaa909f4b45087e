------------------------- MODULE TaskStatsLayoutProofs -------------------------
(***************************************************************************)
(* Proofs about TaskStatsLayout, for every set of versions and alignments. *)
(*                                                                         *)
(* The layout of a list of fields is a recursive function, so what it      *)
(* gives is proved by induction over the fields: no two fields overlap.    *)
(* The offsets of struct taskstats itself then follow field by field, and  *)
(* a read of a field's own offset and width yields that field's bytes.     *)
(***************************************************************************)
EXTENDS TaskStatsLayout, InductionLemmas

-------------------------------------------------------------------------------
(* The recursive function of End, on any list of fields.                   *)

\* Sizes and alignments such as the C compiler works with.
Plain(fields, abi) ==
  /\ Len(fields) \in Nat /\ DOMAIN fields = 1..Len(fields)
  /\ \A k \in 1..Len(fields) : fields[k].size \in Nat \ {0}
  /\ \A k \in 1..Len(fields) : AlignOf(fields[k], abi) \in {1, 2, 4, 8}

EndDef(end, fields, abi, n) ==
  end = [i \in 0..n |->
           IF i = 0 THEN 0
           ELSE RoundUp(end[i - 1], AlignOf(fields[i], abi)) + fields[i].size]

\* There is such a function for every list of fields.
LEMMA EndExists ==
  ASSUME NEW fields, NEW abi, NEW n \in Nat
  PROVE  \E end : EndDef(end, fields, abi, n)
<1> DEFINE Step(e, i) == RoundUp(e, AlignOf(fields[i], abi)) + fields[i].size
           S == {k \in Nat : \E end : EndDef(end, fields, abi, k)}
<1>1. 0 \in S
  <2>1. EndDef([i \in 0..0 |-> 0], fields, abi, 0)
    BY DEF EndDef
  <2> QED BY <2>1
<1>2. ASSUME NEW k \in S PROVE k + 1 \in S
  <2>1. PICK end : EndDef(end, fields, abi, k)
    OBVIOUS
  <2> DEFINE g == [i \in 0..(k + 1) |-> IF i = k + 1 THEN Step(end[k], k + 1) ELSE end[i]]
  <2>0. end = [i \in 0..k |-> IF i = 0 THEN 0 ELSE Step(end[i - 1], i)]
    BY <2>1 DEF EndDef
  <2> HIDE DEF Step
  <2>2. ASSUME NEW i \in 0..(k + 1)
        PROVE  g[i] = IF i = 0 THEN 0 ELSE Step(g[i - 1], i)
    <3>1. CASE i = k + 1
      <4>1. i # 0 /\ i - 1 \in 0..(k + 1) /\ i - 1 # k + 1 /\ i - 1 = k
        BY <3>1
      <4>2. g[i - 1] = end[k]
        BY <4>1
      <4> QED BY <3>1, <4>1, <4>2
    <3>2. CASE i # k + 1
      <4>1. i \in 0..k /\ g[i] = end[i]
        BY <3>2
      <4>2. end[i] = IF i = 0 THEN 0 ELSE Step(end[i - 1], i)
        BY <2>0, <4>1
      <4>3. CASE i = 0
        BY <4>1, <4>2, <4>3
      <4>4. CASE i # 0
        <5>1. i - 1 \in 0..(k + 1) /\ i - 1 # k + 1
          BY <4>1, <4>4
        <5>2. g[i - 1] = end[i - 1]
          BY <5>1
        <5> QED BY <4>1, <4>2, <4>4, <5>2
      <4> QED BY <4>3, <4>4
    <3> QED BY <3>1, <3>2
  <2>3. g = [i \in 0..(k + 1) |-> IF i = 0 THEN 0 ELSE Step(g[i - 1], i)]
    <3>1. g = [i \in 0..(k + 1) |-> g[i]]
      OBVIOUS
    <3> HIDE DEF g
    <3> QED BY <2>2, <3>1
  <2>4. EndDef(g, fields, abi, k + 1)
    <3> HIDE DEF g
    <3> QED BY <2>3 DEF EndDef, Step
  <2> HIDE DEF g
  <2> QED BY <2>4
<1>3. S = Nat
  <2> HIDE DEF S
  <2>1. S \in SUBSET Nat
    BY DEF S
  <2> QED BY <1>1, <1>2, <2>1, SetInduction
<1> QED BY <1>3

\* So End is one: each end follows from the one before.
LEMMA EndUnfolds ==
  ASSUME NEW fields, NEW abi, Len(fields) \in Nat
  PROVE  /\ End(fields, abi)[0] = 0
         /\ \A i \in 1..Len(fields) :
              End(fields, abi)[i] =
                RoundUp(End(fields, abi)[i - 1], AlignOf(fields[i], abi))
                  + fields[i].size
<1> DEFINE n == Len(fields)
           Body(e) == [i \in 0..n |->
             IF i = 0 THEN 0
             ELSE RoundUp(e[i - 1], AlignOf(fields[i], abi)) + fields[i].size]
           end == CHOOSE e : e = Body(e)
<1>1. End(fields, abi) = end
  BY DEF End
<1>2. end = Body(end)
  <2>1. \E e : e = Body(e)
    BY EndExists DEF EndDef
  <2> HIDE DEF Body
  <2> QED BY <2>1
<1> HIDE DEF end
<1>3. end[0] = 0
  BY <1>2
<1>4. \A i \in 1..n :
        end[i] = RoundUp(end[i - 1], AlignOf(fields[i], abi)) + fields[i].size
  <2> TAKE i \in 1..n
  <2>1. i \in 0..n /\ i # 0
    OBVIOUS
  <2> QED BY <1>2, <2>1
<1> QED BY <1>1, <1>3, <1>4

\* Rounding up adds less than the alignment.
LEMMA RoundUpBounds ==
  ASSUME NEW n \in Nat, NEW align \in {1, 2, 4, 8}
  PROVE  /\ RoundUp(n, align) \in Nat
         /\ n <= RoundUp(n, align) /\ RoundUp(n, align) < n + align
<1>1. CASE align = 1
  BY <1>1 DEF RoundUp
<1>2. CASE align = 2
  BY <1>2 DEF RoundUp
<1>3. CASE align = 4
  BY <1>3 DEF RoundUp
<1>4. CASE align = 8
  BY <1>4 DEF RoundUp
<1> QED BY <1>1, <1>2, <1>3, <1>4

\* A field begins where the one before it ends, or later.
LEMMA FieldsFollow ==
  ASSUME NEW fields, NEW abi, Plain(fields, abi)
  PROVE  LET end == End(fields, abi) IN
         /\ \A i \in 0..Len(fields) : end[i] \in Nat
         /\ \A i \in 1..Len(fields) : end[i - 1] <= end[i] - fields[i].size
<1> DEFINE end == End(fields, abi)
           n == Len(fields)
           Start(i) == RoundUp(end[i - 1], AlignOf(fields[i], abi))
           S == {k \in Nat : k <= n => end[k] \in Nat}
<1>0. n \in Nat
  BY DEF Plain
<1>1. end[0] = 0 /\ \A i \in 1..n : end[i] = Start(i) + fields[i].size
  BY <1>0, EndUnfolds
<1>2. ASSUME NEW i \in 1..n, end[i - 1] \in Nat
      PROVE  Start(i) \in Nat /\ end[i - 1] <= Start(i)
  <2>1. AlignOf(fields[i], abi) \in {1, 2, 4, 8}
    BY DEF Plain
  <2> QED BY <1>2, <2>1, RoundUpBounds
<1>3. \A i \in 1..n : fields[i].size \in Nat
  BY DEF Plain
<1> HIDE DEF end, n, Start
<1>4. ASSUME NEW k \in S PROVE k + 1 \in S
  <2>1. SUFFICES ASSUME k + 1 <= n PROVE end[k + 1] \in Nat
    OBVIOUS
  <2> DEFINE i == k + 1
  <2>2. i \in 1..n /\ i - 1 = k /\ end[k] \in Nat
    BY <1>0, <2>1
  <2> HIDE DEF i
  <2>3. Start(i) \in Nat /\ fields[i].size \in Nat
    BY <1>2, <1>3, <2>2
  <2>4. end[i] = Start(i) + fields[i].size
    BY <1>1, <2>2
  <2>5. end[i] \in Nat
    BY <2>3, <2>4
  <2> QED BY <2>5 DEF i
<1>5. S = Nat
  <2> HIDE DEF S
  <2>1. S \in SUBSET Nat
    BY DEF S
  <2>2. 0 \in S
    BY <1>1 DEF S
  <2> QED BY <1>4, <2>1, <2>2, SetInduction
<1>6. \A i \in 0..n : end[i] \in Nat
  BY <1>0, <1>5
<1>7. ASSUME NEW i \in 1..n PROVE end[i - 1] <= end[i] - fields[i].size
  <2> DEFINE a == end[i - 1]
             b == fields[i].size
             s == Start(i)
  <2>1. i - 1 \in 0..n
    BY <1>0
  <2>2. a \in Nat /\ b \in Nat /\ s \in Nat /\ a <= s /\ end[i] = s + b
    BY <1>1, <1>2, <1>3, <1>6, <2>1
  <2> HIDE DEF a, b, s
  <2>3. a <= end[i] - b
    BY <2>2
  <2> QED BY <2>3 DEF a, b
<1> QED BY <1>6, <1>7 DEF end, n

\* No two fields overlap: all of an earlier one is before all of a later one.
LEMMA FieldsAreApart ==
  ASSUME NEW fields, NEW abi, Plain(fields, abi),
         NEW i \in 1..Len(fields), NEW j \in 1..Len(fields), i < j
  PROVE  End(fields, abi)[i] <= End(fields, abi)[j] - fields[j].size
<1> DEFINE end == End(fields, abi)
           n == Len(fields)
           S == {k \in Nat : i + k <= n => end[i] <= end[i + k]}
<1>0. n \in Nat /\ \A k \in 1..n : fields[k].size \in Nat
  BY DEF Plain
<1>1. /\ \A k \in 0..n : end[k] \in Nat
      /\ \A k \in 1..n : end[k - 1] <= end[k] - fields[k].size
  BY FieldsFollow
<1>2. i \in 1..n /\ j \in 1..n
  OBVIOUS
<1> HIDE DEF end, n
<1>3. ASSUME NEW k \in S PROVE k + 1 \in S
  <2>1. SUFFICES ASSUME i + (k + 1) <= n PROVE end[i] <= end[i + (k + 1)]
    OBVIOUS
  <2> DEFINE m == i + (k + 1)
             p == i + k
  <2>2. m \in 1..n /\ m - 1 = p /\ p \in 0..n /\ i \in 0..n /\ m \in 0..n
    BY <1>0, <1>2, <2>1
  <2>3. end[i] <= end[p]
    BY <1>0, <1>2, <2>1
  <2> HIDE DEF m, p
  <2>4. end[p] <= end[m] - fields[m].size /\ fields[m].size \in Nat
    BY <1>0, <1>1, <2>2
  <2>5. end[i] \in Nat /\ end[p] \in Nat /\ end[m] \in Nat
    BY <1>1, <2>2
  <2>6. end[i] <= end[m]
    <3> DEFINE z == fields[m].size
    <3>1. z \in Nat /\ end[p] <= end[m] - z
      BY <2>4
    <3> HIDE DEF z
    <3> QED BY <2>3, <2>5, <3>1
  <2> QED BY <2>6 DEF m
<1>4. S = Nat
  <2> HIDE DEF S
  <2>1. S \in SUBSET Nat
    BY DEF S
  <2>2. 0 \in S
    <3>1. i + 0 = i /\ i \in 0..n
      BY <1>0, <1>2
    <3> QED BY <1>1, <3>1 DEF S
  <2> QED BY <1>3, <2>1, <2>2, SetInduction
<1>5. end[i] <= end[j - 1]
  <2> DEFINE k == (j - 1) - i
  <2>1. k \in Nat /\ i + k = j - 1 /\ i + k <= n
    BY <1>0, <1>2
  <2> HIDE DEF k
  <2>2. k \in S
    BY <1>4, <2>1
  <2>3. end[i] <= end[i + k]
    BY <2>1, <2>2
  <2> QED BY <2>1, <2>3
<1>6. end[j - 1] <= end[j] - fields[j].size
  BY <1>1, <1>2
<1> DEFINE a == end[i]
           b == end[j - 1]
           c == end[j]
           z == fields[j].size
<1>7. a \in Nat /\ b \in Nat /\ c \in Nat /\ z \in Nat
  <2>1. i \in 0..n /\ j - 1 \in 0..n /\ j \in 0..n
    BY <1>0, <1>2
  <2> QED BY <1>0, <1>1, <1>2, <2>1
<1>8. a <= b /\ b <= c - z
  BY <1>5, <1>6
<1> HIDE DEF a, b, c, z
<1>9. a <= c - z
  BY <1>7, <1>8
<1> QED BY <1>9 DEF a, c, z, end

\* So a field that shares a byte with another is that field.
LEMMA OverlapIsIdentity ==
  ASSUME NEW fields, NEW abi, Plain(fields, abi),
         NEW i \in 1..Len(fields), NEW k \in 1..Len(fields),
         End(fields, abi)[i] - fields[i].size < End(fields, abi)[k],
         End(fields, abi)[k] - fields[k].size < End(fields, abi)[i]
  PROVE  i = k
<1> DEFINE end == End(fields, abi)
           a == end[i]
           b == end[k]
           y == fields[i].size
           z == fields[k].size
<1>1. a \in Nat /\ b \in Nat /\ y \in Nat /\ z \in Nat
  <2>1. i \in 0..Len(fields) /\ k \in 0..Len(fields) /\ y \in Nat /\ z \in Nat
    BY DEF Plain
  <2> QED BY <2>1, FieldsFollow
<1>2. a - y < b /\ b - z < a
  OBVIOUS
<1>3. i < k => a <= b - z
  BY FieldsAreApart
<1>4. k < i => b <= a - y
  BY FieldsAreApart
<1>5. i \in Int /\ k \in Int
  BY DEF Plain
<1> HIDE DEF a, b, y, z
<1> QED BY <1>1, <1>2, <1>3, <1>4, <1>5

\* Layout in terms of the ends.
LEMMA LayoutOfField ==
  ASSUME NEW fields, NEW abi, Plain(fields, abi)
  PROVE  /\ DOMAIN Layout(fields, abi) = 1..Len(fields)
         /\ \A k \in 1..Len(fields) :
              /\ Layout(fields, abi)[k].name = fields[k].name
              /\ Layout(fields, abi)[k].offset =
                   End(fields, abi)[k] - fields[k].size
              /\ Layout(fields, abi)[k].size = fields[k].size
BY DEF Plain, Layout

-------------------------------------------------------------------------------
(* What a read gives.                                                      *)

Offset(k) == End(Fields(version), align64)[k] - Fields(version)[k].size

\* A read of a field's own place, once copied, is of that field alone ...
LEMMA FieldReadsItsName ==
  ASSUME Plain(Fields(version), align64), copied \in Nat,
         NEW k \in 1..Len(Fields(version)),
         End(Fields(version), align64)[k] <= copied
  PROVE  FieldsAt(Offset(k), Fields(version)[k].size) = {Fields(version)[k].name}
<1> DEFINE fields == Fields(version)
           end == End(fields, align64)
           laid == Layout(fields, align64)
           z == fields[k].size
           At == {i \in DOMAIN laid :
                    /\ laid[i].offset < Offset(k) + z
                    /\ Offset(k) < laid[i].offset + laid[i].size
                    /\ Offset(k) + z <= copied}
<1>1. /\ DOMAIN laid = 1..Len(fields)
      /\ \A i \in 1..Len(fields) :
           /\ laid[i].name = fields[i].name
           /\ laid[i].offset = end[i] - fields[i].size
           /\ laid[i].size = fields[i].size
  BY LayoutOfField
<1>2. \A i \in 1..Len(fields) : end[i] \in Nat /\ fields[i].size \in Nat \ {0}
  <2>1. \A i \in 1..Len(fields) : i \in 0..Len(fields)
    BY DEF Plain
  <2> QED BY <2>1, FieldsFollow DEF Plain
<1>3. Offset(k) = end[k] - z /\ end[k] \in Nat /\ z \in Nat \ {0} /\ end[k] <= copied
  BY <1>2 DEF Offset
<1>4. \A i \in 1..Len(fields) :
        end[i] - fields[i].size < end[k] /\ end[k] - z < end[i] => i = k
  BY OverlapIsIdentity
<1>5. k \in 1..Len(fields)
  OBVIOUS
<1>6. FieldsAt(Offset(k), z) = {laid[i].name : i \in At}
  BY DEF FieldsAt
<1> HIDE DEF fields, end, laid, z
<1>7. At = {k}
  <2> DEFINE e == end[k]
  <2>0. e \in Nat /\ z \in Nat \ {0} /\ e <= copied /\ Offset(k) = e - z
    BY <1>3
  <2>1. Offset(k) + z = e
    BY <2>0
  <2>2. ASSUME NEW i \in 1..Len(fields)
        PROVE  i \in At <=> i = k
    <3> DEFINE d == end[i]
               y == fields[i].size
               o == laid[i].offset
               x == laid[i].size
    <3>1. d \in Nat /\ y \in Nat \ {0} /\ o = d - y /\ x = y
      BY <1>1, <1>2
    <3>2. i \in At <=> (o < e /\ Offset(k) < o + x /\ e <= copied)
      BY <1>1, <2>1
    <3>3. d - y < e /\ e - z < d => i = k
      BY <1>4
    <3>4. i = k => d = e /\ y = z
      BY DEF z
    <3> HIDE DEF At, d, y, o, x, e
    <3>5. o < e /\ Offset(k) < o + x => d - y < e /\ e - z < d
      BY <2>0, <3>1
    <3>6. d = e /\ y = z => o < e /\ Offset(k) < o + x
      BY <2>0, <3>1
    <3> QED BY <2>0, <3>2, <3>3, <3>4, <3>5, <3>6
  <2>3. At \subseteq 1..Len(fields)
    BY <1>1
  <2> HIDE DEF At
  <2> QED BY <1>5, <2>2, <2>3
<1>8. laid[k].name = fields[k].name
  BY <1>1, <1>5
<1> HIDE DEF At
<1> QED BY <1>6, <1>7, <1>8 DEF fields, z

\* ... and of all its bytes, in their order.
LEMMA FieldReadsItsBytes ==
  ASSUME Plain(Fields(version), align64), copied \in Nat,
         NEW k \in 1..Len(Fields(version)),
         End(Fields(version), align64)[k] <= copied
  PROVE  Peek(Offset(k), Fields(version)[k].size) =
           [j \in 1..Fields(version)[k].size |-> FieldBytes(Fields(version)[k], k)[j]]
<1> DEFINE fields == Fields(version)
           end == End(fields, align64)
           laid == Layout(fields, align64)
           z == fields[k].size
           At(o) == {i \in DOMAIN laid :
                       laid[i].offset <= o /\ o < laid[i].offset + laid[i].size}
           Byte(o) == IF o >= copied \/ At(o) = {} THEN 0
                      ELSE LET i == CHOOSE i \in At(o) : TRUE IN
                           FieldBytes(fields[i], i)[o - laid[i].offset + 1]
<1>1. /\ DOMAIN laid = 1..Len(fields)
      /\ \A i \in 1..Len(fields) :
           /\ laid[i].offset = end[i] - fields[i].size
           /\ laid[i].size = fields[i].size
  BY LayoutOfField
<1>2. \A i \in 1..Len(fields) : end[i] \in Nat /\ fields[i].size \in Nat \ {0}
  <2>1. \A i \in 1..Len(fields) : i \in 0..Len(fields)
    BY DEF Plain
  <2> QED BY <2>1, FieldsFollow DEF Plain
<1>3. Offset(k) = end[k] - z /\ end[k] \in Nat /\ z \in Nat \ {0} /\ end[k] <= copied
  BY <1>2 DEF Offset
<1>4. \A i \in 1..Len(fields) :
        end[i] - fields[i].size < end[k] /\ end[k] - z < end[i] => i = k
  BY OverlapIsIdentity
<1>5. k \in 1..Len(fields)
  OBVIOUS
<1>6. Peek(Offset(k), z) = [j \in 1..z |-> Byte(Offset(k) + j - 1)]
  BY DEF Peek
<1> HIDE DEF fields, end, laid, z
<1>7. ASSUME NEW j \in 1..z
      PROVE  Byte(Offset(k) + j - 1) = FieldBytes(fields[k], k)[j]
  <2> DEFINE e == end[k]
             o == Offset(k) + j - 1
  <2>0. e \in Nat /\ z \in Nat \ {0} /\ e <= copied /\ Offset(k) = e - z
    BY <1>3
  <2>1. o = e - z + j - 1 /\ o \in Int /\ e - z <= o /\ o < e /\ o - (e - z) + 1 = j
    BY <2>0
  <2> HIDE DEF o
  <2>2. ASSUME NEW i \in 1..Len(fields)
        PROVE  i \in At(o) <=> i = k
    <3> DEFINE d == end[i]
               y == fields[i].size
               p == laid[i].offset
               x == laid[i].size
    <3>1. d \in Nat /\ y \in Nat \ {0} /\ p = d - y /\ x = y
      BY <1>1, <1>2
    <3>2. i \in At(o) <=> (p <= o /\ o < p + x)
      BY <1>1
    <3>3. d - y < e /\ e - z < d => i = k
      BY <1>4
    <3>4. i = k => d = e /\ y = z
      BY DEF z
    <3> HIDE DEF At, d, y, p, x, e
    <3>5. p <= o /\ o < p + x => d - y < e /\ e - z < d
      BY <2>0, <2>1, <3>1
    <3>6. d = e /\ y = z => p <= o /\ o < p + x
      BY <2>0, <2>1, <3>1
    <3> QED BY <3>2, <3>3, <3>4, <3>5, <3>6
  <2>3. At(o) \subseteq 1..Len(fields)
    BY <1>1
  <2>4. laid[k].offset = e - z
    BY <1>1, <1>5 DEF z
  <2> HIDE DEF At, e
  <2>5. At(o) = {k}
    BY <1>5, <2>2, <2>3
  <2>6. (CHOOSE i \in At(o) : TRUE) = k
    BY <2>5
  <2>7. ~(o >= copied)
    BY <2>0, <2>1
  <2>8. Byte(o) = FieldBytes(fields[k], k)[o - laid[k].offset + 1]
    BY <2>5, <2>6, <2>7
  <2> QED BY <2>1, <2>4, <2>8 DEF o
<1> HIDE DEF Byte
<1> QED BY <1>6, <1>7 DEF fields, z

-------------------------------------------------------------------------------
(* struct taskstats itself.                                                *)

\* Every field of any version, as the lists of the model put together give them,
\* and where they are under both alignments.
AllFields == V10Fields \o U64s(<<"added_later">>)
Names ==
  <<"version", "ac_exitcode", "ac_flag", "ac_nice", "cpu_count", "cpu_delay_total",
    "blkio_count", "blkio_delay_total", "swapin_count", "swapin_delay_total",
    "cpu_run_real_total", "cpu_run_virtual_total", "ac_comm", "ac_sched", "ac_pad",
    "ac_uid", "ac_gid", "ac_pid", "ac_ppid", "ac_btime", "ac_etime", "ac_utime",
    "ac_stime", "ac_minflt", "ac_majflt", "coremem", "virtmem", "hiwater_rss",
    "hiwater_vm", "read_char", "write_char", "read_syscalls", "write_syscalls",
    "read_bytes", "write_bytes", "cancelled_write_bytes", "nvcsw", "nivcsw",
    "ac_utimescaled", "ac_stimescaled", "cpu_scaled_run_real_total",
    "freepages_count", "freepages_delay_total", "thrashing_count",
    "thrashing_delay_total", "ac_btime64", "added_later">>
Sizes ==
  <<2, 4, 1, 1, 8, 8, 8, 8, 8, 8, 8, 8, 32, 1, 3, 4, 4, 4, 4, 4, 8, 8, 8, 8, 8, 8,
    8, 8, 8, 8, 8, 8, 8, 8, 8, 8, 8, 8, 8, 8, 8, 8, 8, 8, 8, 8, 8>>
Aligns ==
  <<2, 4, 1, 1, 8, 0, 0, 0, 0, 0, 0, 0, 1, 8, 1, 8, 4, 4, 4, 4, 8, 0, 0, 0, 0, 0,
    0, 0, 0, 0, 0, 0, 0, 0, 0, 0, 0, 0, 0, 0, 0, 0, 0, 0, 0, 0, 0>>
Places ==
  <<0, 4, 8, 9, 16, 24, 32, 40, 48, 56, 64, 72, 80, 112, 113, 120, 124, 128, 132,
    136, 144, 152, 160, 168, 176, 184, 192, 200, 208, 216, 224, 232, 240, 248, 256,
    264, 272, 280, 288, 296, 304, 312, 320, 328, 336, 344, 352>>
FieldCount(v) == IF v <= 8 THEN 43 ELSE IF v = 9 THEN 45 ELSE IF v = 10 THEN 46 ELSE 47

\* The field the i-th member of Get_Impl is from.
FieldOf ==
  <<1, 4, 7, 8, 9, 10, 16, 17, 18, 19, 20, 21, 22, 23, 24, 25, 30, 31, 32, 33, 34, 35,
    37, 38, 39, 40, 41, 42, 43, 44, 45, 46>>

\* The lists of the model, put together, are the tables.
LEMMA FieldLists ==
  /\ Len(V7Fields) = 43 /\ DOMAIN V7Fields = 1..43
  /\ \A k \in 1..43 : V7Fields[k] = Field(Names[k], Sizes[k], Aligns[k])
  /\ Len(V9Fields) = 45 /\ DOMAIN V9Fields = 1..45
  /\ \A k \in 1..45 : V9Fields[k] = Field(Names[k], Sizes[k], Aligns[k])
  /\ Len(V10Fields) = 46 /\ DOMAIN V10Fields = 1..46
  /\ \A k \in 1..46 : V10Fields[k] = Field(Names[k], Sizes[k], Aligns[k])
  /\ Len(AllFields) = 47 /\ DOMAIN AllFields = 1..47
  /\ \A k \in 1..47 : AllFields[k] = Field(Names[k], Sizes[k], Aligns[k])
<1>1. /\ Len(V7Fields) = 43 /\ DOMAIN V7Fields = 1..43
      /\ \A k \in 1..43 : V7Fields[k] = Field(Names[k], Sizes[k], Aligns[k])
  BY SMTT(30) DEF V7Fields, U64s, U64, Aligned8, Names, Sizes, Aligns
<1>2. /\ Len(V9Fields) = 45 /\ DOMAIN V9Fields = 1..45
      /\ \A k \in 1..45 : V9Fields[k] = Field(Names[k], Sizes[k], Aligns[k])
  BY SMTT(30) DEF V9Fields, V7Fields, U64s, U64, Aligned8, Names, Sizes, Aligns
<1>3. /\ Len(V10Fields) = 46 /\ DOMAIN V10Fields = 1..46
      /\ \A k \in 1..46 : V10Fields[k] = Field(Names[k], Sizes[k], Aligns[k])
  BY SMTT(30) DEF V10Fields, V9Fields, V7Fields, U64s, U64, Aligned8, Names, Sizes, Aligns
<1>4. /\ Len(AllFields) = 47 /\ DOMAIN AllFields = 1..47
      /\ \A k \in 1..47 : AllFields[k] = Field(Names[k], Sizes[k], Aligns[k])
  BY SMTT(30) DEF AllFields, V10Fields, V9Fields, V7Fields, U64s, U64, Aligned8,
                  Names, Sizes, Aligns
<1> QED BY <1>1, <1>2, <1>3, <1>4

\* What kinds of numbers are in the tables.
LEMMA TablesAre ==
  /\ \A k \in 1..47 : Sizes[k] \in {1, 2, 3, 4, 8, 32}
  /\ \A k \in 1..47 : Aligns[k] \in {0, 1, 2, 4, 8}
  /\ \A k \in 1..47 : Places[k] \in Nat
BY DEF Sizes, Aligns, Places

\* No two fields of the struct have the same name.
LEMMA NamesDiffer == \A i, k \in 1..47 : Names[i] = Names[k] => i = k
BY DEF Names

\* A version has the first FieldCount of these fields.
LEMMA FieldsOfVersion ==
  ASSUME NEW v \in Nat
  PROVE  /\ FieldCount(v) \in 1..47
         /\ Len(Fields(v)) = FieldCount(v)
         /\ DOMAIN Fields(v) = 1..FieldCount(v)
         /\ \A k \in 1..FieldCount(v) :
              /\ Fields(v)[k].name = Names[k]
              /\ Fields(v)[k].size = Sizes[k]
              /\ Fields(v)[k].align = Aligns[k]
<1> DEFINE IsTable(fields, n) ==
             /\ Len(fields) = n /\ DOMAIN fields = 1..n
             /\ \A k \in 1..n : fields[k] = Field(Names[k], Sizes[k], Aligns[k])
<1>1. /\ IsTable(V7Fields, 43) /\ IsTable(V9Fields, 45)
      /\ IsTable(V10Fields, 46) /\ IsTable(AllFields, 47)
  BY FieldLists
<1>2. /\ v <= 8 => Fields(v) = V7Fields
      /\ v = 9 => Fields(v) = V9Fields
      /\ v = 10 => Fields(v) = V10Fields
      /\ v > 10 => Fields(v) = AllFields
  BY DEF Fields, AllFields
<1>3. /\ v <= 8 => FieldCount(v) = 43
      /\ v = 9 => FieldCount(v) = 45
      /\ v = 10 => FieldCount(v) = 46
      /\ v > 10 => FieldCount(v) = 47
  BY DEF FieldCount
<1>4. v <= 8 \/ v = 9 \/ v = 10 \/ v > 10
  OBVIOUS
<1>5. IsTable(Fields(v), FieldCount(v)) /\ FieldCount(v) \in {43, 45, 46, 47}
  <2> HIDE DEF IsTable
  <2> QED BY <1>1, <1>2, <1>3, <1>4
<1>6. FieldCount(v) \in 1..47
  BY <1>5
<1> QED BY <1>5, <1>6 DEF Field

\* The offsets follow from the layout rule, one from the other.
LEMMA PlacesFollow ==
  /\ Aligns[1] = 2 /\ Places[1] = 0
  /\ \A k \in 2..47 : \A a \in {4, 8} :
       RoundUp(Places[k - 1] + Sizes[k - 1], IF Aligns[k] = 0 THEN a ELSE Aligns[k]) = Places[k]
BY DEF Places, Sizes, Aligns, RoundUp

\* Each member of Get_Impl names, in its offset, width and version, a field of the
\* table; the copy of a version that has the field covers it.
LEMMA MembersAre ==
  /\ Len(Members) = 32
  /\ \A i \in 1..32 :
       /\ FieldOf[i] \in 1..46
       /\ Meaning[Members[i].name] = Names[FieldOf[i]]
       /\ Members[i].width = Sizes[FieldOf[i]]
       /\ Members[i].offset = Places[FieldOf[i]]
       /\ Members[i].width \in {1, 2, 4, 8}
       /\ Members[i].width = 1 => FieldOf[i] = 4
       /\ Members[i].from \in Nat
       /\ \A v \in Nat : v >= Members[i].from <=> FieldOf[i] <= FieldCount(v)
       /\ \A v \in Nat : v >= Members[i].from =>
            Places[FieldOf[i]] + Sizes[FieldOf[i]] <= get_ts_size_bv(v)
<1>1. /\ Len(Members) = 32
      /\ \A i \in 1..32 :
           /\ FieldOf[i] \in 1..46
           /\ Meaning[Members[i].name] = Names[FieldOf[i]]
           /\ Members[i].width = Sizes[FieldOf[i]]
           /\ Members[i].offset = Places[FieldOf[i]]
           /\ Members[i].width \in {1, 2, 4, 8}
           /\ Members[i].width = 1 => FieldOf[i] = 4
  BY DEF Names, Sizes, Places, Members, Member, FieldOf, Meaning
<1>2. \A i \in 1..32 :
        \/ Members[i].from = 0 /\ FieldOf[i] <= 43
        \/ Members[i].from = 9 /\ FieldOf[i] \in {44, 45}
        \/ Members[i].from = 10 /\ FieldOf[i] = 46
  BY DEF Members, Member, FieldOf
<1>3. \A k \in 1..46 :
        /\ k <= 43 => Places[k] + Sizes[k] <= 328
        /\ k <= 45 => Places[k] + Sizes[k] <= 344
        /\ Places[k] + Sizes[k] <= 352
  BY DEF Sizes, Places
<1>4. ASSUME NEW i \in 1..32
      PROVE  /\ Members[i].from \in Nat
             /\ \A v \in Nat : v >= Members[i].from <=> FieldOf[i] <= FieldCount(v)
             /\ \A v \in Nat : v >= Members[i].from =>
                  Places[FieldOf[i]] + Sizes[FieldOf[i]] <= get_ts_size_bv(v)
  <2> DEFINE k == FieldOf[i]
             m == Members[i].from
             e == Places[k] + Sizes[k]
  <2>1. k \in 1..46 /\ k \in 1..47
    BY <1>1
  <2>2. \/ m = 0 /\ k <= 43
        \/ m = 9 /\ k \in {44, 45}
        \/ m = 10 /\ k = 46
    BY <1>2
  <2>3. (k <= 43 => e <= 328) /\ (k <= 45 => e <= 344) /\ e <= 352 /\ e \in Nat
    <3>1. Places[k] \in Nat /\ Sizes[k] \in Nat
      <4> HIDE DEF k
      <4> QED BY <2>1, TablesAre
    <3> HIDE DEF k
    <3>2. /\ k <= 43 => Places[k] + Sizes[k] <= 328
          /\ k <= 45 => Places[k] + Sizes[k] <= 344
          /\ Places[k] + Sizes[k] <= 352
      BY <1>3, <2>1
    <3> QED BY <3>1, <3>2
  <2> HIDE DEF k, m, e
  <2>4. m \in Nat
    BY <2>2
  <2>5. \A v \in Nat : v >= m <=> k <= FieldCount(v)
    BY <2>1, <2>2 DEF FieldCount
  <2>6. \A v \in Nat : v >= m => e <= get_ts_size_bv(v)
    BY <2>2, <2>3 DEF get_ts_size_bv
  <2> QED BY <2>4, <2>5, <2>6 DEF k, m, e
<1> QED BY <1>1, <1>4

\* The struct is a list of fields such as the lemmas above are about.
LEMMA FieldsArePlain ==
  ASSUME NEW v \in Nat, NEW a \in {4, 8}
  PROVE  Plain(Fields(v), a)
<1> DEFINE n == FieldCount(v)
<1>1. /\ n \in 1..47 /\ Len(Fields(v)) = n /\ DOMAIN Fields(v) = 1..n
      /\ \A k \in 1..n : Fields(v)[k].size = Sizes[k] /\ Fields(v)[k].align = Aligns[k]
  BY FieldsOfVersion
<1> HIDE DEF n
<1>2. ASSUME NEW k \in 1..n
      PROVE  Fields(v)[k].size \in Nat \ {0} /\ AlignOf(Fields(v)[k], a) \in {1, 2, 4, 8}
  <2>1. k \in 1..47
    BY <1>1
  <2>2. Sizes[k] \in {1, 2, 3, 4, 8, 32} /\ Aligns[k] \in {0, 1, 2, 4, 8}
    BY <2>1, TablesAre
  <2> QED BY <1>1, <2>2 DEF AlignOf
<1> QED BY <1>1, <1>2 DEF Plain

\* The offsets of the fields of any version.
LEMMA FieldPlaces ==
  ASSUME NEW v \in Nat, NEW a \in {4, 8}
  PROVE  \A k \in 1..FieldCount(v) :
           End(Fields(v), a)[k] = Places[k] + Sizes[k]
<1> DEFINE end == End(Fields(v), a)
           n == FieldCount(v)
           Al(i) == IF Aligns[i] = 0 THEN a ELSE Aligns[i]
           S == {k \in Nat : k + 1 <= n => end[k + 1] = Places[k + 1] + Sizes[k + 1]}
<1>0. /\ n \in 1..47 /\ Len(Fields(v)) = n
      /\ \A k \in 1..n : Fields(v)[k].size = Sizes[k] /\ Fields(v)[k].align = Aligns[k]
  BY FieldsOfVersion
<1>1. end[0] = 0 /\ \A i \in 1..n : end[i] = RoundUp(end[i - 1], Al(i)) + Sizes[i]
  <2>1. /\ end[0] = 0
        /\ \A i \in 1..Len(Fields(v)) :
             end[i] = RoundUp(end[i - 1], AlignOf(Fields(v)[i], a)) + Fields(v)[i].size
    BY <1>0, EndUnfolds
  <2> HIDE DEF end, n
  <2> QED BY <1>0, <2>1 DEF AlignOf
<1> HIDE DEF end, n
<1>2. 0 \in S
  <2>1. RoundUp(0, Al(1)) = Places[1]
    BY PlacesFollow DEF RoundUp
  <2>2. end[1] = RoundUp(end[1 - 1], Al(1)) + Sizes[1]
    BY <1>0, <1>1
  <2> QED BY <1>1, <2>1, <2>2
<1>3. ASSUME NEW k \in S PROVE k + 1 \in S
  <2>1. SUFFICES ASSUME (k + 1) + 1 <= n
                 PROVE  end[(k + 1) + 1] = Places[(k + 1) + 1] + Sizes[(k + 1) + 1]
    OBVIOUS
  <2> DEFINE p == k + 1
             i == (k + 1) + 1
  <2>2. i \in 2..47 /\ i \in 1..n /\ i - 1 = p /\ p <= n
    BY <1>0, <2>1
  <2>3. end[p] = Places[p] + Sizes[p]
    BY <2>2
  <2> HIDE DEF p, i
  <2>4. RoundUp(end[i - 1], Al(i)) = Places[i]
    BY <2>2, <2>3, PlacesFollow
  <2>5. end[i] = Places[i] + Sizes[i]
    BY <1>1, <2>2, <2>4
  <2> QED BY <2>5 DEF i
<1>4. S = Nat
  <2> HIDE DEF S
  <2>1. S \in SUBSET Nat
    BY DEF S
  <2> QED BY <1>2, <1>3, <2>1, SetInduction
<1>5. ASSUME NEW k \in 1..n PROVE end[k] = Places[k] + Sizes[k]
  <2> DEFINE j == k - 1
  <2>1. j \in Nat /\ j + 1 = k /\ j + 1 <= n
    BY <1>0
  <2> HIDE DEF j
  <2>2. j \in S
    BY <1>4, <2>1
  <2> QED BY <2>1, <2>2
<1> QED BY <1>5 DEF end, n

\* The size of the struct in the versions there are.
LEMMA StructSizes ==
  ASSUME NEW v \in Nat, NEW a \in {4, 8}
  PROVE  SizeOf(Fields(v), a) =
           IF v <= 8 THEN 328 ELSE IF v = 9 THEN 344 ELSE IF v = 10 THEN 352 ELSE 360
<1> DEFINE n == FieldCount(v)
           e == Places[n] + Sizes[n]
<1>1. n \in 1..n /\ Len(Fields(v)) = n
  <2>1. n \in 1..47
    BY FieldsOfVersion
  <2>2. Len(Fields(v)) = n
    BY FieldsOfVersion
  <2> HIDE DEF n
  <2> QED BY <2>1, <2>2
<1>2. SizeOf(Fields(v), a) = RoundUp(e, 8)
  BY <1>1, FieldPlaces DEF SizeOf
<1>3. e = IF v <= 8 THEN 328 ELSE IF v = 9 THEN 344 ELSE IF v = 10 THEN 352 ELSE 360
  <2>1. /\ Places[43] + Sizes[43] = 328 /\ Places[45] + Sizes[45] = 344
        /\ Places[46] + Sizes[46] = 352 /\ Places[47] + Sizes[47] = 360
    BY DEF Sizes, Places
  <2> QED BY <2>1 DEF FieldCount
<1> HIDE DEF e
<1> QED BY <1>2, <1>3 DEF RoundUp

-------------------------------------------------------------------------------
(* The bytes of a field and the members of Get_Impl.                       *)

Kernel ==
  /\ version \in Versions /\ align64 \in Align64s
  /\ nice \in {-20, 0, 19} /\ fill \in {"small", "large", "top"}

\* What the assumptions say of the version and the alignment.
LEMMA KernelTypes ==
  ASSUME Kernel
  PROVE  version \in Nat /\ version <= 32767 /\ align64 \in {4, 8}
<1>1. version \in Nat /\ version <= 32767
  BY VersionsFrom7 DEF Kernel
<1>2. align64 \in {4, 8}
  BY Align64sAreABIs DEF Kernel
<1> QED BY <1>1, <1>2

\* Get_Impl fills 32 members.
LEMMA MemberCount == Len(Members) = 32
BY DEF Members

\* The kernel's values fill their fields, a byte in each place.
LEMMA FieldBytesFill ==
  ASSUME Kernel, NEW k \in 1..FieldCount(version)
  PROVE  /\ FieldBytes(Fields(version)[k], k) \in Seq(0..255)
         /\ Len(FieldBytes(Fields(version)[k], k)) = Sizes[k]
         /\ DOMAIN FieldBytes(Fields(version)[k], k) = 1..Sizes[k]
<1> DEFINE field == Fields(version)[k]
           z == Sizes[k]
           bytes == FieldBytes(field, k)
<1>1. version \in Nat
  BY KernelTypes
<1>2. k \in 1..47 /\ field.name = Names[k] /\ field.size = z
  <2> DEFINE n == FieldCount(version)
  <2> HIDE DEF field, z, bytes
  <2>1. n \in 1..47
    BY <1>1, FieldsOfVersion
  <2>2. k \in 1..n
    OBVIOUS
  <2>3. Fields(version)[k].name = Names[k] /\ Fields(version)[k].size = Sizes[k]
    BY <1>1, <2>2, FieldsOfVersion
  <2> HIDE DEF n
  <2> QED BY <2>1, <2>2, <2>3 DEF field, z
<1>3. z \in {1, 2, 3, 4, 8, 32}
  BY <1>2, TablesAre
<1>4. /\ Names[1] = "version" /\ Sizes[1] = 2
      /\ Names[4] = "ac_nice" /\ Sizes[4] = 1
  BY DEF Names, Sizes
<1>5. bytes \in [1..z -> 0..255]
  <2>1. CASE field.name = "version"
    <3>1. k = 1
      <4>1. Names[k] = Names[1] /\ 1 \in 1..47
        BY <1>2, <1>4, <2>1
      <4> QED BY <1>2, <4>1, NamesDiffer
    <3>2. version % 256 \in 0..255 /\ version \div 256 \in 0..255
      <4> HIDE DEF field, z, bytes
      <4>1. version % 256 \in 0..255
        BY <1>1
      <4>2. version \div 256 \in 0..255
        <5>1. version <= 32767
          BY KernelTypes
        <5> QED BY <1>1, <5>1
      <4> QED BY <4>1, <4>2
    <3>3. bytes = <<version % 256, version \div 256>>
      BY <2>1 DEF FieldBytes
    <3>4. z = 2
      BY <1>4, <3>1
    <3> HIDE DEF z, bytes
    <3> QED BY <3>2, <3>3, <3>4
  <2>2. CASE field.name = "ac_nice"
    <3>1. k = 4
      <4>1. Names[k] = Names[4] /\ 4 \in 1..47
        BY <1>2, <1>4, <2>2
      <4> QED BY <1>2, <4>1, NamesDiffer
    <3>2. nice % 256 \in 0..255
      BY DEF Kernel
    <3>3. bytes = <<nice % 256>>
      BY <2>2 DEF FieldBytes
    <3>4. z = 1
      BY <1>4, <3>1
    <3> HIDE DEF z, bytes
    <3> QED BY <3>2, <3>3, <3>4
  <2>3. CASE field.name # "version" /\ field.name # "ac_nice"
    <3>1. bytes = [j \in 1..z |->
             IF j = 1 THEN k
             ELSE IF fill = "small" THEN 0
             ELSE IF j < z THEN 255
             ELSE IF fill = "top" /\ field.name \in {"ac_uid", "ac_gid", "ac_btime"} THEN 255
             ELSE 127]
      BY <1>2, <2>3 DEF FieldBytes
    <3> HIDE DEF z, field, bytes
    <3> QED BY <1>2, <3>1
  <2> QED BY <2>1, <2>2, <2>3
<1> HIDE DEF bytes
<1>6. bytes \in Seq(0..255) /\ Len(bytes) = z
  <2>1. z \in Nat
    BY <1>3
  <2> HIDE DEF z
  <2> QED BY <1>5, <2>1, IntervalIsSeq
<1>7. DOMAIN bytes = 1..z
  BY <1>5
<1> QED BY <1>6, <1>7 DEF bytes

\* The member of a version that has its field is that field and its bytes.
LEMMA MemberReadsItsField ==
  ASSUME Kernel, copied = get_ts_size_bv(version), NEW i \in 1..32,
         version >= Members[i].from
  PROVE  LET k == FieldOf[i] IN
         /\ k \in 1..FieldCount(version)
         /\ ReadMember(Members[i]) =
              [from |-> {Names[k]}, bytes |-> Widen(FieldBytes(Fields(version)[k], k))]
<1> DEFINE k == FieldOf[i]
           z == Sizes[k]
           bytes == FieldBytes(Fields(version)[k], k)
<1>1. version \in Nat /\ align64 \in {4, 8}
  BY KernelTypes
<1>2. /\ k \in 1..46 /\ k <= FieldCount(version)
      /\ Members[i].width = z /\ Members[i].offset = Places[k]
      /\ Places[k] + z <= copied
  BY <1>1, MembersAre
<1>3. k \in 1..FieldCount(version) /\ k \in 1..47
  <2>1. FieldCount(version) \in 1..47
    BY <1>1, FieldsOfVersion
  <2> HIDE DEF k
  <2> QED BY <1>2, <2>1
<1>4. /\ k \in 1..Len(Fields(version))
      /\ Fields(version)[k].name = Names[k] /\ Fields(version)[k].size = z
  <2> HIDE DEF k
  <2> QED BY <1>1, <1>3, FieldsOfVersion
<1>5. End(Fields(version), align64)[k] = Places[k] + z
  BY <1>1, <1>3, FieldPlaces
<1>6. Places[k] \in Nat /\ z \in Nat
  <2> HIDE DEF k
  <2>1. Places[k] \in Nat /\ Sizes[k] \in {1, 2, 3, 4, 8, 32}
    BY <1>3, TablesAre
  <2> QED BY <2>1
<1>7. Offset(k) = Places[k]
  <2> DEFINE p == Places[k]
  <2>1. p \in Nat /\ z \in Nat /\ Offset(k) = (p + z) - z
    BY <1>4, <1>5, <1>6 DEF Offset
  <2> HIDE DEF p, z
  <2>2. Offset(k) = p
    BY <2>1
  <2> QED BY <2>2 DEF p
<1>8. Plain(Fields(version), align64) /\ copied \in Nat
  BY <1>1, FieldsArePlain DEF get_ts_size_bv
<1>9. FieldsAt(Members[i].offset, Members[i].width) = {Names[k]}
  BY <1>2, <1>4, <1>5, <1>7, <1>8, FieldReadsItsName
<1>10. Peek(Members[i].offset, Members[i].width) = bytes
  <2>1. Peek(Offset(k), Fields(version)[k].size) =
          [j \in 1..Fields(version)[k].size |-> bytes[j]]
    BY <1>2, <1>4, <1>5, <1>8, FieldReadsItsBytes
  <2>2. Peek(Members[i].offset, Members[i].width) = [j \in 1..z |-> bytes[j]]
    BY <1>2, <1>4, <1>7, <2>1
  <2>3. bytes \in Seq(0..255) /\ DOMAIN bytes = 1..z
    BY <1>3, FieldBytesFill
  <2> HIDE DEF bytes, z
  <2>4. bytes = [j \in 1..z |-> bytes[j]]
    BY <2>3
  <2> QED BY <2>2, <2>4
<1> QED BY <1>3, <1>9, <1>10 DEF ReadMember

-------------------------------------------------------------------------------
(* The inductive invariant: a copy of the version's size, and members that *)
(* are still what Get_Impl would read now.                                 *)

Held(i) == IF version >= Members[i].from THEN ReadMember(Members[i]) ELSE Null

LayoutInv ==
  /\ Kernel
  /\ copied \in {0, get_ts_size_bv(version)}
  /\ copied = 0 => pos = 0
  /\ pos \in 0..Len(Members)
  /\ result = [i \in 1..pos |-> Held(i)]

\* Nothing is copied or read at first.
LEMMA LayoutInit == Init => LayoutInv
<1> SUFFICES ASSUME Init PROVE LayoutInv
  OBVIOUS
<1>1. Len(Members) \in Nat
  BY MemberCount
<1>2. result = [i \in 1..pos |-> Held(i)]
  <2>1. 1..pos = {}
    BY DEF Init
  <2>2. DOMAIN result = {} /\ result = <<>>
    BY DEF Init
  <2> QED BY <2>1, <2>2
<1> QED BY <1>1, <1>2 DEF Init, LayoutInv, Kernel

\* The copy comes before the first read, and a read adds what the struct holds now.
LEMMA LayoutStep == LayoutInv /\ [Next]_vars => LayoutInv'
<1> SUFFICES ASSUME LayoutInv, [Next]_vars PROVE LayoutInv'
  OBVIOUS
<1>1. CASE Copy
  <2>1. pos = 0 /\ pos' = 0 /\ 1..pos' = {} /\ result' = result
    BY <1>1 DEF Copy, LayoutInv
  <2>2. result' = [i \in 1..pos' |-> Held(i)']
    BY <2>1 DEF LayoutInv
  <2>3. Kernel' /\ version' = version
    BY <1>1 DEF Copy, LayoutInv, Kernel, kernel
  <2>4. copied' = get_ts_size_bv(version')
    BY <1>1, <2>3 DEF Copy
  <2> QED BY <2>1, <2>2, <2>3, <2>4, MemberCount DEF LayoutInv
<1>2. CASE Read
  <2>1. UNCHANGED <<version, align64, nice, fill, copied>>
    BY <1>2 DEF Read, kernel
  <2>2. \A i : Held(i)' = Held(i)
    BY <2>1 DEF Held, ReadMember, FieldsAt, Peek, FieldBytes
  <2>3. pos \in Nat /\ pos' = pos + 1 /\ pos' \in 0..Len(Members) /\ copied # 0
    BY <1>2, MemberCount DEF Read, LayoutInv
  <2>4. result' = Append(result, Held(pos + 1))
    BY <1>2 DEF Read, Held
  <2>5. result' = [i \in 1..(pos + 1) |-> Held(i)]
    <3> DEFINE W == {Held(i) : i \in 1..(pos + 1)}
               F == [i \in 1..(pos + 1) |-> Held(i)]
    <3>1. result \in [1..pos -> W] /\ Held(pos + 1) \in W
      BY <2>3 DEF LayoutInv
    <3>2. result \in Seq(W) /\ Len(result) = pos
      <4> HIDE DEF W
      <4> QED BY <2>3, <3>1, IntervalIsSeq
    <3> HIDE DEF W
    <3>3. /\ Append(result, Held(pos + 1)) \in Seq(W)
          /\ Len(Append(result, Held(pos + 1))) = pos + 1
          /\ \A i \in 1..pos : Append(result, Held(pos + 1))[i] = result[i]
          /\ Append(result, Held(pos + 1))[pos + 1] = Held(pos + 1)
      BY <3>1, <3>2, AppendProperties
    <3>4. DOMAIN result' = 1..(pos + 1)
      BY <2>4, <3>3, LenProperties
    <3>5. result' = [i \in DOMAIN result' |-> result'[i]]
      <4>1. result' \in Seq(W)
        BY <2>4, <3>3
      <4> QED BY <4>1
    <3>6. ASSUME NEW i \in 1..(pos + 1) PROVE result'[i] = Held(i)
      <4>1. CASE i = pos + 1
        BY <2>4, <3>3, <4>1
      <4>2. CASE i # pos + 1
        <5>1. i \in 1..pos
          BY <2>3, <4>2
        <5> QED BY <2>4, <3>3, <5>1 DEF LayoutInv
      <4> QED BY <4>1, <4>2
    <3> QED BY <3>4, <3>5, <3>6
  <2>6. result' = [i \in 1..pos' |-> Held(i)']
    BY <2>2, <2>3, <2>5
  <2> QED BY <2>1, <2>3, <2>6 DEF LayoutInv, Kernel
<1>3. CASE UNCHANGED vars
  <2>1. UNCHANGED <<version, align64, nice, fill, copied, pos, result>>
    BY <1>3 DEF vars, kernel
  <2>2. \A i : Held(i)' = Held(i)
    BY <2>1 DEF Held, ReadMember, FieldsAt, Peek, FieldBytes
  <2> QED BY <2>1, <2>2 DEF LayoutInv, Kernel
<1> QED BY <1>1, <1>2, <1>3 DEF Next

\* In every reachable state the members read so far are what the struct holds
\* at their offsets.
THEOREM LayoutInvariant == Spec => []LayoutInv
BY LayoutInit, LayoutStep, PTL DEF Spec

\* The copy never reads more than the kernel's struct has, never writes more than
\* a caller's buffer holds, and is the whole struct in every version that was
\* known when get_taskstats was written.
THEOREM CopyAlwaysExact == Spec => []CopyIsExact
<1>1. LayoutInv => CopyIsExact
  <2> SUFFICES ASSUME LayoutInv, copied > 0
               PROVE  /\ copied <= SizeOf(Fields(version), align64)
                      /\ \A size \in BufferSizes : copied <= size
                      /\ version <= 10 => copied = SizeOf(Fields(version), align64)
    BY DEF CopyIsExact
  <2>1. version \in Nat /\ align64 \in {4, 8} /\ copied = get_ts_size_bv(version)
    BY KernelTypes DEF LayoutInv
  <2>2. SizeOf(Fields(version), align64) =
          IF version <= 8 THEN 328
          ELSE IF version = 9 THEN 344 ELSE IF version = 10 THEN 352 ELSE 360
    BY <2>1, StructSizes
  <2> QED BY <2>1, <2>2 DEF get_ts_size_bv, BufferSizes
<1> QED BY <1>1, LayoutInvariant, PTL

\* Conversion keeps the bytes, below a zero byte if it is the byte of Nice.
LEMMA WidenKeeps ==
  ASSUME NEW bytes \in Seq(0..255), Len(bytes) \in {1, 2, 4, 8}
  PROVE  /\ Widen(bytes) \in Seq(0..255)
         /\ Len(bytes) # 1 => Widen(bytes) = bytes
         /\ Len(bytes) = 1 => /\ Len(Widen(bytes)) = 2
                              /\ Widen(bytes)[1] = bytes[1] /\ Widen(bytes)[2] = 0
<1>1. CASE Len(bytes) # 1
  BY <1>1 DEF Widen
<1>2. CASE Len(bytes) = 1
  <2>1. Widen(bytes) = Append(bytes, 0) /\ 0 \in 0..255
    BY <1>2 DEF Widen
  <2>2. /\ Append(bytes, 0) \in Seq(0..255) /\ Len(Append(bytes, 0)) = Len(bytes) + 1
        /\ \A j \in 1..Len(bytes) : Append(bytes, 0)[j] = bytes[j]
        /\ Append(bytes, 0)[Len(bytes) + 1] = 0
    BY <2>1, AppendProperties
  <2> QED BY <1>2, <2>1, <2>2
<1> QED BY <1>1, <1>2

\* What a member that has been read holds.
LEMMA MemberRead ==
  ASSUME LayoutInv, NEW i \in 1..pos
  PROVE  LET k == FieldOf[i] IN
         /\ i \in 1..32 /\ k \in 1..46
         /\ IF k \in 1..FieldCount(version)
            THEN result[i] = [from |-> {Names[k]},
                              bytes |-> Widen(FieldBytes(Fields(version)[k], k))]
            ELSE result[i] = Null
<1> DEFINE k == FieldOf[i]
           n == FieldCount(version)
<1>1. pos \in 0..32
  BY MemberCount DEF LayoutInv
<1>2. i \in 1..32 /\ pos # 0
  BY <1>1
<1>3. Kernel /\ copied = get_ts_size_bv(version) /\ result[i] = Held(i)
  BY <1>2 DEF LayoutInv
<1>4. version \in Nat
  BY <1>3, KernelTypes
<1>5. k \in 1..46 /\ (version >= Members[i].from <=> k <= n)
  BY <1>2, <1>4, MembersAre
<1>6. n \in 1..47
  BY <1>4, FieldsOfVersion
<1>7. version >= Members[i].from <=> k \in 1..n
  <2> HIDE DEF k, n
  <2> QED BY <1>5, <1>6
<1>8. version >= Members[i].from =>
        ReadMember(Members[i]) =
          [from |-> {Names[k]}, bytes |-> Widen(FieldBytes(Fields(version)[k], k))]
  BY <1>2, <1>3, MemberReadsItsField
<1> HIDE DEF n
<1> QED BY <1>2, <1>3, <1>5, <1>7, <1>8 DEF Held, n

\* The names of a version's fields are those of its part of the table.
LEMMA NamesOfVersion ==
  ASSUME NEW v \in Nat, NEW k \in 1..47
  PROVE  /\ Names[k] \in FieldNames(v) <=> k \in 1..FieldCount(v)
         /\ \A j \in DOMAIN Fields(v) :
              Fields(v)[j].name = Names[k] => j = k /\ Fields(v)[j].size = Sizes[k]
<1> DEFINE n == FieldCount(v)
<1>1. n \in 1..47 /\ DOMAIN Fields(v) = 1..n
  BY FieldsOfVersion
<1>2. \A j \in 1..n : Fields(v)[j].name = Names[j] /\ Fields(v)[j].size = Sizes[j]
  BY FieldsOfVersion
<1> HIDE DEF n
<1>3. ASSUME NEW j \in 1..n, Names[j] = Names[k] PROVE j = k
  <2>1. j \in 1..47
    BY <1>1
  <2> QED BY <1>3, <2>1, NamesDiffer
<1>4. FieldNames(v) = {Names[j] : j \in 1..n}
  BY <1>1, <1>2 DEF FieldNames
<1>5. Names[k] \in FieldNames(v) <=> k \in 1..n
  BY <1>3, <1>4
<1> QED BY <1>1, <1>2, <1>3, <1>5 DEF n

\* Every member of every version, under both alignments, holds exactly the bytes
\* of the field it is named for, and is null when the version has no such field.
THEOREM MembersAlwaysHoldTheirFields == Spec => []MembersHoldTheirFields
<1>1. LayoutInv => MembersHoldTheirFields
  <2> SUFFICES ASSUME LayoutInv, NEW i \in 1..pos
               PROVE  LET name == Meaning[Members[i].name] IN
                      /\ IF HasField(name) THEN result[i] # Null /\ result[i].from = {name}
                                           ELSE result[i] = Null
                      /\ \A k \in DOMAIN Fields(version) :
                           Fields(version)[k].name = name =>
                             Fields(version)[k].size = Members[i].width
    BY DEF MembersHoldTheirFields
  <2> DEFINE k == FieldOf[i]
             n == FieldCount(version)
             bytes == FieldBytes(Fields(version)[k], k)
             read == [from |-> {Names[k]}, bytes |-> Widen(bytes)]
  <2>1. /\ i \in 1..32 /\ k \in 1..46
        /\ IF k \in 1..n THEN result[i] = read ELSE result[i] = Null
    BY MemberRead
  <2>2. Kernel /\ version \in Nat /\ version \in Versions
    BY KernelTypes DEF LayoutInv, Kernel
  <2>3. Meaning[Members[i].name] = Names[k] /\ Members[i].width = Sizes[k]
    BY <2>1, MembersAre
  <2>4. k \in 1..47
    <3> HIDE DEF k
    <3> QED BY <2>1
  <2>5. /\ HasField(Names[k]) <=> k \in 1..n
        /\ \A j \in DOMAIN Fields(version) :
             Fields(version)[j].name = Names[k] => Fields(version)[j].size = Sizes[k]
    BY <2>2, <2>4, NamesOfVersion DEF HasField
  <2>6. ASSUME k \in 1..n PROVE read # Null
    <3>1. bytes \in Seq(0..255) /\ Len(bytes) = Sizes[k]
      BY <2>2, <2>6, FieldBytesFill
    <3>2. Sizes[k] \in {1, 2, 4, 8}
      BY <2>1, <2>3, MembersAre
    <3> HIDE DEF bytes
    <3>3. Widen(bytes) \in Seq(0..255)
      BY <3>1, <3>2, WidenKeeps
    <3>4. {Names[k]} \in SUBSET FieldNames(version)
      BY <2>5, <2>6 DEF HasField
    <3>5. read \in [from : SUBSET FieldNames(version), bytes : Seq(0..255)]
      BY <3>3, <3>4
    <3> QED BY <2>2, <3>5, NullIsNoMember
  <2>7. k \in 1..n => read.from = {Names[k]}
    OBVIOUS
  <2> HIDE DEF k, n, read
  <2> QED BY <2>1, <2>3, <2>5, <2>6, <2>7
<1> QED BY <1>1, LayoutInvariant, PTL

\* Every member is the number the kernel gave, for every value of the fields:
\* no bit is lost and the sign changes only where the property says.
THEOREM ValuesAlwaysKept == Spec => []ValuesKept
<1>1. LayoutInv => ValuesKept
  <2> SUFFICES ASSUME LayoutInv, NEW i \in 1..pos, result[i] # Null
               PROVE  \E k \in DOMAIN Fields(version) :
                        LET field == FieldBytes(Fields(version)[k], k)
                            member == result[i].bytes
                        IN /\ Fields(version)[k].name = Meaning[Members[i].name]
                           /\ SubSeq(member, 1, Len(field)) = field
                           /\ Last(field) < 128 \/ Len(member) > Len(field)
                                => Signed(member) = Unsigned(field)
    BY DEF ValuesKept
  <2> DEFINE k == FieldOf[i]
             n == FieldCount(version)
             field == FieldBytes(Fields(version)[k], k)
             member == Widen(field)
  <2>1. /\ i \in 1..32 /\ k \in 1..46 /\ k \in 1..n
        /\ result[i] = [from |-> {Names[k]}, bytes |-> member]
    BY MemberRead
  <2>2. Kernel /\ version \in Nat
    BY KernelTypes DEF LayoutInv
  <2>3. Meaning[Members[i].name] = Names[k] /\ Sizes[k] \in {1, 2, 4, 8}
    BY <2>1, MembersAre
  <2>4. k \in DOMAIN Fields(version) /\ Fields(version)[k].name = Names[k]
    <3> HIDE DEF k
    <3> QED BY <2>1, <2>2, FieldsOfVersion
  <2>5. field \in Seq(0..255) /\ Len(field) \in {1, 2, 4, 8}
    BY <2>1, <2>2, <2>3, FieldBytesFill
  <2>6. result[i].bytes = member
    BY <2>1
  <2> HIDE DEF k, n, field, member
  <2>7. /\ SubSeq(member, 1, Len(field)) = field
        /\ Last(field) < 128 \/ Len(member) > Len(field) => Signed(member) = Unsigned(field)
    <3>1. /\ member \in Seq(0..255)
          /\ Len(field) # 1 => member = field
          /\ Len(field) = 1 => /\ Len(member) = 2
                               /\ member[1] = field[1] /\ member[2] = 0
      BY <2>5, WidenKeeps DEF member
    <3>2. CASE Len(field) # 1
      <4>1. member = field /\ SubSeq(field, 1, Len(field)) = field
        BY <2>5, <3>1, <3>2, SubSeqFull
      <4>2. Last(field) \in 0..255
        <5>1. Len(field) \in 1..Len(field)
          <6> DEFINE z == Len(field)
          <6>1. z \in {1, 2, 4, 8}
            BY <2>5
          <6> HIDE DEF z
          <6>2. z \in 1..z
            BY ONLY <6>1
          <6> QED BY <6>2 DEF z
        <5> QED BY <2>5, <5>1, ElementOfSeq DEF Last
      <4>3. Last(field) < 128 => Signed(field) = Unsigned(field)
        BY <4>2 DEF Signed, Unsigned
      <4>4. ~(Len(field) > Len(field))
        BY <2>5
      <4> QED BY <4>1, <4>3, <4>4
    <3>3. CASE Len(field) = 1
      <4>1. SubSeq(member, 1, 1) = field
        <5>1. /\ SubSeq(member, 1, 1) \in Seq(0..255) /\ Len(SubSeq(member, 1, 1)) = 1
              /\ SubSeq(member, 1, 1)[1] = member[1]
          <6>1. 1 \in 0..Len(member)
            <7>1. Len(member) = 2
              BY <3>1, <3>3
            <7>2. 1 \in 0..2
              OBVIOUS
            <7> QED BY ONLY <7>1, <7>2
          <6>2. 1 \in 1..1
            OBVIOUS
          <6> QED BY <3>1, <6>1, <6>2, FirstOnes
        <5> QED BY <2>5, <3>1, <3>3, <5>1, SeqEqual
      <4>2. Last(member) = 0
        BY <3>1, <3>3 DEF Last
      <4>3. Nine(member, 0) = Nine(field, 0)
        <5>1. \A j \in 1..9 :
                (IF j <= Len(member) THEN member[j] ELSE 0) =
                  (IF j <= Len(field) THEN field[j] ELSE 0)
          <6>1. /\ Len(field) = 1 /\ Len(member) = 2
                /\ member[1] = field[1] /\ member[2] = 0
            BY <3>1, <3>3
          <6> QED BY ONLY <6>1
        <5> QED BY <5>1 DEF Nine
      <4>4. Signed(member) = Unsigned(field)
        BY <4>2, <4>3 DEF Signed, Unsigned
      <4> QED BY <3>3, <4>1, <4>4
    <3> QED BY <3>2, <3>3
  <2> QED BY <2>3, <2>4, <2>6, <2>7 DEF field
<1> QED BY <1>1, LayoutInvariant, PTL
===============================================================================
