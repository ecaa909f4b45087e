------------------------------- MODULE AttrWalk -------------------------------
(***************************************************************************)
(* How get_taskstats finds the statistics in a reply                       *)
(* (so-src/get_taskstats.c:496-552).  The payload of a generic netlink     *)
(* message is a list of attributes, each a length and a type (4 bytes, one *)
(* word) followed by its contents up to the next word; the contents of an  *)
(* AGGR_PID or AGGR_TGID attribute are attributes again.  The code walks   *)
(* the list with a pointer and byte counters; here pointer and counters    *)
(* are byte offsets into a memory of words, each of which the walk would   *)
(* read as a header if its pointer came to stand there.                    *)
(***************************************************************************)
EXTENDS Integers, Sequences, SequencesExt, FiniteSetsExt

CONSTANTS
  Messages,     \* the replies: sequences of attributes
  Nothing       \* no statistics copied

\* linux/taskstats.h (TaskStats-Info/taskstats-v10.h)
TASKSTATS_TYPE_PID == 1
TASKSTATS_TYPE_TGID == 2
TASKSTATS_TYPE_STATS == 3
TASKSTATS_TYPE_AGGR_PID == 4
TASKSTATS_TYPE_AGGR_TGID == 5
TASKSTATS_TYPE_NULL == 6
Aggregates == {TASKSTATS_TYPE_AGGR_PID, TASKSTATS_TYPE_AGGR_TGID}

\* linux/netlink.h
NLA_HDRLEN == 4
NLA_ALIGN(n) == ((n + 3) \div 4) * 4
NLA_PAYLOAD(len) == len - NLA_HDRLEN

\* An attribute: a type and either `size` bytes of contents or nested attributes;
\* all an aggregate holds is attributes.
Leaf(type, size) == [type |-> type, size |-> size, nested |-> <<>>]
Aggregate(type, nested) == [type |-> type, size |-> 0, nested |-> nested]
Leaves == [type : Nat, size : Nat, nested : {<<>>}]
Attributes ==
  {a \in [type : Nat, size : Nat, nested : Seq(Leaves)] : a.type \in Aggregates => a.size = 0}

ASSUME RepliesAreAttributes == Messages \subseteq Seq(Attributes)

\* The words of an attribute in memory.  Words of contents read as headers are
\* zero, which is what most of struct taskstats holds.
Header(type, payload) == <<[len |-> NLA_HDRLEN + payload, type |-> type]>>
Contents(size) == [w \in 1..(NLA_ALIGN(size) \div 4) |-> [len |-> 0, type |-> 0]]
EncodeLeaf(a) == Header(a.type, a.size) \o Contents(a.size)
EncodeNested(as) == FlattenSeq([i \in DOMAIN as |-> EncodeLeaf(as[i])])
Encode(a) ==
  IF a.nested = <<>> THEN EncodeLeaf(a)
  ELSE Header(a.type, 4 * Len(EncodeNested(a.nested))) \o EncodeNested(a.nested)
EncodeAll(as) == FlattenSeq([i \in DOMAIN as |-> Encode(as[i])])

VARIABLES
  msg,       \* the reply
  pc,        \* "outer", "inner" or "done"
  na,        \* the pointer, as an offset from GENLMSG_DATA
  len,       \* bytes of the payload the outer loop has passed
  len2,      \* bytes of the aggregate the inner loop has passed
  aggr_len,  \* bytes of the aggregate
  copied     \* where the statistics given to the caller were read

vars == <<msg, pc, na, len, len2, aggr_len, copied>>

rep_len == 4 * Len(EncodeAll(msg))

\* The word na points to; the walk is modelled up to a read outside the message.
Readable(o) == o \in 0..(rep_len - 4) /\ o % 4 = 0
At(o) == EncodeAll(msg)[o \div 4 + 1]

Init ==
  /\ msg \in Messages
  /\ pc = "outer"
  /\ na = 0 /\ len = 0 /\ len2 = 0 /\ aggr_len = 0
  /\ copied = Nothing

\* One turn of the outer loop: into an aggregate, or past any other attribute.
\* Mutant: the length is not rounded up to a word.
OuterNoAlign ==
  /\ pc = "outer" /\ len < rep_len /\ Readable(na)
  /\ len' = len + At(na).len
  /\ IF At(na).type \in Aggregates
       THEN /\ aggr_len' = NLA_PAYLOAD(At(na).len) /\ len2' = 0
            /\ na' = na + NLA_HDRLEN
            /\ pc' = "inner"
       ELSE na' = len' /\ UNCHANGED <<aggr_len, len2, pc>>
  /\ UNCHANGED <<msg, copied>>
\* Mutant: only an aggregate is counted.
OuterSkipsLen ==
  /\ pc = "outer" /\ len < rep_len /\ Readable(na)
  /\ IF At(na).type \in Aggregates
       THEN /\ aggr_len' = NLA_PAYLOAD(At(na).len) /\ len2' = 0
            /\ len' = len + NLA_ALIGN(At(na).len)
            /\ na' = na + NLA_HDRLEN
            /\ pc' = "inner"
       ELSE UNCHANGED <<len, na, aggr_len, len2, pc>>
  /\ UNCHANGED <<msg, copied>>
\* Mutant: the count of the inner loop is not reset.
OuterKeepsLen2 ==
  /\ pc = "outer" /\ len < rep_len /\ Readable(na)
  /\ len' = len + NLA_ALIGN(At(na).len)
  /\ IF At(na).type \in Aggregates
       THEN /\ aggr_len' = NLA_PAYLOAD(At(na).len)
            /\ na' = na + NLA_HDRLEN
            /\ pc' = "inner"
       ELSE na' = len' /\ UNCHANGED <<aggr_len, pc>>
  /\ UNCHANGED <<msg, len2, copied>>
Outer ==
  /\ pc = "outer" /\ len < rep_len /\ Readable(na)
  /\ len' = len + NLA_ALIGN(At(na).len)
  /\ IF At(na).type \in Aggregates
       THEN /\ aggr_len' = NLA_PAYLOAD(At(na).len) /\ len2' = 0
            /\ na' = na + NLA_HDRLEN
            /\ pc' = "inner"
       ELSE na' = len' /\ UNCHANGED <<aggr_len, len2, pc>>
  /\ UNCHANGED <<msg, copied>>

\* One turn of the inner loop: the statistics end the walk, anything else moves
\* na by len2, the bytes passed so far, not by the length of the attribute.
\* Mutant: any attribute but the id is taken for the statistics.
InnerTakesUnknown ==
  /\ pc = "inner" /\ len2 < aggr_len /\ Readable(na)
  /\ IF At(na).type \notin {TASKSTATS_TYPE_PID, TASKSTATS_TYPE_TGID}
       THEN /\ copied' = na + NLA_HDRLEN
            /\ pc' = "done"
            /\ UNCHANGED <<na, len2>>
       ELSE /\ len2' = len2 + NLA_ALIGN(At(na).len)
            /\ na' = na + len2'
            /\ UNCHANGED <<pc, copied>>
  /\ UNCHANGED <<msg, len, aggr_len>>
Inner ==
  /\ pc = "inner" /\ len2 < aggr_len /\ Readable(na)
  /\ IF At(na).type = TASKSTATS_TYPE_STATS
       THEN /\ copied' = na + NLA_HDRLEN
            /\ pc' = "done"
            /\ UNCHANGED <<na, len2>>
       ELSE /\ len2' = len2 + NLA_ALIGN(At(na).len)
            /\ na' = na + len2'
            /\ UNCHANGED <<pc, copied>>
  /\ UNCHANGED <<msg, len, aggr_len>>

\* The aggregate held no statistics: on with the attribute after it.
InnerEnd ==
  /\ pc = "inner" /\ len2 >= aggr_len
  /\ na' = len
  /\ pc' = "outer"
  /\ UNCHANGED <<msg, len, len2, aggr_len, copied>>

OuterEnd ==
  /\ pc = "outer" /\ len >= rep_len
  /\ pc' = "done"
  /\ UNCHANGED <<msg, na, len, len2, aggr_len, copied>>

\* The call goes on to close its socket.
Done == pc = "done" /\ UNCHANGED vars

Next == Outer \/ Inner \/ InnerEnd \/ OuterEnd \/ Done

Spec == Init /\ [][Next]_vars /\ WF_vars(Next)

-------------------------------------------------------------------------------
\* Where the attributes really start, counted from the message's structure.
OuterStart(i) == 4 * Len(EncodeAll(SubSeq(msg, 1, i - 1)))
InnerStart(i, j) ==
  OuterStart(i) + NLA_HDRLEN + 4 * Len(EncodeNested(SubSeq(msg[i].nested, 1, j - 1)))

StatsStarts ==
  UNION {{InnerStart(i, j) : j \in {k \in DOMAIN msg[i].nested :
                                      msg[i].nested[k].type = TASKSTATS_TYPE_STATS}}
         : i \in {k \in DOMAIN msg : msg[k].type \in Aggregates}}

TypeOK ==
  /\ msg \in Messages
  /\ pc \in {"outer", "inner", "done"}
  /\ na \in Nat /\ len \in 0..rep_len /\ aggr_len \in 0..rep_len
  /\ len2 \in 0..aggr_len
  /\ copied \in Nat \cup {Nothing}

\* No aggregate holds more than two attributes, as a kernel that need not pad the
\* statistics sends them: the id and the statistics.
AtMostTwoNested ==
  \A m \in Messages : \A i \in DOMAIN m :
    m[i].type \in Aggregates => Len(m[i].nested) <= 2

\* Whenever the walk reads a header it stands at one: at an attribute of the
\* list, or at an attribute nested in the aggregate it is in.  (True under
\* AtMostTwoNested: see Inner.)
OnBoundary ==
  /\ pc = "outer" /\ len < rep_len => na \in {OuterStart(i) : i \in DOMAIN msg}
  /\ pc = "inner" /\ len2 < aggr_len =>
       \E i \in DOMAIN msg : /\ OuterStart(i) < len /\ len = OuterStart(i + 1)
                             /\ na \in {InnerStart(i, j) : j \in DOMAIN msg[i].nested}

\* The caller is given the first statistics of the reply when it has any, and
\* nothing when it has none: attributes the code does not know, padding, empty
\* aggregates and aggregates without statistics are passed over.
FindsFirstStats ==
  pc = "done" =>
    copied = IF StatsStarts = {} THEN Nothing ELSE Min(StatsStarts) + NLA_HDRLEN

\* The walk ends.
Terminates == <>(pc = "done")
===============================================================================
