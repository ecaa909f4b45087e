-------------------------- MODULE GetTaskStatsProofs --------------------------
(***************************************************************************)
(* Proofs about module GetTaskStats, for any threads, descriptors, tasks   *)
(* and length of the family's name, whether sends and receives may fail or *)
(* not.  The safety properties are facts about one moment of a call; IInv  *)
(* adds the whole conversation, so that it is inductive: what a call holds *)
(* at each label, what is on its socket then, and what it has decided.     *)
(***************************************************************************)
EXTENDS GetTaskStats, TLAPS

Holding == {"rcvbuf", "bind", "name", "famsend", "famrecv", "statsend", "statrecv"}
BeforeName == {"idle", "socket", "rcvbuf", "bind"}
Finished == {"close", "returned"}

\* Where a thread may hold a socket, where it must, and where it must not.
HeldFor ==
  \A t \in Threads :
    /\ pc[t] \in Holding => sd[t] # NoFd
    /\ pc[t] \in {"idle", "socket", "returned"} => sd[t] = NoFd

\* Past the argument check there is a task to ask about.
AsksSomething == \A t \in Threads : pc[t] \notin {"idle"} \cup Finished => arg[t] # NoArgs

\* Error 1 is for those who asked about nothing, and only for them.
NothingAsked ==
  \A t \in Threads : pc[t] \in Finished => (ret[t] = 1 <=> arg[t] = NoArgs)

\* What strcpy has written stays written, whoever else is writing.
NameGrows ==
  \A t \in Threads :
    /\ pc[t] \in BeforeName => npos[t] = 0
    /\ pc[t] = "name" => npos[t] < NameLen
    /\ pc[t] = "famsend" => npos[t] = NameLen
    /\ 1..npos[t] \subseteq name

\* An id is only used after the kernel gave it.
KnowsFamily == \A t \in Threads : pc[t] \in {"statsend", "statrecv"} => id[t] = FamilyId

\* Nothing is copied before the end, and then it is the answer to arg or misread.
Outcome ==
  \A t \in Threads :
    /\ pc[t] \notin Finished => target[t] = NoData /\ ret[t] = 0
    /\ target[t] # NoData => target[t] \in {DataFor(arg[t]), Misread} /\ ret[t] = 0

\* The messages on the socket of a thread, at each point of the call.
Talks(t) ==
  /\ pc[t] \in {"rcvbuf", "bind", "name", "famsend", "statsend"} => Pending(sd[t], <<>>)
  /\ pc[t] = "famrecv" =>
       \/ Pending(sd[t], <<>>)
       \/ Pending(sd[t], <<FamilyRequest(1..NameLen)>>)
       \/ Arrived(sd[t], {ErrorReply, FamilyReply})
  /\ pc[t] = "statrecv" =>
       \/ Pending(sd[t], <<StatsRequest(FamilyId, DataFor(arg[t]))>>)
       \/ Arrived(sd[t], {ErrorReply} \cup StatsReplies(DataFor(arg[t])))
Conversation == \A t \in Threads : Talks(t)

\* What may still be unanswered when the socket is about to be closed.
LeftOver ==
  \A t \in Threads : pc[t] = "close" /\ sd[t] # NoFd =>
    \/ inq[sd[t]] = <<>>
    \/ inq[sd[t]] = <<FamilyRequest(1..NameLen)>>
    \/ inq[sd[t]] = <<StatsRequest(FamilyId, DataFor(arg[t]))>>

\* Descriptors no thread holds carry no messages.
Quiet == \A f \in Fds : (\A t \in Threads : sd[t] # f) => Pending(f, <<>>)

\* The inductive invariant.
IInv == /\ TypeOK /\ UsesOwnSocket /\ HeldFor /\ AsksSomething /\ NothingAsked
        /\ NameGrows /\ KnowsFamily /\ Outcome /\ Conversation /\ LeftOver /\ Quiet

\* A call that asks about something asks about a task.
LEMMA DataTyped == ASSUME NEW a \in Args, a # NoArgs PROVE DataFor(a) \in Data
BY DEF Args, NoArgs, DataFor, Data, Cmd, Tid

\* What the recv of get_family_id can find.
LEMMA FamilyMessage ==
  ASSUME IInv, NEW t \in Threads, pc[t] = "famrecv", outq[sd[t]] # <<>>
  PROVE  /\ sd[t] \in Fds /\ inq[sd[t]] = <<>> /\ Tail(outq[sd[t]]) = <<>>
         /\ \/ Head(outq[sd[t]]) = ErrorReply
            \/ Head(outq[sd[t]]) = FamilyReply
<1>1. sd[t] \in Fds
  BY DEF IInv, TypeOK, HeldFor, Holding
<1>2. Arrived(sd[t], {ErrorReply, FamilyReply})
  BY DEF IInv, Conversation, Talks, Pending
<1>3. PICK r \in {ErrorReply, FamilyReply} : outq[sd[t]] = <<r>>
  BY <1>2 DEF Arrived
<1> QED BY <1>1, <1>2, <1>3 DEF Arrived

\* What the recv of get_taskstats can find.
LEMMA StatsMessage ==
  ASSUME IInv, NEW t \in Threads, pc[t] = "statrecv", outq[sd[t]] # <<>>
  PROVE  /\ sd[t] \in Fds /\ inq[sd[t]] = <<>> /\ Tail(outq[sd[t]]) = <<>>
         /\ DataFor(arg[t]) \in Data
         /\ \/ Head(outq[sd[t]]) = ErrorReply
            \/ Head(outq[sd[t]]) = StatsReply(DataFor(arg[t]))
            \/ Pads /\ Head(outq[sd[t]]) = PaddedReply(DataFor(arg[t]))
<1>1. sd[t] \in Fds
  BY DEF IInv, TypeOK, HeldFor, Holding
<1>2. Arrived(sd[t], {ErrorReply} \cup StatsReplies(DataFor(arg[t])))
  BY DEF IInv, Conversation, Talks, Pending
<1>3. PICK r \in {ErrorReply} \cup StatsReplies(DataFor(arg[t])) : outq[sd[t]] = <<r>>
  BY <1>2 DEF Arrived
<1>4. DataFor(arg[t]) \in Data
  BY DataTyped DEF IInv, TypeOK, AsksSomething, Finished
<1>5. \/ r = ErrorReply \/ r = StatsReply(DataFor(arg[t]))
      \/ Pads /\ r = PaddedReply(DataFor(arg[t]))
  BY <1>3 DEF StatsReplies
<1> QED BY <1>1, <1>2, <1>3, <1>4, <1>5 DEF Arrived

\* What the walk leaves in a buffer nothing was copied to, by the message.
LEMMA WalkedMessage ==
  ASSUME NEW d
  PROVE  /\ Walked(ErrorReply, NoData) = {NoData}
         /\ Walked(StatsReply(d), NoData) = {d}
         /\ Walked(PaddedReply(d), NoData) = {NoData, Misread}
         /\ ErrorReply.type = "error" /\ StatsReply(d).type = "stats"
         /\ PaddedReply(d).type = "padded"
BY DEF Walked, ErrorReply, StatsReply, PaddedReply

\* What a step that receives the statistics does to the call's code and buffer.
LEMMA StatsReceived ==
  ASSUME IInv, NEW t \in Threads, RecvStats(t)
  PROVE  /\ target[t] = NoData /\ DataFor(arg[t]) \in Data
         /\ \/ /\ ret' = [ret EXCEPT ![t] = 8]
               /\ target' = [target EXCEPT ![t] = NoData]
            \/ /\ ret' = [ret EXCEPT ![t] = 0]
               /\ target' = [target EXCEPT ![t] = DataFor(arg[t])]
            \/ /\ ret' = [ret EXCEPT ![t] = 0]
               /\ \E d \in {NoData, Misread} : target' = [target EXCEPT ![t] = d]
               /\ Pads /\ Head(outq[sd[t]]).type = "padded"
<1> DEFINE msg == Head(outq[sd[t]])
<1>1. pc[t] = "statrecv" /\ outq[sd[t]] # <<>> BY DEF RecvStats
<1>2. target[t] = NoData BY <1>1 DEF IInv, Outcome, Finished
<1>3. /\ ret' = [ret EXCEPT ![t] = IF msg.type = "error" THEN 8 ELSE 0]
      /\ \E d \in Walked(msg, NoData) : target' = [target EXCEPT ![t] = d]
  BY <1>2 DEF RecvStats, Fail
<1>4. /\ DataFor(arg[t]) \in Data
      /\ \/ msg = ErrorReply
         \/ msg = StatsReply(DataFor(arg[t]))
         \/ Pads /\ msg = PaddedReply(DataFor(arg[t]))
  BY <1>1, StatsMessage
<1> HIDE DEF msg
<1>5. CASE msg = ErrorReply
  <2>1. msg.type = "error" /\ Walked(msg, NoData) = {NoData} BY <1>5, WalkedMessage
  <2>2. ret' = [ret EXCEPT ![t] = 8] BY <1>3, <2>1
  <2>3. target' = [target EXCEPT ![t] = NoData] BY <1>3, <2>1
  <2> QED BY <1>2, <1>4, <2>2, <2>3
<1>6. CASE msg = StatsReply(DataFor(arg[t]))
  <2>1. msg.type # "error" /\ Walked(msg, NoData) = {DataFor(arg[t])} BY <1>6, WalkedMessage
  <2>2. ret' = [ret EXCEPT ![t] = 0] BY <1>3, <2>1
  <2>3. target' = [target EXCEPT ![t] = DataFor(arg[t])] BY <1>3, <2>1
  <2> QED BY <1>2, <1>4, <2>2, <2>3
<1>7. CASE Pads /\ msg = PaddedReply(DataFor(arg[t]))
  <2>1. msg.type = "padded" /\ Walked(msg, NoData) = {NoData, Misread} BY <1>7, WalkedMessage
  <2>2. ret' = [ret EXCEPT ![t] = 0] BY <1>3, <2>1
  <2>3. \E d \in {NoData, Misread} : target' = [target EXCEPT ![t] = d] BY <1>3, <2>1
  <2> QED BY <1>2, <1>4, <1>7, <2>1, <2>2, <2>3 DEF msg
<1> QED BY <1>4, <1>5, <1>6, <1>7

\* A queue without messages is a queue of messages.
LEMMA EmptyQueues == <<>> \in Seq(Requests) /\ <<>> \in Seq(Replies)
OBVIOUS

-------------------------------------------------------------------------------
\* Every step keeps the types.
LEMMA TypeStep == ASSUME IInv, [Next]_vars PROVE TypeOK'
<1> USE DEF TypeOK, Goto
<1>a. TypeOK BY DEF IInv
<1>1. ASSUME NEW t \in Threads, Enter(t) PROVE TypeOK'
  <2> USE <1>a, <1>1 DEF Enter, Fail, queues
  <2>1. pc' \in [Threads -> Labels] BY DEF Labels
  <2>2. arg' \in [Threads -> Args] OBVIOUS
  <2>3. ret' \in [Threads -> {0, 1, 2, 3, 4, 8}] OBVIOUS
  <2>4. UNCHANGED <<target, sd, id, npos, name, owner, inq, outq>> OBVIOUS
  <2> QED BY <2>1, <2>2, <2>3, <2>4
<1>2. ASSUME NEW t \in Threads, Socket(t) PROVE TypeOK'
  <2> USE <1>a, <1>2 DEF Socket, Fail, queues
  <2>1. pc' \in [Threads -> Labels] BY DEF Labels
  <2>2. ret' \in [Threads -> {0, 1, 2, 3, 4, 8}] OBVIOUS
  <2>3. sd' \in [Threads -> Fds \cup {NoFd}] OBVIOUS
  <2>4. owner' \in [Fds -> Threads \cup {Host, Nobody}]
    <3>1. CASE \E f \in Fds : owner' = [owner EXCEPT ![f] = t] BY <3>1
    <3>2. CASE UNCHANGED owner BY <3>2
    <3> QED BY <3>1, <3>2
  <2>5. UNCHANGED <<arg, target, id, npos, name, inq, outq>> OBVIOUS
  <2> QED BY <2>1, <2>2, <2>3, <2>4, <2>5
<1>3. ASSUME NEW t \in Threads, SetRcvBuf(t) PROVE TypeOK'
  <2> USE <1>a, <1>3 DEF SetRcvBuf, Fail, queues
  <2>1. pc' \in [Threads -> Labels] BY DEF Labels
  <2>2. ret' \in [Threads -> {0, 1, 2, 3, 4, 8}] OBVIOUS
  <2>3. sd' \in [Threads -> Fds \cup {NoFd}] OBVIOUS
  <2>4. UNCHANGED <<arg, target, id, npos, name, owner, inq, outq>> OBVIOUS
  <2> QED BY <2>1, <2>2, <2>3, <2>4
<1>4. ASSUME NEW t \in Threads, Bind(t) PROVE TypeOK'
  <2> USE <1>a, <1>4 DEF Bind, Fail, CloseFd, queues
  <2>1. pc' \in [Threads -> Labels] BY DEF Labels
  <2>2. ret' \in [Threads -> {0, 1, 2, 3, 4, 8}] OBVIOUS
  <2>3. sd' \in [Threads -> Fds \cup {NoFd}] OBVIOUS
  <2>4. owner' \in [Fds -> Threads \cup {Host, Nobody}] OBVIOUS
  <2>5. inq' \in [Fds -> Seq(Requests)] /\ outq' \in [Fds -> Seq(Replies)]
    <3>1. CASE UNCHANGED <<inq, outq>> BY <3>1
    <3>2. CASE /\ inq' = [inq EXCEPT ![sd[t]] = <<>>]
               /\ outq' = [outq EXCEPT ![sd[t]] = <<>>]
      BY <3>2, EmptyQueues
    <3> QED BY <3>1, <3>2
  <2>6. UNCHANGED <<arg, target, id, npos, name>> OBVIOUS
  <2> QED BY <2>1, <2>2, <2>3, <2>4, <2>5, <2>6
<1>5. ASSUME NEW t \in Threads, WriteName(t) PROVE TypeOK'
  <2> USE <1>a, <1>5 DEF WriteName, queues
  <2>1. pc' \in [Threads -> Labels] BY DEF Labels
  <2>2. npos[t] \in 0..NameLen /\ npos[t] < NameLen BY DEF IInv, NameGrows
  <2>3. npos' \in [Threads -> 0..NameLen]
    <3>1. npos[t] + 1 \in 0..NameLen BY <2>2, NameLenIsPositive
    <3> QED BY <3>1
  <2>4. name' \in SUBSET (1..NameLen)
    <3>1. npos[t] + 1 \in 1..NameLen BY <2>2, NameLenIsPositive
    <3> QED BY <3>1
  <2>5. UNCHANGED <<arg, ret, target, sd, id, owner, inq, outq>> OBVIOUS
  <2> QED BY <2>1, <2>3, <2>4, <2>5
<1>6. ASSUME NEW t \in Threads, SendFamily(t) PROVE TypeOK'
  <2> USE <1>a, <1>6 DEF SendFamily, local
  <2>1. pc' \in [Threads -> Labels] BY DEF Labels
  <2>2. FamilyRequest(name) \in Requests BY DEF FamilyRequest, Requests
  <2>3. inq' \in [Fds -> Seq(Requests)]
    <3>1. sd[t] \in Fds BY DEF IInv, HeldFor, Holding
    <3>2. Append(inq[sd[t]], FamilyRequest(name)) \in Seq(Requests) BY <2>2, <3>1
    <3> QED BY <3>2
  <2>4. UNCHANGED <<arg, ret, target, sd, id, npos, name, owner, outq>> OBVIOUS
  <2> QED BY <2>1, <2>3, <2>4
<1>7. ASSUME NEW t \in Threads, RecvFamily(t) PROVE TypeOK'
  <2> USE <1>a, <1>7 DEF RecvFamily, Fail
  <2>1. /\ Tail(outq[sd[t]]) = <<>>
        /\ Head(outq[sd[t]]) = ErrorReply \/ Head(outq[sd[t]]) = FamilyReply
    BY FamilyMessage
  <2>2. pc' \in [Threads -> Labels] BY DEF Labels
  <2>3. ret' \in [Threads -> {0, 1, 2, 3, 4, 8}] OBVIOUS
  <2>4. id' \in [Threads -> {0, FamilyId}]
    <3>1. CASE Head(outq[sd[t]]) = ErrorReply BY <3>1 DEF ErrorReply
    <3>2. CASE Head(outq[sd[t]]) = FamilyReply
      <4>1. id' = [id EXCEPT ![t] = FamilyId] BY <3>2 DEF FamilyReply
      <4> QED BY <4>1
    <3> QED BY <2>1, <3>1, <3>2
  <2>5. outq' \in [Fds -> Seq(Replies)] BY <2>1, EmptyQueues
  <2>6. UNCHANGED <<arg, target, sd, npos, name, owner, inq>> OBVIOUS
  <2> QED BY <2>2, <2>3, <2>4, <2>5, <2>6
<1>8. ASSUME NEW t \in Threads, RecvFamilyError(t) PROVE TypeOK'
  <2> USE <1>a, <1>8 DEF RecvFamilyError, Fail, queues
  <2>1. pc' \in [Threads -> Labels] BY DEF Labels
  <2>2. ret' \in [Threads -> {0, 1, 2, 3, 4, 8}] OBVIOUS
  <2>3. UNCHANGED <<arg, target, sd, id, npos, name, owner, inq, outq>> OBVIOUS
  <2> QED BY <2>1, <2>2, <2>3
<1>9. ASSUME NEW t \in Threads, SendStats(t) PROVE TypeOK'
  <2> USE <1>a, <1>9 DEF SendStats, Fail
  <2>1. pc' \in [Threads -> Labels] BY DEF Labels
  <2>2. ret' \in [Threads -> {0, 1, 2, 3, 4, 8}] OBVIOUS
  <2>3. StatsRequest(id[t], DataFor(arg[t])) \in Requests
    <3>1. id[t] = FamilyId BY DEF IInv, KnowsFamily
    <3>2. arg[t] \in Args /\ arg[t] # NoArgs BY DEF IInv, AsksSomething, Finished
    <3> QED BY <3>1, <3>2, DataTyped DEF StatsRequest, Requests
  <2>4. inq' \in [Fds -> Seq(Requests)]
    <3>1. sd[t] \in Fds BY DEF IInv, HeldFor, Holding
    <3>2. Append(inq[sd[t]], StatsRequest(id[t], DataFor(arg[t]))) \in Seq(Requests)
      BY <2>3, <3>1
    <3> QED BY <3>2
  <2>5. UNCHANGED <<arg, target, sd, id, npos, name, owner, outq>> OBVIOUS
  <2> QED BY <2>1, <2>2, <2>4, <2>5
<1>10. ASSUME NEW t \in Threads, RecvStats(t) PROVE TypeOK'
  <2> USE <1>a, <1>10 DEF RecvStats, Fail
  <2>1. Tail(outq[sd[t]]) = <<>> BY StatsMessage
  <2>2. pc' \in [Threads -> Labels] BY DEF Labels
  <2>3. ret' \in [Threads -> {0, 1, 2, 3, 4, 8}] OBVIOUS
  <2>4. target' \in [Threads -> Data \cup {NoData, Misread}]
    <3> HIDE DEF RecvStats, Fail
    <3>1. PICK d \in Data \cup {NoData, Misread} : target' = [target EXCEPT ![t] = d]
      BY StatsReceived
    <3> QED BY <3>1
  <2>5. outq' \in [Fds -> Seq(Replies)] BY <2>1, EmptyQueues
  <2>6. UNCHANGED <<arg, sd, id, npos, name, owner, inq>> OBVIOUS
  <2> QED BY <2>2, <2>3, <2>4, <2>5, <2>6
<1>11. ASSUME NEW t \in Threads, RecvStatsError(t) PROVE TypeOK'
  <2> USE <1>a, <1>11 DEF RecvStatsError, local, queues
  <2>1. pc' \in [Threads -> Labels] BY DEF Labels
  <2>2. UNCHANGED <<arg, ret, target, sd, id, npos, name, owner, inq, outq>> OBVIOUS
  <2> QED BY <2>1, <2>2
<1>12. ASSUME NEW t \in Threads, Close(t) PROVE TypeOK'
  <2> USE <1>a, <1>12 DEF Close, CloseFd, queues
  <2>1. pc' \in [Threads -> Labels] BY DEF Labels
  <2>2. sd' \in [Threads -> Fds \cup {NoFd}] OBVIOUS
  <2>3. owner' \in [Fds -> Threads \cup {Host, Nobody}] OBVIOUS
  <2>4. inq' \in [Fds -> Seq(Requests)] /\ outq' \in [Fds -> Seq(Replies)]
    BY EmptyQueues
  <2>5. UNCHANGED <<arg, ret, target, id, npos, name>> OBVIOUS
  <2> QED BY <2>1, <2>2, <2>3, <2>4, <2>5
<1>13. ASSUME NEW t \in Threads, Take(t) PROVE TypeOK'
  <2> USE <1>a, <1>13 DEF Take, queues
  <2>1. pc' \in [Threads -> Labels] BY DEF Labels
  <2>2. arg' \in [Threads -> Args] BY DEF Args, NoArgs
  <2>3. /\ ret' \in [Threads -> {0, 1, 2, 3, 4, 8}]
        /\ target' \in [Threads -> Data \cup {NoData, Misread}]
        /\ id' \in [Threads -> {0, FamilyId}]
    OBVIOUS
  <2>4. npos' \in [Threads -> 0..NameLen] BY NameLenIsPositive
  <2>5. UNCHANGED <<sd, name, owner, inq, outq>> OBVIOUS
  <2> QED BY <2>1, <2>2, <2>3, <2>4, <2>5
<1>14. ASSUME NEW f \in Fds, Kernel(f) PROVE TypeOK'
  <2> USE <1>a, <1>14 DEF Kernel, local
  <2>1. KernelReplies(Head(inq[f])) \subseteq Replies
    <3>1. Head(inq[f]) \in Requests OBVIOUS
    <3>2. CASE Head(inq[f]).to = GENL_ID_CTRL
      <4>1. KernelReplies(Head(inq[f])) \subseteq {ErrorReply, FamilyReply}
        BY <3>2, FamilyIdIsDynamic DEF KernelReplies
      <4> QED BY <4>1 DEF Replies
    <3>3. CASE Head(inq[f]).to = FamilyId
      <4>1. Head(inq[f]).subject \in Data BY <3>1, <3>3, FamilyIdIsDynamic DEF Requests
      <4>2. StatsReplies(Head(inq[f]).subject) \subseteq Replies BY <4>1 DEF Replies
      <4>3. KernelReplies(Head(inq[f])) = {ErrorReply} \cup StatsReplies(Head(inq[f]).subject)
        BY <3>3, FamilyIdIsDynamic DEF KernelReplies
      <4> QED BY <4>2, <4>3 DEF Replies
    <3> QED BY <3>1, <3>2, <3>3 DEF Requests
  <2>2. inq' \in [Fds -> Seq(Requests)] OBVIOUS
  <2>3. outq' \in [Fds -> Seq(Replies)] BY <2>1, EmptyQueues
  <2>4. UNCHANGED <<pc, arg, ret, target, sd, id, npos, name, owner>> OBVIOUS
  <2> QED BY <2>2, <2>3, <2>4
<1>15. ASSUME NEW f \in Fds, HostOpen(f) PROVE TypeOK'
  BY <1>a, <1>15 DEF HostOpen, local, queues
<1>16. ASSUME NEW f \in Fds, HostClose(f) PROVE TypeOK'
  BY <1>a, <1>16 DEF HostClose, CloseFd, local
<1>17. CASE UNCHANGED vars
  BY <1>a, <1>17 DEF vars
<1> QED BY <1>1, <1>2, <1>3, <1>4, <1>5, <1>6, <1>7, <1>8, <1>9, <1>10, <1>11,
           <1>12, <1>13, <1>14, <1>15, <1>16, <1>17 DEF Next, Advance

\* Every step keeps the sockets with the calls that opened them.
LEMMA OwnershipStep == ASSUME IInv, [Next]_vars PROVE UsesOwnSocket' /\ HeldFor'
<1> USE DEF TypeOK, UsesOwnSocket, HeldFor, Holding, Labels, Goto, Fail, CloseFd, local, queues
<1>a. TypeOK /\ UsesOwnSocket /\ HeldFor
  BY DEF IInv
<1>1. ASSUME NEW t \in Threads, Enter(t) PROVE UsesOwnSocket' /\ HeldFor'
  BY <1>a, <1>1, OwnersAreDistinct, NoFdIsNotAFd DEF Enter
<1>2. ASSUME NEW t \in Threads, Socket(t) PROVE UsesOwnSocket' /\ HeldFor'
  <2>1. CASE UNCHANGED <<sd, owner>> /\ Fail(t, 2)
    BY <1>a, <1>2, <2>1 DEF Socket
  <2>2. CASE \E f \in Fds : /\ owner[f] = Nobody
                          /\ owner' = [owner EXCEPT ![f] = t]
                          /\ sd' = [sd EXCEPT ![t] = f]
    <3>1. PICK f \in Fds : /\ owner[f] = Nobody
                          /\ owner' = [owner EXCEPT ![f] = t]
                          /\ sd' = [sd EXCEPT ![t] = f]
      BY <2>2
    <3>2. UsesOwnSocket' BY <1>a, <3>1, OwnersAreDistinct
    <3>3. pc' = [pc EXCEPT ![t] = "rcvbuf"] \/ pc' = [pc EXCEPT ![t] = "bind"]
          \/ pc' = [pc EXCEPT ![t] = "close"]
      BY <1>2 DEF Socket
    <3>4. HeldFor' BY <1>a, <3>1, <3>3, NoFdIsNotAFd
    <3> QED BY <3>2, <3>4
  <2> QED BY <1>2, <2>1, <2>2 DEF Socket
<1>3. ASSUME NEW t \in Threads, SetRcvBuf(t) PROVE UsesOwnSocket' /\ HeldFor'
  <2>1. CASE UNCHANGED <<ret, sd>>
    BY <1>a, <1>3, <2>1 DEF SetRcvBuf
  <2>2. CASE Fail(t, 2) /\ sd' = [sd EXCEPT ![t] = NoFd]
    BY <1>a, <1>3, <2>2 DEF SetRcvBuf
  <2> QED BY <1>3, <2>1, <2>2 DEF SetRcvBuf
<1>4. ASSUME NEW t \in Threads, Bind(t) PROVE UsesOwnSocket' /\ HeldFor'
  <2>1. CASE UNCHANGED <<ret, sd, owner, queues>>
    BY <1>a, <1>4, <2>1 DEF Bind
  <2>2. CASE Fail(t, 2) /\ CloseFd(sd[t]) /\ sd' = [sd EXCEPT ![t] = NoFd]
    BY <1>a, <1>4, <2>2 DEF Bind
  <2> QED BY <1>4, <2>1, <2>2 DEF Bind
<1>5. ASSUME NEW t \in Threads, WriteName(t) PROVE UsesOwnSocket' /\ HeldFor'
  BY <1>a, <1>5, OwnersAreDistinct, NoFdIsNotAFd DEF WriteName
<1>6. ASSUME NEW t \in Threads, SendFamily(t) PROVE UsesOwnSocket' /\ HeldFor'
  BY <1>a, <1>6, OwnersAreDistinct, NoFdIsNotAFd DEF SendFamily
<1>7. ASSUME NEW t \in Threads, RecvFamily(t) PROVE UsesOwnSocket' /\ HeldFor'
  BY <1>a, <1>7, OwnersAreDistinct, NoFdIsNotAFd DEF RecvFamily
<1>8. ASSUME NEW t \in Threads, RecvFamilyError(t) PROVE UsesOwnSocket' /\ HeldFor'
  BY <1>a, <1>8, OwnersAreDistinct, NoFdIsNotAFd DEF RecvFamilyError
<1>9. ASSUME NEW t \in Threads, SendStats(t) PROVE UsesOwnSocket' /\ HeldFor'
  BY <1>a, <1>9, OwnersAreDistinct, NoFdIsNotAFd DEF SendStats
<1>10. ASSUME NEW t \in Threads, RecvStats(t) PROVE UsesOwnSocket' /\ HeldFor'
  BY <1>a, <1>10, OwnersAreDistinct, NoFdIsNotAFd DEF RecvStats
<1>11. ASSUME NEW t \in Threads, RecvStatsError(t) PROVE UsesOwnSocket' /\ HeldFor'
  BY <1>a, <1>11, OwnersAreDistinct, NoFdIsNotAFd DEF RecvStatsError
<1>12. ASSUME NEW t \in Threads, Close(t) PROVE UsesOwnSocket' /\ HeldFor'
  BY <1>a, <1>12, OwnersAreDistinct, NoFdIsNotAFd DEF Close
<1>13. ASSUME NEW t \in Threads, Take(t) PROVE UsesOwnSocket' /\ HeldFor'
  BY <1>a, <1>13, OwnersAreDistinct, NoFdIsNotAFd DEF Take
<1>14. ASSUME NEW f \in Fds, Kernel(f) PROVE UsesOwnSocket' /\ HeldFor'
  BY <1>a, <1>14, OwnersAreDistinct, NoFdIsNotAFd DEF Kernel
<1>15. ASSUME NEW f \in Fds, HostOpen(f) PROVE UsesOwnSocket' /\ HeldFor'
  BY <1>a, <1>15, OwnersAreDistinct, NoFdIsNotAFd DEF HostOpen
<1>16. ASSUME NEW f \in Fds, HostClose(f) PROVE UsesOwnSocket' /\ HeldFor'
  BY <1>a, <1>16, OwnersAreDistinct, NoFdIsNotAFd DEF HostClose
<1>17. CASE UNCHANGED vars
  BY <1>a, <1>17 DEF vars
<1> QED BY <1>1, <1>2, <1>3, <1>4, <1>5, <1>6, <1>7, <1>8, <1>9, <1>10, <1>11, <1>12, <1>13, <1>14, <1>15, <1>16, <1>17 DEF Next, Advance

\* Every step keeps the argument, the family id and strcpy on their way.
LEMMA ArgumentStep == ASSUME IInv, [Next]_vars PROVE AsksSomething' /\ KnowsFamily' /\ NameGrows'
<1> USE DEF TypeOK, AsksSomething, KnowsFamily, NameGrows, Labels, Finished, BeforeName, Goto, Fail, local, queues
<1>a. TypeOK /\ AsksSomething /\ KnowsFamily /\ NameGrows
  BY DEF IInv
<1>1. ASSUME NEW t \in Threads, Enter(t) PROVE AsksSomething' /\ KnowsFamily' /\ NameGrows'
  BY <1>a, <1>1 DEF Enter
<1>2. ASSUME NEW t \in Threads, Socket(t) PROVE AsksSomething' /\ KnowsFamily' /\ NameGrows'
  BY <1>a, <1>2 DEF Socket
<1>3. ASSUME NEW t \in Threads, SetRcvBuf(t) PROVE AsksSomething' /\ KnowsFamily' /\ NameGrows'
  BY <1>a, <1>3 DEF SetRcvBuf
<1>4. ASSUME NEW t \in Threads, Bind(t) PROVE AsksSomething' /\ KnowsFamily' /\ NameGrows'
  <2>1. UNCHANGED <<arg, id, npos, name>> BY <1>4 DEF Bind
  <2>2. pc' = [pc EXCEPT ![t] = "name"] \/ pc' = [pc EXCEPT ![t] = "close"]
    BY <1>4 DEF Bind
  <2>3. npos[t] = 0 /\ pc[t] = "bind" BY <1>a, <1>4 DEF Bind
  <2>4. AsksSomething' BY <1>a, <2>1, <2>2, <2>3
  <2>5. KnowsFamily' BY <1>a, <2>1, <2>2
  <2>6. NameGrows'
    <3>1. CASE pc' = [pc EXCEPT ![t] = "name"]
      BY <1>a, <2>1, <2>3, <3>1, NameLenIsPositive
    <3>2. CASE pc' = [pc EXCEPT ![t] = "close"]
      BY <1>a, <2>1, <3>2
    <3> QED BY <2>2, <3>1, <3>2
  <2> QED BY <2>4, <2>5, <2>6
<1>5. ASSUME NEW t \in Threads, WriteName(t) PROVE AsksSomething' /\ KnowsFamily' /\ NameGrows'
  <2> USE DEF WriteName
  <2>1. npos[t] \in 0..NameLen /\ npos[t] < NameLen BY <1>a, <1>5
  <2>2. pc' = IF npos[t] + 1 = NameLen THEN [pc EXCEPT ![t] = "famsend"] ELSE pc
    BY <1>5
  <2>3. AsksSomething' /\ KnowsFamily' BY <1>a, <1>5, <2>2
  <2>4. ASSUME NEW u \in Threads
        PROVE  /\ pc'[u] \in BeforeName => npos'[u] = 0
               /\ pc'[u] = "name" => npos'[u] < NameLen
               /\ pc'[u] = "famsend" => npos'[u] = NameLen
    BY <1>a, <1>5, <2>1, <2>2, NameLenIsPositive
  <2>5. ASSUME NEW u \in Threads PROVE 1..npos'[u] \subseteq name'
    <3>1. name' = name \cup {npos[t] + 1} BY <1>5
    <3>2. CASE u = t
      <4>1. npos'[u] = npos[t] + 1 BY <1>a, <1>5, <3>2
      <4>2. 1..npos[t] \subseteq name BY <1>a
      <4>3. \A w \in 1..(npos[t] + 1) : w \in 1..npos[t] \/ w = npos[t] + 1 BY <2>1, NameLenIsPositive
      <4> QED BY <3>1, <4>1, <4>2, <4>3
    <3>3. CASE u # t BY <1>a, <1>5, <3>1, <3>3
    <3> QED BY <3>2, <3>3
  <2> QED BY <2>3, <2>4, <2>5
<1>6. ASSUME NEW t \in Threads, SendFamily(t) PROVE AsksSomething' /\ KnowsFamily' /\ NameGrows'
  BY <1>a, <1>6 DEF SendFamily
<1>7. ASSUME NEW t \in Threads, RecvFamily(t) PROVE AsksSomething' /\ KnowsFamily' /\ NameGrows'
  <2>1. Head(outq[sd[t]]) = ErrorReply \/ Head(outq[sd[t]]) = FamilyReply
    BY <1>7, FamilyMessage DEF RecvFamily
  <2>2. \/ Goto(t, "statsend") /\ id' = [id EXCEPT ![t] = FamilyId]
        \/ Goto(t, "close") /\ UNCHANGED id
    <3>1. CASE Head(outq[sd[t]]) = ErrorReply BY <1>7, <3>1 DEF RecvFamily, ErrorReply
    <3>2. CASE Head(outq[sd[t]]) = FamilyReply BY <1>7, <3>2 DEF RecvFamily, FamilyReply
    <3> QED BY <2>1, <3>1, <3>2
  <2> QED BY <1>a, <1>7, <2>2 DEF RecvFamily
<1>8. ASSUME NEW t \in Threads, RecvFamilyError(t) PROVE AsksSomething' /\ KnowsFamily' /\ NameGrows'
  BY <1>a, <1>8 DEF RecvFamilyError
<1>9. ASSUME NEW t \in Threads, SendStats(t) PROVE AsksSomething' /\ KnowsFamily' /\ NameGrows'
  BY <1>a, <1>9 DEF SendStats
<1>10. ASSUME NEW t \in Threads, RecvStats(t) PROVE AsksSomething' /\ KnowsFamily' /\ NameGrows'
  BY <1>a, <1>10 DEF RecvStats
<1>11. ASSUME NEW t \in Threads, RecvStatsError(t) PROVE AsksSomething' /\ KnowsFamily' /\ NameGrows'
  BY <1>a, <1>11 DEF RecvStatsError
<1>12. ASSUME NEW t \in Threads, Close(t) PROVE AsksSomething' /\ KnowsFamily' /\ NameGrows'
  BY <1>a, <1>12 DEF Close
<1>13. ASSUME NEW t \in Threads, Take(t) PROVE AsksSomething' /\ KnowsFamily' /\ NameGrows'
  BY <1>a, <1>13 DEF Take
<1>14. ASSUME NEW f \in Fds, Kernel(f) PROVE AsksSomething' /\ KnowsFamily' /\ NameGrows'
  BY <1>a, <1>14 DEF Kernel
<1>15. ASSUME NEW f \in Fds, HostOpen(f) PROVE AsksSomething' /\ KnowsFamily' /\ NameGrows'
  BY <1>a, <1>15 DEF HostOpen
<1>16. ASSUME NEW f \in Fds, HostClose(f) PROVE AsksSomething' /\ KnowsFamily' /\ NameGrows'
  BY <1>a, <1>16 DEF HostClose
<1>17. CASE UNCHANGED vars
  BY <1>a, <1>17 DEF vars
<1> QED BY <1>1, <1>2, <1>3, <1>4, <1>5, <1>6, <1>7, <1>8, <1>9, <1>10, <1>11, <1>12, <1>13, <1>14, <1>15, <1>16, <1>17 DEF Next, Advance

\* Every step keeps the outcome of the call undecided or decided.
LEMMA OutcomeStep == ASSUME IInv, [Next]_vars PROVE Outcome'
<1> USE DEF TypeOK, Outcome, Labels, Finished, Goto, Fail, local, queues
<1>a. TypeOK /\ Outcome
  BY DEF IInv
<1>1. ASSUME NEW t \in Threads, Enter(t) PROVE Outcome'
  BY <1>a, <1>1 DEF Enter
<1>2. ASSUME NEW t \in Threads, Socket(t) PROVE Outcome'
  BY <1>a, <1>2 DEF Socket
<1>3. ASSUME NEW t \in Threads, SetRcvBuf(t) PROVE Outcome'
  BY <1>a, <1>3 DEF SetRcvBuf
<1>4. ASSUME NEW t \in Threads, Bind(t) PROVE Outcome'
  BY <1>a, <1>4 DEF Bind
<1>5. ASSUME NEW t \in Threads, WriteName(t) PROVE Outcome'
  BY <1>a, <1>5 DEF WriteName
<1>6. ASSUME NEW t \in Threads, SendFamily(t) PROVE Outcome'
  BY <1>a, <1>6 DEF SendFamily
<1>7. ASSUME NEW t \in Threads, RecvFamily(t) PROVE Outcome'
  BY <1>a, <1>7 DEF RecvFamily
<1>8. ASSUME NEW t \in Threads, RecvFamilyError(t) PROVE Outcome'
  BY <1>a, <1>8 DEF RecvFamilyError
<1>9. ASSUME NEW t \in Threads, SendStats(t) PROVE Outcome'
  BY <1>a, <1>9 DEF SendStats
<1>10. ASSUME NEW t \in Threads, RecvStats(t) PROVE Outcome'
  <2>1. UNCHANGED arg /\ pc' = [pc EXCEPT ![t] = "close"] BY <1>10 DEF RecvStats
  <2>2. target'[t] # NoData => target'[t] \in {DataFor(arg[t]), Misread} /\ ret'[t] = 0
    BY <1>a, <1>10, StatsReceived
  <2>3. \A u \in Threads : u # t => ret'[u] = ret[u] /\ target'[u] = target[u]
    <3>1. PICK c, d : ret' = [ret EXCEPT ![t] = c] /\ target' = [target EXCEPT ![t] = d]
      BY <1>10, StatsReceived
    <3> QED BY <1>a, <3>1
  <2>4. \A u \in Threads : DataFor(arg[u])' = DataFor(arg[u]) BY <2>1 DEF DataFor, Cmd, Tid
  <2> QED BY <1>a, <2>1, <2>2, <2>3, <2>4
<1>11. ASSUME NEW t \in Threads, RecvStatsError(t) PROVE Outcome'
  BY <1>a, <1>11 DEF RecvStatsError
<1>12. ASSUME NEW t \in Threads, Close(t) PROVE Outcome'
  BY <1>a, <1>12 DEF Close
<1>13. ASSUME NEW t \in Threads, Take(t) PROVE Outcome'
  BY <1>a, <1>13 DEF Take
<1>14. ASSUME NEW f \in Fds, Kernel(f) PROVE Outcome'
  BY <1>a, <1>14 DEF Kernel
<1>15. ASSUME NEW f \in Fds, HostOpen(f) PROVE Outcome'
  BY <1>a, <1>15 DEF HostOpen
<1>16. ASSUME NEW f \in Fds, HostClose(f) PROVE Outcome'
  BY <1>a, <1>16 DEF HostClose
<1>17. CASE UNCHANGED vars
  BY <1>a, <1>17 DEF vars
<1> QED BY <1>1, <1>2, <1>3, <1>4, <1>5, <1>6, <1>7, <1>8, <1>9, <1>10, <1>11, <1>12, <1>13, <1>14, <1>15, <1>16, <1>17 DEF Next, Advance

\* Two threads never hold the same descriptor.
LEMMA OwnSockets ==
  ASSUME IInv, NEW t \in Threads, NEW u \in Threads, u # t, sd[u] # NoFd
  PROVE  sd[u] # sd[t]
BY DEF IInv, UsesOwnSocket


\* A descriptor of the process, or a free one, is in no call's hands.
LEMMA NotHeld ==
  ASSUME IInv, NEW f \in Fds, owner[f] \in {Host, Nobody}, NEW u \in Threads
  PROVE  sd[u] # f
BY OwnersAreDistinct, NoFdIsNotAFd DEF IInv, UsesOwnSocket

\* What the kernel can find on a socket, and whose socket that is.
LEMMA KernelMessage ==
  ASSUME IInv, NEW f \in Fds, inq[f] # <<>>
  PROVE  \E t \in Threads :
           /\ sd[t] = f
           /\ \/ /\ pc[t] = "famrecv"
                 /\ Pending(f, <<FamilyRequest(1..NameLen)>>)
                 /\ KernelReplies(Head(inq[f])) = {ErrorReply, FamilyReply}
              \/ /\ pc[t] = "statrecv"
                 /\ Pending(f, <<StatsRequest(FamilyId, DataFor(arg[t]))>>)
                 /\ KernelReplies(Head(inq[f])) =
                      {ErrorReply} \cup StatsReplies(DataFor(arg[t]))
              \/ pc[t] = "close"
<1>1. PICK t \in Threads : sd[t] = f
  BY DEF IInv, Quiet, Pending
<1>2. sd[t] # NoFd
  BY <1>1, NoFdIsNotAFd
<1>3. pc[t] \in {"famrecv", "statrecv", "close"}
  BY <1>1, <1>2 DEF IInv, TypeOK, Labels, HeldFor, Conversation, Talks, Pending
<1>4. CASE pc[t] = "famrecv"
  <2>1. Pending(f, <<FamilyRequest(1..NameLen)>>)
    BY <1>1, <1>4 DEF IInv, Conversation, Talks, Pending, Arrived
  <2>2. Head(inq[f]) = FamilyRequest(1..NameLen)
    BY <2>1 DEF Pending
  <2>3. /\ Head(inq[f]).to = GENL_ID_CTRL
        /\ Head(inq[f]).name = 1..NameLen
    BY <2>2 DEF FamilyRequest
  <2>4. KernelReplies(Head(inq[f])) = {ErrorReply, FamilyReply}
    BY <2>3, FamilyIdIsDynamic DEF KernelReplies
  <2> QED BY <1>1, <1>4, <2>1, <2>4
<1>5. CASE pc[t] = "statrecv"
  <2>1. Pending(f, <<StatsRequest(FamilyId, DataFor(arg[t]))>>)
    BY <1>1, <1>5 DEF IInv, Conversation, Talks, Pending, Arrived
  <2>2. Head(inq[f]) = StatsRequest(FamilyId, DataFor(arg[t]))
    BY <2>1 DEF Pending
  <2>3. /\ Head(inq[f]).to = FamilyId
        /\ Head(inq[f]).subject = DataFor(arg[t])
    BY <2>2 DEF StatsRequest
  <2>4. KernelReplies(Head(inq[f])) = {ErrorReply} \cup StatsReplies(DataFor(arg[t]))
    BY <2>3, FamilyIdIsDynamic DEF KernelReplies
  <2> QED BY <1>1, <1>5, <2>1, <2>4
<1> QED BY <1>1, <1>3, <1>4, <1>5

\* Every step keeps the conversation in order.
LEMMA ConversationStep == ASSUME IInv, [Next]_vars PROVE Conversation'
<1> USE DEF TypeOK, Conversation, Talks, Pending, Arrived, HeldFor, Holding, Labels, Goto, Fail, CloseFd, local, queues
<1>a. TypeOK /\ Conversation /\ HeldFor
  BY DEF IInv
<1>1. ASSUME NEW t \in Threads, Enter(t) PROVE Conversation'
  BY <1>a, <1>1 DEF Enter
<1>2. ASSUME NEW t \in Threads, Socket(t) PROVE Conversation'
  <2>1. CASE Fail(t, 2) /\ UNCHANGED <<sd, owner>>
    BY <1>a, <1>2, <2>1 DEF Socket
  <2>2. CASE \E f \in Fds : owner[f] = Nobody /\ sd' = [sd EXCEPT ![t] = f]
    <3>1. PICK f \in Fds : owner[f] = Nobody /\ sd' = [sd EXCEPT ![t] = f]
      BY <2>2
    <3>2. \A u \in Threads : sd[u] # f
      BY <3>1, NotHeld
    <3>3. Pending(f, <<>>)
      BY <3>2 DEF IInv, Quiet
    <3> QED BY <1>a, <1>2, <3>1, <3>3 DEF Socket
  <2> QED BY <1>2, <2>1, <2>2 DEF Socket
<1>3. ASSUME NEW t \in Threads, SetRcvBuf(t) PROVE Conversation'
  BY <1>a, <1>3 DEF SetRcvBuf
<1>4. ASSUME NEW t \in Threads, Bind(t) PROVE Conversation'
  <2>1. CASE Goto(t, "name") /\ UNCHANGED <<ret, sd, owner, queues>>
    BY <1>a, <1>4, <2>1 DEF Bind
  <2>2. CASE Fail(t, 2) /\ CloseFd(sd[t]) /\ sd' = [sd EXCEPT ![t] = NoFd]
    <3>1. \A u \in Threads : u # t /\ sd[u] # NoFd => sd[u] # sd[t] BY OwnSockets
    <3>2. ASSUME NEW u \in Threads, u # t PROVE Talks(u)'
      <4>1. pc'[u] = pc[u] /\ sd'[u] = sd[u] /\ arg' = arg /\ Talks(u)
        BY <1>a, <1>4, <2>2, <3>2 DEF Bind
      <4>2. CASE pc[u] \in Holding
        <5>1. sd[u] # sd[t] /\ sd[u] \in Fds BY <1>a, <3>1, <3>2, <4>2
        <5>2. inq'[sd[u]] = inq[sd[u]] /\ outq'[sd[u]] = outq[sd[u]]
          BY <1>a, <2>2, <5>1
        <5> QED BY <4>1, <5>2
      <4>3. CASE pc[u] \notin Holding BY <4>1, <4>3
      <4> QED BY <4>2, <4>3
    <3>3. Talks(t)' BY <1>a, <2>2
    <3> QED BY <3>2, <3>3
  <2> QED BY <1>4, <2>1, <2>2 DEF Bind
<1>5. ASSUME NEW t \in Threads, WriteName(t) PROVE Conversation'
  <2>1. /\ UNCHANGED <<arg, sd, inq, outq>>
        /\ pc[t] = "name" /\ pc' \in {pc, [pc EXCEPT ![t] = "famsend"]}
    BY <1>5 DEF WriteName
  <2>2. Talks(t)' BY <1>a, <2>1
  <2>3. ASSUME NEW u \in Threads, u # t PROVE Talks(u)'
    <3>1. pc'[u] = pc[u] BY <1>a, <2>1, <2>3
    <3> QED BY <1>a, <2>1, <3>1
  <2> QED BY <2>2, <2>3
<1>6. ASSUME NEW t \in Threads, SendFamily(t) PROVE Conversation'
  <2> USE <1>6 DEF SendFamily
  <2>1. sd[t] \in Fds /\ sd[t] # NoFd BY <1>a, NoFdIsNotAFd
  <2>2. Pending(sd[t], <<>>) BY <1>a
  <2>3. name = 1..NameLen BY DEF IInv, NameGrows
  <2>4. /\ outq' = outq /\ sd' = sd /\ arg' = arg
        /\ \/ inq' = [inq EXCEPT ![sd[t]] = <<FamilyRequest(1..NameLen)>>]
           \/ inq' = inq
    BY <2>2, <2>3
  <2>5. Talks(t)' BY <1>a, <2>1, <2>2, <2>4
  <2>6. ASSUME NEW u \in Threads, u # t PROVE Talks(u)'
    <3>1. pc'[u] = pc[u] BY <1>a, <2>6
    <3>2. CASE sd[u] = NoFd BY <1>a, <3>1, <3>2
    <3>3. CASE sd[u] # NoFd
      <4>1. sd[u] \in Fds /\ sd[u] # sd[t] BY <1>a, <3>3, <2>6, OwnSockets
      <4>2. inq'[sd[u]] = inq[sd[u]] BY <1>a, <2>4, <4>1
      <4> QED BY <1>a, <2>4, <2>6, <3>1, <4>2
    <3> QED BY <3>2, <3>3
  <2> QED BY <2>5, <2>6
<1>7. ASSUME NEW t \in Threads, RecvFamily(t) PROVE Conversation'
  <2>1. /\ sd[t] \in Fds /\ inq[sd[t]] = <<>> /\ Tail(outq[sd[t]]) = <<>>
    BY <1>7, FamilyMessage DEF RecvFamily
  <2>2. outq' = [outq EXCEPT ![sd[t]] = <<>>] /\ UNCHANGED <<arg, sd, inq>>
    BY <1>7, <2>1 DEF RecvFamily
  <2>3. pc' = [pc EXCEPT ![t] = "statsend"] \/ pc' = [pc EXCEPT ![t] = "close"]
    BY <1>7 DEF RecvFamily
  <2>4. Talks(t)' BY <1>a, <2>1, <2>2, <2>3
  <2>5. ASSUME NEW u \in Threads, u # t PROVE Talks(u)'
    BY <1>a, <2>2, <2>3, <2>5, OwnSockets
  <2> QED BY <2>4, <2>5
<1>8. ASSUME NEW t \in Threads, RecvFamilyError(t) PROVE Conversation'
  BY <1>a, <1>8 DEF RecvFamilyError
<1>9. ASSUME NEW t \in Threads, SendStats(t) PROVE Conversation'
  <2> USE <1>9 DEF SendStats
  <2>1. sd[t] \in Fds /\ sd[t] # NoFd BY <1>a, NoFdIsNotAFd
  <2>2. Pending(sd[t], <<>>) /\ id[t] = FamilyId
    BY <1>a DEF IInv, KnowsFamily
  <2>3. /\ outq' = outq /\ sd' = sd /\ arg' = arg
        /\ \/ /\ inq' = [inq EXCEPT ![sd[t]] =
                           <<StatsRequest(FamilyId, DataFor(arg[t]))>>]
              /\ pc' = [pc EXCEPT ![t] = "statrecv"]
           \/ inq' = inq /\ pc' = [pc EXCEPT ![t] = "close"]
    BY <2>2
  <2>4. Talks(t)' BY <1>a, <2>1, <2>2, <2>3
  <2>5. ASSUME NEW u \in Threads, u # t PROVE Talks(u)'
    <3>1. pc'[u] = pc[u] BY <1>a, <2>3, <2>5
    <3>2. CASE sd[u] = NoFd BY <1>a, <3>1, <3>2
    <3>3. CASE sd[u] # NoFd
      <4>1. sd[u] \in Fds /\ sd[u] # sd[t] BY <1>a, <3>3, <2>5, OwnSockets
      <4>2. inq'[sd[u]] = inq[sd[u]] BY <1>a, <2>3, <4>1
      <4> QED BY <1>a, <2>3, <2>5, <3>1, <4>2
    <3> QED BY <3>2, <3>3
  <2> QED BY <2>4, <2>5
<1>10. ASSUME NEW t \in Threads, RecvStats(t) PROVE Conversation'
  BY <1>a, <1>10, OwnSockets DEF RecvStats
<1>11. ASSUME NEW t \in Threads, RecvStatsError(t) PROVE Conversation'
  BY <1>a, <1>11 DEF RecvStatsError
<1>12. ASSUME NEW t \in Threads, Close(t) PROVE Conversation'
  BY <1>a, <1>12, OwnSockets DEF Close
<1>13. ASSUME NEW t \in Threads, Take(t) PROVE Conversation'
  BY <1>a, <1>13 DEF Take
<1>14. ASSUME NEW f \in Fds, Kernel(f) PROVE Conversation'
  <2> USE <1>14 DEF Kernel
  <2>1. PICK t \in Threads :
           /\ sd[t] = f
           /\ \/ /\ pc[t] = "famrecv"
                 /\ Pending(f, <<FamilyRequest(1..NameLen)>>)
                 /\ KernelReplies(Head(inq[f])) = {ErrorReply, FamilyReply}
              \/ /\ pc[t] = "statrecv"
                 /\ Pending(f, <<StatsRequest(FamilyId, DataFor(arg[t]))>>)
                 /\ KernelReplies(Head(inq[f])) =
                      {ErrorReply} \cup StatsReplies(DataFor(arg[t]))
              \/ pc[t] = "close"
    BY KernelMessage
  <2>2. PICK r \in KernelReplies(Head(inq[f])) :
           outq' = [outq EXCEPT ![f] = Append(@, r)]
    OBVIOUS
  <2>3. UNCHANGED <<pc, arg, sd>> /\ inq' = [inq EXCEPT ![f] = Tail(@)]
    OBVIOUS
  <2>4. ASSUME NEW u \in Threads, u # t PROVE Talks(u)'
    BY <1>a, <2>1, <2>4, OwnSockets
  <2>5. CASE pc[t] = "close"
    <3>1. Talks(t)' BY <2>3, <2>5
    <3> QED BY <2>4, <3>1
  <2>6. CASE pc[t] = "famrecv"
    <3>1. Pending(f, <<FamilyRequest(1..NameLen)>>) /\ r \in {ErrorReply, FamilyReply}
      BY <2>1, <2>2, <2>6
    <3>2. inq'[f] = <<>> /\ outq'[f] = <<r>> BY <1>a, <2>2, <2>3, <3>1
    <3>3. Talks(t)' BY <2>1, <2>3, <2>6, <3>1, <3>2
    <3> QED BY <2>4, <3>3
  <2>7. CASE pc[t] = "statrecv"
    <3>1. /\ Pending(f, <<StatsRequest(FamilyId, DataFor(arg[t]))>>)
          /\ r \in {ErrorReply} \cup StatsReplies(DataFor(arg[t]))
      BY <2>1, <2>2, <2>7
    <3>2. inq'[f] = <<>> /\ outq'[f] = <<r>> BY <1>a, <2>2, <2>3, <3>1
    <3>3. Talks(t)' BY <2>1, <2>3, <2>7, <3>1, <3>2
    <3> QED BY <2>4, <3>3
  <2> QED BY <2>1, <2>5, <2>6, <2>7
<1>15. ASSUME NEW f \in Fds, HostOpen(f) PROVE Conversation'
  BY <1>a, <1>15 DEF HostOpen
<1>16. ASSUME NEW f \in Fds, HostClose(f) PROVE Conversation'
  <2>1. \A u \in Threads : sd[u] # f
    BY <1>16, NotHeld DEF HostClose
  <2> QED BY <1>a, <1>16, <2>1 DEF HostClose
<1>17. CASE UNCHANGED vars
  BY <1>a, <1>17 DEF vars
<1> QED BY <1>1, <1>2, <1>3, <1>4, <1>5, <1>6, <1>7, <1>8, <1>9, <1>10, <1>11, <1>12, <1>13, <1>14, <1>15, <1>16, <1>17 DEF Next, Advance

\* Every step leaves the descriptors that no thread holds without messages.
LEMMA QuietStep == ASSUME IInv, [Next]_vars PROVE Quiet'
<1> USE DEF TypeOK, Quiet, Pending, HeldFor, Holding, Labels, Goto, Fail, CloseFd, local, queues
<1>a. TypeOK /\ Quiet /\ HeldFor
  BY DEF IInv
<1>1. ASSUME NEW t \in Threads, Enter(t) PROVE Quiet'
  BY <1>a, <1>1, OwnSockets DEF Enter
<1>2. ASSUME NEW t \in Threads, Socket(t) PROVE Quiet'
  <2>1. CASE UNCHANGED sd BY <1>a, <1>2, <2>1 DEF Socket
  <2>2. CASE \E f \in Fds : sd' = [sd EXCEPT ![t] = f]
    BY <1>a, <1>2, <2>2, NoFdIsNotAFd DEF Socket
  <2> QED BY <1>2, <2>1, <2>2 DEF Socket
<1>3. ASSUME NEW t \in Threads, SetRcvBuf(t) PROVE Quiet'
  <2>1. CASE UNCHANGED sd BY <1>a, <1>3, <2>1 DEF SetRcvBuf
  <2>2. CASE sd' = [sd EXCEPT ![t] = NoFd]
    <3>1. Pending(sd[t], <<>>) BY <1>3 DEF SetRcvBuf, IInv, Conversation, Talks
    <3> QED BY <1>a, <1>3, <2>2, <3>1 DEF SetRcvBuf
  <2> QED BY <1>3, <2>1, <2>2 DEF SetRcvBuf
<1>4. ASSUME NEW t \in Threads, Bind(t) PROVE Quiet'
  BY <1>a, <1>4, OwnSockets DEF Bind
<1>5. ASSUME NEW t \in Threads, WriteName(t) PROVE Quiet'
  BY <1>a, <1>5, OwnSockets DEF WriteName
<1>6. ASSUME NEW t \in Threads, SendFamily(t) PROVE Quiet'
  BY <1>a, <1>6, OwnSockets DEF SendFamily
<1>7. ASSUME NEW t \in Threads, RecvFamily(t) PROVE Quiet'
  BY <1>a, <1>7, OwnSockets DEF RecvFamily
<1>8. ASSUME NEW t \in Threads, RecvFamilyError(t) PROVE Quiet'
  BY <1>a, <1>8, OwnSockets DEF RecvFamilyError
<1>9. ASSUME NEW t \in Threads, SendStats(t) PROVE Quiet'
  BY <1>a, <1>9, OwnSockets DEF SendStats
<1>10. ASSUME NEW t \in Threads, RecvStats(t) PROVE Quiet'
  BY <1>a, <1>10, OwnSockets DEF RecvStats
<1>11. ASSUME NEW t \in Threads, RecvStatsError(t) PROVE Quiet'
  BY <1>a, <1>11, OwnSockets DEF RecvStatsError
<1>12. ASSUME NEW t \in Threads, Close(t) PROVE Quiet'
  BY <1>a, <1>12, OwnSockets DEF Close
<1>13. ASSUME NEW t \in Threads, Take(t) PROVE Quiet'
  BY <1>a, <1>13, OwnSockets DEF Take
<1>14. ASSUME NEW f \in Fds, Kernel(f) PROVE Quiet'
  BY <1>a, <1>14 DEF Kernel
<1>15. ASSUME NEW f \in Fds, HostOpen(f) PROVE Quiet'
  BY <1>a, <1>15 DEF HostOpen
<1>16. ASSUME NEW f \in Fds, HostClose(f) PROVE Quiet'
  BY <1>a, <1>16 DEF HostClose
<1>17. CASE UNCHANGED vars
  BY <1>a, <1>17 DEF vars
<1> QED BY <1>1, <1>2, <1>3, <1>4, <1>5, <1>6, <1>7, <1>8, <1>9, <1>10, <1>11, <1>12, <1>13, <1>14, <1>15, <1>16, <1>17 DEF Next, Advance

\* Every step keeps error 1 for the calls that asked about nothing.
LEMMA NothingAskedStep == ASSUME IInv, [Next]_vars PROVE NothingAsked'
<1> USE DEF TypeOK, NothingAsked, AsksSomething, Outcome, Labels, Finished, Goto, Fail, local, queues
<1>a. TypeOK /\ NothingAsked /\ AsksSomething /\ Outcome
  BY DEF IInv
<1>1. ASSUME NEW t \in Threads, Enter(t) PROVE NothingAsked'
  BY <1>a, <1>1 DEF Enter
<1>2. ASSUME NEW t \in Threads, Socket(t) PROVE NothingAsked'
  <2>1. /\ pc[t] = "socket" /\ UNCHANGED arg
        /\ \A u \in Threads : u # t => pc'[u] = pc[u] /\ ret'[u] = ret[u]
    BY <1>a, <1>2 DEF Socket
  <2>2. pc'[t] \in Finished => ret'[t] = 2 BY <1>a, <1>2 DEF Socket
  <2>3. ASSUME NEW u \in Threads, pc'[u] \in Finished
        PROVE  ret'[u] = 1 <=> arg'[u] = NoArgs
    <3>1. CASE u = t
      <4>1. ret'[u] = 2 BY <2>2, <2>3, <3>1
      <4>2. arg'[u] # NoArgs BY <1>a, <2>1, <3>1
      <4> QED BY <4>1, <4>2
    <3>2. CASE u # t BY <1>a, <2>1, <2>3, <3>2
    <3> QED BY <3>1, <3>2
  <2> QED BY <2>3
<1>3. ASSUME NEW t \in Threads, SetRcvBuf(t) PROVE NothingAsked'
  BY <1>a, <1>3 DEF SetRcvBuf
<1>4. ASSUME NEW t \in Threads, Bind(t) PROVE NothingAsked'
  BY <1>a, <1>4 DEF Bind
<1>5. ASSUME NEW t \in Threads, WriteName(t) PROVE NothingAsked'
  BY <1>a, <1>5 DEF WriteName
<1>6. ASSUME NEW t \in Threads, SendFamily(t) PROVE NothingAsked'
  BY <1>a, <1>6 DEF SendFamily
<1>7. ASSUME NEW t \in Threads, RecvFamily(t) PROVE NothingAsked'
  BY <1>a, <1>7 DEF RecvFamily
<1>8. ASSUME NEW t \in Threads, RecvFamilyError(t) PROVE NothingAsked'
  BY <1>a, <1>8 DEF RecvFamilyError
<1>9. ASSUME NEW t \in Threads, SendStats(t) PROVE NothingAsked'
  BY <1>a, <1>9 DEF SendStats
<1>10. ASSUME NEW t \in Threads, RecvStats(t) PROVE NothingAsked'
  BY <1>a, <1>10 DEF RecvStats
<1>11. ASSUME NEW t \in Threads, RecvStatsError(t) PROVE NothingAsked'
  BY <1>a, <1>11 DEF RecvStatsError
<1>12. ASSUME NEW t \in Threads, Close(t) PROVE NothingAsked'
  BY <1>a, <1>12 DEF Close
<1>13. ASSUME NEW t \in Threads, Take(t) PROVE NothingAsked'
  BY <1>a, <1>13 DEF Take
<1>14. ASSUME NEW f \in Fds, Kernel(f) PROVE NothingAsked'
  BY <1>a, <1>14 DEF Kernel
<1>15. ASSUME NEW f \in Fds, HostOpen(f) PROVE NothingAsked'
  BY <1>a, <1>15 DEF HostOpen
<1>16. ASSUME NEW f \in Fds, HostClose(f) PROVE NothingAsked'
  BY <1>a, <1>16 DEF HostClose
<1>17. CASE UNCHANGED vars
  BY <1>a, <1>17 DEF vars
<1> QED BY <1>1, <1>2, <1>3, <1>4, <1>5, <1>6, <1>7, <1>8, <1>9, <1>10, <1>11, <1>12, <1>13, <1>14, <1>15, <1>16, <1>17 DEF Next, Advance

\* Every step keeps what a closing call may leave unanswered.
LEMMA LeftOverStep == ASSUME IInv, [Next]_vars PROVE LeftOver'
<1> USE DEF TypeOK, LeftOver, HeldFor, Holding, Labels, Goto, Fail, CloseFd, local, queues
<1>b. \A t \in Threads :
        /\ pc[t] = "statsend" => inq[sd[t]] = <<>>
        /\ pc[t] \in {"famrecv", "statrecv"} =>
             \/ inq[sd[t]] = <<>>
             \/ inq[sd[t]] = <<FamilyRequest(1..NameLen)>>
             \/ inq[sd[t]] = <<StatsRequest(FamilyId, DataFor(arg[t]))>>
  BY DEF IInv, Conversation, Talks, Pending, Arrived
<1>a. TypeOK /\ LeftOver /\ HeldFor
  BY DEF IInv
<1>1. ASSUME NEW t \in Threads, Enter(t) PROVE LeftOver'
  BY <1>a, <1>1, OwnSockets DEF Enter
<1>2. ASSUME NEW t \in Threads, Socket(t) PROVE LeftOver'
  <2>1. /\ UNCHANGED <<arg, inq>> /\ sd[t] = NoFd
        /\ \A u \in Threads : u # t => pc'[u] = pc[u] /\ sd'[u] = sd[u]
    BY <1>a, <1>2 DEF Socket
  <2>2. pc'[t] = "close" => sd'[t] = NoFd BY <1>a, <1>2, <2>1 DEF Socket
  <2> QED BY <1>a, <2>1, <2>2
<1>3. ASSUME NEW t \in Threads, SetRcvBuf(t) PROVE LeftOver'
  <2>1. CASE UNCHANGED sd BY <1>a, <1>3, <2>1 DEF SetRcvBuf
  <2>2. CASE sd' = [sd EXCEPT ![t] = NoFd] BY <1>a, <1>3, <2>2 DEF SetRcvBuf
  <2> QED BY <1>3, <2>1, <2>2 DEF SetRcvBuf
<1>4. ASSUME NEW t \in Threads, Bind(t) PROVE LeftOver'
  <2>1. CASE UNCHANGED <<sd, queues>> BY <1>a, <1>4, <2>1 DEF Bind
  <2>2. CASE CloseFd(sd[t]) /\ sd' = [sd EXCEPT ![t] = NoFd]
    <3>1. UNCHANGED arg /\ \A u \in Threads : u # t => pc'[u] = pc[u] /\ sd'[u] = sd[u]
      BY <1>a, <1>4, <2>2 DEF Bind
    <3>2. sd'[t] = NoFd BY <1>a, <2>2
    <3>3. \A u \in Threads : u # t /\ sd[u] # NoFd => inq'[sd[u]] = inq[sd[u]]
      BY <1>a, <2>2, OwnSockets
    <3> QED BY <1>a, <3>1, <3>2, <3>3
  <2> QED BY <1>4, <2>1, <2>2 DEF Bind
<1>5. ASSUME NEW t \in Threads, WriteName(t) PROVE LeftOver'
  BY <1>a, <1>5, OwnSockets DEF WriteName
<1>6. ASSUME NEW t \in Threads, SendFamily(t) PROVE LeftOver'
  <2>1. UNCHANGED <<arg, sd>> /\ pc' = [pc EXCEPT ![t] = "famrecv"] /\ sd[t] # NoFd
    BY <1>a, <1>6 DEF SendFamily
  <2>2. \A u \in Threads : u # t /\ sd[u] # NoFd => inq'[sd[u]] = inq[sd[u]]
    BY <1>a, <1>6, <2>1, OwnSockets DEF SendFamily
  <2>3. \A u \in Threads : pc'[u] = "close" => u # t /\ pc[u] = "close" BY <1>a, <2>1
  <2> QED BY <1>a, <2>1, <2>2, <2>3
<1>7. ASSUME NEW t \in Threads, RecvFamily(t) PROVE LeftOver'
  BY <1>a, <1>b, <1>7, OwnSockets DEF RecvFamily
<1>8. ASSUME NEW t \in Threads, RecvFamilyError(t) PROVE LeftOver'
  BY <1>a, <1>b, <1>8, OwnSockets DEF RecvFamilyError
<1>9. ASSUME NEW t \in Threads, SendStats(t) PROVE LeftOver'
  <2> USE <1>9 DEF SendStats
  <2>1. sd[t] \in Fds /\ inq[sd[t]] = <<>> BY <1>a, <1>b
  <2>2. CASE pc' = [pc EXCEPT ![t] = "close"] /\ UNCHANGED inq
    BY <1>a, <2>1, <2>2
  <2>3. CASE /\ pc' = [pc EXCEPT ![t] = "statrecv"]
             /\ inq' = [inq EXCEPT ![sd[t]] =
                          Append(@, StatsRequest(id[t], DataFor(arg[t])))]
    <3>1. \A u \in Threads : u # t /\ sd[u] # NoFd => inq'[sd[u]] = inq[sd[u]]
      BY <1>a, <2>1, <2>3, OwnSockets
    <3>2. \A u \in Threads : pc'[u] = "close" => u # t /\ pc[u] = "close"
      BY <1>a, <2>3
    <3>3. UNCHANGED <<sd, arg>> OBVIOUS
    <3> QED BY <1>a, <3>1, <3>2, <3>3
  <2> QED BY <2>2, <2>3
<1>10. ASSUME NEW t \in Threads, RecvStats(t) PROVE LeftOver'
  BY <1>a, <1>b, <1>10, OwnSockets DEF RecvStats
<1>11. ASSUME NEW t \in Threads, RecvStatsError(t) PROVE LeftOver'
  BY <1>a, <1>b, <1>11, OwnSockets DEF RecvStatsError
<1>12. ASSUME NEW t \in Threads, Close(t) PROVE LeftOver'
  BY <1>a, <1>12, OwnSockets DEF Close
<1>13. ASSUME NEW t \in Threads, Take(t) PROVE LeftOver'
  BY <1>a, <1>13, OwnSockets DEF Take
<1>14. ASSUME NEW f \in Fds, Kernel(f) PROVE LeftOver'
  <2>1. /\ UNCHANGED <<pc, sd, arg>>
        /\ inq' = [inq EXCEPT ![f] = Tail(@)]
    BY <1>14 DEF Kernel
  <2>2. ASSUME NEW u \in Threads, pc[u] = "close", sd[u] = f
        PROVE  inq'[f] = <<>>
    <3>1. inq[f] # <<>> BY <1>14 DEF Kernel
    <3>2. \/ inq[f] = <<FamilyRequest(1..NameLen)>>
          \/ inq[f] = <<StatsRequest(FamilyId, DataFor(arg[u]))>>
      BY <1>a, <2>2, <3>1, NoFdIsNotAFd
    <3>3. PICK m : inq[f] = <<m>> BY <3>2
    <3> QED BY <1>a, <2>1, <3>3
  <2>3. ASSUME NEW u \in Threads, sd[u] \in Fds, sd[u] # f
        PROVE  inq'[sd[u]] = inq[sd[u]]
    BY <1>a, <2>1, <2>3
  <2> QED BY <1>a, <2>1, <2>2, <2>3
<1>15. ASSUME NEW f \in Fds, HostOpen(f) PROVE LeftOver'
  BY <1>a, <1>15 DEF HostOpen
<1>16. ASSUME NEW f \in Fds, HostClose(f) PROVE LeftOver'
  BY <1>a, <1>16 DEF HostClose
<1>17. CASE UNCHANGED vars
  BY <1>a, <1>17 DEF vars
<1> QED BY <1>1, <1>2, <1>3, <1>4, <1>5, <1>6, <1>7, <1>8, <1>9, <1>10, <1>11, <1>12, <1>13, <1>14, <1>15, <1>16, <1>17 DEF Next, Advance

-------------------------------------------------------------------------------
\* The inductive invariant holds before the first call ...
LEMMA InvInit == ASSUME Init PROVE IInv
<1> USE DEF Init
<1>1. TypeOK
  BY EmptyQueues, NameLenIsPositive DEF TypeOK, Labels, Args, NoArgs
<1>2. UsesOwnSocket /\ HeldFor /\ AsksSomething /\ NothingAsked
  BY DEF UsesOwnSocket, HeldFor, Holding, AsksSomething, NothingAsked, Finished
<1>3. NameGrows /\ KnowsFamily /\ Outcome
  BY NameLenIsPositive DEF NameGrows, BeforeName, KnowsFamily, Outcome, Finished
<1>4. Conversation /\ LeftOver /\ Quiet
  BY DEF Conversation, Talks, LeftOver, Quiet, Pending
<1> QED BY <1>1, <1>2, <1>3, <1>4 DEF IInv

\* ... and every step keeps it.
LEMMA InvStep == ASSUME IInv, [Next]_vars PROVE IInv'
BY TypeStep, OwnershipStep, ArgumentStep, NothingAskedStep, OutcomeStep,
   ConversationStep, LeftOverStep, QuietStep DEF IInv

\* The inductive invariant holds throughout.
THEOREM Inductive == Spec => []IInv
BY InvInit, InvStep, PTL DEF Spec

\* For any number of threads, descriptors and tasks, every variable keeps its
\* type: the return codes of get_taskstats are 0, 1, 2, 3, 4 and 8.
THEOREM TypeCorrect == Spec => []TypeOK
<1>1. IInv => TypeOK BY DEF IInv
<1> QED BY <1>1, Inductive, PTL

\* A call only uses and closes descriptors it opened itself.
THEOREM OwnSocketAlways == Spec => []UsesOwnSocket
<1>1. IInv => UsesOwnSocket BY DEF IInv
<1> QED BY <1>1, Inductive, PTL

\* What a call copies to its caller answers the caller's own request.
THEOREM AnswerAlwaysOurs == Spec => []AnswerIsOurs
<1>1. IInv => AnswerIsOurs
  BY NoDataIsNotData, MisreadIsNotData DEF IInv, Outcome, AnswerIsOurs
<1> QED BY <1>1, Inductive, PTL

\* A call that fails leaves the caller's buffer alone.
THEOREM FailureCopiesNothing == Spec => []FailedCallCopiesNothing
<1>1. IInv => FailedCallCopiesNothing BY DEF IInv, Outcome, FailedCallCopiesNothing
<1> QED BY <1>1, Inductive, PTL

\* A thread in the last recv has exactly one message coming.
THEOREM StatsRecvAlwaysFed == Spec => []StatsRecvIsFed
<1>1. IInv => StatsRecvIsFed
  BY DEF IInv, Conversation, Talks, StatsRecvIsFed
<1> QED BY <1>1, Inductive, PTL

\* No family request carries a half-written name.
THEOREM FamilyNameAlwaysWhole == Spec => []FamilyNameIsWhole
<1>1. ASSUME IInv PROVE FamilyNameIsWhole
  <2> SUFFICES ASSUME NEW f \in Fds, NEW k \in 1..Len(inq[f]), inq[f][k].to = GENL_ID_CTRL
               PROVE  inq[f][k].name = 1..NameLen
    BY DEF FamilyNameIsWhole
  <2>1. inq[f] # <<>> OBVIOUS
  <2>2. PICK t \in Threads :
          /\ sd[t] = f
          /\ \/ Pending(f, <<FamilyRequest(1..NameLen)>>)
             \/ Pending(f, <<StatsRequest(FamilyId, DataFor(arg[t]))>>)
             \/ pc[t] = "close"
    BY <1>1, <2>1, KernelMessage
  <2>3. \/ inq[f] = <<FamilyRequest(1..NameLen)>>
        \/ inq[f] = <<StatsRequest(FamilyId, DataFor(arg[t]))>>
    BY <1>1, <2>1, <2>2, NoFdIsNotAFd DEF IInv, LeftOver, Pending
  <2>4. k = 1 BY <2>3
  <2>5. CASE inq[f] = <<FamilyRequest(1..NameLen)>>
    BY <2>4, <2>5 DEF FamilyRequest
  <2>6. CASE inq[f] = <<StatsRequest(FamilyId, DataFor(arg[t]))>>
    BY <2>4, <2>6, FamilyIdIsDynamic DEF StatsRequest
  <2> QED BY <2>3, <2>5, <2>6
<1> QED BY <1>1, Inductive, PTL

\* No call tries to set the size of the receive buffer.
NoRcvBuf == \A t \in Threads : pc[t] # "rcvbuf"

\* With rcvbufsz left at 0, as the library leaves it, no call loses its socket:
\* the failure path that forgets it is never taken.
THEOREM NothingLeaks == ASSUME RcvBufSz = 0 PROVE Spec => []NoLeak
<1>1. Init => NoLeak /\ NoRcvBuf
  BY OwnersAreDistinct DEF Init, NoLeak, NoRcvBuf
<1>2. ASSUME IInv, NoLeak, NoRcvBuf, [Next]_vars PROVE NoLeak' /\ NoRcvBuf'
  <2> USE DEF NoLeak, NoRcvBuf, Goto, Fail, local, queues
  <2>a. TypeOK /\ UsesOwnSocket /\ HeldFor /\ NoLeak /\ NoRcvBuf BY <1>2 DEF IInv
  <2>1. ASSUME NEW t \in Threads, Socket(t) PROVE NoLeak' /\ NoRcvBuf'
    <3>1. NoRcvBuf' BY <2>a, <2>1 DEF Socket, TypeOK
    <3>2. sd[t] = NoFd BY <2>a, <2>1 DEF Socket, HeldFor
    <3>3. CASE UNCHANGED <<sd, owner>> BY <2>a, <3>1, <3>3
    <3>4. CASE \E f \in Fds : /\ owner[f] = Nobody
                            /\ owner' = [owner EXCEPT ![f] = t]
                            /\ sd' = [sd EXCEPT ![t] = f]
      BY <2>a, <3>1, <3>2, <3>4, NoFdIsNotAFd DEF TypeOK
    <3> QED BY <2>1, <3>3, <3>4 DEF Socket
  <2>2. ASSUME NEW t \in Threads, Bind(t) PROVE NoLeak' /\ NoRcvBuf'
    <3>1. NoRcvBuf' BY <2>a, <2>2 DEF Bind, TypeOK
    <3>2. CASE UNCHANGED <<sd, owner>> BY <2>a, <3>1, <3>2
    <3>3. CASE CloseFd(sd[t]) /\ sd' = [sd EXCEPT ![t] = NoFd]
      BY <2>a, <3>1, <3>3, OwnersAreDistinct DEF CloseFd, TypeOK
    <3> QED BY <2>2, <3>2, <3>3 DEF Bind
  <2>3. ASSUME NEW t \in Threads, Close(t) PROVE NoLeak' /\ NoRcvBuf'
    <3>1. NoRcvBuf' BY <2>a, <2>3 DEF Close, TypeOK
    <3>2. sd' = [sd EXCEPT ![t] = NoFd] BY <2>3 DEF Close
    <3>3. CASE sd[t] = NoFd
      <4>1. UNCHANGED owner BY <2>3, <3>3 DEF Close
      <4> QED BY <2>a, <3>1, <3>2, <3>3, <4>1, NoFdIsNotAFd DEF TypeOK
    <3>4. CASE sd[t] # NoFd
      <4>1. owner' = [owner EXCEPT ![sd[t]] = Nobody] BY <2>3, <3>4 DEF Close, CloseFd
      <4> QED BY <2>a, <3>1, <3>2, <3>4, <4>1, OwnersAreDistinct DEF TypeOK
    <3> QED BY <3>3, <3>4
  <2>4. ASSUME NEW t \in Threads,
               \/ Enter(t) \/ WriteName(t) \/ SendFamily(t) \/ RecvFamily(t)
               \/ RecvFamilyError(t) \/ SendStats(t) \/ RecvStats(t)
               \/ RecvStatsError(t) \/ Take(t)
        PROVE  NoLeak' /\ NoRcvBuf'
    <3>1. UNCHANGED <<owner, sd>>
      BY <2>4 DEF Enter, WriteName, SendFamily, RecvFamily, RecvFamilyError,
                  SendStats, RecvStats, RecvStatsError, Take
    <3>2. \A u \in Threads : pc'[u] = "rcvbuf" => pc[u] = "rcvbuf"
      BY <2>a, <2>4 DEF Enter, WriteName, SendFamily, RecvFamily, RecvFamilyError,
                  SendStats, RecvStats, RecvStatsError, Take, TypeOK
    <3> QED BY <2>a, <3>1, <3>2
  <2>5. ASSUME NEW f \in Fds, Kernel(f) \/ HostOpen(f) \/ HostClose(f)
        PROVE  NoLeak' /\ NoRcvBuf'
    <3>1. UNCHANGED <<pc, sd>> BY <2>5 DEF Kernel, HostOpen, HostClose
    <3>2. \A g \in Fds, u \in Threads : owner'[g] = u => owner[g] = u
      BY <2>a, <2>5, OwnersAreDistinct
      DEF Kernel, HostOpen, HostClose, CloseFd, TypeOK
    <3> QED BY <2>a, <3>1, <3>2
  <2>6. ASSUME NEW t \in Threads, SetRcvBuf(t) PROVE NoLeak' /\ NoRcvBuf'
    BY <2>a, <2>6 DEF SetRcvBuf
  <2>7. CASE UNCHANGED vars BY <2>a, <2>7 DEF vars
  <2> QED BY <1>2, <2>1, <2>2, <2>3, <2>4, <2>5, <2>6, <2>7 DEF Next, Advance
<1> QED BY <1>1, <1>2, Inductive, PTL DEF Spec

\* The library never closes a descriptor of the rest of the process.
THEOREM HostFilesAlwaysSurvive == Spec => HostFilesSurvive
<1>1. ASSUME IInv, [Next]_vars
      PROVE  [\A f \in Fds : owner[f] = Host /\ owner'[f] # Host => UNCHANGED pc]_vars
  <2>a. TypeOK /\ UsesOwnSocket BY <1>1 DEF IInv
  <2>1. ASSUME NEW t \in Threads, Socket(t), NEW f \in Fds, owner[f] = Host
        PROVE  owner'[f] = Host
    BY <2>a, <2>1, OwnersAreDistinct DEF Socket, TypeOK
  <2>2. ASSUME NEW t \in Threads, Bind(t) \/ Close(t), NEW f \in Fds, owner[f] = Host
        PROVE  owner'[f] = Host
    <3>1. \/ UNCHANGED owner
          \/ owner' = [owner EXCEPT ![sd[t]] = Nobody] /\ sd[t] # NoFd
      BY <1>1, <2>2 DEF Bind, Close, CloseFd, IInv, HeldFor, Holding
    <3>2. sd[t] # NoFd => owner[sd[t]] = t BY <2>a DEF UsesOwnSocket
    <3> QED BY <2>a, <2>2, <3>1, <3>2, OwnersAreDistinct DEF TypeOK
  <2>3. ASSUME NEW t \in Threads,
               \/ Enter(t) \/ SetRcvBuf(t) \/ WriteName(t) \/ SendFamily(t)
               \/ RecvFamily(t) \/ RecvFamilyError(t) \/ SendStats(t)
               \/ RecvStats(t) \/ RecvStatsError(t) \/ Take(t)
        PROVE  UNCHANGED owner
    BY <2>3 DEF Enter, SetRcvBuf, WriteName, SendFamily, RecvFamily, RecvFamilyError,
                SendStats, RecvStats, RecvStatsError, Take
  <2>4. ASSUME NEW f \in Fds, Kernel(f) \/ HostOpen(f) \/ HostClose(f)
        PROVE  UNCHANGED pc
    BY <2>4 DEF Kernel, HostOpen, HostClose
  <2> QED BY <1>1, <2>1, <2>2, <2>3, <2>4 DEF Next, Advance, vars
<1> QED BY <1>1, Inductive, PTL DEF Spec, HostFilesSurvive

\* A call that is about to return 0, or has, has copied the statistics.
NoEmptySuccess ==
  \A t \in Threads : pc[t] \in Finished /\ ret[t] = 0 => target[t] \in Data

\* Where no recv fails and the kernel does not pad the statistics, 0 means that
\* they are in the caller's buffer: no message but the awaited one is ever taken
\* for an end without error.  Runs success and padded show the two exceptions.
THEOREM SuccessAlwaysMeansData ==
  ASSUME RecvMayFail = FALSE, Pads = FALSE PROVE Spec => []SuccessMeansData
<1>1. Init => NoEmptySuccess BY DEF Init, NoEmptySuccess, Finished
<1>2. ASSUME IInv, NoEmptySuccess, [Next]_vars PROVE NoEmptySuccess'
  <2> USE DEF NoEmptySuccess, Finished, Goto, Fail, local, queues
  <2>a. TypeOK BY <1>2 DEF IInv
  <2>1. ASSUME NEW t \in Threads, RecvStats(t) PROVE NoEmptySuccess'
    <3>1. ret'[t] = 0 => target'[t] \in Data
      BY <1>2, <2>a, <2>1, StatsReceived DEF TypeOK
    <3>2. \A u \in Threads : u # t => /\ ret'[u] = ret[u] /\ target'[u] = target[u]
                                     /\ pc'[u] = pc[u]
      BY <1>2, <2>a, <2>1, StatsReceived DEF RecvStats, TypeOK
    <3> QED BY <1>2, <3>1, <3>2
  <2>2. ASSUME NEW t \in Threads,
               \/ Enter(t) \/ Socket(t) \/ SetRcvBuf(t) \/ Bind(t) \/ WriteName(t)
               \/ SendFamily(t) \/ RecvFamily(t) \/ RecvFamilyError(t) \/ SendStats(t)
        PROVE  NoEmptySuccess'
    BY <1>2, <2>a, <2>2
    DEF Enter, Socket, SetRcvBuf, Bind, WriteName, SendFamily, RecvFamily, RecvFamilyError,
        SendStats, TypeOK
  <2>3. ASSUME NEW t \in Threads, Close(t) \/ Take(t) PROVE NoEmptySuccess'
    BY <1>2, <2>a, <2>3 DEF Close, Take, TypeOK
  <2>4. ASSUME NEW t \in Threads PROVE ~RecvStatsError(t) BY DEF RecvStatsError
  <2>5. ASSUME NEW f \in Fds, Kernel(f) \/ HostOpen(f) \/ HostClose(f)
        PROVE  NoEmptySuccess'
    BY <1>2, <2>5 DEF Kernel, HostOpen, HostClose
  <2>6. CASE UNCHANGED vars BY <1>2, <2>6 DEF vars
  <2> QED BY <1>2, <2>1, <2>2, <2>3, <2>4, <2>5, <2>6 DEF Next, Advance
<1>3. NoEmptySuccess => SuccessMeansData
  BY DEF NoEmptySuccess, SuccessMeansData, Finished
<1> QED BY <1>1, <1>2, <1>3, Inductive, PTL DEF Spec

\* Each call of get_taskstats is one atomic answer of TaskStatsService, given
\* by its close: every other step of the call, the kernel and the process is
\* invisible to the callers.
THEOREM Implementation == Spec => ImplementsService
<1> USE DEF PhaseOf, AnswerOf
<1>1. Init => Service!Init
  BY DEF Init, Service!Init, Service!NoArgs, NoArgs, Service!NoAnswer
<1>2. ASSUME IInv, [Next]_vars PROVE [Service!Next]_(Service!vars)
  <2> USE DEF Goto, Fail
  <2>a. TypeOK BY <1>2 DEF IInv
  <2>1. ASSUME NEW t \in Threads, Enter(t) PROVE Service!Ask(t)
    <3>1. pc' = [pc EXCEPT ![t] = "close"] \/ pc' = [pc EXCEPT ![t] = "socket"]
      BY <2>1 DEF Enter
    <3>2. \A u \in Threads : PhaseOf(u)' = IF u = t THEN "busy" ELSE PhaseOf(u)
      BY <2>a, <3>1 DEF TypeOK
    <3>3. \A u \in Threads : AnswerOf(u)' = AnswerOf(u)
      BY <2>a, <2>1, <3>1 DEF TypeOK, Enter
    <3>4. PhaseOf(t) = "idle" BY <2>1 DEF Enter
    <3>5. \E a \in Service!Args : arg' = [arg EXCEPT ![t] = a]
      BY <2>1 DEF Enter, Args, Service!Args
    <3> QED BY <3>2, <3>3, <3>4, <3>5 DEF Service!Ask
  <2>2. ASSUME NEW t \in Threads, Close(t) PROVE Service!Reply(t)
    <3>1. pc[t] = "close" /\ pc' = [pc EXCEPT ![t] = "returned"]
      BY <2>2 DEF Close
    <3>2. UNCHANGED <<arg, ret, target>> BY <2>2 DEF Close
    <3>3. \A u \in Threads : PhaseOf(u)' = IF u = t THEN "answered" ELSE PhaseOf(u)
      BY <2>a, <3>1 DEF TypeOK
    <3>4. AnswerOf(t)' = [code |-> ret[t], data |-> target[t]]
      BY <2>a, <3>1, <3>2 DEF TypeOK
    <3>5. \A u \in Threads : u # t => AnswerOf(u)' = AnswerOf(u)
      BY <2>a, <3>1, <3>2 DEF TypeOK
    <3>6. [code |-> ret[t], data |-> target[t]] \in Service!Answers(arg[t])
      <4>1. /\ ret[t] \in {0, 1, 2, 3, 4, 8}
            /\ ret[t] = 1 <=> arg[t] = NoArgs
            /\ target[t] # NoData =>
                 target[t] \in {DataFor(arg[t]), Misread} /\ ret[t] = 0
        BY <1>2, <2>a, <3>1 DEF TypeOK, IInv, NothingAsked, Outcome, Finished
      <4>2. DataFor(arg[t]) = Service!DataFor(arg[t])
        BY DEF DataFor, Service!DataFor, Cmd, Tid
      <4> QED BY <4>1, <4>2 DEF Service!Answers, Service!NoArgs, NoArgs
    <3> QED BY <3>1, <3>2, <3>3, <3>4, <3>5, <3>6 DEF Service!Reply
  <2>3. ASSUME NEW t \in Threads, Take(t) PROVE Service!Take(t)
    <3>1. pc[t] = "returned" /\ pc' = [pc EXCEPT ![t] = "idle"]
      BY <2>3 DEF Take
    <3>2. \A u \in Threads : PhaseOf(u)' = IF u = t THEN "idle" ELSE PhaseOf(u)
      BY <2>a, <3>1 DEF TypeOK
    <3>3. \A u \in Threads : AnswerOf(u)' = IF u = t THEN Service!NoAnswer ELSE AnswerOf(u)
      BY <2>a, <2>3, <3>1 DEF TypeOK, Take, Service!NoAnswer
    <3>4. arg' = [arg EXCEPT ![t] = Service!NoArgs]
      BY <2>3 DEF Take, NoArgs, Service!NoArgs
    <3> QED BY <3>1, <3>2, <3>3, <3>4 DEF Service!Take
  <2>4. ASSUME NEW t \in Threads, Advance(t) \/ RecvFamilyError(t) \/ RecvStatsError(t),
               ~Close(t)
        PROVE  UNCHANGED Service!vars
    <3>1. UNCHANGED arg
      BY <2>4 DEF Advance, Socket, SetRcvBuf, Bind, WriteName, SendFamily, RecvFamily,
                  SendStats, RecvStats, RecvFamilyError, RecvStatsError, local
    <3>2. /\ pc[t] \notin {"idle", "returned"}
          /\ pc'[t] \notin {"idle", "returned"}
          /\ \A u \in Threads : u # t => pc'[u] = pc[u]
      BY <2>a, <2>4
      DEF TypeOK, Advance, Socket, SetRcvBuf, Bind, WriteName, SendFamily, RecvFamily,
          SendStats, RecvStats, RecvFamilyError, RecvStatsError
    <3>3. \A u \in Threads : u # t => ret'[u] = ret[u] /\ target'[u] = target[u]
      BY <2>a, <2>4
      DEF TypeOK, Advance, Socket, SetRcvBuf, Bind, WriteName, SendFamily, RecvFamily,
          SendStats, RecvStats, RecvFamilyError, RecvStatsError, local
    <3>4. \A u \in Threads : PhaseOf(u)' = PhaseOf(u) /\ AnswerOf(u)' = AnswerOf(u)
      BY <3>2, <3>3
    <3> QED BY <3>1, <3>4 DEF Service!vars
  <2>5. ASSUME NEW f \in Fds, Kernel(f) \/ HostOpen(f) \/ HostClose(f)
        PROVE  UNCHANGED Service!vars
    BY <2>5 DEF Kernel, HostOpen, HostClose, local, Service!vars
  <2>6. CASE UNCHANGED vars BY <2>6 DEF vars, Service!vars
  <2> QED BY <1>2, <2>1, <2>2, <2>3, <2>4, <2>5, <2>6 DEF Next, Service!Next
<1> QED BY <1>1, <1>2, Inductive, PTL DEF Spec, ImplementsService, Service!Spec
===============================================================================
