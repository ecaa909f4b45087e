----------------------------- MODULE GetTaskStats -----------------------------
(***************************************************************************)
(* so-src/get_taskstats.c: get_taskstats as called by several threads of   *)
(* one process.  Every call opens a netlink socket, asks the kernel for    *)
(* the id of the TASKSTATS family, asks that family for the statistics of  *)
(* a task, receives one message, closes the socket and returns a code.     *)
(* The calls share the global `name` and the file descriptors of the       *)
(* process; the rest of the process opens and closes descriptors too.      *)
(*                                                                         *)
(* A step is one system call of one thread, or one store of strcpy.  What  *)
(* the reply's attributes look like is module AttrWalk's subject: here a   *)
(* reply carries the statistics where the code finds them, or after        *)
(* padding, where it does not, or not at all.                              *)
(***************************************************************************)
EXTENDS Naturals, Sequences

CONSTANTS
  Threads,      \* threads that call the library
  Fds,          \* file descriptors left to the process
  Tasks,        \* non-zero task ids
  NoTask,       \* the id 0
  NoFd,         \* the descriptor -1
  NoData,       \* the caller's buffer before anything is copied into it
  Misread,      \* the caller's buffer when what was copied is not statistics
  Host,         \* owner of descriptors used by the rest of the process
  Nobody,       \* owner of free descriptors
  NameLen,      \* stores strcpy makes to copy TASKSTATS_GENL_NAME to `name`
  RcvBufSz,     \* the global rcvbufsz; nothing in the library assigns it
  FamilyId,     \* id of the TASKSTATS generic netlink family
  SendMayFail,  \* TRUE iff sendto may fail
  RecvMayFail,  \* TRUE iff recv may fail (EINTR, ENOBUFS, ENOMEM)
  Pads          \* TRUE iff the kernel may pad the statistics to 8 bytes

GENL_ID_CTRL == 16   \* the nlmsg_type of requests to the genetlink controller

ASSUME OwnersAreDistinct ==
  Host \notin Threads /\ Nobody \notin Threads /\ Host # Nobody
ASSUME NoFdIsNotAFd == NoFd \notin Fds
ASSUME NoTaskIsNotATask == NoTask \notin Tasks
ASSUME NameLenIsPositive == NameLen \in Nat \ {0}
ASSUME FamilyIdIsDynamic == FamilyId \in Nat \ {0, GENL_ID_CTRL}
ASSUME RcvBufSzIsNat == RcvBufSz \in Nat

VARIABLES
  pc,      \* pc[t]: where t is in get_taskstats
  arg,     \* arg[t]: argPid and argTid
  ret,     \* ret[t]: returnError
  target,  \* target[t]: what targetTaskStat points to
  sd,      \* sd[t]: nl_sd, and fd of create_nl_socket while that runs
  id,      \* id[t]: the family id, 0 when not known
  npos,    \* npos[t]: stores t's strcpy has made
  name,    \* the global `name`: the stores that hold TASKSTATS_GENL_NAME
  owner,   \* owner[f]: who opened the descriptor f
  inq,     \* inq[f]: requests the kernel has not answered
  outq     \* outq[f]: replies nobody has received

vars == <<pc, arg, ret, target, sd, id, npos, name, owner, inq, outq>>
local == <<arg, ret, target, sd, id, npos>>
queues == <<inq, outq>>

Args == [argPid : Tasks \cup {NoTask}, argTid : Tasks \cup {NoTask}]
NoArgs == [argPid |-> NoTask, argTid |-> NoTask]

\* The attribute asked for and the id in it: argPid goes first.
Cmd(a) == IF a.argPid # NoTask THEN "PID" ELSE "TGID"
Tid(a) == IF a.argPid # NoTask THEN a.argPid ELSE a.argTid

Data == [cmd : {"PID", "TGID"}, tid : Tasks]
DataFor(a) == [cmd |-> Cmd(a), tid |-> Tid(a)]

ASSUME NoDataIsNotData == NoData \notin Data
ASSUME MisreadIsNotData == Misread \notin Data /\ Misread # NoData

\* The messages.  Neither side looks at nlmsg_seq: it is always 0.
FamilyRequest(n) == [to |-> GENL_ID_CTRL, name |-> n]
StatsRequest(family, d) == [to |-> family, subject |-> d]
FamilyReply == [type |-> "family", id |-> FamilyId]
StatsReply(d) == [type |-> "stats", stats |-> d]
PaddedReply(d) == [type |-> "padded", stats |-> d]
StatsReplies(d) == {StatsReply(d)} \cup (IF Pads THEN {PaddedReply(d)} ELSE {})
ErrorReply == [type |-> "error"]

-------------------------------------------------------------------------------
Init ==
  /\ pc = [t \in Threads |-> "idle"]
  /\ arg = [t \in Threads |-> NoArgs]
  /\ ret = [t \in Threads |-> 0]
  /\ target = [t \in Threads |-> NoData]
  /\ sd = [t \in Threads |-> NoFd]
  /\ id = [t \in Threads |-> 0]
  /\ npos = [t \in Threads |-> 0]
  /\ name = {}
  /\ owner = [f \in Fds |-> Nobody]
  /\ inq = [f \in Fds |-> <<>>]
  /\ outq = [f \in Fds |-> <<>>]

Goto(t, label) == pc' = [pc EXCEPT ![t] = label]

\* returnError = code; goto done (or goto err: they differ only when maskset).
Fail(t, code) == Goto(t, "close") /\ ret' = [ret EXCEPT ![t] = code]

\* close(f): the descriptor is free again, its messages are gone.
CloseFd(f) ==
  /\ owner' = [owner EXCEPT ![f] = Nobody]
  /\ inq' = [inq EXCEPT ![f] = <<>>]
  /\ outq' = [outq EXCEPT ![f] = <<>>]

\* The call, up to the choice of the attribute: one id must be non-zero.
Enter(t) ==
  /\ pc[t] = "idle"
  /\ \E a \in Args :
       /\ arg' = [arg EXCEPT ![t] = a]
       /\ IF a = NoArgs THEN Fail(t, 1) ELSE Goto(t, "socket") /\ UNCHANGED ret
  /\ UNCHANGED <<target, sd, id, npos, name, owner, queues>>

\* socket(): any free descriptor, or none.
Socket(t) ==
  /\ pc[t] = "socket"
  /\ \/ /\ \E f \in Fds :
             /\ owner[f] = Nobody
             /\ owner' = [owner EXCEPT ![f] = t]
             /\ sd' = [sd EXCEPT ![t] = f]
        /\ Goto(t, IF RcvBufSz # 0 THEN "rcvbuf" ELSE "bind")
        /\ UNCHANGED ret
     \/ Fail(t, 2) /\ UNCHANGED <<sd, owner>>
  /\ UNCHANGED <<arg, target, id, npos, name, queues>>

\* setsockopt(SO_RCVBUF): its failure returns -1 and does not close fd.
SetRcvBuf(t) ==
  /\ pc[t] = "rcvbuf"
  /\ \/ Goto(t, "bind") /\ UNCHANGED <<ret, sd>>
     \/ Fail(t, 2) /\ sd' = [sd EXCEPT ![t] = NoFd]
  /\ UNCHANGED <<arg, target, id, npos, name, owner, queues>>

\* bind(): its failure closes fd and returns -1, so nl_sd is -1.
\* Mutant: -1 is not returned, nl_sd keeps the number.
BindNoReset(t) ==
  /\ pc[t] = "bind"
  /\ \/ Goto(t, "name") /\ UNCHANGED <<ret, sd, owner, queues>>
     \/ Fail(t, 2) /\ CloseFd(sd[t]) /\ UNCHANGED sd
  /\ UNCHANGED <<arg, target, id, npos, name>>
Bind(t) ==
  /\ pc[t] = "bind"
  /\ \/ Goto(t, "name") /\ UNCHANGED <<ret, sd, owner, queues>>
     \/ Fail(t, 2) /\ CloseFd(sd[t]) /\ sd' = [sd EXCEPT ![t] = NoFd]
  /\ UNCHANGED <<arg, target, id, npos, name>>

\* strcpy(name, TASKSTATS_GENL_NAME), one store of it.
\* Mutant: the first store clears the rest of the name.
WriteNameAfterClear(t) ==
  /\ pc[t] = "name"
  /\ npos' = [npos EXCEPT ![t] = @ + 1]
  /\ name' = IF npos[t] = 0 THEN {1} ELSE name \cup {npos[t] + 1}
  /\ IF npos[t] + 1 = NameLen THEN Goto(t, "famsend") ELSE UNCHANGED pc
  /\ UNCHANGED <<arg, ret, target, sd, id, owner, queues>>
\* Mutant: one store too many.
WriteNameTooFar(t) ==
  /\ pc[t] = "name"
  /\ npos' = [npos EXCEPT ![t] = @ + 1]
  /\ name' = name \cup {npos[t] + 1}
  /\ IF npos[t] = NameLen THEN Goto(t, "famsend") ELSE UNCHANGED pc
  /\ UNCHANGED <<arg, ret, target, sd, id, owner, queues>>
WriteName(t) ==
  /\ pc[t] = "name"
  /\ npos' = [npos EXCEPT ![t] = @ + 1]
  /\ name' = name \cup {npos[t] + 1}
  /\ IF npos[t] + 1 = NameLen THEN Goto(t, "famsend") ELSE UNCHANGED pc
  /\ UNCHANGED <<arg, ret, target, sd, id, owner, queues>>

\* The send_cmd of get_family_id: whether it fails or not, recv is next.
SendFamily(t) ==
  /\ pc[t] = "famsend"
  /\ \/ inq' = [inq EXCEPT ![sd[t]] = Append(@, FamilyRequest(name))]
     \/ SendMayFail /\ UNCHANGED inq
  /\ Goto(t, "famrecv")
  /\ UNCHANGED <<local, name, owner, outq>>

\* The recv of get_family_id blocks until there is a message; any message but
\* the family's leaves the id 0, which is error 3.
RecvFamily(t) ==
  /\ pc[t] = "famrecv"
  /\ outq[sd[t]] # <<>>
  /\ outq' = [outq EXCEPT ![sd[t]] = Tail(@)]
  /\ LET msg == Head(outq[sd[t]]) IN
       IF msg.type = "family"
         THEN /\ id' = [id EXCEPT ![t] = msg.id]
              /\ Goto(t, "statsend") /\ UNCHANGED ret
         ELSE Fail(t, 3) /\ UNCHANGED id
  /\ UNCHANGED <<arg, target, sd, npos, name, owner, inq>>

\* Mutant: the failure of recv is not looked at.
RecvFamilyErrorIgnored(t) ==
  /\ RecvMayFail
  /\ pc[t] = "famrecv"
  /\ id' = [id EXCEPT ![t] = FamilyId]
  /\ Goto(t, "statsend")
  /\ UNCHANGED <<arg, ret, target, sd, npos, name, owner, queues>>
RecvFamilyError(t) ==
  /\ RecvMayFail
  /\ pc[t] = "famrecv"
  /\ Fail(t, 3)
  /\ UNCHANGED <<arg, target, sd, id, npos, name, owner, queues>>

\* The send_cmd of get_taskstats; here a failure ends the call.
\* Mutant: the failure of send_cmd is not looked at.
SendStatsUnchecked(t) ==
  /\ pc[t] = "statsend"
  /\ \/ inq' = [inq EXCEPT ![sd[t]] = Append(@, StatsRequest(id[t], DataFor(arg[t])))]
     \/ SendMayFail /\ UNCHANGED inq
  /\ Goto(t, "statrecv") /\ UNCHANGED ret
  /\ UNCHANGED <<arg, target, sd, id, npos, name, owner, outq>>
\* Mutant: the attribute does not follow the argument given.
SendStatsAlwaysPid(t) ==
  /\ pc[t] = "statsend"
  /\ \/ /\ inq' = [inq EXCEPT ![sd[t]] =
                     Append(@, StatsRequest(id[t], [DataFor(arg[t]) EXCEPT !.cmd = "PID"]))]
        /\ Goto(t, "statrecv") /\ UNCHANGED ret
     \/ SendMayFail /\ Fail(t, 4) /\ UNCHANGED inq
  /\ UNCHANGED <<arg, target, sd, id, npos, name, owner, outq>>
\* Mutant: tid is a global, as name is.
SendStatsSharedTid(t) ==
  /\ pc[t] = "statsend"
  /\ \/ /\ \E u \in Threads :
             /\ arg[u] # NoArgs
             /\ inq' = [inq EXCEPT ![sd[t]] =
                          Append(@, StatsRequest(id[t], DataFor(arg[u])))]
        /\ Goto(t, "statrecv") /\ UNCHANGED ret
     \/ SendMayFail /\ Fail(t, 4) /\ UNCHANGED inq
  /\ UNCHANGED <<arg, target, sd, id, npos, name, owner, outq>>
SendStats(t) ==
  /\ pc[t] = "statsend"
  /\ \/ /\ inq' = [inq EXCEPT ![sd[t]] =
                     Append(@, StatsRequest(id[t], DataFor(arg[t])))]
        /\ Goto(t, "statrecv") /\ UNCHANGED ret
     \/ SendMayFail /\ Fail(t, 4) /\ UNCHANGED inq
  /\ UNCHANGED <<arg, target, sd, id, npos, name, owner, outq>>

\* What the walk over a message's attributes may leave in the caller's buffer.
\* It loses its way at padding (AttrWalk): it finds nothing, or takes what else it
\* meets for statistics.
Walked(msg, buffer) ==
  CASE msg.type = "stats"  -> {msg.stats}
    [] msg.type = "padded" -> {buffer, Misread}
    [] OTHER               -> {buffer}

\* The one turn of the receive loop when a message comes: an error message is
\* error 8, any other is walked.
\* Mutant: the copy comes before the test of the message.
RecvStatsCopyFirst(t) ==
  /\ pc[t] = "statrecv"
  /\ outq[sd[t]] # <<>>
  /\ outq' = [outq EXCEPT ![sd[t]] = Tail(@)]
  /\ LET msg == Head(outq[sd[t]]) IN
       /\ Fail(t, IF msg.type = "error" THEN 8 ELSE 0)
       /\ target' = [target EXCEPT ![t] = DataFor(arg[t])]
  /\ UNCHANGED <<arg, sd, id, npos, name, owner, inq>>
RecvStats(t) ==
  /\ pc[t] = "statrecv"
  /\ outq[sd[t]] # <<>>
  /\ outq' = [outq EXCEPT ![sd[t]] = Tail(@)]
  /\ LET msg == Head(outq[sd[t]]) IN
       /\ Fail(t, IF msg.type = "error" THEN 8 ELSE 0)
       /\ \E buffer \in Walked(msg, target[t]) : target' = [target EXCEPT ![t] = buffer]
  /\ UNCHANGED <<arg, sd, id, npos, name, owner, inq>>

\* A failed recv says "still waiting" and continues, but `continue` evaluates
\* the loop's condition, 0: the call ends with the returnError it has, 0.
RecvStatsError(t) ==
  /\ RecvMayFail
  /\ pc[t] = "statrecv"
  /\ Goto(t, "close")
  /\ UNCHANGED <<local, name, owner, queues>>

\* err: close(nl_sd), whatever descriptor that is; -1 is refused.
\* Mutant: error 8 returns past the close.
CloseSkippedOnError(t) ==
  /\ pc[t] = "close"
  /\ IF sd[t] = NoFd \/ ret[t] = 8 THEN UNCHANGED <<owner, queues>> ELSE CloseFd(sd[t])
  /\ sd' = [sd EXCEPT ![t] = NoFd]
  /\ Goto(t, "returned")
  /\ UNCHANGED <<arg, ret, target, id, npos, name>>
Close(t) ==
  /\ pc[t] = "close"
  /\ IF sd[t] = NoFd THEN UNCHANGED <<owner, queues>> ELSE CloseFd(sd[t])
  /\ sd' = [sd EXCEPT ![t] = NoFd]
  /\ Goto(t, "returned")
  /\ UNCHANGED <<arg, ret, target, id, npos, name>>

\* The caller has looked at the code and the buffer and is free to call again.
Take(t) ==
  /\ pc[t] = "returned"
  /\ Goto(t, "idle")
  /\ arg' = [arg EXCEPT ![t] = NoArgs]
  /\ ret' = [ret EXCEPT ![t] = 0]
  /\ target' = [target EXCEPT ![t] = NoData]
  /\ id' = [id EXCEPT ![t] = 0]
  /\ npos' = [npos EXCEPT ![t] = 0]
  /\ UNCHANGED <<sd, name, owner, queues>>

-------------------------------------------------------------------------------
\* The kernel (external).  The controller knows a family by its whole name or
\* not at all; the TASKSTATS family finds the task, or refuses (ESRCH, EPERM).
KernelReplies(m) ==
  {ErrorReply} \cup
    CASE m.to = GENL_ID_CTRL -> IF m.name = 1..NameLen THEN {FamilyReply} ELSE {}
      [] m.to = FamilyId     -> StatsReplies(m.subject)
      [] OTHER               -> {}

Kernel(f) ==
  /\ inq[f] # <<>>
  /\ inq' = [inq EXCEPT ![f] = Tail(@)]
  /\ \E r \in KernelReplies(Head(inq[f])) : outq' = [outq EXCEPT ![f] = Append(@, r)]
  /\ UNCHANGED <<pc, local, name, owner>>

\* The rest of the process (external) opens and closes descriptors of its own.
HostOpen(f) ==
  /\ owner[f] = Nobody
  /\ owner' = [owner EXCEPT ![f] = Host]
  /\ UNCHANGED <<pc, local, name, queues>>

HostClose(f) ==
  /\ owner[f] = Host
  /\ CloseFd(f)
  /\ UNCHANGED <<pc, local, name>>

\* The steps a thread owes once it has called: everything but the failure of a
\* recv, which no scheduler promises, and the caller's own steps.
Advance(t) ==
  \/ Socket(t) \/ SetRcvBuf(t) \/ Bind(t) \/ WriteName(t) \/ SendFamily(t)
  \/ RecvFamily(t) \/ SendStats(t) \/ RecvStats(t) \/ Close(t)

Next ==
  \/ \E t \in Threads :
       Enter(t) \/ Advance(t) \/ RecvFamilyError(t) \/ RecvStatsError(t) \/ Take(t)
  \/ \E f \in Fds : Kernel(f) \/ HostOpen(f) \/ HostClose(f)

Spec == Init /\ [][Next]_vars

FairSpec ==
  /\ Spec
  /\ \A t \in Threads : WF_vars(Advance(t))
  /\ \A f \in Fds : WF_vars(Kernel(f))

-------------------------------------------------------------------------------
Labels == {"idle", "socket", "rcvbuf", "bind", "name", "famsend", "famrecv",
           "statsend", "statrecv", "close", "returned"}

Requests == [to : {GENL_ID_CTRL}, name : SUBSET (1..NameLen)]
            \cup [to : {FamilyId}, subject : Data]
Replies == {FamilyReply, ErrorReply} \cup UNION {StatsReplies(d) : d \in Data}

\* The type invariant.
TypeOK ==
  /\ pc \in [Threads -> Labels]
  /\ arg \in [Threads -> Args]
  /\ ret \in [Threads -> {0, 1, 2, 3, 4, 8}]
  /\ target \in [Threads -> Data \cup {NoData, Misread}]
  /\ sd \in [Threads -> Fds \cup {NoFd}]
  /\ id \in [Threads -> {0, FamilyId}]
  /\ npos \in [Threads -> 0..NameLen]
  /\ name \in SUBSET (1..NameLen)
  /\ owner \in [Fds -> Threads \cup {Host, Nobody}]
  /\ inq \in [Fds -> Seq(Requests)]
  /\ outq \in [Fds -> Seq(Replies)]

\* A call only ever sends to, receives from and closes a descriptor it opened
\* itself and has not closed: no number stays in nl_sd after its close, when
\* another thread or the rest of the process may have been given it again.
UsesOwnSocket == \A t \in Threads : sd[t] # NoFd => owner[sd[t]] = t

\* Every socket the library has opened is still held by the call that opened
\* it, so it will be closed: no error path loses one.  (True of rcvbufsz = 0
\* only: the failure path of setsockopt forgets fd.)
NoLeak == \A f \in Fds, t \in Threads : owner[f] = t => sd[t] = f

\* The request for the family goes out with the whole family name in it, even
\* though all calls write the one global `name` while others are sending it.
FamilyNameIsWhole ==
  \A f \in Fds : \A k \in 1..Len(inq[f]) :
    inq[f][k].to = GENL_ID_CTRL => inq[f][k].name = 1..NameLen

\* Statistics copied to the caller answer the caller's own request: neither a
\* reply to an earlier message nor one to another thread's request gets there,
\* though no reply is ever matched with its request.
AnswerIsOurs ==
  \A t \in Threads : target[t] \in Data => target[t] = DataFor(arg[t])

\* A call that returns an error has left the caller's buffer alone.
FailedCallCopiesNothing == \A t \in Threads : ret[t] # 0 => target[t] = NoData

\* A thread in the last recv is there for exactly one message, which the kernel
\* is going to send or has sent: that recv cannot block forever.
Pending(f, ms) == inq[f] = ms /\ outq[f] = <<>>
Arrived(f, rs) == inq[f] = <<>> /\ outq[f] \in {<<r>> : r \in rs}
StatsRecvIsFed ==
  \A t \in Threads : pc[t] = "statrecv" =>
    \/ Pending(sd[t], <<StatsRequest(FamilyId, DataFor(arg[t]))>>)
    \/ Arrived(sd[t], {ErrorReply} \cup StatsReplies(DataFor(arg[t])))

\* The library never closes a descriptor of the rest of the process: such a
\* descriptor is given up only by a step in which no call moves.
HostFilesSurvive ==
  [][\A f \in Fds : owner[f] = Host /\ owner'[f] # Host => UNCHANGED pc]_vars

\* A recv nothing will ever answer: the request was never sent.
Starved(t) == pc[t] = "famrecv" /\ Pending(sd[t], <<>>)

\* Where the walk of the reply comes to an end (AttrWalk), the only way for a call
\* not to come back is to wait in get_family_id for the reply to a request whose
\* send failed.
BlocksOnlyOnLostRequest ==
  \A t \in Threads : pc[t] = "socket" ~> (pc[t] = "returned" \/ Starved(t))

\* Every call returns; a failure to get the family id is error 3
\* (TaskStatInteropException.cs:22).
CallsReturn == \A t \in Threads : pc[t] = "socket" ~> pc[t] = "returned"

\* Return code 0 means the statistics were retrieved
\* (TaskStatInteropException.cs:9-10).
SuccessMeansData ==
  \A t \in Threads : pc[t] = "returned" /\ ret[t] = 0 => target[t] \in Data

\* The caller's view of a call: what it is doing and, once it has returned, the
\* code and the buffer.
PhaseOf(t) == IF pc[t] = "idle" THEN "idle"
              ELSE IF pc[t] = "returned" THEN "answered" ELSE "busy"
AnswerOf(t) == IF pc[t] = "returned" THEN [code |-> ret[t], data |-> target[t]]
                                     ELSE [code |-> 0, data |-> NoData]

Service == INSTANCE TaskStatsService WITH
  phase <- [t \in Threads |-> PhaseOf(t)],
  asked <- arg,
  answer <- [t \in Threads |-> AnswerOf(t)]

\* Each call is one atomic answer of the service TaskStatsService describes,
\* however the calls, the kernel and the rest of the process interleave.
ImplementsService == Service!Spec
===============================================================================
