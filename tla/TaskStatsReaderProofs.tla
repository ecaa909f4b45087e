------------------------- MODULE TaskStatsReaderProofs -------------------------
(***************************************************************************)
(* Proofs about module TaskStatsReader: the managed calls are calls of     *)
(* get_taskstats, so what is proved of those holds under the API too.      *)
(***************************************************************************)
EXTENDS TaskStatsReader, GetTaskStatsProofs

\* Every step of the reader is a step of get_taskstats, or none.
LEMMA ReaderStep == ASSUME [ReaderNext]_readerVars PROVE [Next]_vars
<1>1. ASSUME NEW t \in Threads, Call(t) PROVE Next BY <1>1 DEF Call, Next
<1>2. ASSUME NEW t \in Threads, Return(t) PROVE Next BY <1>2 DEF Return, Next
<1>3. CASE UNCHANGED readerVars BY <1>3 DEF readerVars
<1> QED BY <1>1, <1>2, <1>3 DEF ReaderNext, Next

\* The managed API uses the library as any caller may: through calls of
\* get_taskstats that do not overlap on one thread.
THEOREM CallsTheLibrary == ReaderSpec => Spec
<1>1. ReaderInit => Init BY DEF ReaderInit
<1>2. [ReaderNext]_readerVars => [Next]_vars BY ReaderStep
<1> QED BY <1>1, <1>2, PTL DEF ReaderSpec, Spec

\* What a thread has got lies in the process of the id it asked about.
InItsProcess(t) ==
  api[t] \in {"GetByThread", "GetByProcess"} /\ out[t] # Null =>
    \A covers \in SUBSET Tasks :
      out[t].got = [covers |-> covers] => covers \subseteq Group(Tid(out[t].asked))

ReaderInv ==
  /\ api = [t \in Threads |-> api[t]]
  /\ out = [t \in Threads |-> out[t]]
  /\ \A t \in Threads : InItsProcess(t)

\* Statistics about a task come from that task's process, for PID and for TGID.
LEMMA CoversOwnProcess ==
  ASSUME NEW a \in Args, a # NoArgs
  PROVE  Covers(DataFor(a)) \subseteq Group(Tid(a))
<1>1. Tid(a) \in Tasks BY DEF Args, NoArgs, Tid
<1> QED BY <1>1 DEF Covers, DataFor, Group

\* What a finished call makes of its code and buffer lies in the right process.
LEMMA ResultInItsProcess ==
  ASSUME IInv, NEW t \in Threads, pc[t] = "returned",
         NEW covers \in SUBSET Tasks, GetImpl(ret[t], target[t]) = [covers |-> covers]
  PROVE  covers \subseteq Group(Tid(arg[t]))
<1>1. ret[t] = 0 BY NullIsNoResult DEF GetImpl
<1>2. CASE target[t] \notin Data
  <2>1. [covers |-> {}] = [covers |-> covers] BY <1>1, <1>2 DEF GetImpl
  <2> QED BY <2>1
<1>3. CASE target[t] \in Data
  <2>1. target[t] = DataFor(arg[t])
    BY <1>3, NoDataIsNotData, MisreadIsNotData DEF IInv, Outcome
  <2>2. arg[t] \in Args /\ arg[t] # NoArgs
    BY <1>1 DEF IInv, TypeOK, NothingAsked, Finished
  <2>3. [covers |-> Covers(DataFor(arg[t]))] = [covers |-> covers]
    BY <1>1, <1>3, <2>1 DEF GetImpl
  <2> QED BY <2>2, <2>3, CoversOwnProcess
<1> QED BY <1>2, <1>3

\* Every step of the reader keeps the results in their processes.
LEMMA ReaderInvStep ==
  ASSUME IInv, ReaderInv, [ReaderNext]_readerVars PROVE ReaderInv'
<1>1. ASSUME NEW t \in Threads, Call(t) PROVE ReaderInv'
  <2>1. out' = [out EXCEPT ![t] = Null] BY <1>1 DEF Call
  <2>2. \E m \in {"GetByThread", "GetByProcess"} \cup VersionCalls :
          api' = [api EXCEPT ![t] = m]
    BY <1>1 DEF Call
  <2>3. /\ api' = [u \in Threads |-> api'[u]] /\ out' = [u \in Threads |-> out'[u]]
        /\ out'[t] = Null
        /\ \A u \in Threads \ {t} : api'[u] = api[u] /\ out'[u] = out[u]
    BY <2>1, <2>2 DEF ReaderInv
  <2> QED BY <2>3 DEF ReaderInv, InItsProcess
<1>2. ASSUME NEW t \in Threads, Return(t) PROVE ReaderInv'
  <2>1. api' = api /\ pc[t] = "returned" BY <1>2 DEF Return, Take
  <2>2. \A u \in Threads \ {t} : out'[u] = out[u] BY <1>2 DEF Return, ReaderInv
  <2>3. out' = [u \in Threads |-> out'[u]] BY <1>2 DEF Return, ReaderInv
  <2>4. api[t] \in {"GetByThread", "GetByProcess"} =>
          out'[t] = [asked |-> arg[t], got |-> GetImpl(ret[t], target[t])]
    BY <1>2 DEF Return, ReaderInv
  <2>5. InItsProcess(t)'
    BY <2>1, <2>4, ResultInItsProcess DEF InItsProcess
  <2> QED BY <2>1, <2>2, <2>3, <2>5 DEF ReaderInv, InItsProcess
<1>3. CASE UNCHANGED <<api, out>> BY <1>3 DEF ReaderInv, InItsProcess
<1> QED BY <1>1, <1>2, <1>3 DEF ReaderNext, readerVars

\* Statistics never come from another process than the one the id asked about
\* belongs to, for any number of threads, tasks and processes.
THEOREM AlwaysItsProcess == ReaderSpec => []NeverAnotherProcess
<1>1. ReaderInit => ReaderInv BY DEF ReaderInit, ReaderInv, InItsProcess
<1>2. IInv /\ ReaderInv /\ [ReaderNext]_readerVars => ReaderInv' BY ReaderInvStep
<1>3. ReaderInv => NeverAnotherProcess
  BY DEF ReaderInv, InItsProcess, NeverAnotherProcess, Answered
<1> QED BY <1>1, <1>2, <1>3, CallsTheLibrary, Inductive, PTL DEF ReaderSpec

\* Two halves packed into one word come apart again.
LEMMA HalvesComeApart ==
  ASSUME NEW h \in Nat, NEW c \in Nat, NEW v \in 0..(h - 1)
  PROVE  (c * h + v) \div h = c /\ (c * h + v) % h = v
<1>1. h > 0 /\ c * h \in Nat OBVIOUS
<1>2. c * h <= c * h + v /\ c * h + v < (c + 1) * h BY <1>1, SMTT(20)
<1>3. (c * h + v) \div h = c BY <1>1, <1>2, SMTT(30)
<1>4. (c * h + v) % h = v BY <1>1, SMTT(30)
<1> QED BY <1>3, <1>4

\* Every return code fits in the upper half.
LEMMA CodeIsNat == ASSUME IInv, NEW t \in Threads PROVE ret[t] \in Nat
<1>1. ret \in [Threads -> {0, 1, 2, 3, 4, 8}] BY DEF IInv, TypeOK
<1> QED BY <1>1

\* The half of the word the version is in.
LowerHalf(code, data) ==
  IF code # 0 THEN 0 ELSE VersionIn(data)

\* What the two version calls make of the packed word.
LEMMA VersionUnpacked ==
  ASSUME NEW code \in Nat, NEW data
  PROVE  /\ LowerHalf(code, data) \in 0..(Half - 1)
         /\ GetTaskStatVersion(Pack(code, data)) =
              IF code # 0 THEN Null ELSE LowerHalf(code, data)
         /\ GeTaskStatsVersion(Pack(code, data)) = LowerHalf(code, data)
<1>1. LowerHalf(code, data) \in 0..(Half - 1) /\ Half \in Nat
  BY HalfHoldsBoth DEF LowerHalf, VersionIn
<1>2. Pack(code, data) = code * Half + LowerHalf(code, data) BY DEF Pack, LowerHalf
<1>3. /\ Pack(code, data) \div Half = code
      /\ Pack(code, data) % Half = LowerHalf(code, data)
  BY <1>1, <1>2, HalvesComeApart
<1> QED BY <1>1, <1>3 DEF GetTaskStatVersion, GeTaskStatsVersion

\* What a method returns, by the kind of the method.
TypedResult(t) ==
  IF api[t] \in VersionCalls THEN out[t] \in {Null} \cup 0..(Half - 1)
                            ELSE out[t] \in {Null} \cup Results

ResultsTyped ==
  /\ api \in [Threads -> {Idle, "GetByThread", "GetByProcess"} \cup VersionCalls]
  /\ out = [t \in Threads |-> out[t]]
  /\ \A t \in Threads : TypedResult(t)

\* Statistics are of tasks, whatever buffer and code they are made of.
LEMMA StatsTyped ==
  ASSUME IInv, NEW t \in Threads
  PROVE  [asked |-> arg[t], got |-> GetImpl(ret[t], target[t])] \in Results
<1>1. arg[t] \in Args /\ target[t] \in Data \cup {NoData, Misread} BY DEF IInv, TypeOK
<1>2. target[t] \in Data => Covers(target[t]) \in SUBSET Tasks
  BY DEF Data, Covers, Group
<1>3. GetImpl(ret[t], target[t]) \in {Null} \cup [covers : SUBSET Tasks]
  BY <1>1, <1>2 DEF GetImpl
<1> QED BY <1>1, <1>3 DEF Results

\* Every step of the reader keeps the types of the results.
LEMMA TypedStep ==
  ASSUME IInv, ResultsTyped, [ReaderNext]_readerVars PROVE ResultsTyped'
<1>1. ASSUME NEW t \in Threads, Call(t) PROVE ResultsTyped'
  <2>1. out' = [out EXCEPT ![t] = Null] BY <1>1 DEF Call
  <2>2. \E m \in {"GetByThread", "GetByProcess"} \cup VersionCalls :
          api' = [api EXCEPT ![t] = m]
    BY <1>1 DEF Call
  <2>3. /\ api' \in [Threads -> {Idle, "GetByThread", "GetByProcess"} \cup VersionCalls]
        /\ \A u \in Threads : u # t => api'[u] = api[u]
    BY <2>2 DEF ResultsTyped
  <2>4. /\ out' = [u \in Threads |-> out'[u]] /\ out'[t] = Null
        /\ \A u \in Threads : u # t => out'[u] = out[u]
    BY <2>1 DEF ResultsTyped
  <2> QED BY <2>3, <2>4 DEF ResultsTyped, TypedResult
<1>2. ASSUME NEW t \in Threads, Return(t) PROVE ResultsTyped'
  <2> DEFINE raw == Pack(ret[t], target[t])
  <2>1. UNCHANGED api BY <1>2 DEF Return
  <2>2. /\ out' = [u \in Threads |-> out'[u]]
        /\ \A u \in Threads : u # t => out'[u] = out[u]
    BY <1>2 DEF Return, ResultsTyped
  <2>3. ret[t] \in Nat BY CodeIsNat
  <2>4. GetTaskStatVersion(raw) \in {Null} \cup 0..(Half - 1)
        /\ GeTaskStatsVersion(raw) \in 0..(Half - 1)
    BY <2>3, VersionUnpacked
  <2>5. CASE api[t] = "GetTaskStatVersion"
    <3>1. out'[t] = GetTaskStatVersion(raw) BY <1>2, <2>5 DEF Return, ResultsTyped
    <3> QED BY <2>1, <2>2, <2>4, <2>5, <3>1 DEF ResultsTyped, TypedResult, VersionCalls
  <2>6. CASE api[t] = "GeTaskStatsVersion"
    <3>1. out'[t] = GeTaskStatsVersion(raw) BY <1>2, <2>6 DEF Return, ResultsTyped
    <3> QED BY <2>1, <2>2, <2>4, <2>6, <3>1 DEF ResultsTyped, TypedResult, VersionCalls
  <2>7. CASE api[t] \notin VersionCalls
    <3>1. out'[t] = [asked |-> arg[t], got |-> GetImpl(ret[t], target[t])]
      BY <1>2, <2>7 DEF Return, ResultsTyped, VersionCalls
    <3>2. out'[t] \in Results BY <3>1, StatsTyped
    <3> QED BY <2>1, <2>2, <2>7, <3>2 DEF ResultsTyped, TypedResult
  <2> QED BY <2>5, <2>6, <2>7 DEF VersionCalls
<1>3. CASE UNCHANGED <<api, out>> BY <1>3 DEF ResultsTyped, TypedResult
<1> QED BY <1>1, <1>2, <1>3 DEF ReaderNext, readerVars

\* The history variable is a flag.
MissedTyped == missed \in [Threads -> BOOLEAN]

\* Every step of the reader keeps it one.
LEMMA MissedStep == ASSUME MissedTyped, [ReaderNext]_readerVars PROVE MissedTyped'
<1> USE DEF MissedTyped
<1>1. ASSUME NEW t \in Threads, Call(t) \/ Return(t) PROVE MissedTyped'
  BY <1>1 DEF Call, Return
<1>2. CASE missed' = [t \in Threads |-> missed[t] \/ Misses(t)]
  <2>1. \A t \in Threads : (missed[t] \/ Misses(t)) \in BOOLEAN OBVIOUS
  <2> QED BY <1>2, <2>1
<1>3. CASE UNCHANGED missed BY <1>3
<1> QED BY <1>1, <1>2, <1>3 DEF ReaderNext, readerVars

\* A return code never gets into a version, nor a version into statistics.
THEOREM ReaderTypesCorrect == ReaderSpec => []ReaderTypeOK
<1>1. ReaderInit => ResultsTyped /\ MissedTyped
  BY DEF ReaderInit, ResultsTyped, TypedResult, MissedTyped
<1>2. IInv /\ ResultsTyped /\ [ReaderNext]_readerVars => ResultsTyped' BY TypedStep
<1>3. MissedTyped /\ [ReaderNext]_readerVars => MissedTyped' BY MissedStep
<1>4. IInv /\ ResultsTyped /\ MissedTyped => ReaderTypeOK
  BY DEF IInv, ResultsTyped, TypedResult, MissedTyped, ReaderTypeOK
<1> QED BY <1>1, <1>2, <1>3, <1>4, CallsTheLibrary, Inductive, PTL DEF ReaderSpec

\* A call that ends with 0 and without statistics has missed them in its own
\* last recv.
Explained ==
  \A t \in Threads :
    pc[t] \in Finished /\ ret[t] = 0 /\ target[t] \notin Data => missed[t]

\* Every step of the reader leaves no such call unexplained.
LEMMA ExplainedStep ==
  ASSUME IInv, MissedTyped, Explained, [ReaderNext]_readerVars PROVE Explained'
<1> USE DEF Explained, Finished, Goto, Fail, local, queues
<1>a. TypeOK /\ Explained /\ MissedTyped BY DEF IInv
<1>1. ASSUME NEW t \in Threads, Call(t) PROVE Explained'
  <2>1. pc'[t] \in Finished => ret'[t] = 1 BY <1>a, <1>1 DEF Call, Enter, TypeOK
  <2>2. \A u \in Threads : u # t => /\ pc'[u] = pc[u] /\ ret'[u] = ret[u]
                                   /\ target'[u] = target[u] /\ missed'[u] = missed[u]
    BY <1>a, <1>1 DEF Call, Enter, TypeOK, MissedTyped
  <2> QED BY <1>a, <2>1, <2>2
<1>2. ASSUME NEW t \in Threads, Return(t) PROVE Explained'
  <2>1. pc'[t] = "idle" /\ missed' = missed BY <1>a, <1>2 DEF Return, Take, TypeOK
  <2>2. \A u \in Threads : u # t => /\ pc'[u] = pc[u] /\ ret'[u] = ret[u]
                                   /\ target'[u] = target[u]
    BY <1>a, <1>2 DEF Return, Take, TypeOK
  <2> QED BY <1>a, <2>1, <2>2
<1>3. ASSUME missed' = [t \in Threads |-> missed[t] \/ Misses(t)],
             \/ \E t \in Threads : Advance(t) \/ RecvFamilyError(t) \/ RecvStatsError(t)
             \/ \E f \in Fds : Kernel(f) \/ HostOpen(f) \/ HostClose(f)
      PROVE  Explained'
  <2>a. \A u \in Threads : missed[u] \/ Misses(u) => missed'[u] BY <1>3
  <2>1. ASSUME NEW t \in Threads, RecvStats(t) PROVE Explained'
    <3>1. ret'[t] = 0 => target'[t] \in Data \/ Misses(t)
      BY <1>a, <2>1, StatsReceived DEF Misses, TypeOK
    <3>2. \A u \in Threads : u # t => /\ pc'[u] = pc[u] /\ ret'[u] = ret[u]
                                     /\ target'[u] = target[u]
      BY <1>a, <2>1, StatsReceived DEF RecvStats, TypeOK
    <3> QED BY <1>a, <2>a, <3>1, <3>2
  <2>2. ASSUME NEW t \in Threads, RecvStatsError(t) PROVE Explained'
    <3>1. Misses(t) BY <2>2 DEF Misses
    <3>2. \A u \in Threads : u # t => /\ pc'[u] = pc[u] /\ ret'[u] = ret[u]
                                     /\ target'[u] = target[u]
      BY <1>a, <2>2 DEF RecvStatsError, TypeOK
    <3> QED BY <1>a, <2>a, <3>1, <3>2
  <2>3. ASSUME NEW t \in Threads,
               \/ Socket(t) \/ SetRcvBuf(t) \/ Bind(t) \/ WriteName(t) \/ SendFamily(t)
               \/ RecvFamily(t) \/ RecvFamilyError(t) \/ SendStats(t)
        PROVE  Explained'
    <3>1. pc'[t] \in Finished => ret'[t] # 0
      BY <1>a, <2>3 DEF Socket, SetRcvBuf, Bind, WriteName, SendFamily, RecvFamily,
                        RecvFamilyError, SendStats, TypeOK
    <3>2. \A u \in Threads : u # t => /\ pc'[u] = pc[u] /\ ret'[u] = ret[u]
                                     /\ target'[u] = target[u]
      BY <1>a, <2>3 DEF Socket, SetRcvBuf, Bind, WriteName, SendFamily, RecvFamily,
                        RecvFamilyError, SendStats, TypeOK
    <3> QED BY <1>a, <2>a, <3>1, <3>2
  <2>4. ASSUME NEW t \in Threads, Close(t) PROVE Explained'
    <3>1. pc[t] = "close" /\ UNCHANGED <<ret, target>> BY <2>4 DEF Close
    <3>2. \A u \in Threads : u # t => pc'[u] = pc[u] BY <1>a, <2>4 DEF Close, TypeOK
    <3> QED BY <1>a, <2>a, <3>1, <3>2
  <2>5. ASSUME NEW f \in Fds, Kernel(f) \/ HostOpen(f) \/ HostClose(f) PROVE Explained'
    <3>1. UNCHANGED <<pc, ret, target>> BY <2>5 DEF Kernel, HostOpen, HostClose
    <3> QED BY <1>a, <2>a, <3>1
  <2> QED BY <1>3, <2>1, <2>2, <2>3, <2>4, <2>5 DEF Advance
<1>4. CASE UNCHANGED readerVars BY <1>a, <1>4 DEF readerVars, vars
<1> QED BY <1>1, <1>2, <1>3, <1>4 DEF ReaderNext

\* A version returned is the kernel's, or stands for an error, unless the call
\* missed the statistics.
VersionSound(t) ==
  ~missed[t] =>
    /\ api[t] = "GetTaskStatVersion" => out[t] \in {Null, KernelVersion}
    /\ api[t] = "GeTaskStatsVersion" => out[t] \in {Null, 0, KernelVersion}

\* Every step of the reader keeps the versions sound.
LEMMA VersionStep ==
  ASSUME IInv, ResultsTyped, MissedTyped, Explained, \A t \in Threads : VersionSound(t),
         [ReaderNext]_readerVars
  PROVE  \A t \in Threads : VersionSound(t)'
<1>1. ASSUME NEW t \in Threads, Call(t) PROVE \A u \in Threads : VersionSound(u)'
  <2>1. out' = [out EXCEPT ![t] = Null] BY <1>1 DEF Call
  <2>2. \E m \in {"GetByThread", "GetByProcess"} \cup VersionCalls :
          api' = [api EXCEPT ![t] = m]
    BY <1>1 DEF Call
  <2>3. \A u \in Threads : u # t =>
          api'[u] = api[u] /\ out'[u] = out[u] /\ missed'[u] = missed[u]
    BY <1>1, <2>1, <2>2 DEF ResultsTyped, MissedTyped, Call
  <2>4. out'[t] = Null BY <2>1 DEF ResultsTyped
  <2> QED BY <2>3, <2>4 DEF VersionSound
<1>2. ASSUME NEW t \in Threads, Return(t) PROVE \A u \in Threads : VersionSound(u)'
  <2> DEFINE raw == Pack(ret[t], target[t])
  <2>1. UNCHANGED <<api, missed>> /\ pc[t] = "returned" BY <1>2 DEF Return, Take
  <2>2. \A u \in Threads : u # t => out'[u] = out[u] BY <1>2 DEF Return, ResultsTyped
  <2>3. ret[t] \in Nat BY CodeIsNat
  <2>4. ~missed[t] =>
          LowerHalf(ret[t], target[t]) = IF ret[t] # 0 THEN 0 ELSE KernelVersion
    BY <2>1 DEF Explained, Finished, LowerHalf, VersionIn
  <2>5. ~missed[t] => /\ GetTaskStatVersion(raw) \in {Null, KernelVersion}
                      /\ GeTaskStatsVersion(raw) \in {0, KernelVersion}
    BY <2>3, <2>4, VersionUnpacked
  <2>6. api[t] = "GetTaskStatVersion" => out'[t] = GetTaskStatVersion(raw)
    BY <1>2 DEF Return, ResultsTyped
  <2>7. api[t] = "GeTaskStatsVersion" => out'[t] = GeTaskStatsVersion(raw)
    BY <1>2 DEF Return, ResultsTyped
  <2> QED BY <2>1, <2>2, <2>5, <2>6, <2>7 DEF VersionSound
<1>3. ASSUME UNCHANGED <<api, out>>, \A t \in Threads : missed[t] => missed'[t]
      PROVE  \A t \in Threads : VersionSound(t)'
  BY <1>3 DEF VersionSound
<1>4. CASE missed' = [t \in Threads |-> missed[t] \/ Misses(t)] /\ UNCHANGED <<api, out>>
  BY <1>3, <1>4
<1>5. CASE UNCHANGED readerVars BY <1>3, <1>5 DEF readerVars
<1> QED BY <1>1, <1>2, <1>4, <1>5 DEF ReaderNext

\* A version an API method returns is the kernel's or stands for an error, for
\* every call but those whose own last recv failed or brought padded statistics:
\* no other path, and nothing that happens to another call, has what malloc left
\* taken for a version.
THEOREM VersionAlwaysTheKernels == ReaderSpec => []VersionIsTheKernels
<1> DEFINE Sound == \A t \in Threads : VersionSound(t)
<1>1. ReaderInit => ResultsTyped /\ MissedTyped /\ Explained /\ Sound
  BY DEF ReaderInit, Init, ResultsTyped, TypedResult, MissedTyped, Explained, Finished,
         VersionSound
<1>2. IInv /\ ResultsTyped /\ [ReaderNext]_readerVars => ResultsTyped' BY TypedStep
<1>3. MissedTyped /\ [ReaderNext]_readerVars => MissedTyped' BY MissedStep
<1>4. IInv /\ MissedTyped /\ Explained /\ [ReaderNext]_readerVars => Explained'
  BY ExplainedStep
<1>5. /\ IInv /\ ResultsTyped /\ MissedTyped /\ Explained /\ Sound
      /\ [ReaderNext]_readerVars
      => Sound'
  BY VersionStep
<1>6. Sound => VersionIsTheKernels BY DEF VersionSound, VersionIsTheKernels
<1> HIDE DEF Sound
<1> QED BY <1>1, <1>2, <1>3, <1>4, <1>5, <1>6, CallsTheLibrary, Inductive, PTL
        DEF ReaderSpec
===============================================================================
