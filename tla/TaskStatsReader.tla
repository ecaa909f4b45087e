---------------------------- MODULE TaskStatsReader ----------------------------
(***************************************************************************)
(* The managed side over module GetTaskStats: GetByThread, GetByProcess,   *)
(* GetTaskStatVersion and GeTaskStatsVersion of LinuxTaskStatsReader.cs,   *)
(* with get_taskstats_version of so-src/get_taskstats.c:580-592.  Every    *)
(* thread makes one call of the API at a time.  ErrorAction is ReturnNull, *)
(* the only value TaskStatInterop.cs:9 gives it: errors become null.       *)
(***************************************************************************)
EXTENDS GetTaskStats, FiniteSets

CONSTANTS
  Tgid,           \* Tgid[k]: the process (thread group) the task k is in
  Self,           \* getpid(): the process the library is loaded in
  KernelVersion,  \* version of the kernel's struct taskstats
  Garbage,        \* what is read for a version where there is none
  Half,           \* 2^32 of the packed version, scaled
  Null, Idle      \* no result; no call

ASSUME TgidIsATask == Tgid \in [Tasks -> Tasks] /\ Tgid[Self] = Self
ASSUME NullIsNoResult == \A covers \in SUBSET Tasks : Null # [covers |-> covers]
ASSUME HalfHoldsBoth ==
  Half \in Nat /\ KernelVersion \in 0..(Half - 1) /\ Garbage \in 0..(Half - 1)

VARIABLES
  api,    \* api[t]: the method t is in, or was last in
  out,    \* out[t]: what it returned
  missed  \* history: t's last recv failed, or what it brought was padded

readerVars == <<vars, api, out, missed>>

\* What the kernel reports on: for a PID the task alone, for a TGID the sum of
\* the tasks of the thread group.
Group(k) == {j \in Tasks : Tgid[j] = Tgid[k]}
Covers(data) == IF data.cmd = "PID" THEN {data.tid} ELSE Group(data.tid)

\* Get_Impl: null for an error; without statistics the result is the zeroed
\* stack, or numbers that are no task's.
GetImpl(code, data) ==
  IF code # 0 THEN Null ELSE [covers |-> IF data \in Data THEN Covers(data) ELSE {}]

\* t->version, of the struct copied or of what malloc left.
VersionIn(data) == IF data \in Data THEN KernelVersion ELSE Garbage

\* get_taskstats_version: isOk in the upper half, the version in the lower.
\* Mutant: the version is packed without looking at isOk.
PackAlways(code, data) == code * Half + VersionIn(data)
Pack(code, data) == code * Half + (IF code # 0 THEN 0 ELSE VersionIn(data))

\* GetTaskStatVersion and GeTaskStatsVersion unpack it; only the first looks at
\* isOk.
GetTaskStatVersion(raw) == IF raw \div Half # 0 THEN Null ELSE raw % Half
\* Mutant: the upper half is not masked off.
GeTaskStatsVersionUnmasked(raw) == raw
GeTaskStatsVersion(raw) == raw % Half

VersionCalls == {"GetTaskStatVersion", "GeTaskStatsVersion"}

ReaderInit ==
  /\ Init
  /\ api = [t \in Threads |-> Idle]
  /\ out = [t \in Threads |-> Null]
  /\ missed = [t \in Threads |-> FALSE]

\* A method is called: the arguments it passes on to get_taskstats.
Call(t) ==
  /\ Enter(t)
  /\ \/ api' = [api EXCEPT ![t] = "GetByThread"] /\ arg'[t].argPid = NoTask
     \/ api' = [api EXCEPT ![t] = "GetByProcess"] /\ arg'[t].argTid = NoTask
     \/ /\ \E m \in VersionCalls : api' = [api EXCEPT ![t] = m]
        /\ arg'[t] = [argPid |-> Self, argTid |-> NoTask]
  /\ out' = [out EXCEPT ![t] = Null]
  /\ missed' = [missed EXCEPT ![t] = FALSE]

\* It returns: the P/Invoke is over and its code and buffer become the result.
Return(t) ==
  /\ Take(t)
  /\ LET raw == Pack(ret[t], target[t]) IN
     out' = [out EXCEPT ![t] =
       CASE api[t] = "GetTaskStatVersion" -> GetTaskStatVersion(raw)
         [] api[t] = "GeTaskStatsVersion" -> GeTaskStatsVersion(raw)
         [] OTHER -> [asked |-> arg[t], got |-> GetImpl(ret[t], target[t])]]
  /\ UNCHANGED <<api, missed>>

\* The two ways for the call to be told 0 without statistics.
Misses(t) == RecvStatsError(t) \/ (RecvStats(t) /\ Head(outq[sd[t]]).type = "padded")

ReaderNext ==
  \/ \E t \in Threads : Call(t) \/ Return(t)
  \/ /\ \/ \E t \in Threads : Advance(t) \/ RecvFamilyError(t) \/ RecvStatsError(t)
        \/ \E f \in Fds : Kernel(f) \/ HostOpen(f) \/ HostClose(f)
     /\ missed' = [t \in Threads |-> missed[t] \/ Misses(t)]
     /\ UNCHANGED <<api, out>>

ReaderSpec == ReaderInit /\ [][ReaderNext]_readerVars
-------------------------------------------------------------------------------
\* The statistics t has got, for the id k it asked about.
Answered(t, k, covers) ==
  /\ api[t] \in {"GetByThread", "GetByProcess"} /\ out[t] # Null
  /\ Tid(out[t].asked) = k /\ out[t].got = [covers |-> covers]

Results ==
  [asked : Args, got : {Null} \cup [covers : SUBSET Tasks]]

\* The type invariant: no return code gets into what an API method returns.
ReaderTypeOK ==
  /\ TypeOK
  /\ api \in [Threads -> {Idle, "GetByThread", "GetByProcess"} \cup VersionCalls]
  /\ \A t \in Threads :
       IF api[t] \in VersionCalls THEN out[t] \in {Null} \cup 0..(Half - 1)
                                 ELSE out[t] \in {Null} \cup Results
  /\ missed \in [Threads -> BOOLEAN]

\* Statistics never come from another process than the one the id asked about
\* belongs to, with several threads of the library asking about several.
NeverAnotherProcess ==
  \A t \in Threads, k \in Tasks : \A covers \in SUBSET Tasks :
    Answered(t, k, covers) => covers \subseteq Group(k)

\* The version is the kernel's, or the error is visible (in the null of
\* GetTaskStatVersion, in the 0 of GeTaskStatsVersion), except for a call whose
\* own last recv failed or brought padded statistics: nothing else, and nothing
\* another call met, has what malloc left read for a version.
VersionIsTheKernels ==
  \A t \in Threads : out[t] # Null /\ ~missed[t] =>
    /\ api[t] = "GetTaskStatVersion" => out[t] = KernelVersion
    /\ api[t] = "GeTaskStatsVersion" => out[t] \in {0, KernelVersion}

\* "Per-task and per-process statistics" (README.md:2): GetByThread reports on
\* the thread, GetByProcess on the whole process.
ScopeIsAsNamed ==
  \A t \in Threads, k \in Tasks : \A covers \in SUBSET Tasks :
    Answered(t, k, covers) =>
      covers = IF api[t] = "GetByThread" THEN {k} ELSE Group(k)
===============================================================================
