--------------------------- MODULE CapabilityProbes ---------------------------
(***************************************************************************)
(* The four capability properties of LinuxTaskStatsReader.cs:8-11, each a  *)
(* Lazy<bool> of TaskStatInterop.cs:26-48, read by several threads.  The   *)
(* first reader of a Lazy runs its factory under the Lazy's lock, readers  *)
(* that come meanwhile wait, later ones get the value.  Two factories read *)
(* another Lazy first and then call get_taskstats: what that call does is  *)
(* the service TaskStatsService, which module GetTaskStats implements.     *)
(***************************************************************************)
EXTENDS TaskStatsService

CONSTANTS
  Pid,     \* getpid()
  TidOf,   \* TidOf[t]: gettid() on the thread t
  None     \* no property, no holder, no value

\* A Lazy stands for the property it answers; Inner is the one its factory reads.
Inner == [process |-> "pid", thread |-> "tid"]
Plain == {"pid", "tid"}
Lazies == Plain \cup DOMAIN Inner

\* What the shared object that was found exports; nothing when none was found.
\* A P/Invoke of anything else throws, which IsSuccess turns into FALSE.
Functions == {"get_pid", "get_tid", "get_taskstats"}

ASSUME IdsAreTasks == Pid \in Tasks /\ TidOf \in [Threads -> Tasks]
ASSUME NoneIsNone == None \notin Threads /\ None \notin Lazies /\ None \notin BOOLEAN
ASSUME NoTaskIsZero == NoTask \notin Tasks

VARIABLES
  exports,  \* the functions the loaded shared object has
  value,    \* value[l]: the Lazy's value, None until its factory has returned
  holder,   \* holder[l]: the thread inside its lock
  reading,  \* reading[t]: the property t is reading
  nested,   \* nested[t]: t's factory is reading the Value of the inner Lazy
  got       \* got[t]: what the last property t has read said

lazyVars == <<exports, value, holder, reading, nested, got>>
probeVars == <<vars, lazyVars>>

\* The Lazy whose Value t is evaluating, innermost.
At(t) == IF nested[t] THEN Inner[reading[t]] ELSE reading[t]
Holds(t) == reading[t] # None /\ holder[At(t)] = t

FunctionOf(l) == IF l = "pid" THEN "get_pid" ELSE "get_tid"

\* get_taskstats(get_pid(), 0, ...) and get_taskstats(0, get_tid(), ...).
ProbeArgs(t, l) ==
  IF l = "process" THEN [argPid |-> Pid, argTid |-> NoTask]
                   ELSE [argPid |-> NoTask, argTid |-> TidOf[t]]

ProbesInit ==
  /\ Init
  /\ exports \in SUBSET Functions
  /\ value = [l \in Lazies |-> None]
  /\ holder = [l \in Lazies |-> None]
  /\ reading = [t \in Threads |-> None]
  /\ nested = [t \in Threads |-> FALSE]
  /\ got = [t \in Threads |-> None]

-------------------------------------------------------------------------------
\* A thread reads a property.
Read(t) ==
  /\ reading[t] = None
  /\ \E l \in Lazies : reading' = [reading EXCEPT ![t] = l]
  /\ got' = [got EXCEPT ![t] = None]
  /\ UNCHANGED <<vars, exports, value, holder, nested>>

\* Value returns b: to the factory that reads it, or to the caller.
Returns(t, b) ==
  IF nested[t]
    THEN nested' = [nested EXCEPT ![t] = FALSE] /\ UNCHANGED <<reading, got>>
    ELSE /\ reading' = [reading EXCEPT ![t] = None]
         /\ got' = [got EXCEPT ![t] = [of |-> reading[t], is |-> b]]
         /\ UNCHANGED nested

\* There is a value: no lock is taken, or the lock is left at once.
\* Mutant: a factory that has started counts as a value.
CachedOnceStarted(t) ==
  /\ reading[t] # None /\ (value[At(t)] # None \/ holder[At(t)] # None)
  /\ Returns(t, value[At(t)])
  /\ UNCHANGED <<vars, exports, value, holder>>
Cached(t) ==
  /\ reading[t] # None /\ value[At(t)] # None
  /\ Returns(t, value[At(t)])
  /\ UNCHANGED <<vars, exports, value, holder>>

\* There is none: the lock is free, or the thread waits for its holder.
\* Mutant: LazyThreadSafetyMode.PublicationOnly, the factory runs without a lock.
EnterUnlocked(t) ==
  /\ reading[t] # None /\ value[At(t)] = None /\ ~Holds(t)
  /\ holder' = [holder EXCEPT ![At(t)] = t]
  /\ UNCHANGED <<vars, exports, value, reading, nested, got>>
Enter(t) ==
  /\ reading[t] # None /\ value[At(t)] = None
  /\ holder[At(t)] = None
  /\ holder' = [holder EXCEPT ![At(t)] = t]
  /\ UNCHANGED <<vars, exports, value, reading, nested, got>>

\* The factory returns b: the value is published, the lock is left.
\* Mutant: only success is published and leaves the lock.
PublishOnlyTrue(t, b) ==
  /\ value' = [value EXCEPT ![At(t)] = IF b THEN b ELSE None]
  /\ holder' = [holder EXCEPT ![At(t)] = IF b THEN None ELSE @]
  /\ Returns(t, b)
Publish(t, b) ==
  /\ value' = [value EXCEPT ![At(t)] = b]
  /\ holder' = [holder EXCEPT ![At(t)] = None]
  /\ Returns(t, b)

\* The factories of pid and tid: one P/Invoke that returns at once or throws.
\* Mutant: what throws is tried again.
CallPlainRetries(t) ==
  /\ Holds(t) /\ At(t) \in Plain
  /\ IF FunctionOf(At(t)) \in exports THEN Publish(t, TRUE) ELSE UNCHANGED lazyVars
  /\ UNCHANGED <<vars, exports>>
CallPlain(t) ==
  /\ Holds(t) /\ At(t) \in Plain
  /\ Publish(t, FunctionOf(At(t)) \in exports)
  /\ UNCHANGED <<vars, exports>>

\* The factories of process and thread read the inner Lazy first ...
ReadInner(t) ==
  /\ Holds(t) /\ ~nested[t] /\ reading[t] \in DOMAIN Inner
  /\ value[Inner[reading[t]]] = None
  /\ nested' = [nested EXCEPT ![t] = TRUE]
  /\ UNCHANGED <<vars, exports, value, holder, reading, got>>

\* ... return FALSE if it says so ...
\* Mutant: what is not supported is asked again.
RefuseRetries(t) ==
  /\ Holds(t) /\ ~nested[t] /\ reading[t] \in DOMAIN Inner
  /\ value[Inner[reading[t]]] = FALSE
  /\ UNCHANGED probeVars
Refuse(t) ==
  /\ Holds(t) /\ ~nested[t] /\ reading[t] \in DOMAIN Inner
  /\ value[Inner[reading[t]]] = FALSE
  /\ Publish(t, FALSE)
  /\ UNCHANGED <<vars, exports>>

\* ... and else call get_taskstats, which throws when it is not there.
Probe(t) ==
  /\ Holds(t) /\ ~nested[t] /\ reading[t] \in DOMAIN Inner
  /\ value[Inner[reading[t]]] = TRUE
  /\ phase[t] = "idle"
  /\ IF "get_taskstats" \in exports
       THEN /\ Ask(t) /\ asked'[t] = ProbeArgs(t, reading[t])
            /\ UNCHANGED <<value, holder, reading, nested, got>>
       ELSE Publish(t, FALSE) /\ UNCHANGED vars
  /\ UNCHANGED exports

\* Whatever code the call returns, IsSuccess drops it: TRUE.
\* Mutant: the code is looked at.
ProbeReturnsCode(t) ==
  /\ Holds(t) /\ Take(t)
  /\ Publish(t, answer[t].code = 0)
  /\ UNCHANGED exports
ProbeReturns(t) ==
  /\ Holds(t) /\ Take(t)
  /\ Publish(t, TRUE)
  /\ UNCHANGED exports

\* get_taskstats comes back, if it does.
NativeReply(t) == Reply(t) /\ UNCHANGED lazyVars

\* What a thread that reads a property does by itself.
Proceed(t) ==
  \/ Cached(t) \/ Enter(t) \/ CallPlain(t) \/ ReadInner(t) \/ Refuse(t)
  \/ Probe(t) \/ ProbeReturns(t)

ProbesNext == \E t \in Threads : Read(t) \/ Proceed(t) \/ NativeReply(t)

ProbesSpec == ProbesInit /\ [][ProbesNext]_probeVars

\* Threads are scheduled; nothing says that the native call returns.
ProbesFairSpec == ProbesSpec /\ \A t \in Threads : WF_probeVars(Proceed(t))

-------------------------------------------------------------------------------
\* The type invariant.
ProbesTypeOK ==
  /\ phase \in [Threads -> {"idle", "busy", "answered"}]
  /\ asked \in [Threads -> Args]
  /\ answer \in [Threads -> {NoAnswer} \cup UNION {Answers(a) : a \in Args}]
  /\ exports \in SUBSET Functions
  /\ value \in [Lazies -> BOOLEAN \cup {None}]
  /\ holder \in [Lazies -> Threads \cup {None}]
  /\ reading \in [Threads -> Lazies \cup {None}]
  /\ nested \in [Threads -> BOOLEAN]
  /\ got \in [Threads -> [of : Lazies, is : BOOLEAN] \cup {None}]

\* A thread that can only wait for another to leave a lock.
Waits(t) ==
  /\ reading[t] # None /\ value[At(t)] = None
  /\ holder[At(t)] \notin {None, t}

\* No threads wait for one another only: although a factory reads a Lazy while
\* it holds the lock of another, in every set of waiting threads one waits for a
\* thread outside, so waiting ends at a thread that runs or is in the kernel.
NoDeadlock ==
  \A S \in SUBSET Threads :
    S # {} /\ (\A t \in S : Waits(t)) => \E t \in S : holder[At(t)] \notin S

\* A probe calls get_taskstats under its lock and before there is a value: never
\* two threads for one property, never again once the property is known.
ProbedOnce ==
  \A t \in Threads : phase[t] # "idle" =>
    /\ reading[t] # None /\ holder[reading[t]] = t /\ value[reading[t]] = None
    /\ \A u \in Threads \ {t} : phase[u] # "idle" => reading[u] # reading[t]

\* The functions a property needs.
Needed(l) ==
  IF l \in Plain THEN {FunctionOf(l)} ELSE {FunctionOf(Inner[l]), "get_taskstats"}

\* What a property says is whether its functions could be called, the same to
\* every thread and at any time, and nothing about what the kernel answered: a
\* refused get_taskstats (no permission) counts as supported.
SupportedMeansCallable ==
  \A t \in Threads : got[t] # None =>
    (got[t].is <=> Needed(got[t].of) \subseteq exports)

\* The properties that do not probe get_taskstats always answer, even while
\* probes of the others hang in the kernel.
PlainReadsReturn ==
  \A t \in Threads : reading[t] \in Plain ~> reading[t] = None

\* A read that never returns waits for one native call that never returns,
\* its own or that of the thread that came first.
ReadsWaitOnlyForACall ==
  \A t \in Threads, l \in DOMAIN Inner :
    <>[](reading[t] = l) => <>[](\E u \in Threads : holder[l] = u /\ phase[u] = "busy")
===============================================================================
