# Universe.NativeLinux.Interop: specification and proofs

The repository is a .NET library that reports the Linux kernel's *taskstats* of a
thread or a process. A small C library, `so-src/get_taskstats.c` (cut from the kernel's
example `getdelays`), talks to the kernel over a generic netlink socket; the C# assembly
`Universe.LinuxTaskStats` calls it and turns the kernel's struct into a managed one. This
directory holds TLA+ modules of that path from end to end, the TLC runs that check them
and TLAPS proofs about them. The build job that brings the C library into the package is
modelled as well.

Paths below are relative to `src/`; `c:` abbreviates `so-src/get_taskstats.c`, and
`Reader.cs` and `TaskStatInterop.cs` are in `Universe.LinuxTaskStats/Universe.LinuxTaskStats/`.

## Inventory

| component | state | operations | talks to |
|---|---|---|---|
| netlink client, `get_taskstats` (c:92-195, c:287-577) | per call: `nl_sd`, family id, return code; per process: the global `name`, the descriptor table | create socket, send and receive the family request, send and receive the statistics request, close | kernel (messages), other threads (`name`, descriptors), the rest of the process (descriptors) |
| `send_cmd` (c:123-160) | pointer and remaining length | build a request, give it to `sendto` until it is taken | kernel |
| reply parser (c:496-552) | pointer `na` and two byte counters | outer walk, nested walk, copy | the reply, the caller's buffer |
| versioned struct (c:269-284, `TaskStats-Info/taskstats-v7..v10.h`, Reader.cs:47-126, `LinuxTaskStats.cs`) | the caller's buffer | size by version, copy, read of 32 members by offset | kernel's struct, managed struct |
| `LinuxTaskStatsReader` (Reader.cs), `get_taskstats_version` (c:580-592) | none of its own | `GetByThread`, `GetByProcess`, the two version calls | netlink client (P/Invoke) |
| capability probes (`TaskStatInterop.cs:26-70`) | four `Lazy<bool>` with their locks | evaluate once, then return | netlink client |
| native build and deployment (`azure-steps-nix.yml`, `so-src/rebuild-all.sh`, `deploy-to-runtimes.sh`, `build-nuget.sh`) | `so-src/runtimes/`, `runtimes/`, the packages, whether the job has failed | build per platform, clear, deploy, test, pack, push | docker, the file system, nuget.org |
| debug views, exception texts, tests, structure dumps, the originals of the C code | none | formatting, load generation | - |

What is hard here, and what therefore has to be right:

* **Concurrency.** The C code was a single-threaded program. As a library it is called by
  any number of managed threads; its globals are shared (`name` is written by every call,
  c:179), and so is the descriptor table, with code outside the library too. Calls must
  not mix up sockets, names, requests or answers, must not close a descriptor that is not
  theirs and must not lose one.
* **Failure.** Every system call can fail. The code has six error paths that meet at two
  labels; each must release the socket once, leave the caller's buffer alone and say so.
* **Progress.** Two blocking `recv` calls without timeouts, and one send loop. Each wait
  must be for something that is coming.
* **Messages.** Nothing in a reply is matched with its request (`nlmsg_seq` is 0, c:137).
  Replies are attribute lists of unknown kinds, walked with pointer arithmetic.
* **Layout.** The kernel's struct grew over the versions and has padding that depends on
  the ABI; the C side has a table of sizes and the managed side a list of offsets, both
  written by hand. Each value is then converted to a type somebody picked.
* **Locks within locks.** A capability probe runs native code under the lock of its `Lazy`
  and reads another `Lazy` from there.
* **A job that goes on.** Most scripts of the build succeed whatever happened inside, and
  packing runs after a failure too.

`PROJECT.json` lists these, line by line, as hazards with the properties that cover them.

## Modules

| module | models | used with |
|---|---|---|
| `TaskStatsService` | what a caller may rely on: ask, be answered once, take the answer | abstract specification of the next |
| `GetTaskStats` | `get_taskstats` in several threads, one action per system call, the kernel and the rest of the process | implements `TaskStatsService` |
| `GetTaskStatsProofs` | theorems about `GetTaskStats` and their proofs | extends it |
| `SendCmd` | inside `send_cmd`: one action per `sendto` | - |
| `SendCmdProofs` | proof about `SendCmd` | extends it |
| `AttrWalk`, `MCAttrWalk` | inside the receive of the statistics: one action per turn of a loop | - |
| `AttrWalkProofs` | proofs about `AttrWalk` | extends it and `InductionLemmas` |
| `TaskStatsLayout` | from the kernel's struct to the managed members | - |
| `TaskStatsLayoutProofs` | proofs about `TaskStatsLayout` | extends it and `InductionLemmas` |
| `InductionLemmas` | nothing: induction and flattened lists, lemmas for the two modules above | - |
| `TaskStatsReader`, `MCTaskStatsReader` | the managed API | extends `GetTaskStats`, one action per call and return |
| `TaskStatsReaderProofs` | proofs about `TaskStatsReader` | extends it and `GetTaskStatsProofs` |
| `CapabilityProbes`, `MCCapabilityProbes` | the four capability properties, read by several threads | extends `TaskStatsService`, what a native call may do |
| `CapabilityProbesProofs` | proofs about `CapabilityProbes` | extends it |
| `BuildPipeline` | one build job, from the containers to the pushed package | - |
| `BuildPipelineProofs` | proofs about `BuildPipeline` | extends it |

### GetTaskStats

`pc[t]` is where thread `t` is: `idle`, then one label per system call (`socket`, `rcvbuf`,
`bind`, `famsend`, `famrecv`, `statsend`, `statrecv`, `close`), `name` for the stores of
`strcpy`, `returned`. `sd` is `nl_sd` and, inside `create_nl_socket`, its `fd`; `ret` is
`returnError`; `target` is the caller's buffer; `id` the family id; `arg` the two ids passed
in. `name`, `owner` (who opened each descriptor) and the two message queues of each
descriptor are shared. `owner` is not in the code: it records who opened a descriptor so
that closing somebody else's can be seen.

* A store of `strcpy` is a step of its own (`WriteName`), so another thread's `SendFamily`
  can read `name` between any two of them. The name is the set of positions that hold their
  character; the global is zeroed at start, so a position holds its character or zero.
* A system call and the straight code up to the next one are one action; both the success
  and the failure are disjuncts. `SendMayFail` and `RecvMayFail` switch the failures of
  `sendto` and `recv`. `bind`, `socket` and `setsockopt` may always fail.
* `Kernel` answers a request with an error or, if the message is right, with data. A
  family request with less than the whole name only gets an error. With `Pads` it may put
  padding before the statistics (`PaddedReply`), as kernels that align them to 8 bytes do.
* `Walked` is what the attribute walk (c:496-552, module `AttrWalk`) leaves in the caller's
  buffer: the statistics, or, of a padded reply, nothing or something else it takes for
  statistics (`Misread`), since the pointer is off by then (run `padded`). Such a call returns
  0. A walk that is off may also leave the message, where anything can happen, or turn on the
  spot at a length of 0; the model has the outcomes in which the call comes back, and
  `BlocksOnlyOnLostRequest` and `Implementation` are about those.
* `HostOpen` and `HostClose` are the rest of the process. `close` frees the number, which
  the next `socket` or `HostOpen` may get.
* `Take` is the caller reading code and buffer (`Get_Impl`, Reader.cs:53-63): the locals of
  the call are gone and a new call may start.
* Left out: the branches under `maskset`, `containerset` and `loop`, which are 0 and never
  assigned, and debug output. `rcvbufsz` is a constant, since nothing assigns it; the
  branch under it is modelled, and run `safety` takes it (every property but `NoLeak` holds for
  any value). With the value it has, 0, no socket is lost: `NoLeak` is checked in run `calls`,
  where the calls are made by the managed API, and proved for all calls.

### SendCmd, AttrWalk

These two open up one step of `GetTaskStats` each. `SendCmd` models any socket: `sendto`
accepts any part of what it is given or fails with `EAGAIN` or another error. When it accepts
nothing and does not fail, the code takes the branch of a failure and tests an `errno` that is
left over (`AcceptNothing`), so `errno` is a variable. A netlink socket takes a message whole
or not at all: partial sends check the loop, not a case the library meets.
`AttrWalk` keeps the code's arithmetic: `na` as a byte offset into a memory of 4-byte
words, `len`, `len2` and `aggr_len` as they are. A word of contents that the walk would
take for a header reads as zero. The model ends where the walk would read outside the
message, so that a wrong pointer shows as a violated `OnBoundary` before or as a deadlock;
`NeverReadsOutside` proves that, with the replies the proofs are about, it never ends there.

### TaskStatsLayout

The struct is a list of fields with size and alignment, version by version; offsets are
computed by the C rule, once with 64-bit integers aligned to 4 (i386) and once to 8. `Copy`
is `smart_copy_taskstats`, `Read` one member initialiser of `Get_Impl`. A read yields the
set of fields its bytes belong to, so a wrong offset, a wrong width, padding and bytes that
were never copied are all told apart from the right field. `Meaning` is the field each
member is named for.

The values are bytes. `FieldBytes` is what the kernel put in a field: the first byte tells
the fields apart, the others are zero, large, or large with the top bit set (`fill`), and
`nice` is task_nice. `Peek` is the read through a pointer; `Widen` is the assignment to the
member, which is as wide as what is read except for `Nice`: a byte made a short by adding
zeros. Counters and times are taken to stay below 2^63. Versions stay below 2^15
(`VersionsFrom7`): the field is unsigned, but `Get_Impl` reads it as a `short`.

### TaskStatsReader

Adds to `GetTaskStats` which API method a thread is in and what it returned. A call is
`Enter` with the arguments the method passes on; a return is `Take` with the conversion of
code and buffer (`VersionIn` is `t->version` of whatever the buffer holds). `missed` is a
history variable: whether the call's own last `recv` failed or brought padded statistics
(`Misses`), the two ways to be told 0 without statistics. It reads the steps and guides none.
`ErrorAction` is `ReturnNull`, the only value the assembly gives it
(`TaskStatInterop.cs:9`), so errors become `null`. What the kernel reports is the set of
tasks it covers: one for `PID`, the thread group for `TGID`. The version packs code and
value into two halves of a word, the halves scaled from 2^32 to the constant `Half`.

### CapabilityProbes

A `Lazy<bool>` is its value and the thread in its lock; `reading[t]` is the property a
thread reads, `nested[t]` that its factory is inside the inner `Value` (`process` reads
`pid`, `thread` reads `tid`). `Enter` takes the lock, `Publish` stores the value and leaves
it, `Cached` finds it there. `CallPlain` is the P/Invoke of `get_pid` and `get_tid`, `Probe`
and `ProbeReturns` that of `get_taskstats`, whose `Ask`, `Reply` and `Take` are the abstract
service's, so what `GetTaskStats` is proved to implement is what the probes are proved to
use. `exports` is what the loaded library has: any set of functions, none when it was not
found. A factory that reads a value the inner `Lazy` already has goes on at once
(`Refuse`, `Probe`).

### BuildPipeline

`step` is the step of `azure-steps-nix.yml`, `failed` whether the job has failed; `built` is
`so-src/runtimes`, `runtimes` the directory packing copies from, `pre`, `release` and `pushed`
are the contents of the packages. A library is checked in, new or missing. The scripts'
platform loops take the platforms in any order here, one action per platform: the code's
order is one of them. `Build` never fails (`errors` is not looked at, rebuild-all.sh:79,
110), `Deploy` stops at a failing copy and the step succeeds (its status is that of `popd`),
`Test` fails when the library it loads is missing, or for reasons of its own; that tests
themselves fail is lost in the pipe to `tee` (test-as-root.sh:10). `PackPre`, `Push` and
`PackRelease` are parts of one step under `set -e`, which runs after a failure
(azure-steps-nix.yml:91) but not after a cancellation (`Cancel`). The agent is a hosted one
and starts from a fresh checkout, where `so-src/runtimes` does not exist; `rm -rf ./runtimes`
is taken to succeed.

## Runs

| run | question | bounds |
|---|---|---|
| `safety` | type invariant; `UsesOwnSocket`, `FamilyNameIsWhole`, `AnswerIsOurs`, `FailedCallCopiesNothing`, `StatsRecvIsFed`, `HostFilesSurvive`; refinement of `TaskStatsService`; liveness `BlocksOnlyOnLostRequest` | 2 threads, 2 descriptors, 2 tasks, a name of 2 stores, all failures, padded replies and the `setsockopt` path on |
| `lostsend` | violated: `CallsReturn` | 1 thread, failing sends |
| `success` | violated: `SuccessMeansData` | 1 thread, failing receives |
| `walk` | `OnBoundary`, `FindsFirstStats`, `Terminates` | every reply of at most 2 attributes with at most 2 nested ones |
| `padded` | violated: `OnBoundary` | id, padding, statistics: 3 nested attributes |
| `send` | `SentInOrder`, `Finishes` | the two lengths the library sends, rounded to whole messages |
| `members` | `MembersHoldTheirFields`, `CopyIsExact`, `ValuesKept` | versions 7 to 11 and one of two bytes, both alignments, 3 nice values, 3 sizes of values |
| `nice` | violated: `NiceIsTaskNice` | versions 7 to 11, the rest the same |
| `calls` | `NoLeak`, `NeverAnotherProcess`, `VersionIsTheKernels`, type invariant | 2 threads, 2 descriptors, 3 tasks in 2 processes, failing sends and receives and padded replies on |
| `scope` | violated: `ScopeIsAsNamed` | 1 thread, 3 tasks in 2 processes |
| `probes` | `NoDeadlock`, `ProbedOnce`, `SupportedMeansCallable`, type invariant; liveness `PlainReadsReturn`, `ReadsWaitOnlyForACall` | 2 threads, any exports |
| `build` | `NoMixedPackage`, `ErrorStopsPackaging`, `GreenMeansActual`, type invariant | 5 platforms |

Two threads are enough to interleave every pair of steps, and two descriptors to have one
closed and given to somebody else while the other is in use; a third thread only repeats
the second's part, and the proofs are for any number. With two tasks an answer to the wrong
request can be told from the right one. A name of two stores has a half-written state.
The `walk` run is bounded at two nested attributes because that is as far as the code's
pointer arithmetic is right: the `padded` run is the smallest case past it, and the one that
shows what `FindsFirstStats` cannot at this bound. Messages of the kernels the library was
written for have two (id and statistics). No reply has an attribute of length 0: a kernel's
attribute is at least its header. For the probes two threads
give every pair of positions in the two chains of locks. Five platforms stand for the nine of
the scripts: one the tests load and several that only packing looks at, so that a loop can
stop with some done and some not.

Deadlock is not checked where the system may really stop: `safety` and `lostsend`
contain calls waiting for a lost request, `members` and `nice` end with the result complete
and `build` with the job.

The five violated runs are disagreements between the code and what the repository says of
it, listed with their quotations under `findings` in `PROJECT.json`:

1. `success`: a failed `recv` of the statistics says "still waiting for reply" and returns 0
   with nothing copied; 0 is documented as "successfully retrieved".
2. `lostsend`: a failed send of the family request is not noticed and the call never
   returns; it is documented as error 3.
3. `padded`: the nested walk is off from the third nested attribute on; the call may then
   return 0 with nothing copied, as in `success` but with no `recv` failing.
4. `scope`: `GetByThread` reports on the process and `GetByProcess` on the main thread.
5. `nice`: a nice value of -20 is reported as 236; the field is documented as `task_nice`.

## Fairness

`FairSpec` assumes that a thread inside a call is scheduled while it can take a step
(`WF(Advance(t))`: ordinary preemptive threads) and that the kernel answers what it has
received (`WF(Kernel(f))`). It assumes nothing of callers, of the rest of the process or
of failures: no `recv` is promised to fail, so a `recv` that nothing answers blocks. `SendCmd`
assumes that `sendto` does not say `EAGAIN`, or accept nothing, for ever; the loop would spin
with it. `AttrWalk`
is sequential code and assumes only that it runs. `ProbesFairSpec` assumes that threads are
scheduled and nothing of the native call: `get_taskstats` may never return, as run `lostsend`
shows of the code.

## Proofs

`GetTaskStatsProofs` proves, for any threads, descriptors and tasks and any length of the
name, with or without failures, from the assumptions named in `GetTaskStats` (distinct model
values, `Misread` among them; the family id is neither 0 nor the controller's; the name is not
empty):

| theorem | states |
|---|---|
| `TypeCorrect` | `Spec => []TypeOK` |
| `OwnSocketAlways` | `Spec => []UsesOwnSocket` |
| `NothingLeaks` | `Spec => []NoLeak`, if `RcvBufSz = 0` |
| `FamilyNameAlwaysWhole` | `Spec => []FamilyNameIsWhole` |
| `AnswerAlwaysOurs` | `Spec => []AnswerIsOurs` |
| `FailureCopiesNothing` | `Spec => []FailedCallCopiesNothing` |
| `StatsRecvAlwaysFed` | `Spec => []StatsRecvIsFed` |
| `HostFilesAlwaysSurvive` | `Spec => HostFilesSurvive` (an action property) |
| `SuccessAlwaysMeansData` | `Spec => []SuccessMeansData`, if `RecvMayFail = FALSE` and `Pads = FALSE` |
| `Implementation` | `Spec => ImplementsService` (refinement) |

None of the safety properties is inductive. They all follow from one inductive invariant,
`IInv`, which says what is true at every label: a call holds a socket of its own from
`socket` to `close` (`HeldFor`, `UsesOwnSocket`); it asks about something (`AsksSomething`)
and has decided nothing (`Outcome`); the stores it made to `name` are still there, since no
store of any call removes a character (`NameGrows`), so what it sends is the whole name;
its socket carries at most the one message its label calls for (`Conversation`, `LeftOver`),
because a descriptor in nobody's hands carries none (`Quiet`) and every exchange is one
request and one reply. From the last two it follows that a reply can be taken for the answer
although nothing matches it with the request. The proof of a step is split by conjunct
(`TypeStep`, `OwnershipStep`, `ArgumentStep`, `OutcomeStep`, `ConversationStep`, `QuietStep`,
`NothingAskedStep`, `LeftOverStep`), each by action; `Implementation` then maps `Enter`,
`Close` and `Take` to the three steps of the service and every other step to a stutter.
`SuccessAlwaysMeansData` shows that there are two ways to a success without data and no third:
the failed `recv` of run `success` and the padded reply of run `padded`. It needs `NoEmptySuccess`,
the same one step before the return.

`SendCmdProofs` proves `AlwaysSentInOrder`, `Spec => []SentInOrder`, and `TypeCorrect` for data
of any lengths and any way of `sendto` to cut the request. `SentInOrder` alone does not say where the next
bytes come from; the invariant adds that pointer and remaining length meet at the end of the
message (`buf + buflen = msglen`) and that what was accepted is what the pointer has passed.

`TaskStatsReaderProofs` proves `CallsTheLibrary`, `ReaderSpec => Spec`: the API is one way of
using the library, so all of the above holds under it. `AlwaysItsProcess`,
`ReaderSpec => []NeverAnotherProcess`, follows: a result is made of the code and buffer of a
finished call, `IInv` says they answer the caller's own request, and both kinds of request
cover only tasks of the asked id's process (`CoversOwnProcess`). It assumes in addition that
`null` is no result (`NullIsNoResult`). `ReaderTypesCorrect` and `VersionAlwaysTheKernels`
rest on `VersionUnpacked`: whatever code and version are packed into two halves of any size,
the two version calls find the right half (`HalvesComeApart`, `HalfHoldsBoth`).
`VersionAlwaysTheKernels`, `ReaderSpec => []VersionIsTheKernels`, holds with every failure on:
its invariant `Explained` says that a call which ends with 0 and without statistics has `missed`
them itself. What it does not say is that such a call is told so: it gets what `malloc` left.

`CapabilityProbesProofs` proves, for any number of threads and any exports,
`ProbesTypeCorrect`, `AlwaysProbedOnce`, `SupportIsCallability`, `NeverDeadlocks` and
`ProbesUseTheService` (`ProbesSpec => Spec` of the service). Their invariant says who can hold
which lock: the lock of an outer `Lazy` only a thread that reads that property, the lock of
an inner one also a thread whose factory is inside it, and that a value once published is
whether its functions are exported. `NeverDeadlocks` then follows by the order of the locks:
a thread that holds an inner lock waits for nobody, so of threads waiting for each other
all would have to wait for one.

`BuildPipelineProofs` proves the four properties of the job for any set of platforms
(`PackagesAreComplete`, `NeverMixed`, `ErrorAlwaysStopsPackaging`, `GreenAlwaysMeansActual`).
The invariant says what `runtimes` may hold at the steps that read it: nothing but what was
built (`Ours`), or, in a job that has failed before it built anything, all that was checked in.

`InductionLemmas` is the way the next two modules prove facts about lists of any length.
The library's induction theorems take a predicate as a parameter, which the provers cannot
instantiate; `SetInduction` says the same of a set: a set of naturals that holds 0 and the
successor of each of its elements is `Nat`. It is proved from the well-foundedness of the
strict subset order on finite sets, applied to the intervals `0..n`. With it the recursive
functions behind `FlattenSeq` and `End` are shown to exist (so that their `CHOOSE` finds
them) and to do what their definitions say at each position; `FlattenElement` then says
where an element of a flattened list is.

`AttrWalkProofs` proves, for replies of any number of attributes of any types and sizes,

| theorem | states |
|---|---|
| `WalkInvariant` | `Spec => []WalkInv`, the inductive invariant |
| `WalkTypes` | `Spec => []TypeOK` |
| `ReadsOnBoundaries` | `Spec => []OnBoundary` |
| `GivesFirstStats` | `Spec => []FindsFirstStats` |
| `NeverReadsOutside` | `Spec => []ReadsInside` |

all under `AtMostTwoNested`: no aggregate holds more than two attributes. That is what the
kernel sends where it need not pad the statistics, and run `padded` shows that the walk is wrong
without it. The other assumption, `RepliesAreAttributes`, is the form of a netlink reply.
`WalkInv` says that in the outer loop pointer and count both stand at the start of the same
attribute and no statistics have been passed; in the inner loop the outer count is past the
aggregate, the inner count is at the start of a nested attribute or at the end, and the
pointer is where the inner count is as long as a header is left to read. The last part is
what fails after two nested attributes: the code moves the pointer by the count instead of
the length (`na = na + len2`), and the two agree only while the pointer is at the first
attribute. The lemmas under it relate memory to structure: the header at an attribute's
start says its type, and its rounded length leads to the next start (`MessageOffsets`,
`NestedOffsets`).

`TaskStatsLayoutProofs` proves, for any set of versions and both alignments,

| theorem | states |
|---|---|
| `LayoutInvariant` | `Spec => []LayoutInv`, the inductive invariant |
| `CopyAlwaysExact` | `Spec => []CopyIsExact` |
| `MembersAlwaysHoldTheirFields` | `Spec => []MembersHoldTheirFields` |
| `ValuesAlwaysKept` | `Spec => []ValuesKept` |

from the named assumptions of `TaskStatsLayout` (versions from 7 to below 2^15, alignments 4
and 8, `Null` is no record of a member). The argument has three parts. For any list of fields
the layout rule never lets two of them overlap (`FieldsAreApart`, by induction), so a read of
a field's own offset and width gives that field's name and bytes and no other
(`FieldReadsItsName`, `FieldReadsItsBytes`). For struct taskstats itself the offsets follow
one from the other (`FieldPlaces`) and are those `Get_Impl` has by hand, in every version that
has the field (`MembersAre`); the tables `Sizes`, `Aligns` and `Places` are not assumed but proved
equal to what the model's field lists give. And `LayoutInv` says that each member read so
far is what a read would give now, since the copy is made once and before the first read.

Only model-checked: liveness (`Terminates`, `Finishes`, `BlocksOnlyOnLostRequest`,
`PlainReadsReturn`, `ReadsWaitOnlyForACall`), since fairness and ENABLED are outside the prover. Every
safety property of a passing run is stated by a theorem. The five violated properties have
none; two of them are proved where the condition of the finding does not occur
(`ReadsOnBoundaries` under `AtMostTwoNested`, `SuccessAlwaysMeansData` without a failing `recv`
and without padded replies).

## Not modelled

* Debug views and exception texts: formatting without state. The codes themselves are in
  `TaskStatsService`.
* `so-src/original/`: the programs the library was cut from, not built into it.
* Structure dump utilities (`show-taskstat-info.c`, `taskstats-internals/`): they print
  constants and keep no state.
* Tests and load generators: callers, read for how the API is used.
* Of the build: compiling in the container (`in-container.sh`), version logs, the publishing of
  build artifacts, and a workspace used again, where a failed `docker cp` leaves the library of
  an earlier run (rebuild-all.sh:41); hosted agents never are.
* The exception branch of `ErrorAction`: nothing in the assembly sets it.
* The kernel's own work and .NET's `Lazy<T>`: external, as far as the code relies on them.

## Plan

Done: the netlink client, its abstract service and its proofs; `SendCmd`, `AttrWalk`,
`TaskStatsLayout` with its values, `TaskStatsReader`, `CapabilityProbes`, `BuildPipeline` and
the proofs about them.

The proofs cover every safety property of the passing runs. Left, should the code grow: the attribute walk for nests of any depth once its third step is
repaired (run `padded`), and a build workspace that is used again, should the job move to a
self-hosted agent.
