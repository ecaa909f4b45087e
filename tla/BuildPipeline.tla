----------------------------- MODULE BuildPipeline -----------------------------
(***************************************************************************)
(* One run of the build job (azure-steps-nix.yml) on a fresh hosted agent: *)
(* the shared object is built for every platform in a container            *)
(* (so-src/rebuild-all.sh), copied over the checked-in ones                *)
(* (so-src/deploy-to-runtimes.sh), tested, packed twice (build-nuget.sh)   *)
(* and the pre-release package pushed.  Most scripts end with success      *)
(* whatever happened inside, and packing runs even after a failure; what   *)
(* keeps a wrong library out of a package is spread over all of them.      *)
(* Platforms are worked on in any order.                                   *)
(***************************************************************************)
CONSTANTS
  Platforms,  \* the nine runtime identifiers
  TestRid,    \* linux-x64, whose library the tests load
  None        \* no library, no package

ASSUME TestRidIsAPlatform == TestRid \in Platforms
ASSUME NoneIsNothing ==
  None \notin {"checkedin", "new", "missed"} /\ None \notin [Platforms -> {"checkedin", "new"}]

VARIABLES
  step,      \* the step the job is at
  failed,    \* a step has failed
  todo,      \* platforms the loop of the step has not come to
  built,     \* built[p]: the library in so-src/runtimes, "missed" if there is none
  runtimes,  \* runtimes[p]: the library in runtimes, where packing looks
  pre,       \* the libraries in the pre-release package, once packed
  release,   \* those in the release package
  pushed     \* those in the package nuget.org has been given

files == <<built, runtimes>>
packages == <<pre, release, pushed>>
vars == <<step, failed, todo, files, packages>>

Init ==
  /\ step = "prepare" /\ failed = FALSE /\ todo = {}
  /\ built = [p \in Platforms |-> None]
  /\ runtimes = [p \in Platforms |-> "checkedin"]
  /\ pre = None /\ release = None /\ pushed = None

\* Packing has condition succeededOrFailed(): a step that fails is followed by
\* it.  When packing itself fails there is nothing left to do.
Fails(next) == failed' = TRUE /\ step' = next /\ UNCHANGED <<todo, files, packages>>

\* Tools, re-build-local.sh and qemu: steps whose failure is seen.
Prepare ==
  /\ step = "prepare"
  /\ \/ step' = "local" /\ UNCHANGED <<failed, todo, files, packages>>
     \/ Fails("packpre")

Local ==
  /\ step = "local"
  /\ \/ step' = "qemu" /\ UNCHANGED <<failed, todo, files, packages>>
     \/ Fails("packpre")

Qemu ==
  /\ step = "qemu"
  /\ \/ step' = "build" /\ todo' = Platforms /\ UNCHANGED <<failed, files, packages>>
     \/ Fails("packpre")

\* One call of build in rebuild-all.sh: docker cp finds a library or does not.
\* The errors are counted and the count is not looked at.
Build(p) ==
  /\ step = "build" /\ p \in todo
  /\ \E lib \in {"new", "missed"} : built' = [built EXCEPT ![p] = lib]
  /\ todo' = todo \ {p}
  /\ step' = IF todo = {p} THEN "clear" ELSE "build"
  /\ UNCHANGED <<failed, runtimes, packages>>

\* rm -rf ./runtimes.
\* Mutant: the checked-in libraries stay.
ClearSkipped ==
  /\ step = "clear"
  /\ step' = "deploy" /\ todo' = Platforms
  /\ UNCHANGED <<failed, files, packages>>
Clear ==
  /\ step = "clear"
  /\ runtimes' = [p \in Platforms |-> None]
  /\ step' = "deploy" /\ todo' = Platforms
  /\ UNCHANGED <<failed, built, packages>>

\* deploy-to-runtimes.sh copies until a copy fails; the step ends with popd and
\* succeeds.
Deploy(p) ==
  /\ step = "deploy" /\ p \in todo
  /\ \/ /\ built[p] = "new"
        /\ runtimes' = [runtimes EXCEPT ![p] = built[p]]
        /\ todo' = todo \ {p}
        /\ step' = IF todo = {p} THEN "test" ELSE "deploy"
     \/ step' = "test" /\ todo' = {} /\ UNCHANGED runtimes
  /\ UNCHANGED <<failed, built, packages>>

\* dotnet publish takes the library of TestRid along and fails without it; the
\* result of dotnet test is lost in the pipe to tee.
Test ==
  /\ step = "test"
  /\ \/ /\ runtimes[TestRid] # None
        /\ step' = "packpre" /\ UNCHANGED <<failed, todo, files, packages>>
     \/ Fails("packpre")

\* build-nuget.sh under set -e: a copy that finds no library ends the step.
\* Mutant: a library that is missing is left out of the package.
PackableAlways == TRUE
Packable == \A p \in Platforms : runtimes[p] # None

PackPre ==
  /\ step = "packpre"
  /\ \/ /\ Packable
        /\ pre' = runtimes
        /\ step' = "push" /\ UNCHANGED <<failed, todo, files, release, pushed>>
     \/ Fails("done")

\* try-and-retry nuget push; a failure ends the step, even one of which only the
\* answer was lost.
\* Mutant: a push that fails is passed over.
PushUnchecked ==
  /\ step = "push"
  /\ \/ pushed' = pre \/ UNCHANGED pushed
  /\ step' = "packrelease" /\ UNCHANGED <<failed, todo, files, pre, release>>
Push ==
  /\ step = "push"
  /\ \/ pushed' = pre /\ step' = "packrelease" /\ UNCHANGED failed
     \/ pushed' \in {pre, pushed} /\ step' = "done" /\ failed' = TRUE
  /\ UNCHANGED <<todo, files, pre, release>>

\* The release package, and after it the symbols, which may not be there.
PackRelease ==
  /\ step = "packrelease"
  /\ \/ /\ Packable
        /\ release' = runtimes
        /\ failed' \in {failed, TRUE}
        /\ step' = "done" /\ UNCHANGED <<todo, files, pre, pushed>>
     \/ Fails("done")

\* The job is cancelled or runs into its 120 minutes: no step comes after that,
\* and it counts as failed.
Cancel ==
  /\ step # "done"
  /\ Fails("done")

Next ==
  \/ Prepare \/ Local \/ Qemu \/ Clear \/ Test \/ PackPre \/ Push \/ PackRelease \/ Cancel
  \/ \E p \in Platforms : Build(p) \/ Deploy(p)

Spec == Init /\ [][Next]_vars

-------------------------------------------------------------------------------
Steps == {"prepare", "local", "qemu", "build", "clear", "deploy", "test", "packpre",
          "push", "packrelease", "done"}
Package == [Platforms -> {"checkedin", "new"}]

\* The type invariant: a package has a library for every platform.
TypeOK ==
  /\ step \in Steps /\ failed \in BOOLEAN /\ todo \in SUBSET Platforms
  /\ built \in [Platforms -> {None, "missed", "new"}]
  /\ runtimes \in [Platforms -> {None, "checkedin", "new"}]
  /\ pre \in Package \cup {None} /\ release \in Package \cup {None}
  /\ pushed \in Package \cup {None}

All(lib) == [p \in Platforms |-> lib]

\* A package holds libraries of one origin: all checked in, when the job failed
\* before it deployed any, or all built in this job; never some of each, although
\* building and deploying may stop at any platform and packing runs regardless.
NoMixedPackage ==
  \A package \in {pre, release, pushed} \ {None} : package \in {All("checkedin"), All("new")}

\* "nuget build will fail later in case of error" (rebuild-all.sh:17): although no
\* step says that the build of a platform failed, there is no package after that.
ErrorStopsPackaging ==
  (\E p \in Platforms : built[p] = "missed") => pre = None /\ release = None /\ pushed = None

\* A job that succeeds has pushed and kept packages of what it built, for every
\* platform.
GreenMeansActual ==
  step = "done" /\ ~failed =>
    pre = All("new") /\ release = All("new") /\ pushed = All("new")
===============================================================================
