-------------------------- MODULE BuildPipelineProofs --------------------------
(***************************************************************************)
(* Proofs about module BuildPipeline, for any set of platforms and any way *)
(* for its steps to fail and for the job to be cancelled.                  *)
(***************************************************************************)
EXTENDS BuildPipeline, TLAPS

\* Where the libraries in runtimes are from: checked in, as long as nothing was
\* built, or built in this job, as far as they are there.
CheckedIn == runtimes = All("checkedin") /\ built = All(None)
Ours == \A p \in Platforms :
          runtimes[p] # "checkedin" /\ (runtimes[p] = "new" => built[p] = "new")

Origin ==
  /\ step \in {"prepare", "local", "qemu"} => CheckedIn /\ ~failed
  /\ step \in {"build", "clear"} => ~failed
  /\ step \in {"deploy", "test"} => Ours /\ ~failed
  /\ step \in {"packpre", "push", "packrelease"} => Ours \/ (CheckedIn /\ failed)

\* What has been packed when.
Packed ==
  /\ step \notin {"push", "packrelease", "done"} => pre = None
  /\ step \notin {"packrelease", "done"} => pushed = None
  /\ step # "done" => release = None
  /\ step \in {"push", "packrelease"} => pre = runtimes /\ Packable
  /\ step = "packrelease" => pushed = pre

\* What a package can be.
Sound(package) ==
  \/ package = None
  \/ package = All("new") /\ built = All("new")
  \/ package = All("checkedin") /\ built = All(None) /\ failed
Whole == Sound(pre) /\ Sound(release) /\ Sound(pushed)

\* The inductive invariant.
IInv == TypeOK /\ Origin /\ Packed /\ Whole /\ GreenMeansActual

\* What packing takes from runtimes, when it finds everything.
LEMMA PackingIsSound ==
  ASSUME TypeOK, Packable, Ours \/ (CheckedIn /\ failed)
  PROVE  /\ runtimes \in Package
         /\ \/ runtimes = All("new") /\ built = All("new")
            \/ runtimes = All("checkedin") /\ built = All(None) /\ failed
<1>1. CASE Ours
  <2>1. \A p \in Platforms : runtimes[p] = "new" /\ built[p] = "new"
    BY <1>1, NoneIsNothing DEF TypeOK, Packable, Ours
  <2> QED BY <2>1 DEF TypeOK, All, Package
<1>2. CASE CheckedIn /\ failed
  BY <1>2 DEF CheckedIn, All, Package
<1> QED BY <1>1, <1>2

\* A step fails and leaves the files alone.
LEMMA FailsStep ==
  ASSUME IInv, NEW next \in {"packpre", "done"}, Fails(next),
         next = "packpre" =>
           step \in {"prepare", "local", "qemu", "test"}
  PROVE  IInv'
<1>1. /\ failed' = TRUE /\ step' = next /\ UNCHANGED <<todo, built, runtimes, pre, release, pushed>>
  BY DEF Fails, files, packages
<1>2. TypeOK' BY <1>1 DEF IInv, TypeOK, Steps, Package
<1>3. Origin' BY <1>1 DEF IInv, Origin, Ours, CheckedIn, All
<1>4. Packed' BY <1>1 DEF IInv, Packed
<1>5. Whole' BY <1>1 DEF IInv, Whole, Sound, All
<1> QED BY <1>1, <1>2, <1>3, <1>4, <1>5 DEF IInv, GreenMeansActual

\* The steps before anything is packed.
LEMMA BuildStep ==
  ASSUME IInv, NEW p \in Platforms,
         Prepare \/ Local \/ Qemu \/ Build(p) \/ Clear \/ Deploy(p) \/ Test
  PROVE  IInv'
<1>a. IInv => /\ TypeOK /\ Origin
              /\ step \notin {"push", "packrelease", "done"} =>
                   pre = None /\ pushed = None /\ release = None
  BY DEF IInv, Packed
<1>1. CASE Prepare
  <2>1. CASE Fails("packpre") BY <1>1, <2>1, FailsStep DEF Prepare
  <2>2. CASE step' = "local" /\ UNCHANGED <<failed, todo, files, packages>>
    BY <1>1, <2>2
    DEF Prepare, files, packages, IInv, TypeOK, Steps, Package, Origin, CheckedIn, All, Packed,
        Whole, Sound, GreenMeansActual
  <2> QED BY <1>1, <2>1, <2>2 DEF Prepare
<1>2. CASE Local
  <2>1. CASE Fails("packpre") BY <1>2, <2>1, FailsStep DEF Local
  <2>2. CASE step' = "qemu" /\ UNCHANGED <<failed, todo, files, packages>>
    BY <1>2, <2>2
    DEF Local, files, packages, IInv, TypeOK, Steps, Package, Origin, CheckedIn, All, Packed,
        Whole, Sound, GreenMeansActual
  <2> QED BY <1>2, <2>1, <2>2 DEF Local
<1>3. CASE Qemu
  <2>1. CASE Fails("packpre") BY <1>3, <2>1, FailsStep DEF Qemu
  <2>2. CASE step' = "build" /\ todo' = Platforms /\ UNCHANGED <<failed, files, packages>>
    BY <1>3, <2>2
    DEF Qemu, files, packages, IInv, TypeOK, Steps, Package, Origin, CheckedIn, All, Packed,
        Whole, Sound, GreenMeansActual
  <2> QED BY <1>3, <2>1, <2>2 DEF Qemu
<1>4. CASE Build(p)
  <2>1. PICK lib \in {"new", "missed"} : built' = [built EXCEPT ![p] = lib]
    BY <1>4 DEF Build
  <2>2. /\ step = "build" /\ step' \in {"build", "clear"} /\ todo' = todo \ {p}
        /\ UNCHANGED <<failed, runtimes, pre, release, pushed>>
    BY <1>4 DEF Build, packages
  <2>3. TypeOK' BY <2>1, <2>2 DEF IInv, TypeOK, Steps, Package
  <2>4. Origin' BY <2>2 DEF IInv, Origin
  <2>5. Packed' /\ Whole' BY <1>a, <2>2 DEF Packed, Whole, Sound
  <2> QED BY <2>2, <2>3, <2>4, <2>5 DEF IInv, GreenMeansActual
<1>5. CASE Clear
  <2>1. /\ step = "clear" /\ step' = "deploy" /\ todo' = Platforms
        /\ runtimes' = [q \in Platforms |-> None]
        /\ UNCHANGED <<failed, built, pre, release, pushed>>
    BY <1>5 DEF Clear, packages
  <2>2. TypeOK' BY <2>1 DEF IInv, TypeOK, Steps, Package
  <2>3. Origin' BY <2>1, NoneIsNothing DEF IInv, Origin, Ours
  <2>4. Packed' /\ Whole' BY <1>a, <2>1 DEF Packed, Whole, Sound
  <2> QED BY <2>1, <2>2, <2>3, <2>4 DEF IInv, GreenMeansActual
<1>6. CASE Deploy(p)
  <2>1. /\ step = "deploy" /\ step' \in {"deploy", "test"} /\ todo' \in SUBSET Platforms
        /\ UNCHANGED <<failed, built, pre, release, pushed>>
        /\ \/ built[p] = "new" /\ runtimes' = [runtimes EXCEPT ![p] = built[p]]
           \/ UNCHANGED runtimes
    BY <1>6 DEF Deploy, packages, IInv, TypeOK
  <2>2. TypeOK' BY <2>1 DEF IInv, TypeOK, Steps, Package
  <2>3. Ours' BY <2>1 DEF IInv, TypeOK, Origin, Ours
  <2>4. Origin' BY <2>1, <2>3 DEF IInv, Origin
  <2>5. Packed' /\ Whole' BY <1>a, <2>1 DEF Packed, Whole, Sound
  <2> QED BY <2>1, <2>2, <2>4, <2>5 DEF IInv, GreenMeansActual
<1>7. CASE Test
  <2>1. CASE Fails("packpre") BY <1>7, <2>1, FailsStep DEF Test
  <2>2. CASE step' = "packpre" /\ UNCHANGED <<failed, todo, files, packages>>
    BY <1>7, <2>2
    DEF Test, files, packages, IInv, TypeOK, Steps, Package, Origin, Ours, CheckedIn, All,
        Packed, Whole, Sound, GreenMeansActual
  <2> QED BY <1>7, <2>1, <2>2 DEF Test
<1> QED BY <1>1, <1>2, <1>3, <1>4, <1>5, <1>6, <1>7

\* Packing and pushing.
LEMMA PackStep == ASSUME IInv, PackPre \/ Push \/ PackRelease PROVE IInv'
<1>1. CASE PackPre
  <2>1. CASE Fails("done") BY <2>1, FailsStep
  <2>2. CASE /\ Packable /\ pre' = runtimes
             /\ step' = "push" /\ UNCHANGED <<failed, todo, files, release, pushed>>
    <3>1. step = "packpre" BY <1>1 DEF PackPre
    <3>2. UNCHANGED <<built, runtimes>> BY <2>2 DEF files
    <3>3. /\ runtimes \in Package
          /\ \/ runtimes = All("new") /\ built = All("new")
             \/ runtimes = All("checkedin") /\ built = All(None) /\ failed
      BY <2>2, <3>1, PackingIsSound DEF IInv, Origin
    <3>4. TypeOK' BY <2>2, <3>2, <3>3 DEF IInv, TypeOK, Steps, Package
    <3>5. Origin' BY <2>2, <3>1, <3>2 DEF IInv, Origin, Ours, CheckedIn, All
    <3>6. Packed' BY <2>2, <3>1, <3>2 DEF IInv, Packed, Packable
    <3>7. Whole' BY <2>2, <3>2, <3>3 DEF IInv, Whole, Sound, All
    <3> QED BY <2>2, <3>4, <3>5, <3>6, <3>7 DEF IInv, GreenMeansActual
  <2> QED BY <1>1, <2>1, <2>2 DEF PackPre
<1>2. CASE Push
  <2>1. /\ step = "push" /\ UNCHANGED <<todo, built, runtimes, pre, release>>
        /\ pushed' \in {pre, pushed}
        /\ \/ pushed' = pre /\ step' = "packrelease" /\ failed' = failed
           \/ step' = "done" /\ failed' = TRUE
    BY <1>2 DEF Push, files
  <2>2. TypeOK' BY <2>1 DEF IInv, TypeOK, Steps, Package
  <2>3. Origin' BY <2>1 DEF IInv, Origin, Ours, CheckedIn, All
  <2>4. Packed' BY <2>1 DEF IInv, Packed, Packable
  <2>5. Whole' BY <2>1 DEF IInv, Whole, Sound, All
  <2> QED BY <2>1, <2>2, <2>3, <2>4, <2>5 DEF IInv, GreenMeansActual
<1>3. CASE PackRelease
  <2>1. CASE Fails("done") BY <2>1, FailsStep
  <2>2. CASE /\ Packable /\ release' = runtimes /\ failed' \in {failed, TRUE}
             /\ step' = "done" /\ UNCHANGED <<todo, files, pre, pushed>>
    <3>1. step = "packrelease" BY <1>3 DEF PackRelease
    <3>2. UNCHANGED <<built, runtimes>> BY <2>2 DEF files
    <3>3. /\ runtimes \in Package
          /\ \/ runtimes = All("new") /\ built = All("new")
             \/ runtimes = All("checkedin") /\ built = All(None) /\ failed
      BY <2>2, <3>1, PackingIsSound DEF IInv, Origin
    <3>4. TypeOK' BY <2>2, <3>2, <3>3 DEF IInv, TypeOK, Steps, Package
    <3>5. Origin' /\ Packed' BY <2>2 DEF Origin, Packed
    <3>6. Whole'
      <4>1. failed => failed' BY <2>2, Zenon
      <4>2. All("new")' = All("new") /\ All("checkedin")' = All("checkedin")
            /\ All(None)' = All(None)
        BY DEF All
      <4>3. Sound(pre)' /\ Sound(pushed)'
        BY <2>2, <3>2, <4>1, <4>2 DEF IInv, Whole, Sound
      <4>4. Sound(release)' BY <2>2, <3>2, <3>3, <4>1, <4>2 DEF Sound
      <4> QED BY <4>3, <4>4 DEF Whole
    <3>7. GreenMeansActual'
      <4>1. pre = runtimes /\ pushed = runtimes BY <3>1 DEF IInv, Packed
      <4> QED BY <2>2, <3>3, <4>1 DEF GreenMeansActual, All
    <3> QED BY <3>4, <3>5, <3>6, <3>7 DEF IInv
  <2> QED BY <1>3, <2>1, <2>2 DEF PackRelease
<1> QED BY <1>1, <1>2, <1>3

LEMMA Inductive == Spec => []IInv
<1>1. ASSUME Init PROVE IInv
  BY <1>1
  DEF Init, IInv, TypeOK, Steps, Package, Origin, CheckedIn, All, Packed, Whole, Sound,
      GreenMeansActual
<1>2. ASSUME IInv, [Next]_vars PROVE IInv'
  <2>1. CASE Cancel BY <1>2, <2>1, FailsStep DEF Cancel
  <2>2. CASE UNCHANGED vars
    BY <1>2, <2>2
    DEF vars, files, packages, IInv, TypeOK, Origin, Ours, CheckedIn, All, Packed, Packable,
        Whole, Sound, GreenMeansActual
  <2> QED BY <1>2, <2>1, <2>2, BuildStep, PackStep, TestRidIsAPlatform DEF Next
<1>3. Init => IInv BY <1>1
<1>4. IInv /\ [Next]_vars => IInv' BY <1>2
<1> QED BY <1>3, <1>4, PTL DEF Spec

-------------------------------------------------------------------------------
\* Every package has a library for every platform.
THEOREM PackagesAreComplete == Spec => []TypeOK
<1>1. IInv => TypeOK BY DEF IInv
<1> QED BY <1>1, Inductive, PTL

\* All of its libraries have one origin.
THEOREM NeverMixed == Spec => []NoMixedPackage
<1>1. IInv => NoMixedPackage BY DEF IInv, Whole, Sound, NoMixedPackage
<1> QED BY <1>1, Inductive, PTL

\* After a platform was missed nothing is packed.
THEOREM ErrorAlwaysStopsPackaging == Spec => []ErrorStopsPackaging
<1>1. ASSUME IInv PROVE ErrorStopsPackaging
  <2>1. ASSUME NEW p \in Platforms, built[p] = "missed", NEW package, Sound(package)
        PROVE  package = None
    BY <2>1, NoneIsNothing DEF Sound, All
  <2> QED BY <1>1, <2>1 DEF IInv, Whole, ErrorStopsPackaging
<1> QED BY <1>1, Inductive, PTL

\* A job that succeeds publishes what it built.
THEOREM GreenAlwaysMeansActual == Spec => []GreenMeansActual
<1>1. IInv => GreenMeansActual BY DEF IInv
<1> QED BY <1>1, Inductive, PTL
===============================================================================
