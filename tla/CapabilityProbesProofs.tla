------------------------ MODULE CapabilityProbesProofs ------------------------
(***************************************************************************)
(* Proofs about module CapabilityProbes, for any threads and tasks and     *)
(* whatever the shared object exports.                                     *)
(***************************************************************************)
EXTENDS CapabilityProbes, TLAPS

\* Who is inside the lock of a Lazy is evaluating it, and it has no value yet.
HolderEvaluates ==
  \A l \in Lazies, u \in Threads : holder[l] = u =>
    /\ value[l] = None
    /\ \/ reading[u] = l
       \/ nested[u] /\ reading[u] \in DOMAIN Inner /\ Inner[reading[u]] = l

\* Who reads an inner Lazy is inside the lock of the outer.
NestedInside ==
  \A t \in Threads : nested[t] => reading[t] \in DOMAIN Inner /\ holder[reading[t]] = t

\* Values are right from the moment they are published.
ValuesRight ==
  \A l \in Lazies : value[l] # None => value[l] = (Needed(l) \subseteq exports)

\* get_taskstats is only called from its factory, after the inner Lazy said yes.
CallsInside ==
  \A t \in Threads : phase[t] # "idle" =>
    /\ reading[t] \in DOMAIN Inner /\ ~nested[t] /\ holder[reading[t]] = t
    /\ value[Inner[reading[t]]] = TRUE /\ "get_taskstats" \in exports

AnswersRight ==
  \A t \in Threads : got[t] # None => got[t].is = (Needed(got[t].of) \subseteq exports)

\* The inductive invariant.
IInv == ProbesTypeOK /\ HolderEvaluates /\ NestedInside /\ ValuesRight /\ CallsInside
        /\ AnswersRight

\* The Lazies, spelled out.
LEMMA LazyNames ==
  /\ DOMAIN Inner = {"process", "thread"} /\ Inner["process"] = "pid" /\ Inner["thread"] = "tid"
  /\ Lazies = {"pid", "tid", "process", "thread"}
  /\ None \notin Lazies /\ None \notin Threads /\ None # TRUE /\ None # FALSE
<1>1. /\ DOMAIN Inner = {"process", "thread"} /\ Inner["process"] = "pid"
      /\ Inner["thread"] = "tid"
  BY DEF Inner
<1>2. TRUE \in BOOLEAN /\ FALSE \in BOOLEAN OBVIOUS
<1>3. None # TRUE /\ None # FALSE BY <1>2, NoneIsNone, Zenon
<1> QED BY <1>1, <1>3, NoneIsNone DEF Plain, Lazies

\* The ids a probe asks about are ids.
LEMMA ProbeArgsTyped ==
  ASSUME NEW t \in Threads, NEW l \in Lazies PROVE ProbeArgs(t, l) \in Args
BY IdsAreTasks DEF ProbeArgs, Args

\* The Lazy a reading thread is at.
LEMMA AtTyped ==
  ASSUME IInv, NEW t \in Threads, reading[t] # None PROVE At(t) \in Lazies
BY LazyNames DEF IInv, ProbesTypeOK, NestedInside, At

\* It starts true.
LEMMA InvInit == ASSUME ProbesInit PROVE IInv
<1>1. ProbesTypeOK
  BY DEF ProbesInit, Init, ProbesTypeOK, NoArgs, Args
<1> QED BY <1>1, LazyNames
  DEF ProbesInit, Init, IInv, HolderEvaluates, NestedInside, ValuesRight, CallsInside, AnswersRight


\* Value returning b, the right answer, keeps what readers have been told.
LEMMA ReturnsKeeps ==
  ASSUME IInv, NEW t \in Threads, NEW b \in BOOLEAN, reading[t] # None, Returns(t, b),
         b = (Needed(At(t)) \subseteq exports), UNCHANGED exports
  PROVE  /\ AnswersRight'
         /\ reading' \in [Threads -> Lazies \cup {None}]
         /\ nested' \in [Threads -> BOOLEAN]
         /\ got' \in [Threads -> [of : Lazies, is : BOOLEAN] \cup {None}]
         /\ \A u \in Threads \ {t} : reading'[u] = reading[u] /\ nested'[u] = nested[u]
         /\ IF nested[t] THEN reading'[t] = reading[t] ELSE reading'[t] = None
         /\ nested'[t] = FALSE
<1>1. CASE nested[t]
  BY <1>1, LazyNames DEF IInv, ProbesTypeOK, Returns, AnswersRight
<1>2. CASE ~nested[t]
  <2>1. At(t) = reading[t] BY <1>2 DEF At
  <2>2. got' = [got EXCEPT ![t] = [of |-> reading[t], is |-> b]] BY <1>2 DEF Returns
  <2>3. reading' = [reading EXCEPT ![t] = None] /\ nested' = nested BY <1>2 DEF Returns
  <2>4. reading[t] \in Lazies BY <2>1, AtTyped
  <2>5. AnswersRight' BY <2>1, <2>2 DEF IInv, ProbesTypeOK, AnswersRight
  <2> QED BY <1>2, <2>2, <2>3, <2>4, <2>5 DEF IInv, ProbesTypeOK
<1> QED BY <1>1, <1>2

\* A factory returning the right answer keeps everything.
LEMMA PublishKeeps ==
  ASSUME IInv, NEW t \in Threads, NEW b \in BOOLEAN, Holds(t), Publish(t, b),
         b = (Needed(At(t)) \subseteq exports), UNCHANGED exports,
         (UNCHANGED vars /\ phase[t] = "idle") \/ Take(t)
  PROVE  IInv'
<1> DEFINE l == At(t)
<1>a. reading[t] # None /\ holder[l] = t BY DEF Holds
<1>b. l \in Lazies BY <1>a, AtTyped
<1>c. /\ value' = [value EXCEPT ![l] = b] /\ holder' = [holder EXCEPT ![l] = None]
      /\ Returns(t, b)
  BY DEF Publish
<1>d. /\ AnswersRight'
      /\ reading' \in [Threads -> Lazies \cup {None}] /\ nested' \in [Threads -> BOOLEAN]
      /\ got' \in [Threads -> [of : Lazies, is : BOOLEAN] \cup {None}]
      /\ \A u \in Threads \ {t} : reading'[u] = reading[u] /\ nested'[u] = nested[u]
      /\ IF nested[t] THEN reading'[t] = reading[t] ELSE reading'[t] = None
      /\ nested'[t] = FALSE
  BY <1>a, <1>c, ReturnsKeeps
<1>e. l = IF nested[t] THEN Inner[reading[t]] ELSE reading[t] BY DEF At
<1> DEFINE Given == UNION {Answers(a) : a \in Args}
<1>p. /\ phase \in [Threads -> {"idle", "busy", "answered"}] /\ asked \in [Threads -> Args]
      /\ answer \in [Threads -> {NoAnswer} \cup Given]
  BY DEF IInv, ProbesTypeOK
<1> HIDE DEF l, Given
<1>1. /\ phase' \in [Threads -> {"idle", "busy", "answered"}]
      /\ asked' \in [Threads -> Args]
      /\ answer' \in [Threads -> {NoAnswer} \cup Given]
      /\ phase'[t] = "idle" /\ \A u \in Threads \ {t} : phase'[u] = phase[u]
  <2>1. CASE UNCHANGED vars /\ phase[t] = "idle" BY <2>1, <1>p DEF vars
  <2>2. CASE Take(t)
    <3>1. NoArgs \in Args BY DEF NoArgs, Args
    <3>2. asked' \in [Threads -> Args] BY <2>2, <3>1, <1>p DEF Take
    <3>3. answer' \in [Threads -> {NoAnswer} \cup Given] BY <2>2, <1>p DEF Take
    <3> QED BY <2>2, <3>2, <3>3, <1>p DEF Take
  <2> QED BY <2>1, <2>2
<1>2. ProbesTypeOK' BY <1>b, <1>c, <1>d, <1>1 DEF IInv, ProbesTypeOK, Given
<1>3. HolderEvaluates'
  <2> SUFFICES ASSUME NEW k \in Lazies, NEW u \in Threads, holder'[k] = u
               PROVE  /\ value'[k] = None
                      /\ \/ reading'[u] = k
                         \/ nested'[u] /\ reading'[u] \in DOMAIN Inner /\ Inner[reading'[u]] = k
    BY DEF HolderEvaluates
  <2>1. k # l /\ holder[k] = u /\ value'[k] = value[k]
    BY <1>b, <1>c, LazyNames DEF IInv, ProbesTypeOK
  <2>2. /\ value[k] = None
        /\ \/ reading[u] = k
           \/ nested[u] /\ reading[u] \in DOMAIN Inner /\ Inner[reading[u]] = k
    BY <2>1 DEF IInv, HolderEvaluates
  <2>3. CASE u = t BY <1>d, <1>e, <2>1, <2>2, <2>3
  <2>4. CASE u # t BY <1>d, <2>1, <2>2, <2>4
  <2> QED BY <2>3, <2>4
<1>4. NestedInside'
  <2> SUFFICES ASSUME NEW u \in Threads, nested'[u]
               PROVE  reading'[u] \in DOMAIN Inner /\ holder'[reading'[u]] = u
    BY DEF NestedInside
  <2>1. u # t /\ nested[u] /\ reading'[u] = reading[u] BY <1>d
  <2>2. reading[u] \in DOMAIN Inner /\ holder[reading[u]] = u BY <2>1 DEF IInv, NestedInside
  <2>3. reading[u] # l BY <1>a, <2>1, <2>2 DEF l
  <2> QED BY <1>c, <2>1, <2>2, <2>3, LazyNames DEF IInv, ProbesTypeOK
<1>5. ValuesRight'
  BY <1>b, <1>c DEF IInv, ProbesTypeOK, ValuesRight, l
<1>6. CallsInside'
  <2> SUFFICES ASSUME NEW u \in Threads, phase'[u] # "idle"
               PROVE  /\ reading'[u] \in DOMAIN Inner /\ ~nested'[u] /\ holder'[reading'[u]] = u
                      /\ value'[Inner[reading'[u]]] = TRUE /\ "get_taskstats" \in exports'
    BY DEF CallsInside
  <2>1. u # t /\ phase[u] # "idle" BY <1>1
  <2>2. /\ reading[u] \in DOMAIN Inner /\ ~nested[u] /\ holder[reading[u]] = u
        /\ value[Inner[reading[u]]] = TRUE /\ "get_taskstats" \in exports
    BY <2>1 DEF IInv, CallsInside
  <2>3. reading[u] # l BY <1>a, <2>1, <2>2 DEF l
  <2>4. Inner[reading[u]] # l
    <3>1. value[l] = None BY <1>a, <1>b DEF IInv, HolderEvaluates, l
    <3> QED BY <2>2, <3>1, LazyNames
  <2> QED BY <1>b, <1>c, <1>d, <2>1, <2>2, <2>3, <2>4, LazyNames DEF IInv, ProbesTypeOK
<1> QED BY <1>2, <1>3, <1>4, <1>5, <1>6, <1>d DEF IInv

\* A Value that is there is returned as it was published.
LEMMA CachedStep == ASSUME IInv, NEW t \in Threads, Cached(t) PROVE IInv'
<1>1. /\ reading[t] # None /\ value[At(t)] # None /\ Returns(t, value[At(t)])
      /\ UNCHANGED <<vars, exports, value, holder>>
  BY DEF Cached
<1>2. At(t) \in Lazies BY <1>1, AtTyped
<1>3. /\ value[At(t)] \in BOOLEAN
      /\ value[At(t)] = (Needed(At(t)) \subseteq exports)
      /\ holder[At(t)] # t
  BY <1>1, <1>2 DEF IInv, ProbesTypeOK, ValuesRight, HolderEvaluates
<1>4. /\ AnswersRight'
      /\ reading' \in [Threads -> Lazies \cup {None}] /\ nested' \in [Threads -> BOOLEAN]
      /\ got' \in [Threads -> [of : Lazies, is : BOOLEAN] \cup {None}]
      /\ \A u \in Threads \ {t} : reading'[u] = reading[u] /\ nested'[u] = nested[u]
      /\ IF nested[t] THEN reading'[t] = reading[t] ELSE reading'[t] = None
      /\ nested'[t] = FALSE
  BY <1>1, <1>3, ReturnsKeeps
<1>5. At(t) = IF nested[t] THEN Inner[reading[t]] ELSE reading[t] BY DEF At
<1>6. ProbesTypeOK' BY <1>1, <1>4 DEF IInv, ProbesTypeOK, vars
<1>7. HolderEvaluates'
  <2> SUFFICES ASSUME NEW k \in Lazies, NEW u \in Threads, holder[k] = u
               PROVE  /\ value[k] = None
                      /\ \/ reading'[u] = k
                         \/ nested'[u] /\ reading'[u] \in DOMAIN Inner /\ Inner[reading'[u]] = k
    BY <1>1 DEF HolderEvaluates
  <2>1. /\ value[k] = None /\ (u = t => k # At(t))
        /\ \/ reading[u] = k
           \/ nested[u] /\ reading[u] \in DOMAIN Inner /\ Inner[reading[u]] = k
    BY <1>3 DEF IInv, HolderEvaluates
  <2> QED BY <1>4, <1>5, <2>1
<1>8. NestedInside' BY <1>1, <1>4 DEF IInv, NestedInside
<1>9. ValuesRight' BY <1>1 DEF IInv, ValuesRight
<1>10. CallsInside'
  <2>1. \A u \in Threads : phase[u] # "idle" => u # t
    BY <1>1, <1>3, <1>5 DEF IInv, CallsInside
  <2> QED BY <1>1, <1>4, <2>1 DEF IInv, CallsInside, vars
<1> QED BY <1>4, <1>6, <1>7, <1>8, <1>9, <1>10 DEF IInv

\* A thread that finds the lock free goes in.
LEMMA EnterStep == ASSUME IInv, NEW t \in Threads, Enter(t) PROVE IInv'
<1>1. /\ reading[t] # None /\ value[At(t)] = None /\ holder[At(t)] = None
      /\ holder' = [holder EXCEPT ![At(t)] = t]
      /\ UNCHANGED <<vars, exports, value, reading, nested, got>>
  BY DEF Enter
<1>2. At(t) \in Lazies BY <1>1, AtTyped
<1>3. \A k \in Lazies : holder'[k] = IF k = At(t) THEN t ELSE holder[k]
  BY <1>1, <1>2 DEF IInv, ProbesTypeOK
<1>4. ProbesTypeOK' BY <1>1, <1>2 DEF IInv, ProbesTypeOK, vars
<1>5. HolderEvaluates'
  <2>1. \/ reading[t] = At(t)
        \/ nested[t] /\ reading[t] \in DOMAIN Inner /\ Inner[reading[t]] = At(t)
    BY DEF IInv, NestedInside, At
  <2> HIDE DEF At
  <2> QED BY <1>1, <1>3, <2>1 DEF IInv, HolderEvaluates
<1>6. NestedInside'
  <2>1. \A u \in Threads : nested[u] => reading[u] # At(t)
    BY <1>1, LazyNames DEF IInv, NestedInside
  <2> QED BY <1>1, <1>3, <2>1, LazyNames DEF IInv, NestedInside
<1>7. ValuesRight' /\ AnswersRight' BY <1>1 DEF IInv, ValuesRight, AnswersRight
<1>8. CallsInside'
  <2>1. \A u \in Threads : phase[u] # "idle" => reading[u] # At(t)
    BY <1>1, LazyNames DEF IInv, CallsInside
  <2> QED BY <1>1, <1>3, <2>1, LazyNames DEF IInv, CallsInside, vars
<1> QED BY <1>4, <1>5, <1>6, <1>7, <1>8 DEF IInv

\* A thread begins to read a property ...
LEMMA ReadStep == ASSUME IInv, NEW t \in Threads, Read(t) PROVE IInv'
<1>1. PICK l \in Lazies : reading' = [reading EXCEPT ![t] = l] BY DEF Read
<1>2. /\ reading[t] = None /\ got' = [got EXCEPT ![t] = None]
      /\ UNCHANGED <<vars, exports, value, holder, nested>>
  BY DEF Read
<1>3. ~nested[t] /\ phase[t] = "idle" /\ \A k \in Lazies : holder[k] # t
  BY <1>2, LazyNames DEF IInv, NestedInside, CallsInside, HolderEvaluates
<1>4. \A u \in Threads \ {t} : reading'[u] = reading[u] BY <1>1 DEF IInv, ProbesTypeOK
<1>5. ProbesTypeOK' BY <1>1, <1>2 DEF IInv, ProbesTypeOK, vars
<1>6. HolderEvaluates' BY <1>2, <1>3, <1>4 DEF IInv, HolderEvaluates
<1>7. NestedInside' BY <1>2, <1>3, <1>4 DEF IInv, NestedInside
<1>8. ValuesRight' BY <1>2 DEF IInv, ValuesRight
<1>9. CallsInside' BY <1>2, <1>3, <1>4 DEF IInv, CallsInside, vars
<1>10. AnswersRight' BY <1>2 DEF IInv, ProbesTypeOK, AnswersRight
<1> QED BY <1>5, <1>6, <1>7, <1>8, <1>9, <1>10 DEF IInv

\* ... and its factory another.
LEMMA ReadInnerStep == ASSUME IInv, NEW t \in Threads, ReadInner(t) PROVE IInv'
<1>1. /\ Holds(t) /\ ~nested[t] /\ reading[t] \in DOMAIN Inner
      /\ value[Inner[reading[t]]] = None
      /\ nested' = [nested EXCEPT ![t] = TRUE]
      /\ UNCHANGED <<vars, exports, value, holder, reading, got>>
  BY DEF ReadInner
<1>2. holder[reading[t]] = t BY <1>1 DEF Holds, At
<1>3. \A u \in Threads : nested'[u] <=> (u = t \/ nested[u]) BY <1>1 DEF IInv, ProbesTypeOK
<1>4. phase[t] = "idle" BY <1>1, LazyNames DEF IInv, CallsInside
<1>5. ProbesTypeOK' BY <1>1 DEF IInv, ProbesTypeOK, vars
<1>6. HolderEvaluates' BY <1>1, <1>3 DEF IInv, HolderEvaluates
<1>7. NestedInside' BY <1>1, <1>2, <1>3 DEF IInv, NestedInside
<1>8. ValuesRight' /\ AnswersRight' BY <1>1 DEF IInv, ValuesRight, AnswersRight
<1>9. CallsInside' BY <1>1, <1>3, <1>4 DEF IInv, CallsInside, vars
<1> QED BY <1>5, <1>6, <1>7, <1>8, <1>9 DEF IInv

\* A factory that holds the lock and is not reading another Lazy is at its own.
LEMMA OwnLock ==
  ASSUME NEW t \in Threads, Holds(t), ~nested[t]
  PROVE  At(t) = reading[t] /\ holder[reading[t]] = t
BY DEF Holds, At

\* get_taskstats is called ...
LEMMA AskStep ==
  ASSUME IInv, NEW t \in Threads, Ask(t), asked'[t] = ProbeArgs(t, reading[t]),
         Holds(t), ~nested[t], reading[t] \in DOMAIN Inner,
         value[Inner[reading[t]]] = TRUE, "get_taskstats" \in exports, UNCHANGED lazyVars
  PROVE  IInv'
<1>1. /\ phase' = [phase EXCEPT ![t] = "busy"] /\ answer' = answer
      /\ \E a \in Args : asked' = [asked EXCEPT ![t] = a]
  BY DEF Ask
<1>2. ProbesTypeOK' BY <1>1 DEF IInv, ProbesTypeOK, lazyVars
<1>3. HolderEvaluates' BY DEF IInv, HolderEvaluates, lazyVars
<1>4. NestedInside' BY DEF IInv, NestedInside, lazyVars
<1>5. ValuesRight' /\ AnswersRight' BY DEF IInv, ValuesRight, AnswersRight, lazyVars
<1>6. CallsInside' BY <1>1, OwnLock DEF IInv, ProbesTypeOK, CallsInside, lazyVars
<1> QED BY <1>2, <1>3, <1>4, <1>5, <1>6 DEF IInv

\* ... and comes back.
LEMMA NativeReplyStep == ASSUME IInv, NEW t \in Threads, NativeReply(t) PROVE IInv'
<1>1. /\ phase[t] = "busy" /\ phase' = [phase EXCEPT ![t] = "answered"] /\ asked' = asked
      /\ \E r \in Answers(asked[t]) : answer' = [answer EXCEPT ![t] = r]
      /\ UNCHANGED lazyVars
  BY DEF NativeReply, Reply
<1>2. asked[t] \in Args BY DEF IInv, ProbesTypeOK
<1>3. ProbesTypeOK' BY <1>1, <1>2 DEF IInv, ProbesTypeOK, lazyVars
<1>4. HolderEvaluates' BY <1>1 DEF IInv, HolderEvaluates, lazyVars
<1>5. NestedInside' BY <1>1 DEF IInv, NestedInside, lazyVars
<1>6. ValuesRight' /\ AnswersRight' BY <1>1 DEF IInv, ValuesRight, AnswersRight, lazyVars
<1>7. CallsInside' BY <1>1 DEF IInv, ProbesTypeOK, CallsInside, lazyVars
<1> QED BY <1>3, <1>4, <1>5, <1>6, <1>7 DEF IInv

\* The four factories.
LEMMA FactoryStep ==
  ASSUME IInv, NEW t \in Threads,
         CallPlain(t) \/ Refuse(t) \/ Probe(t) \/ ProbeReturns(t)
  PROVE  IInv'
<1>1. CASE CallPlain(t)
  <2>1. /\ Holds(t) /\ At(t) \in Plain /\ Publish(t, FunctionOf(At(t)) \in exports)
        /\ UNCHANGED <<vars, exports>>
    BY <1>1 DEF CallPlain
  <2>2. (FunctionOf(At(t)) \in exports) = (Needed(At(t)) \subseteq exports)
    BY <2>1 DEF Needed
  <2>3. phase[t] = "idle"
    BY <2>1, LazyNames DEF IInv, CallsInside, Plain, At
  <2>4. (FunctionOf(At(t)) \in exports) \in BOOLEAN OBVIOUS
  <2> QED BY <2>1, <2>2, <2>3, <2>4, PublishKeeps
<1>2. CASE Refuse(t)
  <2>1. /\ Holds(t) /\ ~nested[t] /\ reading[t] \in DOMAIN Inner
        /\ value[Inner[reading[t]]] = FALSE /\ Publish(t, FALSE) /\ UNCHANGED <<vars, exports>>
    BY <1>2 DEF Refuse
  <2>2. At(t) = reading[t] BY <2>1, OwnLock
  <2>3. phase[t] = "idle" BY <2>1 DEF IInv, CallsInside
  <2>4. ~(Needed(Inner[reading[t]]) \subseteq exports)
    BY <2>1, LazyNames DEF IInv, ValuesRight
  <2>5. ~(Needed(At(t)) \subseteq exports)
    BY <2>1, <2>2, <2>4, LazyNames DEF Needed, Plain
  <2>6. FALSE = (Needed(At(t)) \subseteq exports) BY <2>5
  <2> QED BY <2>1, <2>3, <2>6, PublishKeeps
<1>3. ASSUME Holds(t), ~nested[t], reading[t] \in DOMAIN Inner,
             value[Inner[reading[t]]] = TRUE
      PROVE  /\ At(t) = reading[t]
             /\ (Needed(At(t)) \subseteq exports) = ("get_taskstats" \in exports)
  <2>1. At(t) = reading[t] BY <1>3, OwnLock
  <2>2. Needed(Inner[reading[t]]) \subseteq exports
    BY <1>3, LazyNames DEF IInv, ValuesRight
  <2> QED BY <1>3, <2>1, <2>2, LazyNames DEF Needed, Plain
<1>4. CASE Probe(t)
  <2>1. /\ Holds(t) /\ ~nested[t] /\ reading[t] \in DOMAIN Inner
        /\ value[Inner[reading[t]]] = TRUE /\ phase[t] = "idle" /\ UNCHANGED exports
    BY <1>4 DEF Probe
  <2>2. CASE "get_taskstats" \in exports
    <3>1. Ask(t) /\ asked'[t] = ProbeArgs(t, reading[t]) /\ UNCHANGED lazyVars
      BY <1>4, <2>2 DEF Probe, lazyVars
    <3> QED BY <2>1, <2>2, <3>1, AskStep
  <2>3. CASE "get_taskstats" \notin exports
    <3>1. Publish(t, FALSE) /\ UNCHANGED vars BY <1>4, <2>3 DEF Probe
    <3>2. FALSE = (Needed(At(t)) \subseteq exports) BY <1>3, <2>1, <2>3
    <3> QED BY <2>1, <3>1, <3>2, PublishKeeps
  <2> QED BY <2>2, <2>3
<1>5. CASE ProbeReturns(t)
  <2>1. Holds(t) /\ Take(t) /\ Publish(t, TRUE) /\ UNCHANGED exports
    BY <1>5 DEF ProbeReturns
  <2>2. phase[t] # "idle" BY <2>1 DEF Take
  <2>3. /\ reading[t] \in DOMAIN Inner /\ ~nested[t] /\ value[Inner[reading[t]]] = TRUE
        /\ "get_taskstats" \in exports
    BY <2>2 DEF IInv, CallsInside
  <2>4. TRUE = (Needed(At(t)) \subseteq exports) BY <1>3, <2>1, <2>3
  <2> QED BY <2>1, <2>4, PublishKeeps
<1> QED BY <1>1, <1>2, <1>4, <1>5

\* Every step keeps the invariant.
LEMMA InvStep == ASSUME IInv, [ProbesNext]_probeVars PROVE IInv'
<1>1. ASSUME NEW t \in Threads, Proceed(t) PROVE IInv'
  BY <1>1, CachedStep, EnterStep, ReadInnerStep, FactoryStep DEF Proceed
<1>2. CASE UNCHANGED probeVars
  BY <1>2 DEF probeVars, vars, lazyVars, IInv, ProbesTypeOK, HolderEvaluates, NestedInside,
              ValuesRight, CallsInside, AnswersRight
<1> QED BY <1>1, <1>2, ReadStep, NativeReplyStep DEF ProbesNext

LEMMA Inductive == ProbesSpec => []IInv
<1>1. ProbesInit => IInv BY InvInit
<1>2. IInv /\ [ProbesNext]_probeVars => IInv' BY InvStep
<1> QED BY <1>1, <1>2, PTL DEF ProbesSpec

-------------------------------------------------------------------------------
\* Type correctness, with any threads, tasks and exports.
THEOREM ProbesTypeCorrect == ProbesSpec => []ProbesTypeOK
<1>1. IInv => ProbesTypeOK BY DEF IInv
<1> QED BY <1>1, Inductive, PTL

\* get_taskstats is never called for a property by two threads at a time, nor
\* once the property is known.
THEOREM AlwaysProbedOnce == ProbesSpec => []ProbedOnce
<1>1. ASSUME IInv PROVE ProbedOnce
  <2>1. \A t \in Threads : phase[t] # "idle" =>
          reading[t] \in Lazies /\ holder[reading[t]] = t /\ value[reading[t]] = None
    BY <1>1, LazyNames DEF IInv, CallsInside, HolderEvaluates
  <2> QED BY <2>1, LazyNames DEF ProbedOnce
<1> QED BY <1>1, Inductive, PTL

\* What a property says is whether its functions are exported.
THEOREM SupportIsCallability == ProbesSpec => []SupportedMeansCallable
<1>1. ASSUME IInv PROVE SupportedMeansCallable
  <2> SUFFICES ASSUME NEW t \in Threads, got[t] # None
               PROVE  got[t].is <=> Needed(got[t].of) \subseteq exports
    BY DEF SupportedMeansCallable
  <2>1. got[t].is = (Needed(got[t].of) \subseteq exports) BY <1>1 DEF IInv, AnswersRight
  <2> QED BY <2>1
<1> QED BY <1>1, Inductive, PTL

\* Who waits for a Lazy waits for a thread that is inside its lock and runs, or
\* that has gone on to the inner Lazy, whose holder never goes anywhere.
THEOREM NeverDeadlocks == ProbesSpec => []NoDeadlock
<1>1. ASSUME IInv PROVE NoDeadlock
  <2> SUFFICES ASSUME NEW S \in SUBSET Threads, S # {}, \A t \in S : Waits(t),
                      \A t \in S : holder[At(t)] \in S
               PROVE  FALSE
    BY DEF NoDeadlock
  <2>1. ASSUME NEW t \in S
        PROVE  /\ holder[At(t)] \in S /\ holder[At(t)] # t
               /\ reading[holder[At(t)]] = At(t) /\ nested[holder[At(t)]]
    <3>1. At(t) \in Lazies /\ holder[At(t)] \in S /\ holder[At(t)] # t
      BY <1>1, AtTyped DEF Waits
    <3> DEFINE u == holder[At(t)]
    <3>2. \/ reading[u] = At(t)
          \/ nested[u] /\ reading[u] \in DOMAIN Inner /\ Inner[reading[u]] = At(t)
      BY <1>1, <3>1 DEF IInv, HolderEvaluates
    <3>3. holder[At(u)] # u BY <3>1 DEF Waits
    <3>4. At(u) # At(t) BY <3>3
    <3>5. At(u) = IF nested[u] THEN Inner[reading[u]] ELSE reading[u] BY DEF At
    <3> HIDE DEF u
    <3>6. reading[u] = At(t) /\ nested[u] BY <3>2, <3>4, <3>5
    <3> QED BY <3>1, <3>6 DEF u
  <2>2. PICK t \in S : TRUE OBVIOUS
  <2> DEFINE u == holder[At(t)]
             w == holder[At(u)]
  <2>3. u \in S /\ nested[u] BY <2>1
  <2>4. At(u) = Inner[reading[u]] /\ reading[u] \in DOMAIN Inner
    BY <1>1, <2>3 DEF IInv, NestedInside, At
  <2>5. w \in S /\ reading[w] = At(u) /\ nested[w] BY <2>1, <2>3
  <2>6. reading[w] \in DOMAIN Inner BY <1>1, <2>5 DEF IInv, NestedInside
  <2> QED BY <2>4, <2>5, <2>6, LazyNames
<1> QED BY <1>1, Inductive, PTL

\* The probes use the library as any caller may: every step is one of the
\* service or none.
THEOREM ProbesUseTheService == ProbesSpec => Spec
<1>1. ProbesInit => Init BY DEF ProbesInit
<1>2. ASSUME [ProbesNext]_probeVars PROVE [Next]_vars
  <2>1. ASSUME NEW t \in Threads, Proceed(t) PROVE [Next]_vars
    BY <2>1
    DEF Proceed, Cached, Enter, CallPlain, ReadInner, Refuse, Probe, ProbeReturns, Next, vars
  <2>2. ASSUME NEW t \in Threads, Read(t) \/ NativeReply(t) PROVE [Next]_vars
    BY <2>2 DEF Read, NativeReply, Next, vars
  <2>3. CASE UNCHANGED probeVars BY <2>3 DEF probeVars, vars
  <2> QED BY <1>2, <2>1, <2>2, <2>3 DEF ProbesNext
<1> QED BY <1>1, <1>2, PTL DEF ProbesSpec, Spec
===============================================================================
