--------------------------- MODULE TaskStatsService ---------------------------
(***************************************************************************)
(* What get_taskstats promises its callers, with nothing of how it is      *)
(* done: a caller asks, later it is answered, then it takes the answer.    *)
(* The return codes are those of TaskStatInteropException.cs, as produced  *)
(* by the returnError assignments of so-src/get_taskstats.c.               *)
(***************************************************************************)
EXTENDS Naturals

CONSTANTS Threads,  \* the callers, each on a thread of its own
          Tasks,    \* the non-zero task ids a caller may ask about
          NoTask,   \* the id 0
          NoData,   \* the caller's buffer when nothing was copied into it
          Misread   \* the caller's buffer when what was copied is not statistics

VARIABLES phase,    \* phase[t]: "idle", "busy" or "answered"
          asked,    \* asked[t]: the ids t asked about
          answer    \* answer[t]: the return code and the buffer

vars == <<phase, asked, answer>>

Args == [argPid : Tasks \cup {NoTask}, argTid : Tasks \cup {NoTask}]
NoArgs == [argPid |-> NoTask, argTid |-> NoTask]
NoAnswer == [code |-> 0, data |-> NoData]

\* A non-zero argPid wins; argTid is only looked at without one.
DataFor(a) == IF a.argPid # NoTask THEN [cmd |-> "PID", tid |-> a.argPid]
                                   ELSE [cmd |-> "TGID", tid |-> a.argTid]

\* The answers a request may get.  Code 0 comes with the statistics, with
\* nothing or with something else (the caller cannot tell which from the code),
\* every other code with nothing.
Answers(a) ==
  IF a = NoArgs
    THEN {[code |-> 1, data |-> NoData]}
    ELSE {[code |-> c, data |-> NoData] : c \in {0, 2, 3, 4, 8}}
         \cup {[code |-> 0, data |-> d] : d \in {DataFor(a), Misread}}

Init ==
  /\ phase = [t \in Threads |-> "idle"]
  /\ asked = [t \in Threads |-> NoArgs]
  /\ answer = [t \in Threads |-> NoAnswer]

Ask(t) ==
  /\ phase[t] = "idle"
  /\ phase' = [phase EXCEPT ![t] = "busy"]
  /\ \E a \in Args : asked' = [asked EXCEPT ![t] = a]
  /\ UNCHANGED answer

Reply(t) ==
  /\ phase[t] = "busy"
  /\ phase' = [phase EXCEPT ![t] = "answered"]
  /\ \E r \in Answers(asked[t]) : answer' = [answer EXCEPT ![t] = r]
  /\ UNCHANGED asked

Take(t) ==
  /\ phase[t] = "answered"
  /\ phase' = [phase EXCEPT ![t] = "idle"]
  /\ asked' = [asked EXCEPT ![t] = NoArgs]
  /\ answer' = [answer EXCEPT ![t] = NoAnswer]

Next == \E t \in Threads : Ask(t) \/ Reply(t) \/ Take(t)

Spec == Init /\ [][Next]_vars
===============================================================================
