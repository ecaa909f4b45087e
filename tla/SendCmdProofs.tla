----------------------------- MODULE SendCmdProofs -----------------------------
(***************************************************************************)
(* Proofs about module SendCmd, for requests with data of any lengths and  *)
(* any way of sendto to cut them.                                          *)
(***************************************************************************)
EXTENDS SendCmd, SequenceTheorems, TLAPS

\* The pointer and the remaining length meet at the end of the message, and
\* what has been accepted is what the pointer has passed; once the whole message
\* is accepted neither is looked at again.
Progress ==
  /\ \A k \in 1..Len(wire) : wire[k] = k - 1
  /\ buf + buflen = msglen
  /\ pc \in {"sending", "failed"} => Len(wire) = buf
  /\ pc = "ok" => Len(wire) = msglen

IInv == TypeOK /\ Progress

\* No request is empty.
LEMMA LengthIsPositive ==
  ASSUME NEW n \in DataLens PROVE MessageLength(n) \in Nat /\ MessageLength(n) > 0
<1>1. n \in Nat BY DataLensAreNat
<1>2. (n + 1 + NLA_HDRLEN + 3) \div 4 \in Nat BY <1>1 DEF NLA_HDRLEN
<1> QED BY <1>2 DEF MessageLength, NLMSG_LENGTH, GENL_HDRLEN, NLMSG_ALIGN

\* Appending the next r bytes to a prefix of the message gives a prefix.
LEMMA PrefixGrows ==
  ASSUME TypeOK, NEW r \in Nat, Len(wire) = buf, buf + r <= msglen, msglen \in Nat,
         \A k \in 1..Len(wire) : wire[k] = k - 1
  PROVE  /\ wire \o Bytes(r) \in Seq(0..(msglen - 1))
         /\ Len(wire \o Bytes(r)) = buf + r
         /\ \A k \in 1..(buf + r) : (wire \o Bytes(r))[k] = k - 1
<1> DEFINE S == 0..(msglen - 1)
<1>1. wire \in Seq(S) /\ buf \in Nat BY DEF TypeOK
<1>2. Bytes(r) \in Seq(S) /\ Len(Bytes(r)) = r BY <1>1 DEF Bytes
<1> HIDE DEF S
<1>3. /\ wire \o Bytes(r) \in Seq(S)
      /\ Len(wire \o Bytes(r)) = Len(wire) + Len(Bytes(r))
      /\ \A k \in 1..(Len(wire) + Len(Bytes(r))) :
           (wire \o Bytes(r))[k] = IF k <= Len(wire) THEN wire[k] ELSE Bytes(r)[k - Len(wire)]
  BY <1>1, <1>2, ConcatProperties
<1>4. \A k \in 1..r : Bytes(r)[k] = buf + k - 1 BY DEF Bytes
<1> QED BY <1>1, <1>2, <1>3, <1>4 DEF S

\* The invariant holds at the first sendto ...
LEMMA InvInit == ASSUME Init PROVE IInv
BY LengthIsPositive DEF Init, IInv, TypeOK, Progress

\* ... and every answer of sendto keeps it.
LEMMA InvStep == ASSUME IInv, [Next]_vars PROVE IInv'
<1>a. TypeOK /\ Progress BY DEF IInv
<1>b. msglen \in Nat /\ buf \in Nat /\ buflen \in Nat /\ buflen > 0
  BY <1>a, LengthIsPositive DEF TypeOK
<1>1. ASSUME NEW r \in 1..msglen, Accept(r) PROVE IInv'
  <2>1. r \in Nat /\ r <= buflen /\ pc = "sending" /\ wire' = wire \o Bytes(r)
        /\ UNCHANGED <<msglen, errno>>
    BY <1>b, <1>1 DEF Accept
  <2>2. Len(wire) = buf /\ buf + r <= msglen BY <1>a, <1>b, <2>1 DEF Progress
  <2>3. /\ wire' \in Seq(0..(msglen - 1)) /\ Len(wire') = buf + r
        /\ \A k \in 1..(buf + r) : wire'[k] = k - 1
    BY <1>a, <1>b, <2>1, <2>2, PrefixGrows DEF Progress
  <2>4. CASE r < buflen
    <3>1. buf' = buf + r /\ buflen' = buflen - r /\ pc' = pc BY <1>1, <2>4 DEF Accept
    <3>2. buf' \in 0..msglen /\ buflen' \in 1..msglen /\ buf' + buflen' = msglen
      BY <1>a, <1>b, <2>1, <2>4, <3>1 DEF Progress
    <3>3. TypeOK' BY <1>a, <2>1, <2>3, <3>1, <3>2 DEF TypeOK
    <3>4. Progress' BY <2>1, <2>3, <3>1, <3>2 DEF Progress
    <3> QED BY <3>3, <3>4 DEF IInv
  <2>5. CASE ~(r < buflen)
    <3>1. pc' = "ok" /\ UNCHANGED <<buf, buflen>> BY <1>1, <2>5 DEF Accept
    <3>2. r = buflen BY <1>b, <2>1, <2>5
    <3> QED BY <1>a, <1>b, <2>1, <2>3, <3>1, <3>2 DEF IInv, TypeOK, Progress
  <2> QED BY <2>4, <2>5
<1>2. CASE AcceptNothing
  BY <1>a, <1>2 DEF AcceptNothing, IInv, TypeOK, Progress
<1>3. ASSUME NEW e \in {"EAGAIN", "other"}, Fail(e) PROVE IInv'
  BY <1>a, <1>3 DEF Fail, IInv, TypeOK, Progress
<1>4. CASE Returned BY <1>a, <1>4 DEF Returned, vars, IInv, TypeOK, Progress
<1>5. CASE UNCHANGED vars BY <1>a, <1>5 DEF vars, IInv, TypeOK, Progress
<1> QED BY <1>1, <1>2, <1>3, <1>4, <1>5 DEF Next

\* The pointer stays inside the message and the remaining length is never 0 nor
\* more than the message.
THEOREM TypeCorrect == Spec => []TypeOK
<1>1. Init => IInv BY InvInit
<1>2. IInv /\ [Next]_vars => IInv' BY InvStep
<1>3. IInv => TypeOK BY DEF IInv
<1> QED BY <1>1, <1>2, <1>3, PTL DEF Spec

\* What sendto has accepted is always a prefix of the message, each byte once,
\* and all of it when send_cmd returns 0.
THEOREM AlwaysSentInOrder == Spec => []SentInOrder
<1>1. ASSUME IInv PROVE SentInOrder
  <2>1. msglen \in Nat /\ buf \in Nat /\ buflen \in Nat
    BY <1>1, LengthIsPositive DEF IInv, TypeOK
  <2> QED BY <1>1, <2>1 DEF IInv, TypeOK, Progress, SentInOrder
<1>2. Init => IInv BY InvInit
<1>3. IInv /\ [Next]_vars => IInv' BY InvStep
<1> QED BY <1>1, <1>2, <1>3, PTL DEF Spec
===============================================================================
