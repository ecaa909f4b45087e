------------------------------- MODULE SendCmd -------------------------------
(***************************************************************************)
(* send_cmd of so-src/get_taskstats.c: the size of the request it builds   *)
(* and the loop that hands it to sendto until the whole of it is accepted. *)
(* sendto (external) accepts some of the bytes it is given, or fails and   *)
(* sets errno.  A netlink socket takes a message whole or not at all; the  *)
(* loop is written for any socket, and is modelled for any.                *)
(***************************************************************************)
EXTENDS Integers, Sequences

CONSTANTS
  DataLens      \* the nla_len arguments: a 4-byte id, the family name

ASSUME DataLensAreNat == DataLens \subseteq Nat \ {0}

NLMSG_LENGTH(n) == 16 + n       \* struct nlmsghdr
GENL_HDRLEN == 4
NLA_HDRLEN == 4
NLMSG_ALIGN(n) == ((n + 3) \div 4) * 4

\* msg.n.nlmsg_len once the attribute is in: one byte more than the data.
MessageLength(nla_len) ==
  NLMSG_LENGTH(GENL_HDRLEN) + NLMSG_ALIGN(nla_len + 1 + NLA_HDRLEN)

VARIABLES
  pc,      \* "sending", "ok" (return 0) or "failed" (return -1)
  msglen,  \* nlmsg_len
  buf,     \* buf, as an offset into msg
  buflen,  \* buflen
  errno,   \* errno as the last failed call of the thread left it
  wire     \* the bytes of msg the kernel has accepted, in order

vars == <<pc, msglen, buf, buflen, errno, wire>>

Init ==
  /\ pc = "sending"
  /\ msglen \in {MessageLength(n) : n \in DataLens}
  /\ buf = 0 /\ buflen = msglen
  /\ errno \in {"EAGAIN", "other"}
  /\ wire = <<>>

\* The offsets buf .. buf + r - 1, as a sequence.
Bytes(r) == [k \in 1..r |-> buf + k - 1]

\* sendto accepts r bytes, 0 < r <= buflen; the loop ends with r = buflen.
\* Mutant: the pointer is not advanced.
AcceptNoAdvance(r) ==
  /\ pc = "sending" /\ r \in 1..buflen
  /\ wire' = wire \o Bytes(r)
  /\ IF r < buflen THEN buflen' = buflen - r /\ UNCHANGED <<pc, buf>>
                   ELSE pc' = "ok" /\ UNCHANGED <<buf, buflen>>
  /\ UNCHANGED <<msglen, errno>>
\* Mutant: the length is not reduced.
AcceptNoReduce(r) ==
  /\ pc = "sending" /\ r \in 1..buflen
  /\ wire' = wire \o Bytes(r)
  /\ IF r < buflen THEN buf' = (buf + r) % msglen /\ UNCHANGED <<pc, buflen>>
                   ELSE pc' = "ok" /\ UNCHANGED <<buf, buflen>>
  /\ UNCHANGED <<msglen, errno>>
Accept(r) ==
  /\ pc = "sending" /\ r \in 1..buflen
  /\ wire' = wire \o Bytes(r)
  /\ IF r < buflen THEN buf' = buf + r /\ buflen' = buflen - r /\ UNCHANGED pc
                   ELSE pc' = "ok" /\ UNCHANGED <<buf, buflen>>
  /\ UNCHANGED <<msglen, errno>>

\* sendto accepts nothing and does not fail: the code looks at errno all the same,
\* which an earlier failure has left as it is.
AcceptNothing ==
  /\ pc = "sending"
  /\ IF errno = "EAGAIN" THEN UNCHANGED pc ELSE pc' = "failed"
  /\ UNCHANGED <<msglen, buf, buflen, errno, wire>>

\* sendto fails: EAGAIN is tried again, any other error ends the call.
\* Mutant: every error is tried again.
FailRetries(e) ==
  /\ pc = "sending" /\ errno' = e
  /\ UNCHANGED <<pc, msglen, buf, buflen, wire>>
Fail(e) ==
  /\ pc = "sending" /\ errno' = e
  /\ IF e = "EAGAIN" THEN UNCHANGED pc ELSE pc' = "failed"
  /\ UNCHANGED <<msglen, buf, buflen, wire>>

Returned == pc # "sending" /\ UNCHANGED vars

Next ==
  \/ \E r \in 1..msglen : Accept(r)
  \/ AcceptNothing
  \/ \E e \in {"EAGAIN", "other"} : Fail(e)
  \/ Returned

\* sendto always returns, and does not accept nothing or say EAGAIN for ever.
Spec == /\ Init /\ [][Next]_vars
        /\ WF_vars((\E r \in 1..msglen : Accept(r)) \/ Fail("other"))

-------------------------------------------------------------------------------
TypeOK ==
  /\ pc \in {"sending", "ok", "failed"}
  /\ msglen \in {MessageLength(n) : n \in DataLens}
  /\ buf \in 0..msglen /\ buflen \in 1..msglen
  /\ errno \in {"EAGAIN", "other"}
  /\ wire \in Seq(0..(msglen - 1))

\* Whatever pieces sendto takes the message in, and however often it asks to
\* come again, what has been accepted is a prefix of the message, each byte
\* once; and 0 is returned only when it is the whole of it.
SentInOrder ==
  /\ Len(wire) <= msglen
  /\ \A k \in DOMAIN wire : wire[k] = k - 1
  /\ pc = "ok" => Len(wire) = msglen

\* The call comes back.
Finishes == <>(pc # "sending")
===============================================================================
