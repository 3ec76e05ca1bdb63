----------------------- MODULE NetworkTransportsProofs -----------------------
(***************************************************************************)
(* Proofs about the network transports, for every number of commands and   *)
(* of faults: the types, the silence between two calls, and that every     *)
(* step of the transports is a step of RequestReply or leaves it alone.    *)
(***************************************************************************)
EXTENDS NetworkTransports, SequenceTheorems, TLAPS

(***************************************************************************)
(* The inductive invariant.  What is on its way answers a command that was *)
(* sent (Rpleth: or is a badge); on the connection of one command of TCP,  *)
(* that command.  On a kept connection without doubt there is, while       *)
(* receive waits, nothing or the whole answer of its command, spread over  *)
(* the buffer, the socket and the device; otherwise nothing.               *)
(***************************************************************************)
Known(k, n) == (IF k = "rpleth" THEN 0 .. n ELSE 1 .. n) \X {1, 2}

OnlyKnown ==
  /\ device \in Seq(Known(kind, sent))
  /\ inbox \in Seq(Known(kind, sent))
  /\ d_buffer \in Seq(Known(kind, sent))

OwnConnection ==
  (kind = "tcp" /\ at = "receive")
    => device \in Seq({sent} \X {1, 2}) /\ inbox \in Seq({sent} \X {1, 2})

BufferOfRpleth == kind # "rpleth" => d_buffer = <<>>

Whole(d, i, v) == d \o i \o v \in {<<>>, Reply(sent)}

OnlyTheAnswer ==
  (kind # "tcp" /\ ~doubt) =>
    IF at = "receive" THEN Whole(d_buffer, inbox, device)
    ELSE inbox = <<>> /\ device = <<>>

\* TypeOK without the sequences, whose types follow from OnlyKnown.
Scalars ==
  /\ kind \in Kinds /\ open \in BOOLEAN /\ broken \in BOOLEAN /\ doubt \in BOOLEAN
  /\ at \in {"idle", "send", "receive"} /\ (at = "idle" <=> pending = 0)
  /\ pending \in {0, sent} /\ sent \in 0 .. MaxCalls
  /\ outcome \in Abstract!Outcomes /\ faults \in 0 .. MaxFaults
  /\ open = FALSE => device = <<>> /\ inbox = <<>>

IInv == Scalars /\ OnlyKnown /\ OwnConnection /\ BufferOfRpleth /\ OnlyTheAnswer

-----------------------------------------------------------------------------
(***************************************************************************)
(* Facts about the sequences of parts.                                     *)
(***************************************************************************)

\* The answer has one part or two, which name the command and come in order.
LEMMA ReplyParts ==
  ASSUME NEW c, NEW S, c \in S
  PROVE  /\ Reply(c) \in Seq(S \X {1, 2})
         /\ Len(Reply(c)) \in {1, 2} /\ Reply(c)[1] = <<c, 1>>
         /\ kind = "udp" => Len(Reply(c)) = 1
<1>1. <<c, 1>> \in S \X {1, 2} /\ <<c, 2>> \in S \X {1, 2}
  OBVIOUS
<1>2. ASSUME NEW T, NEW a \in T, NEW b \in T
      PROVE  /\ <<a>> \in Seq(T) /\ Len(<<a>>) = 1 /\ <<a>>[1] = a
             /\ <<a, b>> \in Seq(T) /\ Len(<<a, b>>) = 2 /\ <<a, b>>[1] = a
  OBVIOUS
<1>3. QED BY <1>1, <1>2 DEF Reply

\* What has been sent stays known when another command is.
LEMMA KnownGrows ==
  ASSUME NEW S, NEW T, S \subseteq T, NEW s \in Seq(S)
  PROVE  s \in Seq(T)
BY SeqMonotonic

\* A part that arrives goes from the device to the socket.
LEMMA ArriveKeepsWhole ==
  ASSUME NEW d \in Seq(Parts), NEW i \in Seq(Parts), NEW v \in Seq(Parts), v # <<>>
  PROVE  d \o Append(i, Head(v)) \o Tail(v) = d \o i \o v
<1>1. /\ Append(i, Head(v)) = i \o <<Head(v)>> /\ <<Head(v)>> \in Seq(Parts)
      /\ Tail(v) \in Seq(Parts) /\ v = <<Head(v)>> \o Tail(v)
  BY HeadTailProperties
<1> DEFINE h == <<Head(v)>>
           t == Tail(v)
<1>2. d \o (i \o h) = (d \o i) \o h
  BY <1>1, ConcatAssociative
<1>3. ((d \o i) \o h) \o t = (d \o i) \o (h \o t)
  BY <1>1, ConcatAssociative, ConcatProperties, SMTT(60)
<1>4. QED BY <1>1, <1>2, <1>3

\* The first part of what is there is the first part of the whole.
LEMMA HeadOfWhole ==
  ASSUME NEW d \in Seq(Parts), NEW i \in Seq(Parts), NEW v \in Seq(Parts),
         NEW r \in Seq(Parts), r = Reply(sent), Len(r) \in {1, 2}, Whole(d, i, v)
  PROVE  /\ d # <<>> => Head(d) = r[1]
         /\ Len(d) >= 2 => d = r /\ i = <<>> /\ v = <<>>
         /\ Len(r) = 1 /\ Len(d) = 0 /\ i # <<>> => i = r /\ v = <<>>
         /\ Len(r) = 1 /\ Len(d) = 0 /\ v # <<>> => i = <<>> /\ Len(v) = 1
<1>1. /\ Len(d \o i \o v) = Len(d) + Len(i) + Len(v)
      /\ d \o i \o v \in Seq(Parts)
      /\ \A k \in 1 .. Len(d) : (d \o i \o v)[k] = d[k]
      /\ \A k \in 1 .. Len(i) : (d \o i \o v)[Len(d) + k] = i[k]
      /\ Len(d) \in Nat /\ Len(i) \in Nat /\ Len(v) \in Nat
  OBVIOUS
<1>2. /\ d # <<>> <=> Len(d) >= 1
      /\ i # <<>> <=> Len(i) >= 1
      /\ v # <<>> <=> Len(v) >= 1
  OBVIOUS
<1>3. CASE d \o i \o v = <<>>
  BY <1>1, <1>2, <1>3
<1>4. CASE d \o i \o v = r
  <2>1. /\ Len(r) = Len(d) + Len(i) + Len(v)
        /\ \A k \in 1 .. Len(d) : r[k] = d[k]
        /\ \A k \in 1 .. Len(i) : r[Len(d) + k] = i[k]
    BY <1>1, <1>4
  <2>2. ASSUME Len(d) >= 2 PROVE d = r /\ i = <<>> /\ v = <<>>
    <3>1. Len(d) = Len(r) /\ i = <<>> /\ v = <<>> BY <1>1, <1>2, <2>1, <2>2
    <3>2. d = r BY <3>1, <2>1, SeqEqual
    <3>3. QED BY <3>1, <3>2
  <2>3. ASSUME Len(r) = 1, Len(d) = 0, i # <<>> PROVE i = r /\ v = <<>>
    <3>1. Len(d) = 0 /\ Len(i) = 1 /\ v = <<>> BY <1>1, <1>2, <2>1, <2>3
    <3>2. i = r BY <3>1, <2>1, <2>3, SeqEqual
    <3>3. QED BY <3>1, <3>2
  <2>4. d # <<>> => Head(d) = r[1] BY <1>1, <1>2, <2>1
  <2>5. Len(r) = 1 /\ Len(d) = 0 /\ v # <<>> => i = <<>> /\ Len(v) = 1
    BY <1>1, <1>2, <2>1
  <2>6. QED BY <2>2, <2>3, <2>4, <2>5
<1>5. QED BY <1>3, <1>4 DEF Whole

\* What is known has the type of parts.
LEMMA KnownAreParts ==
  ASSUME NEW n \in 0 .. MaxCalls, NEW k, NEW s \in Seq(Known(k, n))
  PROVE  s \in Seq(Parts)
<1>1. Known(k, n) \subseteq Parts BY NetworkAssumption DEF Known, Parts
<1>2. QED BY <1>1, KnownGrows

\* What a call returns names the command of the part it took, or is a badge.
LEMMA ReturnedOutcome ==
  ASSUME NEW n \in 0 .. MaxCalls, NEW k, NEW p \in Known(k, n)
  PROVE  /\ Returned(p) \in Abstract!Outcomes
         /\ p[1] \in 0 .. n /\ (k # "rpleth" => p[1] # 0)
         /\ p[1] # 0 => Returned(p) = Abstract!AnswerOf(p[1])
         /\ Returned(p) \in {Abstract!AnswerOf(c) : c \in 1 .. n}
                               \cup {Abstract!Without(Abstract!Unasked)}
<1>1. p[1] \in 0 .. n /\ (k # "rpleth" => p[1] # 0) BY DEF Known
<1>2. CASE p[1] = 0
  BY <1>1, <1>2 DEF Returned, Abstract!Outcomes, Abstract!Without, Abstract!Unasked
<1>3. CASE p[1] # 0
  <2>1. p[1] \in 1 .. n /\ p[1] \in 1 .. MaxCalls BY <1>1, <1>3, NetworkAssumption
  <2>2. Returned(p) = Abstract!AnswerOf(p[1]) BY <1>3 DEF Returned
  <2>3. QED BY <1>1, <2>1, <2>2 DEF Abstract!Outcomes, Abstract!AnswerOf
<1>4. QED BY <1>2, <1>3

\* The outcomes of a call that has not ended, and of one that reports an error.
LEMMA NoAnswerOutcomes ==
  /\ Abstract!Without("none") \in Abstract!Outcomes
  /\ Abstract!Without(Abstract!Error) \in Abstract!Outcomes
BY DEF Abstract!Outcomes, Abstract!Without, Abstract!Error

\* IInv has TypeOK, and the property of the silent connection.
LEMMA InvariantImplies == IInv => TypeOK /\ QuietBetweenCalls
<1> SUFFICES ASSUME IInv PROVE TypeOK /\ QuietBetweenCalls OBVIOUS
<1>1. {device, inbox, d_buffer} \subseteq Seq(Parts)
  BY KnownAreParts DEF IInv, Scalars, OnlyKnown
<1>2. TypeOK BY <1>1 DEF IInv, Scalars, TypeOK
<1>3. QuietBetweenCalls
  BY DEF IInv, Scalars, OnlyTheAnswer, QuietBetweenCalls
<1>4. QED BY <1>2, <1>3

-----------------------------------------------------------------------------
(***************************************************************************)
(* The steps.  Each keeps the invariant, and is a step of RequestReply or  *)
(* leaves what RequestReply speaks of unchanged.                           *)
(***************************************************************************)
Promised == [Abstract!RNext]_(Abstract!rvars)

\* Initially nothing is on its way and no call under way.
LEMMA InitInvariant == Init => IInv /\ Abstract!RInit
<1> SUFFICES ASSUME Init PROVE IInv /\ Abstract!RInit OBVIOUS
<1>1. \A S : <<>> \in Seq(S) OBVIOUS
<1>2. Scalars
  <2>1. open \in BOOLEAN /\ broken \in BOOLEAN /\ doubt \in BOOLEAN BY DEF Init
  <2>2. sent \in 0 .. MaxCalls /\ pending \in {0, sent} /\ faults \in 0 .. MaxFaults
    BY NetworkAssumption DEF Init
  <2>3. QED BY <2>1, <2>2, NoAnswerOutcomes DEF Init, Scalars
<1>3. OnlyKnown /\ OwnConnection /\ BufferOfRpleth /\ OnlyTheAnswer
  BY <1>1 DEF Init, OnlyKnown, OwnConnection, BufferOfRpleth, OnlyTheAnswer
<1>4. Abstract!RInit BY DEF Init, Abstract!RInit
<1>5. QED BY <1>2, <1>3, <1>4 DEF IInv

\* sendCommand begins.
LEMMA CallKeeps == ASSUME IInv, Call PROVE IInv' /\ Promised
<1> USE DEF IInv, Call
<1>1. Scalars' BY NetworkAssumption, NoAnswerOutcomes DEF Scalars
<1>2. Known(kind, sent) \subseteq Known(kind', sent')
  BY DEF Scalars, Known
<1>3. OnlyKnown' BY <1>2, KnownGrows DEF OnlyKnown
<1>4. OwnConnection' /\ BufferOfRpleth' /\ OnlyTheAnswer'
  BY DEF OwnConnection, BufferOfRpleth, OnlyTheAnswer
<1>5. Promised
  BY DEF Scalars, Promised, Abstract!RNext, Abstract!Send, Abstract!rvars
<1>6. QED BY <1>1, <1>3, <1>4, <1>5

\* TCP: the new connection carries the answer to this command and nothing else.
LEMMA SendTCPKeeps == ASSUME IInv, SendTCP PROVE IInv' /\ Promised
<1> USE DEF IInv, SendTCP, FreshConnection
<1>1. Scalars' BY DEF Scalars
<1>2. sent \in {sent} /\ sent \in 1 .. sent BY DEF Scalars
<1>3. Reply(sent) \in Seq({sent} \X {1, 2}) /\ Reply(sent) \in Seq((1 .. sent) \X {1, 2})
  BY <1>2, ReplyParts
<1>4. OnlyKnown' /\ OwnConnection'
  BY <1>3 DEF OnlyKnown, OwnConnection, Known
<1>5. BufferOfRpleth' /\ OnlyTheAnswer' BY DEF BufferOfRpleth, OnlyTheAnswer
<1>6. Promised BY DEF Promised, Abstract!rvars
<1>7. QED BY <1>1, <1>4, <1>5, <1>6

\* The answer to the command comes behind what is on its way.
LEMMA ReplyBehind ==
  ASSUME IInv, at = "send", kind # "tcp"
  PROVE  /\ Reply(sent) \in Seq(Known(kind, sent))
         /\ device \o Reply(sent) \in Seq(Known(kind, sent))
         /\ device = <<>> => device \o Reply(sent) = Reply(sent)
         /\ <<>> \o <<>> \o Reply(sent) = Reply(sent)
         /\ <<>> \in Seq(Known(kind, sent))
         /\ <<>> \o <<>> \o <<>> = <<>>
<1>1. sent \in 1 .. sent /\ sent \in 0 .. sent BY DEF IInv, Scalars
<1>2. Reply(sent) \in Seq(Known(kind, sent)) BY <1>1, ReplyParts DEF Known
<1>3. QED BY <1>2 DEF IInv, OnlyKnown

\* UDP: the answer comes behind what is on its way already, which is nothing when
\* there is no doubt, unless the command gets lost.
LEMMA SendUDPKeeps == ASSUME IInv, SendUDP PROVE IInv' /\ Promised
<1> USE DEF IInv, SendUDP
<1>1. Scalars'
  <2>1. faults' \in 0 .. MaxFaults
    <3>1. CASE faults' = faults BY <3>1 DEF Scalars
    <3>2. CASE Fault BY <3>2, NetworkAssumption DEF Scalars, Fault
    <3>3. QED BY <3>1, <3>2
  <2>2. QED BY <2>1 DEF Scalars
<1>2. OnlyKnown' BY ReplyBehind DEF OnlyKnown
<1>3. OwnConnection' /\ BufferOfRpleth' BY DEF OwnConnection, BufferOfRpleth
<1>4. OnlyTheAnswer'
  <2> SUFFICES ASSUME ~doubt PROVE Whole(d_buffer, inbox, device)'
    BY DEF OnlyTheAnswer
  <2>1. inbox' = <<>> /\ device = <<>> /\ d_buffer' = <<>>
    BY DEF OnlyTheAnswer, BufferOfRpleth
  <2>2. Reply(sent)' = Reply(sent) BY DEF Reply
  <2>3. QED BY <2>1, <2>2, ReplyBehind DEF Whole
<1>5. Promised BY DEF Promised, Abstract!rvars
<1>6. QED BY <1>1, <1>2, <1>3, <1>4, <1>5

\* Rpleth: the same, and the buffer is emptied.
LEMMA SendRplethKeeps == ASSUME IInv, SendRpleth PROVE IInv' /\ Promised
<1> USE DEF IInv, SendRpleth, BufferAfterSend
<1>1. Scalars' BY DEF Scalars
<1>2. OnlyKnown' BY ReplyBehind DEF OnlyKnown
<1>3. OwnConnection' /\ BufferOfRpleth' BY DEF OwnConnection, BufferOfRpleth
<1>4. OnlyTheAnswer'
  <2> SUFFICES ASSUME ~doubt PROVE Whole(d_buffer, inbox, device)'
    BY DEF OnlyTheAnswer
  <2>1. inbox' = <<>> /\ device = <<>> /\ d_buffer' = <<>>
    BY DEF OnlyTheAnswer
  <2>2. Reply(sent)' = Reply(sent) BY DEF Reply
  <2>3. QED BY <2>1, <2>2, ReplyBehind DEF Whole
<1>5. Promised BY DEF Promised, Abstract!rvars
<1>6. QED BY <1>1, <1>2, <1>3, <1>4, <1>5

\* The command cannot be sent.
LEMMA SendFailsKeeps == ASSUME IInv, SendFails PROVE IInv' /\ Promised
<1> USE DEF IInv, SendFails, GiveUp, Return
<1>1. Scalars'
  <2>1. faults' \in 0 .. MaxFaults BY NetworkAssumption DEF Scalars, Fault
  <2>2. CASE kind = "udp" BY <2>1, <2>2, NoAnswerOutcomes DEF Scalars
  <2>3. CASE kind # "udp" BY <2>1, <2>3, NoAnswerOutcomes DEF Scalars
  <2>4. QED BY <2>2, <2>3
<1>2. OnlyKnown'
  <2>1. \A S : <<>> \in Seq(S) OBVIOUS
  <2>2. QED BY <2>1 DEF OnlyKnown
<1>3. OwnConnection' /\ BufferOfRpleth' /\ OnlyTheAnswer'
  BY DEF OwnConnection, BufferOfRpleth, OnlyTheAnswer
<1>4. Promised
  BY DEF Scalars, Promised, Abstract!RNext, Abstract!Fail
<1>5. QED BY <1>1, <1>2, <1>3, <1>4

\* A connection is made, or closed, between two calls.
LEMMA ConnectKeeps == ASSUME IInv, ConnectRpleth \/ Disconnect PROVE IInv' /\ Promised
<1> USE DEF IInv, ConnectRpleth, Disconnect
<1>1. CASE ConnectRpleth
  <2>1. Scalars' BY <1>1 DEF Scalars
  <2>2. device = <<>> /\ inbox = <<>> BY <1>1 DEF Scalars
  <2>3. OnlyKnown' /\ OwnConnection' /\ BufferOfRpleth' /\ OnlyTheAnswer'
    BY <1>1, <2>2 DEF OnlyKnown, OwnConnection, BufferOfRpleth, OnlyTheAnswer
  <2>4. Promised
    BY <1>1 DEF Scalars, Promised, Abstract!RNext, Abstract!Renew
  <2>5. QED BY <2>1, <2>3, <2>4
<1>2. CASE Disconnect
  <2>1. Scalars' BY <1>2 DEF Scalars
  <2>2. \A S : <<>> \in Seq(S) OBVIOUS
  <2>3. OnlyKnown' /\ OwnConnection' /\ BufferOfRpleth' /\ OnlyTheAnswer'
    BY <1>2, <2>2 DEF OnlyKnown, OwnConnection, BufferOfRpleth, OnlyTheAnswer
  <2>4. Promised
    BY <1>2 DEF Scalars, Promised, Abstract!RNext, Abstract!Renew
  <2>5. QED BY <2>1, <2>3, <2>4
<1>3. QED BY <1>1, <1>2

\* A call that returns the part p at the head of the socket or of the buffer keeps
\* the promise: p is of its command, or there is doubt on a kept connection.
LEMMA ReturnedPromise ==
  ASSUME IInv, at = "receive", NEW p \in Known(kind, sent),
         p[1] = sent \/ (doubt /\ kind # "tcp"),
         Return(Returned(p)), UNCHANGED <<kind, sent, doubt>>
  PROVE  /\ Promised
         /\ outcome' \in Abstract!Outcomes
<1>1. pending # 0 /\ pending = sent /\ sent \in 0 .. MaxCalls BY DEF IInv, Scalars
<1>2. outcome' = Returned(p) /\ pending' = 0 BY DEF Return
<1>3. CASE p[1] = sent
  <2>1. outcome' = Abstract!AnswerOf(pending) BY <1>1, <1>2, <1>3, ReturnedOutcome
  <2>2. Abstract!Answer BY <1>1, <1>2, <2>1 DEF Abstract!Answer
  <2>3. QED BY <1>1, <1>2, <2>2, ReturnedOutcome DEF Promised, Abstract!RNext
<1>4. CASE doubt /\ kind # "tcp"
  <2>1. Abstract!Answer BY <1>1, <1>2, <1>4, ReturnedOutcome DEF Abstract!Answer
  <2>2. QED BY <1>1, <1>2, <2>1, ReturnedOutcome DEF Promised, Abstract!RNext
<1>5. QED BY <1>3, <1>4

\* TCP: what has arrived is of this command, as nothing else is on its connection.
LEMMA ReceiveTCPKeeps == ASSUME IInv, ReceiveTCP PROVE IInv' /\ Promised
<1> USE DEF IInv, ReceiveTCP
<1>1. Head(inbox) \in Known(kind, sent) /\ Head(inbox) \in {sent} \X {1, 2}
  BY DEF OnlyKnown, OwnConnection
<1>2. Head(inbox)[1] = sent BY <1>1
<1>3. Promised /\ outcome' \in Abstract!Outcomes BY <1>1, <1>2, ReturnedPromise
<1>4. Scalars' BY <1>3 DEF Scalars, Return
<1>5. \A S : <<>> \in Seq(S) OBVIOUS
<1>6. OnlyKnown' /\ OwnConnection' /\ BufferOfRpleth' /\ OnlyTheAnswer'
  BY <1>5 DEF OnlyKnown, OwnConnection, BufferOfRpleth, OnlyTheAnswer, Return
<1>7. QED BY <1>3, <1>4, <1>6

\* UDP: without doubt a datagram that is there, in the socket or on its way, is
\* the answer, and there is no other.
LEMMA DatagramIsTheAnswer ==
  ASSUME IInv, kind = "udp", at = "receive", ~doubt
  PROVE  /\ inbox # <<>> =>
              inbox = Reply(sent) /\ Reply(sent)[1] = <<sent, 1>> /\ Len(inbox) = 1
              /\ device = <<>>
         /\ device # <<>> => inbox = <<>> /\ Len(device) = 1
<1>1. sent \in 1 .. sent BY DEF IInv, Scalars
<1>2. /\ Reply(sent) \in Seq(Known(kind, sent)) /\ Len(Reply(sent)) = 1
      /\ Reply(sent)[1] = <<sent, 1>>
  BY <1>1, ReplyParts DEF Known
<1>3. Whole(d_buffer, inbox, device) BY DEF IInv, OnlyTheAnswer
<1>4. /\ d_buffer \in Seq(Parts) /\ inbox \in Seq(Parts) /\ device \in Seq(Parts)
      /\ Reply(sent) \in Seq(Parts) /\ Len(Reply(sent)) \in {1, 2}
  BY <1>2, KnownAreParts DEF IInv, OnlyKnown, Scalars
<1>5. /\ Len(Reply(sent)) = 1 /\ Len(d_buffer) = 0 /\ inbox # <<>>
           => inbox = Reply(sent) /\ device = <<>>
      /\ Len(Reply(sent)) = 1 /\ Len(d_buffer) = 0 /\ device # <<>>
           => inbox = <<>> /\ Len(device) = 1
  BY <1>3, <1>4, HeadOfWhole
<1>6. Len(d_buffer) = 0 BY DEF IInv, BufferOfRpleth
<1>7. QED BY <1>2, <1>5, <1>6

\* UDP: without doubt the datagram is the answer, and nothing is left behind it.
LEMMA ReceiveUDPKeeps == ASSUME IInv, ReceiveUDP PROVE IInv' /\ Promised
<1> USE DEF IInv, ReceiveUDP
<1>1. Head(inbox) \in Known(kind, sent) /\ Tail(inbox) \in Seq(Known(kind, sent))
  BY DEF OnlyKnown
<1>2. ASSUME ~doubt
      PROVE  Head(inbox)[1] = sent /\ Tail(inbox) = <<>> /\ device = <<>>
  <2>1. /\ inbox = Reply(sent) /\ Reply(sent)[1] = <<sent, 1>> /\ Len(inbox) = 1
        /\ device = <<>>
    BY <1>2, DatagramIsTheAnswer
  <2>2. inbox \in Seq(Known(kind, sent)) BY DEF OnlyKnown
  <2>3. QED BY <2>1, <2>2
<1>3. Promised /\ outcome' \in Abstract!Outcomes
  BY <1>1, <1>2, ReturnedPromise DEF Scalars
<1>4. Scalars' BY <1>3 DEF Scalars, Return
<1>5. OnlyKnown' BY <1>1 DEF OnlyKnown
<1>6. OwnConnection' /\ BufferOfRpleth' /\ OnlyTheAnswer'
  BY <1>2 DEF OwnConnection, BufferOfRpleth, OnlyTheAnswer, Return
<1>7. QED BY <1>3, <1>4, <1>5, <1>6

\* Rpleth: what the socket has goes behind what the buffer has.
LEMMA ReadMoreKeeps == ASSUME IInv, ReadMore PROVE IInv' /\ Promised
<1> USE DEF IInv, ReadMore
<1>1. Scalars' BY DEF Scalars
<1>2. OnlyKnown' BY DEF OnlyKnown
<1>3. OwnConnection' /\ BufferOfRpleth' BY DEF OwnConnection, BufferOfRpleth
<1>4. OnlyTheAnswer'
  <2>1. (d_buffer \o inbox) \o <<>> = d_buffer \o inbox BY DEF OnlyKnown
  <2>2. Reply(sent)' = Reply(sent) BY DEF Reply
  <2>3. QED BY <2>1, <2>2 DEF OnlyTheAnswer, Whole
<1>5. Promised BY DEF Promised, Abstract!rvars
<1>6. QED BY <1>1, <1>2, <1>3, <1>4, <1>5

\* Rpleth: without doubt the buffer starts with the answer, and a frame in it is
\* the whole answer and all there is.
LEMMA FrameIsTheAnswer ==
  ASSUME IInv, kind = "rpleth", at = "receive", ~doubt, d_buffer # <<>>
  PROVE  /\ Head(d_buffer) = <<sent, 1>>
         /\ HasFrame(d_buffer) => /\ inbox = <<>> /\ device = <<>>
<1>1. sent \in 0 .. sent BY DEF IInv, Scalars
<1>2. /\ Reply(sent) \in Seq(Known(kind, sent)) /\ Len(Reply(sent)) \in {1, 2}
      /\ Reply(sent)[1] = <<sent, 1>>
  BY <1>1, ReplyParts DEF Known
<1>3. Whole(d_buffer, inbox, device) BY DEF IInv, OnlyTheAnswer
<1>4. /\ d_buffer \in Seq(Parts) /\ inbox \in Seq(Parts) /\ device \in Seq(Parts)
      /\ Reply(sent) \in Seq(Parts)
      /\ HasFrame(d_buffer) => Len(d_buffer) >= 2
  BY <1>2, KnownAreParts DEF IInv, OnlyKnown, Scalars, HasFrame
<1>5. QED BY <1>2, <1>3, <1>4, HeadOfWhole

\* Rpleth: the first frame is returned.
LEMMA TakeFrameKeeps == ASSUME IInv, TakeFrame PROVE IInv' /\ Promised
<1> USE DEF IInv, TakeFrame
<1>1. d_buffer # <<>> /\ d_buffer \in Seq(Known(kind, sent)) BY DEF OnlyKnown, HasFrame
<1>2. Head(d_buffer) \in Known(kind, sent) /\ d_buffer' \in Seq(Known(kind, sent))
  BY <1>1 DEF HasFrame
<1>3. ~doubt => Head(d_buffer)[1] = sent /\ inbox = <<>> /\ device = <<>>
  BY <1>1, FrameIsTheAnswer
<1>4. Promised /\ outcome' \in Abstract!Outcomes
  BY <1>2, <1>3, ReturnedPromise DEF Scalars
<1>5. Scalars' BY <1>4 DEF Scalars, Return
<1>6. OnlyKnown' BY <1>2 DEF OnlyKnown
<1>7. OwnConnection' /\ BufferOfRpleth' /\ OnlyTheAnswer'
  BY <1>3 DEF OwnConnection, BufferOfRpleth, OnlyTheAnswer, Return
<1>8. QED BY <1>4, <1>5, <1>6, <1>7

\* Rpleth: a frame is refused; without doubt it was the answer, and nothing is left.
LEMMA RefuseFrameKeeps == ASSUME IInv, RefuseFrame PROVE IInv' /\ Promised
<1> USE DEF IInv, RefuseFrame
<1>1. d_buffer' \in Seq(Known(kind, sent))
  <2>1. d_buffer \in Seq(Known(kind, sent)) BY DEF OnlyKnown
  <2>2. \A n \in 1 .. Len(d_buffer) :
          SubSeq(d_buffer, n + 1, Len(d_buffer)) \in Seq(Known(kind, sent))
    BY <2>1
  <2>3. HasFrame(d_buffer) => SubSeq(d_buffer, 3, Len(d_buffer)) \in Seq(Known(kind, sent))
    BY <2>1 DEF HasFrame
  <2>4. QED BY <2>2, <2>3
<1>2. ~doubt => inbox = <<>> /\ device = <<>>
  <2> SUFFICES ASSUME ~doubt PROVE inbox = <<>> /\ device = <<>> OBVIOUS
  <2>1. Head(d_buffer)[2] = 1 BY FrameIsTheAnswer
  <2>2. HasFrame(d_buffer) BY <2>1
  <2>3. QED BY <2>2, FrameIsTheAnswer
<1>3. Scalars' BY NoAnswerOutcomes DEF Scalars, Return
<1>4. OnlyKnown' BY <1>1 DEF OnlyKnown
<1>5. OwnConnection' /\ BufferOfRpleth' /\ OnlyTheAnswer'
  BY <1>2 DEF OwnConnection, BufferOfRpleth, OnlyTheAnswer, Return
<1>6. Promised
  BY DEF Scalars, Return, Promised, Abstract!RNext, Abstract!Fail
<1>7. QED BY <1>3, <1>4, <1>5, <1>6

\* The time is over: from now on there is doubt.
LEMMA ReceiveTimeoutKeeps == ASSUME IInv, ReceiveTimeout PROVE IInv' /\ Promised
<1> USE DEF IInv, ReceiveTimeout, GiveUp, Return
<1>1. Scalars' BY NoAnswerOutcomes DEF Scalars
<1>2. OnlyKnown' BY DEF OnlyKnown
<1>3. OwnConnection' /\ BufferOfRpleth' /\ OnlyTheAnswer'
  BY DEF OwnConnection, BufferOfRpleth, OnlyTheAnswer
<1>4. Promised BY DEF Scalars, Promised, Abstract!RNext, Abstract!Fail
<1>5. QED BY <1>1, <1>2, <1>3, <1>4

\* A part goes from the device to the socket.
LEMMA ArriveKeeps == ASSUME IInv, Arrive PROVE IInv' /\ Promised
<1> USE DEF IInv, Arrive
<1>1. Scalars'
  <2>1. open # FALSE BY DEF Scalars
  <2>2. QED BY <2>1 DEF Scalars
<1>2. ASSUME NEW S, device \in Seq(S), inbox \in Seq(S)
      PROVE  device' \in Seq(S) /\ inbox' \in Seq(S)
  BY <1>2
<1>3. OnlyKnown' BY <1>2 DEF OnlyKnown
<1>4. OwnConnection' BY <1>2 DEF OwnConnection
<1>5. BufferOfRpleth' BY DEF BufferOfRpleth
<1>6. OnlyTheAnswer'
  <2>1. d_buffer \o inbox' \o device' = d_buffer \o inbox \o device
    <3>1. /\ d_buffer \in Seq(Parts) /\ inbox \in Seq(Parts) /\ device \in Seq(Parts)
          /\ device # <<>>
      BY KnownAreParts DEF OnlyKnown, Scalars
    <3>2. d_buffer \o Append(inbox, Head(device)) \o Tail(device)
             = d_buffer \o inbox \o device
      BY <3>1, ArriveKeepsWhole
    <3>3. QED BY <3>2
  <2>2. Reply(sent)' = Reply(sent) BY DEF Reply
  <2>3. QED BY <2>1, <2>2 DEF OnlyTheAnswer, Whole
<1>7. Promised BY DEF Promised, Abstract!rvars
<1>8. QED BY <1>1, <1>3, <1>4, <1>5, <1>6, <1>7

\* A datagram is lost, which leaves nothing to come; or doubled, which is a doubt.
LEMMA DatagramFaultKeeps == ASSUME IInv, DatagramFault PROVE IInv' /\ Promised
<1> USE DEF IInv, DatagramFault
<1>1. Scalars'
  <2>1. open # FALSE BY DEF Scalars
  <2>2. faults' \in 0 .. MaxFaults BY NetworkAssumption DEF Scalars, Fault
  <2>3. QED BY <2>1, <2>2 DEF Scalars
<1>2. OnlyKnown'
  <2>1. /\ Tail(device) \in Seq(Known(kind, sent)) /\ Head(device) \in Known(kind, sent)
        /\ inbox \in Seq(Known(kind, sent))
    BY DEF OnlyKnown
  <2>2. inbox \o <<Head(device), Head(device)>> \in Seq(Known(kind, sent)) BY <2>1
  <2>3. QED BY <2>1, <2>2 DEF OnlyKnown
<1>3. OwnConnection' /\ BufferOfRpleth' BY DEF OwnConnection, BufferOfRpleth
<1>4. OnlyTheAnswer'
  <2> SUFFICES ASSUME ~doubt, inbox' = inbox, doubt' = doubt PROVE OnlyTheAnswer'
    BY DEF OnlyTheAnswer
  <2>1. at = "receive" /\ Whole(d_buffer, inbox, device) /\ d_buffer = <<>>
    BY DEF OnlyTheAnswer, BufferOfRpleth
  <2>2. inbox = <<>> /\ Len(device) = 1 BY <2>1, DatagramIsTheAnswer
  <2>3. Tail(device) = <<>> BY <2>2 DEF OnlyKnown
  <2>4. <<>> \o <<>> \o <<>> = <<>> OBVIOUS
  <2>5. QED BY <2>1, <2>2, <2>3, <2>4 DEF OnlyTheAnswer, Whole
<1>5. Promised
  BY DEF Scalars, Promised, Abstract!RNext, Abstract!Disturb, Abstract!rvars
<1>6. QED BY <1>1, <1>2, <1>3, <1>4, <1>5

\* A badge comes unasked, or the connection breaks: there is doubt.
LEMMA DisturbanceKeeps ==
  ASSUME IInv, BadgeRead \/ ConnectionBreaks PROVE IInv' /\ Promised
<1> USE DEF IInv, BadgeRead, ConnectionBreaks
<1>1. Scalars'
  <2>1. faults' \in 0 .. MaxFaults BY NetworkAssumption DEF Scalars, Fault
  <2>2. QED BY <2>1 DEF Scalars
<1>2. OnlyKnown'
  <2>1. CASE BadgeRead
    <3>1. 0 \in 0 .. sent BY DEF Scalars
    <3>2. Reply(0) \in Seq(Known(kind, sent)) BY <2>1, <3>1, ReplyParts DEF Known
    <3>3. QED BY <2>1, <3>2 DEF OnlyKnown
  <2>2. CASE ConnectionBreaks
    <3>1. \A S : <<>> \in Seq(S) OBVIOUS
    <3>2. QED BY <2>2, <3>1 DEF OnlyKnown
  <2>3. QED BY <2>1, <2>2
<1>3. OwnConnection'
  <2>1. \A S : <<>> \in Seq(S) OBVIOUS
  <2>2. QED BY <2>1 DEF OwnConnection
<1>4. BufferOfRpleth' /\ OnlyTheAnswer' BY DEF BufferOfRpleth, OnlyTheAnswer
<1>5. Promised BY DEF Promised, Abstract!RNext, Abstract!Disturb
<1>6. QED BY <1>1, <1>2, <1>3, <1>4, <1>5

\* Nothing happens.
LEMMA StutterKeeps == ASSUME IInv, UNCHANGED vars PROVE IInv' /\ Promised
<1>1. Scalars' /\ OnlyKnown' /\ OwnConnection' /\ BufferOfRpleth'
  BY DEF vars, IInv, Scalars, OnlyKnown, OwnConnection, BufferOfRpleth
<1>2. OnlyTheAnswer' BY DEF vars, IInv, OnlyTheAnswer, Whole, Reply
<1>3. Promised BY DEF vars, Promised, Abstract!rvars
<1>4. QED BY <1>1, <1>2, <1>3 DEF IInv

\* Every step keeps the invariant and the promise.
LEMMA StepKeeps == IInv /\ [Next]_vars => IInv' /\ Promised
BY CallKeeps, SendTCPKeeps, SendUDPKeeps, SendRplethKeeps, SendFailsKeeps,
   ConnectKeeps, ReceiveTCPKeeps, ReceiveUDPKeeps, ReadMoreKeeps, TakeFrameKeeps,
   RefuseFrameKeeps, ReceiveTimeoutKeeps, ArriveKeeps, DatagramFaultKeeps,
   DisturbanceKeeps, StutterKeeps
   DEF Next, SendStep, ReceiveStep

-----------------------------------------------------------------------------
(***************************************************************************)
(* The theorems.                                                           *)
(***************************************************************************)

\* The invariant holds in every state the transports reach.
THEOREM InductiveInvariant == Spec => []IInv
BY InitInvariant, StepKeeps, PTL DEF Spec

\* The state of the transports has its types; sendCommand has a command exactly
\* while it is under way, and nothing is on its way on a closed socket.
THEOREM TypeCorrect == Spec => []TypeOK
BY InductiveInvariant, InvariantImplies, PTL

\* UDP and Rpleth: as long as no call gave up and nothing came unasked, nothing is
\* left in the socket or on its way after a call, for the next command to take
\* for its answer.
THEOREM SilentBetweenCalls == Spec => []QuietBetweenCalls
BY InductiveInvariant, InvariantImplies, PTL

\* The three transports implement RequestReply, its fairness apart: a call of TCP
\* returns bytes of the answer to its own command or an error, whatever happened
\* before; one of UDP or Rpleth does so unless there is doubt on its connection.
THEOREM KeepsThePromise == Spec => Abstract!RInit /\ [][Abstract!RNext]_(Abstract!rvars)
BY InitInvariant, StepKeeps, InductiveInvariant, PTL DEF Spec, Promised
=============================================================================
