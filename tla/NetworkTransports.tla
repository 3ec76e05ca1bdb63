-------------------------- MODULE NetworkTransports --------------------------
(***************************************************************************)
(* The data transports over a network under DataTransport::sendCommand:    *)
(* TCP, which connects anew for every command, UDP, which keeps its        *)
(* socket, and that of the Rpleth readers, which keeps a TCP connection    *)
(* and finds frames in the stream, badges among them.                      *)
(*                                                                         *)
(* An answer is a sequence of parts <<command, 1>>, <<command, 2>>; a      *)
(* datagram has one part.  A badge is an answer to command 0.  Timeouts    *)
(* may happen whenever what is waited for is not there.                    *)
(***************************************************************************)
EXTENDS Naturals, Sequences

CONSTANT MaxCalls    \* bound: the number of commands
CONSTANT MaxFaults   \* bound: lost or doubled datagrams, badges, broken connections

ASSUME NetworkAssumption == MaxCalls \in Nat /\ MaxFaults \in Nat

VARIABLES
  kind,       \* which transport it is: "tcp", "udp", "rpleth"
  at,         \* where sendCommand is: "idle", "send", "receive"
  open,       \* the socket is open
  broken,     \* the other end is gone
  device,     \* what the device still has to send on this connection
  inbox,      \* what has arrived at the socket
  d_buffer,   \* what the Rpleth transport holds of the stream
  pending, sent, doubt, outcome,   \* as in RequestReply
  faults      \* bound

vars == <<kind, at, open, broken, device, inbox, d_buffer, pending, sent, doubt,
          outcome, faults>>

Abstract == INSTANCE RequestReply WITH fresh <- (kind = "tcp")

Kinds == {"tcp", "udp", "rpleth"}
Parts == (0 .. MaxCalls) \X {1, 2}

\* The types; a call is under way exactly when sendCommand has a command, and
\* nothing comes from a socket that is closed.
TypeOK ==
  /\ kind \in Kinds /\ {open, broken, doubt} \subseteq BOOLEAN
  /\ at \in {"idle", "send", "receive"} /\ (at = "idle" <=> pending = 0)
  /\ {device, inbox, d_buffer} \subseteq Seq(Parts)
  /\ pending \in {0, sent} /\ sent \in 0 .. MaxCalls
  /\ outcome \in Abstract!Outcomes /\ faults \in 0 .. MaxFaults
  /\ open = FALSE => device = <<>> /\ inbox = <<>>

Init ==
  /\ kind \in Kinds
  /\ at = "idle" /\ open = FALSE /\ broken = FALSE
  /\ device = <<>> /\ inbox = <<>> /\ d_buffer = <<>>
  /\ pending = 0 /\ sent = 0 /\ doubt = FALSE
  /\ outcome = Abstract!Without("none") /\ faults = 0

\* The parts of the answer to command c, in the order in which they are sent.
Reply(c) == IF kind = "udp" THEN <<<<c, 1>>>> ELSE <<<<c, 1>>, <<c, 2>>>>

Returned(part) ==
  IF part[1] = 0 THEN Abstract!Without(Abstract!Unasked) ELSE Abstract!AnswerOf(part[1])

\* A call ends: with bytes, or without.  One that gives up may leave an answer
\* to come on the connection.
Return(o) == at' = "idle" /\ pending' = 0 /\ outcome' = o
GiveUp == Return(Abstract!Without(Abstract!Error)) /\ doubt' = TRUE

Fault == faults < MaxFaults /\ faults' = faults + 1

-----------------------------------------------------------------------------
(* sendCommand: connect and send.                                          *)

\* A call has a command.  With an empty one sendCommand only receives, on the
\* connection the last call left; no code of the library that uses these
\* transports does that.
Call ==
  /\ at = "idle" /\ sent < MaxCalls
  /\ at' = "send"
  /\ sent' = sent + 1 /\ pending' = sent + 1
  /\ outcome' = Abstract!Without("none")
  /\ UNCHANGED <<kind, open, broken, device, inbox, d_buffer, doubt, faults>>

\* Mutant: a socket that is open is kept.
KeepOpen ==
  /\ open' = TRUE /\ broken' = FALSE
  /\ device' = device \o Reply(sent)
  /\ UNCHANGED inbox

\* TCPDataTransport::connect closes the socket and makes a new one; what was on
\* its way on the old one is never seen.
FreshConnection ==
  /\ open' = TRUE /\ broken' = FALSE
  /\ device' = Reply(sent)
  /\ inbox' = <<>>

SendTCP ==
  /\ kind = "tcp" /\ at = "send"
  /\ at' = "receive"
  /\ FreshConnection
  /\ UNCHANGED <<kind, d_buffer, pending, sent, doubt, outcome, faults>>

\* UDPDataTransport::connect makes the socket once.  The command may get lost.
SendUDP ==
  /\ kind = "udp" /\ at = "send"
  /\ at' = "receive"
  /\ open' = TRUE
  /\ \/ device' = device \o Reply(sent) /\ UNCHANGED faults
     \/ Fault /\ UNCHANGED device
  /\ UNCHANGED <<kind, broken, inbox, d_buffer, pending, sent, doubt, outcome>>

\* Mutant: the buffer keeps what it holds.
KeptBuffer == d_buffer

\* RplethDataTransport::sendll forgets what the buffer holds, once the command
\* is sent, but not what the socket does.
BufferAfterSend == <<>>

\* RplethDataTransport::sendCommand does not connect.
SendRpleth ==
  /\ kind = "rpleth" /\ at = "send" /\ open /\ ~broken
  /\ at' = "receive"
  /\ device' = device \o Reply(sent)
  /\ d_buffer' = BufferAfterSend
  /\ UNCHANGED <<kind, open, broken, inbox, pending, sent, doubt, outcome, faults>>

\* No connection can be made, or the socket refuses the command: TCP closes it
\* and throws; UDP throws and keeps its socket.  When UDP cannot connect there is
\* no socket, and send() uses the null pointer; the call is taken to throw.
SendFails ==
  /\ at = "send"
  /\ IF kind = "rpleth" /\ (~open \/ broken) THEN UNCHANGED faults ELSE Fault
  /\ GiveUp
  /\ IF kind = "udp" THEN open' \in {open, TRUE} /\ UNCHANGED <<broken, device, inbox>>
     ELSE open' = FALSE /\ broken' = FALSE /\ device' = <<>> /\ inbox' = <<>>
  /\ UNCHANGED <<kind, d_buffer, sent>>

\* RplethReaderUnit::connectToReader: a new connection unless there is one.
ConnectRpleth ==
  /\ kind = "rpleth" /\ at = "idle" /\ ~open
  /\ open' = TRUE /\ broken' = FALSE /\ doubt' = FALSE
  /\ UNCHANGED <<kind, at, device, inbox, d_buffer, pending, sent, outcome, faults>>

\* Mutant: the socket is forgotten but not closed.
Forget ==
  /\ at = "idle" /\ open
  /\ open' = FALSE /\ broken' = FALSE /\ doubt' = FALSE
  /\ UNCHANGED <<kind, at, device, inbox, d_buffer, pending, sent, outcome, faults>>

\* disconnect closes the socket.
Disconnect ==
  /\ at = "idle" /\ open
  /\ open' = FALSE /\ broken' = FALSE /\ doubt' = FALSE
  /\ device' = <<>> /\ inbox' = <<>>
  /\ UNCHANGED <<kind, at, d_buffer, pending, sent, outcome, faults>>

-----------------------------------------------------------------------------
(* sendCommand: receive.                                                   *)

\* TCPDataTransport::receive takes what has arrived: of an answer that comes in
\* two segments, possibly the first alone.
ReceiveTCP ==
  /\ kind = "tcp" /\ at = "receive" /\ inbox # <<>>
  /\ Return(Returned(Head(inbox)))
  /\ inbox' = <<>>
  /\ UNCHANGED <<kind, open, broken, device, d_buffer, sent, doubt, faults>>

\* UDPDataTransport::receive polls the socket and takes one datagram.
ReceiveUDP ==
  /\ kind = "udp" /\ at = "receive" /\ inbox # <<>>
  /\ Return(Returned(Head(inbox)))
  /\ inbox' = Tail(inbox)
  /\ UNCHANGED <<kind, open, broken, device, d_buffer, sent, doubt, faults>>

\* Mutant: any bytes are taken for a frame.
AnyBytes(buf) == buf # <<>>

\* A whole frame is at the start of the buffer: its header and all the bytes
\* the header announces.
HasFrame(buf) == Len(buf) >= 2 /\ buf[1][2] = 1

\* RplethDataTransport::receive reads only when the buffer has no whole frame.
ReadMore ==
  /\ kind = "rpleth" /\ at = "receive" /\ inbox # <<>> /\ ~HasFrame(d_buffer)
  /\ d_buffer' = d_buffer \o inbox
  /\ inbox' = <<>>
  /\ UNCHANGED <<kind, at, open, broken, device, pending, sent, doubt, outcome, faults>>

\* The first frame is returned, also when it is a badge and not the answer.
TakeFrame ==
  /\ kind = "rpleth" /\ at = "receive" /\ HasFrame(d_buffer)
  /\ Return(Returned(Head(d_buffer)))
  /\ d_buffer' = SubSeq(d_buffer, 3, Len(d_buffer))
  /\ UNCHANGED <<kind, open, broken, device, inbox, sent, doubt, faults>>

\* A frame with an error status is removed and an exception thrown.  So are the
\* bytes after a frame cut in two, as many as they happen to announce (their
\* status or their checksum is taken to tell).
RefuseFrame ==
  /\ kind = "rpleth" /\ at = "receive" /\ d_buffer # <<>>
  /\ Return(Abstract!Without(Abstract!Error))
  /\ \/ /\ HasFrame(d_buffer)
        /\ d_buffer' = SubSeq(d_buffer, 3, Len(d_buffer))
     \/ /\ Head(d_buffer)[2] = 2
        /\ \E n \in 1 .. Len(d_buffer) : d_buffer' = SubSeq(d_buffer, n + 1, Len(d_buffer))
  /\ UNCHANGED <<kind, open, broken, device, inbox, sent, doubt, faults>>

\* Nothing came in time, the connection broke, or, for Rpleth, what came is no
\* frame yet: an exception or no bytes.  The timeout is not 0, with which UDP
\* would wait until a datagram comes.
ReceiveTimeout ==
  /\ at = "receive" /\ ~HasFrame(d_buffer)
  /\ inbox # <<>> => kind = "rpleth" /\ d_buffer # <<>>
  /\ GiveUp
  /\ UNCHANGED <<kind, open, broken, device, inbox, d_buffer, sent, faults>>

-----------------------------------------------------------------------------
(* The device and the network.                                             *)

\* A part of an answer arrives.
Arrive ==
  /\ device # <<>>
  /\ inbox' = Append(inbox, Head(device))
  /\ device' = Tail(device)
  /\ UNCHANGED <<kind, at, open, broken, d_buffer, pending, sent, doubt, outcome, faults>>

\* A datagram is lost or comes twice.
DatagramFault ==
  /\ kind = "udp" /\ device # <<>> /\ Fault
  /\ \/ inbox' = inbox /\ doubt' = doubt
     \/ inbox' = inbox \o <<Head(device), Head(device)>> /\ doubt' = TRUE
  /\ device' = Tail(device)
  /\ UNCHANGED <<kind, at, open, broken, d_buffer, pending, sent, outcome>>

\* A badge is read: the device sends it between two answers.
BadgeRead ==
  /\ kind = "rpleth" /\ open /\ ~broken /\ Fault
  /\ device # <<>> => Head(device)[2] = 1
  /\ device' = Reply(0) \o device
  /\ doubt' = TRUE
  /\ UNCHANGED <<kind, at, open, broken, inbox, d_buffer, pending, sent, outcome>>

\* The connection breaks; what is still to come is lost.
ConnectionBreaks ==
  /\ kind # "udp" /\ open /\ ~broken /\ Fault
  /\ broken' = TRUE /\ device' = <<>> /\ doubt' = TRUE
  /\ UNCHANGED <<kind, at, open, inbox, d_buffer, pending, sent, outcome>>

SendStep == SendTCP \/ SendUDP \/ SendRpleth \/ SendFails
ReceiveStep ==
  ReceiveTCP \/ ReceiveUDP \/ ReadMore \/ TakeFrame \/ RefuseFrame \/ ReceiveTimeout

Next ==
  \/ Call \/ SendStep \/ ReceiveStep \/ ConnectRpleth \/ Disconnect
  \/ Arrive \/ DatagramFault \/ BadgeRead \/ ConnectionBreaks

\* The thread of the caller runs, and the timers of receive are kept.
Spec == Init /\ [][Next]_vars /\ WF_vars(SendStep) /\ WF_vars(ReceiveStep)

-----------------------------------------------------------------------------
(* Properties.                                                             *)

\* The transports keep the promise of RequestReply, each its own: TCP returns
\* only bytes of the answer to the command of the call; UDP and Rpleth do so as
\* long as no call on their connection gave up and nothing came unasked.  With
\* its fairness the promise has that every sendCommand returns.
Promise == Abstract!RSpec

\* As long as nothing gave rise to doubt, a kept connection is silent between
\* two calls: no byte is left in the socket or on its way that the next command
\* could take for its answer.
QuietBetweenCalls ==
  (kind # "tcp" /\ pending = 0 /\ ~doubt) => inbox = <<>> /\ device = <<>>
=============================================================================
