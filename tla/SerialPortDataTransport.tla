----------------------- MODULE SerialPortDataTransport -----------------------
(***************************************************************************)
(* Request and reply over a serial port: DataTransport::sendCommand with   *)
(* the connect, configure, send, receive and disconnect of class           *)
(* SerialPortDataTransport, on top of the SerialPort object and its I/O    *)
(* thread (module SerialPort).                                             *)
(*                                                                         *)
(* The reader answers a command with one byte that carries the number of   *)
(* the command, at any time after it received the command, or never.  With *)
(* FrameLen = 1 an answer is a whole frame, with more a part of one.       *)
(***************************************************************************)
EXTENDS SerialPort

CONSTANT
  RetryEnabled   \* Settings::IsConfigurationRetryEnabled

ASSUME TransportAssumption == RetryEnabled \in BOOLEAN

VARIABLES
  tpc,         \* where the application's thread is in sendCommand
  lastCommand, \* number of d_lastCommand, given by write; 0 if it has none
  lastResult,  \* d_lastResult
  answered,    \* the answer sendCommand returned last, in any call; 0 if none
  clean        \* so far the line worked, the port could be configured, and no
               \* receive gave up before the answer it waited for

transportVars == <<tpc, lastCommand, lastResult, answered, clean>>
tvars == <<vars, transportVars>>

TTypeOK ==
  /\ TypeOK
  /\ tpc \in {"idle", "connect", "configure", "reconfigure", "send", "receive"}
  /\ lastCommand \in 0..MaxCalls
  /\ lastResult \in Seq(Nat) /\ answered \in Nat /\ clean \in BOOLEAN

TInit ==
  /\ Init
  /\ tpc = "idle" /\ lastCommand = 0 /\ lastResult = <<>>
  /\ answered = 0 /\ clean = TRUE

-----------------------------------------------------------------------------
\* sendCommand: replace the last command, forget the last result, then connect
\* and send; an empty command only receives.
sendCommand ==
  /\ tpc = "idle" /\ appPc = "idle" /\ calls < MaxCalls
  /\ tpc' \in {"connect", "receive"}
  /\ lastCommand' = 0
  /\ lastResult' = <<>>
  /\ UNCHANGED <<vars, answered, clean>>

\* connect(): open and configure a port that is not open.
connect ==
  /\ tpc = "connect"
  /\ \/ portOpen /\ tpc' = "send" /\ UNCHANGED vars
     \/ open /\ tpc' = "configure"
  /\ UNCHANGED <<lastCommand, lastResult, answered, clean>>

\* configure(): setting the options of the port works, or it throws and the port
\* is reopened, if the settings say so, before a second and last try.
configure ==
  /\ tpc = "configure"
  /\ \/ tpc' = "send" /\ UNCHANGED <<vars, clean>>
     \/ RetryEnabled /\ reopen /\ tpc' = "reconfigure" /\ clean' = FALSE
  /\ UNCHANGED <<lastCommand, lastResult, answered>>

\* The exception of a reopen that failed leaves sendCommand.
reconfigure ==
  /\ tpc = "reconfigure"
  /\ ReopenDevice
  /\ tpc' = IF portOpen' THEN "send" ELSE "idle"
  /\ UNCHANGED <<lastCommand, lastResult, answered, clean>>

\* send(): write throws on a closed port.
send ==
  /\ tpc = "send"
  /\ \/ write /\ lastCommand' = calls' /\ tpc' = "receive"
     \/ ~portOpen /\ tpc' = "idle" /\ UNCHANGED <<vars, lastCommand>>
  /\ UNCHANGED <<lastResult, answered, clean>>

\* One turn of the loop of receive(): it ends with the first frame.
ReceiveFrame ==
  /\ tpc = "receive"
  /\ receive
  /\ lastResult' = frame'
  /\ tpc' = IF frame' = <<>> THEN "receive" ELSE "idle"
  /\ answered' = IF frame' = <<>> THEN answered ELSE frame'[Len(frame')]
  /\ UNCHANGED <<lastCommand, clean>>

\* receive() reads a port that was closed meanwhile, and throws.
ReceiveThrows ==
  /\ tpc = "receive" /\ flag /\ ~portOpen
  /\ tpc' = "idle"
  /\ UNCHANGED <<vars, lastCommand, lastResult, answered, clean>>

\* An answer to the command may still come.
AnswerPending ==
  \/ produced < lastCommand
  \/ line # <<>> \/ circ # <<>>
  \/ ~None(queue, "do_read")

\* receive() sees its deadline passed after a turn without a frame, and returns
\* nothing; data may have come since that turn.
ReceiveTimeout ==
  /\ tpc = "receive"
  /\ tpc' = "idle"
  /\ clean' = (clean /\ ~AnswerPending)
  /\ UNCHANGED <<vars, lastCommand, lastResult, answered>>

\* disconnect(): close a port that is open.
disconnect ==
  /\ tpc = "idle" /\ portOpen
  /\ close
  /\ UNCHANGED transportVars

\* The rest of close().
Disconnected ==
  /\ CloseJoined
  /\ UNCHANGED transportVars

\* The reader answers one of the commands it received, in their order, up to the
\* bound MaxBytes.
ReaderAnswers ==
  /\ portOpen /\ fault = "none"
  /\ \E i \in DOMAIN sent :
       /\ sent[i] > produced /\ sent[i] <= MaxBytes
       /\ produced' = sent[i]
       /\ line' = Append(line, sent[i])
  /\ UNCHANGED <<portOpen, ioVars, bufVars, fault, sent, appVars, transportVars>>

TNext ==
  \/ sendCommand \/ connect \/ configure \/ reconfigure \/ send
  \/ ReceiveFrame \/ ReceiveThrows \/ ReceiveTimeout
  \/ disconnect \/ Disconnected
  \/ ReaderAnswers
  \/ IoThread /\ UNCHANGED transportVars
  \/ LineFails /\ clean' = FALSE /\ UNCHANGED <<tpc, lastCommand, lastResult, answered>>

TSpec == TInit /\ [][TNext]_tvars

-----------------------------------------------------------------------------
\* datatransport.hpp: sendCommand returns "the result of the command": a result
\* is the answer to the command that was sent last, not to an earlier one whose
\* answer came after its timeout.  The code has it only while no answer is late.
ResultOfTheCommand ==
  lastResult # <<>> /\ lastCommand # 0 => lastResult = <<lastCommand>>

\* No answer is handed out twice, and answers come in the order of the commands,
\* through overflows, reconnections and late answers.
AnswersInOrder ==
  [][lastResult' # <<>> /\ lastResult' # lastResult =>
       /\ answered < lastResult'[1]
       /\ \E i \in DOMAIN sent : sent[i] = lastResult'[1]]_tvars

\* While nothing went wrong on the line and every answer came before its deadline,
\* the result of sendCommand is the answer to its command and the port it waits on
\* is being read: disconnecting and reconnecting leave no answer and no closed
\* reader behind.
CleanExchange ==
  clean => /\ ResultOfTheCommand
           /\ tpc \in {"send", "receive"} /\ portOpen => ReaderArmed
=============================================================================
