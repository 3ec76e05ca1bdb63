----------------------------- MODULE SerialPort -----------------------------
(***************************************************************************)
(* The serial port of the library's core: class SerialPort                 *)
(* (src/src/readerproviders/serialport.cpp and serialport.hpp).            *)
(*                                                                         *)
(* Two threads share one SerialPort object:                                *)
(*   - the application's thread calls open, reopen, close, write and, from *)
(*     the receive loop, waitMoreData with a callback that calls read;     *)
(*   - the I/O thread runs boost::asio's io_service: it completes          *)
(*     asynchronous operations and calls their handlers do_read, do_close, *)
(*     do_write and write_complete one after the other.                    *)
(*                                                                         *)
(* Bytes are the numbers 1, 2, 3, ... in the order the device puts them on *)
(* the line; a frame is FrameLen consecutive bytes that start at a start   *)
(* of message.  A command given to write is one unit, numbered in the      *)
(* order of the calls.                                                     *)
(***************************************************************************)
EXTENDS Integers, Sequences, FiniteSets

CONSTANTS
  Cap,        \* capacity of m_circular_read_buffer (256 in the code)
  ReadSize,   \* size of m_read_buffer (128 in the code)
  FrameLen,   \* length of a frame of the reader's protocol
  HasParser,  \* is m_circular_buffer_parser set?
  Calls,      \* the calls the application makes, besides receiving
  LineFaults, \* how the line may fail
  MaxBytes,   \* bound: bytes the device sends
  MaxCalls    \* bound: calls the application makes

ASSUME SizesAssumption ==
  /\ ReadSize \in Nat \ {0}
  /\ Cap \in Nat /\ ReadSize <= Cap
  /\ FrameLen \in Nat \ {0}
  /\ MaxBytes \in Nat /\ MaxCalls \in Nat

ASSUME ChoicesAssumption ==
  /\ HasParser \in BOOLEAN
  /\ Calls \subseteq {"open", "reopen", "close", "write"}
  /\ LineFaults \subseteq {"eof", "error"}

VARIABLES
  portOpen,  \* m_serial_port.is_open()
  thread,    \* m_thread_reader: null, running io_service::run, or run returned
  ioPc,      \* the I/O thread: between handlers, or in do_read before re-arming
  appPc,     \* the application: outside, inside reopen, or joining in close
  queue,     \* handlers ready to run in m_io
  readOp,    \* is an async_read_some waiting for bytes?
  writeOp,   \* units of the async_write that waits for the device; 0 if none
  dangling,  \* has m_write_buffer moved under the waiting async_write?
  rbuf,      \* m_read_buffer, the bytes of the last completed read
  circ,      \* m_circular_read_buffer
  flag,      \* data_flag_
  wbuf,      \* m_write_buffer
  line,      \* bytes received by the driver and not yet read
  fault,     \* state of the line
  produced,  \* bytes the device has sent
  sent,      \* units the device has received
  calls,     \* calls made so far
  frame,     \* the last result of read
  reused     \* was the port opened again under a thread that was there already?

ioVars  == <<thread, ioPc, queue, readOp, writeOp, dangling>>
bufVars == <<rbuf, circ, flag, wbuf>>
devVars == <<line, fault, produced, sent>>
appVars == <<appPc, calls, frame, reused>>
vars == <<portOpen, ioVars, bufVars, devVars, appVars>>

Garbage == 0  \* a unit taken from freed memory

Handlers == [h   : {"do_read", "do_close", "do_write", "write_complete"},
             err : {"ok", "aborted", "eof", "fault"},
             n   : Nat]
Handler(h, err, n) == [h |-> h, err |-> err, n |-> n]

TypeOK ==
  /\ portOpen \in BOOLEAN
  /\ thread \in {"none", "run", "done"}
  /\ ioPc \in {"idle", "rearm"}
  /\ appPc \in {"idle", "reopen", "join"}
  /\ queue \in Seq(Handlers)
  /\ readOp \in BOOLEAN
  /\ writeOp \in Nat
  /\ dangling \in BOOLEAN
  /\ rbuf \in Seq(Nat) /\ circ \in Seq(Nat) /\ line \in Seq(Nat)
  /\ wbuf \in Seq(Nat) /\ sent \in Seq(Nat) /\ frame \in Seq(Nat)
  /\ flag \in BOOLEAN
  /\ fault \in {"none"} \cup LineFaults
  /\ produced \in 0..MaxBytes
  /\ calls \in 0..MaxCalls
  /\ reused \in BOOLEAN

Init ==
  /\ portOpen = FALSE
  /\ thread = "none" /\ ioPc = "idle" /\ queue = <<>>
  /\ readOp = FALSE /\ writeOp = 0 /\ dangling = FALSE
  /\ rbuf = <<>> /\ circ = <<>> /\ flag = FALSE /\ wbuf = <<>>
  /\ line = <<>> /\ fault = "none" /\ produced = 0 /\ sent = <<>>
  /\ appPc = "idle" /\ calls = 0 /\ frame = <<>> /\ reused = FALSE

-----------------------------------------------------------------------------
(***************************************************************************)
(* The serial_port object of boost::asio on a POSIX system.                *)
(***************************************************************************)

\* m_serial_port.close(): the waiting write, and the read if one is waiting,
\* complete with operation_aborted, behind the handlers q already in the queue.
CloseDevice(q, reading) ==
  /\ portOpen' = FALSE
  /\ queue' = q \o (IF reading THEN <<Handler("do_read", "aborted", 0)>> ELSE <<>>)
                \o (IF writeOp > 0 THEN <<Handler("write_complete", "aborted", 0)>>
                                   ELSE <<>>)
  /\ readOp' = FALSE /\ writeOp' = 0 /\ dangling' = FALSE
  /\ line' = <<>>

Lesser(a, b) == IF a <= b THEN a ELSE b

\* What one read of the descriptor yields, or "none" when it would block.
ReadResult ==
  IF ~portOpen THEN "fault"
  ELSE IF line # <<>> THEN "ok"
  ELSE IF fault = "eof" THEN "eof"
  ELSE IF fault = "error" THEN "fault"
  ELSE "none"

\* The bytes a read takes from the line, and what it leaves there.
Taken == IF ReadResult = "ok" THEN SubSeq(line, 1, Lesser(Len(line), ReadSize))
                              ELSE <<>>
Left == SubSeq(line, Len(Taken) + 1, Len(line))

\* m_serial_port.async_read_some: a read that can finish at once is performed
\* now and its handler is queued; otherwise the operation waits.
AsyncReadSome ==
  /\ rbuf' = Taken /\ line' = Left
  /\ IF ReadResult = "none"
     THEN readOp' = TRUE /\ UNCHANGED queue
     ELSE /\ queue' = Append(queue, Handler("do_read", ReadResult, Len(Taken)))
          /\ UNCHANGED readOp

\* write_start: async_write of the whole of m_write_buffer, w.  It fails at once
\* on a closed port; else the driver takes it now or later.
write_start(w, q) ==
  \/ /\ ~portOpen
     /\ queue' = Append(q, Handler("write_complete", "fault", 0))
     /\ UNCHANGED <<writeOp, sent>>
  \/ /\ portOpen
     /\ sent' = sent \o w
     /\ queue' = Append(q, Handler("write_complete", "ok", Len(w)))
     /\ UNCHANGED writeOp
  \/ /\ portOpen
     /\ writeOp' = Len(w)
     /\ queue' = q
     /\ UNCHANGED sent

-----------------------------------------------------------------------------
(***************************************************************************)
(* Handlers, run by the I/O thread.  q is the queue without the handler.   *)
(***************************************************************************)

do_close(q, reading) ==
  IF portOpen
  THEN CloseDevice(q, reading)
  ELSE /\ queue' = q
       /\ UNCHANGED <<portOpen, readOp, writeOp, dangling, line>>

\* Mutant: the reserve is computed one too large.
InsertOffByOne(buf, data) ==
  (IF Cap - Len(buf) + 1 < Len(data) THEN <<>> ELSE buf) \o data

\* Mutant: only as much of the buffer is dropped as the chunk needs, from its end.
InsertCutsTail(buf, data) == SubSeq(buf, 1, Lesser(Len(buf), Cap - Len(data))) \o data

\* The critical section of do_read: a chunk that does not fit empties the buffer
\* first.
Insert(buf, data) == (IF Cap - Len(buf) < Len(data) THEN <<>> ELSE buf) \o data

\* Mutant: the flag is set only when bytes come into an empty buffer.
DoReadNotifiesWhenEmpty(err, data, rest, q) ==
  /\ err \notin {"aborted", "eof"}
  /\ circ' = Insert(circ, data)
  /\ flag' = (flag \/ circ = <<>>)
  /\ ioPc' = "rearm"
  /\ queue' = q
  /\ line' = rest
  /\ readOp' = FALSE
  /\ UNCHANGED <<portOpen, writeOp, dangling>>

\* do_read up to the unlock: data is what the read put into m_read_buffer and
\* rest what it left on the line; that read is not waiting any more.  Any error
\* but operation_aborted and eof is handled like a read of 0 bytes.
do_read(err, data, rest, q) ==
  \/ /\ err = "aborted"
     /\ queue' = q
     /\ UNCHANGED <<portOpen, readOp, writeOp, dangling, line, circ, flag, ioPc>>
  \/ /\ err = "eof"
     /\ do_close(q, FALSE)
     /\ UNCHANGED <<circ, flag, ioPc>>
  \/ /\ err \notin {"aborted", "eof"}
     /\ circ' = Insert(circ, data)
     /\ flag' = TRUE
     /\ ioPc' = "rearm"
     /\ queue' = q
     /\ line' = rest
     /\ readOp' = FALSE
     /\ UNCHANGED <<portOpen, writeOp, dangling>>

\* Mutant: a write is started whether or not one is under way.
DoWriteAlwaysStarts(c, q) ==
  /\ wbuf' = Append(wbuf, c)
  /\ write_start(Append(wbuf, c), q) /\ UNCHANGED dangling

\* do_write: queue the command; a write under way sends it when it completes.
\* Growing m_write_buffer may move it away from under the waiting async_write.
do_write(c, q) ==
  /\ wbuf' = Append(wbuf, c)
  /\ IF wbuf = <<>>
     THEN write_start(<<c>>, q) /\ UNCHANGED dangling
     ELSE /\ queue' = q
          /\ UNCHANGED dangling \/ (writeOp > 0 /\ dangling' = TRUE)
          /\ UNCHANGED <<writeOp, sent>>

\* Mutant: the buffer is emptied when all of it was sent, and not before.
WriteCompleteKeepsSent(err, n, q) ==
  \/ /\ err = "ok"
     /\ wbuf' = IF Len(wbuf) > n THEN wbuf ELSE <<>>
     /\ IF Len(wbuf) > n
        THEN write_start(wbuf, q)
        ELSE queue' = q /\ UNCHANGED <<writeOp, sent>>
     /\ UNCHANGED <<portOpen, readOp, dangling, line>>
  \/ /\ err # "ok"
     /\ do_close(q, readOp)
     /\ UNCHANGED <<wbuf, sent>>

\* write_complete: forget what was sent and send the rest, or close on an error.
write_complete(err, n, q) ==
  \/ /\ err = "ok"
     /\ wbuf' = SubSeq(wbuf, n + 1, Len(wbuf))
     /\ IF Len(wbuf) > n
        THEN write_start(SubSeq(wbuf, n + 1, Len(wbuf)), q)
        ELSE queue' = q /\ UNCHANGED <<writeOp, sent>>
     /\ UNCHANGED <<portOpen, readOp, dangling, line>>
  \/ /\ err # "ok"
     /\ do_close(q, readOp)
     /\ UNCHANGED <<wbuf, sent>>

IoIdle == thread = "run" /\ ioPc = "idle"

\* The handler h at the head of m_io's queue, if the I/O thread can take it.
Ready(h) == IoIdle /\ queue # <<>> /\ Head(queue).h = h

RunDoRead ==
  /\ Ready("do_read")
  /\ do_read(Head(queue).err, SubSeq(rbuf, 1, Head(queue).n), line, Tail(queue))
  /\ UNCHANGED <<thread, rbuf, wbuf, fault, produced, sent, appVars>>

RunDoClose ==
  /\ Ready("do_close")
  /\ do_close(Tail(queue), readOp)
  /\ UNCHANGED <<thread, ioPc, bufVars, fault, produced, sent, appVars>>

RunDoWrite ==
  /\ Ready("do_write")
  /\ do_write(Head(queue).n, Tail(queue))
  /\ UNCHANGED <<portOpen, thread, ioPc, readOp, rbuf, circ, flag, line, fault,
                 produced, appVars>>

RunWriteComplete ==
  /\ Ready("write_complete")
  /\ write_complete(Head(queue).err, Head(queue).n, Tail(queue))
  /\ UNCHANGED <<thread, ioPc, rbuf, circ, flag, fault, produced, appVars>>

\* Mutant: the read completes when m_read_buffer is full, as with async_read.
ReactorReadFull ==
  /\ IoIdle /\ readOp /\ portOpen /\ ReadResult # "none"
  /\ Len(line) >= ReadSize
  /\ rbuf' = Taken
  /\ do_read(ReadResult, Taken, Left, queue)
  /\ UNCHANGED <<thread, wbuf, fault, produced, sent, appVars>>

\* The reactor finishes the waiting read and calls its handler.
ReactorRead ==
  /\ IoIdle /\ readOp /\ portOpen /\ ReadResult # "none"
  /\ rbuf' = Taken
  /\ do_read(ReadResult, Taken, Left, queue)
  /\ UNCHANGED <<thread, wbuf, fault, produced, sent, appVars>>

\* The reactor finishes the waiting write: the driver takes the bytes that are
\* now where m_write_buffer was, or reports an error.
ReactorWrite ==
  /\ IoIdle /\ writeOp > 0
  /\ writeOp' = 0 /\ dangling' = FALSE
  /\ \/ /\ fault = "none"
        /\ sent' = sent \o IF dangling THEN [i \in 1..writeOp |-> Garbage]
                                       ELSE SubSeq(wbuf, 1, writeOp)
        /\ queue' = Append(queue, Handler("write_complete", "ok", writeOp))
     \/ /\ fault # "none"
        /\ queue' = Append(queue, Handler("write_complete", "fault", 0))
        /\ UNCHANGED sent
  /\ UNCHANGED <<portOpen, thread, ioPc, readOp, bufVars, line, fault, produced,
                 appVars>>

\* Mutant: the next read is not started.
RearmForgotten ==
  /\ thread = "run" /\ ioPc = "rearm"
  /\ ioPc' = "idle"
  /\ UNCHANGED <<portOpen, thread, queue, readOp, writeOp, dangling, bufVars, devVars,
                 appVars>>

\* The end of do_read, after the unlock: start the next read.
Rearm ==
  /\ thread = "run" /\ ioPc = "rearm"
  /\ AsyncReadSome
  /\ ioPc' = "idle"
  /\ UNCHANGED <<portOpen, thread, writeOp, dangling, circ, flag, wbuf, fault,
                 produced, sent, appVars>>

\* io_service::run returns when there is neither a handler nor an operation left.
ThreadExit ==
  /\ IoIdle /\ queue = <<>> /\ ~readOp /\ writeOp = 0
  /\ thread' = "done"
  /\ UNCHANGED <<portOpen, ioPc, queue, readOp, writeOp, dangling, bufVars, devVars,
                 appVars>>

-----------------------------------------------------------------------------
(***************************************************************************)
(* Calls of the application's thread.                                      *)
(***************************************************************************)

Call(c) == c \in Calls /\ appPc = "idle" /\ calls < MaxCalls /\ calls' = calls + 1

\* The port is open now, and a thread may have bytes from before.
Reuse == reused' = (reused \/ (portOpen' /\ thread # "none"))

\* Mutant: a read is started whether or not there is a thread object.
OpenAlwaysArms ==
  /\ Call("open") /\ ~portOpen
  /\ portOpen' = TRUE /\ fault' = "none" /\ Reuse
  /\ flag' = FALSE /\ readOp' = TRUE /\ thread' = "run"
  /\ UNCHANGED <<ioPc, queue, writeOp, dangling, rbuf, circ, wbuf, line, produced,
                 sent, appPc, frame>>

\* open(): the reader thread and the first read are started only when there is
\* no thread object yet.
open ==
  /\ Call("open") /\ ~portOpen
  /\ portOpen' = TRUE /\ fault' = "none" /\ Reuse
  /\ IF thread = "none"
     THEN flag' = FALSE /\ readOp' = TRUE /\ thread' = "run"
     ELSE UNCHANGED <<flag, readOp, thread>>
  /\ UNCHANGED <<ioPc, queue, writeOp, dangling, rbuf, circ, wbuf, line, produced,
                 sent, appPc, frame>>

\* reopen(): m_serial_port.close() and then m_serial_port.open(), which may throw.
reopen ==
  /\ Call("reopen")
  /\ appPc' = "reopen"
  /\ do_close(queue, readOp)
  /\ UNCHANGED <<thread, ioPc, bufVars, fault, produced, sent, frame, reused>>

ReopenDevice ==
  /\ appPc = "reopen" /\ appPc' = "idle"
  /\ portOpen' \in BOOLEAN /\ Reuse
  /\ fault' = IF portOpen' THEN "none" ELSE fault
  /\ UNCHANGED <<ioVars, bufVars, line, produced, sent, calls, frame>>

\* close(): post do_close, then wait for the I/O thread.
close ==
  /\ Call("close")
  /\ appPc' = "join"
  /\ queue' = Append(queue, Handler("do_close", "ok", 0))
  /\ UNCHANGED <<portOpen, thread, ioPc, readOp, writeOp, dangling, bufVars, devVars,
                 frame, reused>>

\* The rest of close(), once join has returned.
CloseJoined ==
  /\ appPc = "join" /\ thread \in {"none", "done"}
  /\ appPc' = "idle" /\ thread' = "none"
  /\ circ' = <<>> /\ rbuf' = <<>> /\ wbuf' = <<>> /\ reused' = FALSE
  /\ UNCHANGED <<portOpen, ioPc, queue, readOp, writeOp, dangling, flag, devVars,
                 calls, frame>>

\* write(buf): post do_write.
write ==
  /\ Call("write") /\ portOpen
  /\ queue' = Append(queue, Handler("do_write", "ok", calls'))
  /\ UNCHANGED <<portOpen, thread, ioPc, readOp, writeOp, dangling, bufVars, devVars,
                 appPc, frame, reused>>

IsStart(b) == b % FrameLen = 1 % FrameLen

\* Mutant: the frame is copied and not erased.
ParserKeepsFrame(buf, result, rest) ==
  /\ result = SubSeq(buf, 1, Lesser(Len(buf), FrameLen))
  /\ rest = buf

\* A parser's getValidBuffer: drop the noise in front of a start of message, then
\* take one frame if it is complete.
getValidBuffer(buf, result, rest) ==
  \E k \in 0..Len(buf) :
    LET valid == SubSeq(buf, k + 1, Len(buf)) IN
    /\ \A i \in 1..k : ~IsStart(buf[i])
    /\ k < Len(buf) => IsStart(buf[k + 1])
    /\ IF Len(valid) >= FrameLen
       THEN result = SubSeq(valid, 1, FrameLen)
            /\ rest = SubSeq(valid, FrameLen + 1, Len(valid))
       ELSE result = <<>> /\ rest = valid

\* read(buf), without a parser it takes everything.
read(result, rest) ==
  IF HasParser THEN getValidBuffer(circ, result, rest)
               ELSE result = circ /\ rest = <<>>

\* The callback that the receive loop runs in waitMoreData with the mutex held:
\* read, and dataConsumed when that yields nothing.
receive ==
  /\ appPc = "idle" /\ portOpen /\ flag
  /\ read(frame', circ')
  /\ flag' = (frame' # <<>>)
  /\ UNCHANGED <<portOpen, ioVars, rbuf, wbuf, devVars, appPc, calls, reused>>

-----------------------------------------------------------------------------
(***************************************************************************)
(* The device and the line.                                                *)
(***************************************************************************)

\* A byte of the device; it is lost when the port is not open.
DeviceSends ==
  /\ produced < MaxBytes /\ fault = "none"
  /\ produced' = produced + 1
  /\ line' = IF portOpen THEN Append(line, produced + 1) ELSE line
  /\ UNCHANGED <<portOpen, ioVars, bufVars, fault, sent, appVars>>

\* The line fails: end of file (hang-up), or another I/O error.
LineFails ==
  /\ portOpen /\ fault = "none"
  /\ fault' \in LineFaults
  /\ UNCHANGED <<portOpen, ioVars, bufVars, line, produced, sent, appVars>>

IoThread == \/ RunDoRead \/ RunDoClose \/ RunDoWrite \/ RunWriteComplete
            \/ ReactorRead \/ ReactorWrite \/ Rearm \/ ThreadExit
Application == \/ open \/ reopen \/ ReopenDevice \/ close \/ CloseJoined \/ write
               \/ receive
Device == DeviceSends \/ LineFails

Next == IoThread \/ Application \/ Device

Spec == Init /\ [][Next]_vars

\* The scheduler runs both threads, and a call that can return does return.
FairSpec == /\ Spec
            /\ WF_vars(IoThread)
            /\ WF_vars(CloseJoined) /\ WF_vars(ReopenDevice) /\ WF_vars(receive)

-----------------------------------------------------------------------------
(***************************************************************************)
(* Properties.                                                             *)
(***************************************************************************)

\* How many handlers of a name wait in a queue.
None(q, h) == \A i \in DOMAIN q : q[i].h # h
AtMostOne(q, h) == \A i, j \in DOMAIN q : q[i].h = h /\ q[j].h = h => i = j
Transferred(q, h, max) == \A i \in DOMAIN q : q[i].h = h => q[i].n <= max

\* There is never more than one read of the descriptor under way: waiting,
\* finished with its handler in the queue, or in do_read about to be restarted.
\* m_read_buffer is one buffer without a lock, so two reads would overwrite each
\* other's bytes (do_read, open).  The handler finds its bytes there.
SingleReader ==
  /\ AtMostOne(queue, "do_read")
  /\ readOp \/ ioPc = "rearm" => None(queue, "do_read")
  /\ ~(readOp /\ ioPc = "rearm")
  /\ Transferred(queue, "do_read", Len(rbuf))

\* There is never more than one async_write under way, as boost::asio asks of its
\* callers, and what it sends is still in m_write_buffer when it completes: write_complete
\* erases no more than there is (do_write, write_start, write_complete).
SingleWriter ==
  /\ AtMostOne(queue, "write_complete")
  /\ writeOp > 0 => None(queue, "write_complete")
  /\ writeOp <= Len(wbuf)
  /\ Transferred(queue, "write_complete", Len(wbuf))

\* Every command reaches the device at most once and in the order of the calls,
\* whatever was queued, failed, closed or opened again between its write() and the
\* end of its async_write: a write that failed is not made up for after the
\* commands behind it (do_write, write_start, write_complete, close).  Bytes that
\* asio took from where m_write_buffer was before it moved are no command.
CommandsInOrder ==
  \A i, j \in DOMAIN sent :
    i < j /\ sent[i] # Garbage /\ sent[j] # Garbage => sent[i] < sent[j]

\* m_circular_read_buffer never needs more than its capacity: do_read empties it
\* before a chunk that does not fit.
BufferWithinCapacity == Len(circ) <= Cap

FrameReady(buf) == IF HasParser THEN \E i \in 1..(Len(buf) - FrameLen + 1) : IsStart(buf[i])
                                ELSE buf # <<>>

\* A complete answer in the buffer is never hidden from the receive loop: while it
\* is there data_flag_ is set, so waitMoreData does not sleep until its deadline
\* over data that has already arrived (do_read, receive, dataConsumed).
NoStrandedFrame == FrameReady(circ) => flag

\* The last result of read has consecutive bytes.
Consecutive ==
  HasParser => \A i \in 1..(Len(frame) - 1) : frame[i + 1] = frame[i] + 1

\* What read returns through a parser is one whole message of the device: never
\* the head of one message followed by bytes of another, whatever was dropped by
\* an overflow or a close in between.  Only a port that is opened again without a
\* close() that returned, by reopen() or after the I/O thread closed it, keeps the
\* bytes of before over the gap in the line and can join the two.
FrameIntact == [][~reused /\ frame' # frame => Consecutive']_vars

\* A read is under way or about to be.
ReaderArmed ==
  /\ thread = "run"
  /\ \/ readOp
     \/ ioPc = "rearm"
     \/ \E i \in DOMAIN queue : queue[i].h = "do_read" /\ queue[i].err # "aborted"

\* While a port is open and being read, every byte is taken from the line in the end
\* and every complete message is handed to the receive loop.
InputDrained ==
  <>[](portOpen /\ appPc = "idle" /\ fault = "none" /\ ReaderArmed =>
         line = <<>> /\ ~FrameReady(circ))

\* serialport.hpp: "Automatically closes the serial port. See close()": close(),
\* which the destructor calls, returns.
CloseReturns == (appPc = "join") ~> (appPc = "idle")
=============================================================================
