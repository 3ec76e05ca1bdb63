------------------------- MODULE SerialPortProofs -------------------------
(***************************************************************************)
(* Proofs about the serial port, for every capacity, read size, frame      *)
(* length, number of bytes and number of calls, and about request and      *)
(* reply over it, with and without a parser and a retry of the             *)
(* configuration.                                                          *)
(***************************************************************************)
EXTENDS SerialPortDataTransport, TLAPS

(***************************************************************************)
(* The inductive invariant.  What the safety properties need besides       *)
(* themselves: without a running thread nothing is under way, the circular *)
(* buffer is empty before a thread is started, and a write is under way    *)
(* only while m_write_buffer holds what it sends.                          *)
(***************************************************************************)
NothingUnderWay ==
  thread # "run" =>
    /\ ~readOp /\ writeOp = 0 /\ ioPc = "idle"
    /\ None(queue, "do_read") /\ None(queue, "write_complete")

FreshStart == thread = "none" => circ = <<>>

WriteHasBuffer == wbuf = <<>> => None(queue, "write_complete")

ChunkFits == Len(rbuf) <= ReadSize

IInv ==
  /\ TypeOK
  /\ SingleReader /\ SingleWriter
  /\ BufferWithinCapacity /\ NoStrandedFrame
  /\ NothingUnderWay /\ FreshStart /\ WriteHasBuffer /\ ChunkFits

-----------------------------------------------------------------------------
(***************************************************************************)
(* Facts about the queue of handlers.                                      *)
(***************************************************************************)

\* What is left of a sequence without its first n elements.
LEMMA SuffixType ==
  ASSUME NEW s \in Seq(Nat), NEW n \in 0..Len(s)
  PROVE  /\ SubSeq(s, n + 1, Len(s)) \in Seq(Nat)
         /\ Len(SubSeq(s, n + 1, Len(s))) = Len(s) - n
         /\ \A i \in 1..(Len(s) - n) : SubSeq(s, n + 1, Len(s))[i] = s[n + i]
OBVIOUS

\* Taking the handler at the head of the queue.
LEMMA TailOfQueue ==
  ASSUME NEW q \in Seq(Handlers), q # <<>>, NEW h, NEW max \in Nat
  PROVE  /\ Tail(q) \in Seq(Handlers) /\ Head(q) \in Handlers
         /\ None(q, h) => None(Tail(q), h) /\ Head(q).h # h
         /\ AtMostOne(q, h) => AtMostOne(Tail(q), h)
         /\ AtMostOne(q, h) /\ Head(q).h = h => None(Tail(q), h)
         /\ Transferred(q, h, max) => Transferred(Tail(q), h, max)
         /\ Transferred(q, h, max) /\ Head(q).h = h => Head(q).n <= max
<1>1. /\ Tail(q) \in Seq(Handlers) /\ Head(q) \in Handlers
      /\ Len(q) \in Nat \ {0} /\ Head(q) = q[1]
      /\ DOMAIN q = 1..Len(q)
      /\ DOMAIN Tail(q) = 1..(Len(q) - 1)
      /\ \A i \in 1..(Len(q) - 1) : Tail(q)[i] = q[i + 1]
  OBVIOUS
<1>2. QED BY <1>1 DEF None, AtMostOne, Transferred

\* Posting a handler.
LEMMA AppendToQueue ==
  ASSUME NEW q \in Seq(Handlers), NEW e \in Handlers, NEW h, NEW max \in Nat
  PROVE  /\ Append(q, e) \in Seq(Handlers)
         /\ None(q, h) /\ e.h # h => None(Append(q, e), h)
         /\ None(q, h) => AtMostOne(Append(q, e), h)
         /\ AtMostOne(q, h) /\ e.h # h => AtMostOne(Append(q, e), h)
         /\ Transferred(q, h, max) /\ (e.h = h => e.n <= max)
              => Transferred(Append(q, e), h, max)
<1>1. /\ Append(q, e) \in Seq(Handlers)
      /\ Len(q) \in Nat
      /\ DOMAIN q = 1..Len(q)
      /\ DOMAIN Append(q, e) = 1..(Len(q) + 1)
      /\ \A i \in 1..Len(q) : Append(q, e)[i] = q[i]
      /\ Append(q, e)[Len(q) + 1] = e
  OBVIOUS
<1>2. QED BY <1>1 DEF None, AtMostOne, Transferred

\* A larger buffer holds what a smaller one held.
LEMMA TransferredWeaken ==
  ASSUME NEW q \in Seq(Handlers), NEW h, NEW a \in Nat, NEW b \in Nat, a <= b,
         Transferred(q, h, a)
  PROVE  Transferred(q, h, b)
<1>1. \A i \in DOMAIN q : q[i] \in Handlers OBVIOUS
<1>2. \A i \in DOMAIN q : q[i].n \in Nat BY <1>1 DEF Handlers
<1>3. QED BY <1>2 DEF Transferred

\* The conjuncts of the invariant that speak of the queue, for a queue q: the
\* handlers work on the queue without its head.
QueueOK(q) ==
  /\ q \in Seq(Handlers)
  /\ AtMostOne(q, "do_read") /\ AtMostOne(q, "write_complete")
  /\ readOp \/ ioPc = "rearm" => None(q, "do_read")
  /\ writeOp > 0 \/ wbuf = <<>> => None(q, "write_complete")
  /\ Transferred(q, "do_read", Len(rbuf))
  /\ Transferred(q, "write_complete", Len(wbuf))
  /\ thread # "run" => None(q, "do_read") /\ None(q, "write_complete")

\* The conjuncts that do not.
RestOK ==
  /\ portOpen \in BOOLEAN
  /\ thread \in {"none", "run", "done"}
  /\ ioPc \in {"idle", "rearm"}
  /\ appPc \in {"idle", "reopen", "join"}
  /\ readOp \in BOOLEAN /\ writeOp \in Nat /\ dangling \in BOOLEAN
  /\ rbuf \in Seq(Nat) /\ circ \in Seq(Nat) /\ line \in Seq(Nat)
  /\ wbuf \in Seq(Nat) /\ sent \in Seq(Nat) /\ frame \in Seq(Nat)
  /\ flag \in BOOLEAN
  /\ fault \in {"none"} \cup LineFaults
  /\ produced \in 0..MaxBytes /\ calls \in 0..MaxCalls /\ reused \in BOOLEAN
  /\ ~(readOp /\ ioPc = "rearm")
  /\ writeOp <= Len(wbuf)
  /\ BufferWithinCapacity /\ NoStrandedFrame
  /\ thread # "run" => ~readOp /\ writeOp = 0 /\ ioPc = "idle"
  /\ FreshStart /\ ChunkFits

\* IInv is the part about the queue and the part about the rest of the state.
LEMMA SplitInvariant == IInv <=> QueueOK(queue) /\ RestOK
BY DEF IInv, QueueOK, RestOK, TypeOK, SingleReader, SingleWriter, NothingUnderWay,
       WriteHasBuffer

\* QueueOK of the next state, spelt out.
LEMMA NextQueue ==
  QueueOK(queue)' <=>
    /\ queue' \in Seq(Handlers)
    /\ AtMostOne(queue', "do_read") /\ AtMostOne(queue', "write_complete")
    /\ readOp' \/ ioPc' = "rearm" => None(queue', "do_read")
    /\ writeOp' > 0 \/ wbuf' = <<>> => None(queue', "write_complete")
    /\ Transferred(queue', "do_read", Len(rbuf'))
    /\ Transferred(queue', "write_complete", Len(wbuf'))
    /\ thread' # "run" => None(queue', "do_read") /\ None(queue', "write_complete")
BY DEF QueueOK, None, AtMostOne, Transferred

\* A posted handler that neither reads nor writes.
LEMMA PostKeepsQueue ==
  ASSUME RestOK, NEW q, QueueOK(q), NEW e \in Handlers,
         e.h \notin {"do_read", "write_complete"}
  PROVE  QueueOK(Append(q, e))
BY AppendToQueue DEF RestOK, QueueOK

\* The queue a handler is taken from.
LEMMA TakeKeepsQueue ==
  ASSUME RestOK, QueueOK(queue), queue # <<>>
  PROVE  QueueOK(Tail(queue))
BY TailOfQueue DEF RestOK, QueueOK

\* The handlers that the code posts are handlers, with the fields they are given.
LEMMA HandlerType ==
  ASSUME NEW h \in {"do_read", "do_close", "do_write", "write_complete"},
         NEW err \in {"ok", "aborted", "eof", "fault"}, NEW n \in Nat
  PROVE  /\ Handler(h, err, n) \in Handlers
         /\ Handler(h, err, n).h = h /\ Handler(h, err, n).err = err
         /\ Handler(h, err, n).n = n
BY DEF Handler, Handlers

\* The handler of a write that ends at once joins a queue without one.
LEMMA WriteCompletePosted ==
  ASSUME NEW q \in Seq(Handlers), NEW e \in Handlers, e.h = "write_complete",
         NEW max \in Nat, e.n <= max, NEW rmax \in Nat,
         AtMostOne(q, "do_read"), None(q, "write_complete"),
         Transferred(q, "do_read", rmax), Transferred(q, "write_complete", max)
  PROVE  /\ Append(q, e) \in Seq(Handlers)
         /\ AtMostOne(Append(q, e), "do_read")
         /\ AtMostOne(Append(q, e), "write_complete")
         /\ None(q, "do_read") => None(Append(q, e), "do_read")
         /\ Transferred(Append(q, e), "do_read", rmax)
         /\ Transferred(Append(q, e), "write_complete", max)
<1>1. /\ Append(q, e) \in Seq(Handlers)
      /\ AtMostOne(Append(q, e), "do_read")
      /\ None(q, "do_read") => None(Append(q, e), "do_read")
      /\ Transferred(Append(q, e), "do_read", rmax)
  BY AppendToQueue
<1>2. AtMostOne(Append(q, e), "write_complete")
  BY AppendToQueue
<1>3. Transferred(Append(q, e), "write_complete", max)
  BY AppendToQueue
<1> QED BY <1>1, <1>2, <1>3

\* Closing the descriptor aborts what is under way: its handlers join the queue.
LEMMA DoCloseKeepsInvariant ==
  ASSUME RestOK, NEW q, QueueOK(q), NEW reading \in BOOLEAN,
         reading => None(q, "do_read") /\ readOp,
         rbuf' \in Seq(Nat), Transferred(q, "do_read", Len(rbuf')),
         do_close(q, reading), UNCHANGED <<thread, ioPc, wbuf>>
  PROVE  /\ QueueOK(queue)'
         /\ portOpen' \in BOOLEAN /\ readOp' \in BOOLEAN /\ dangling' \in BOOLEAN
         /\ writeOp' \in Nat /\ line' \in Seq(Nat)
         /\ readOp' => readOp
         /\ writeOp' = 0 \/ writeOp' = writeOp
<1> DEFINE ra == Handler("do_read", "aborted", 0)
           wa == Handler("write_complete", "aborted", 0)
           q1 == IF reading THEN Append(q, ra) ELSE q
           q2 == IF writeOp > 0 THEN Append(q1, wa) ELSE q1
<1>1. ra \in Handlers /\ wa \in Handlers
      /\ ra.h = "do_read" /\ ra.n = 0 /\ wa.h = "write_complete" /\ wa.n = 0
  BY HandlerType
<1>2. CASE ~portOpen
  BY <1>2, NextQueue DEF do_close, RestOK, QueueOK
<1>3. CASE portOpen
  <2> HIDE DEF ra, wa
  <2>1. q \in Seq(Handlers) BY DEF QueueOK
  <2>2. q1 \in Seq(Handlers) BY <1>1, <2>1
  <2>3. q \o (IF reading THEN <<ra>> ELSE <<>>) = q1
    BY <1>1, <2>1
  <2>4. q1 \o (IF writeOp > 0 THEN <<wa>> ELSE <<>>) = q2
    <3> HIDE DEF q1
    <3> QED BY <1>1, <2>2
  <2>5. queue' = q2
    BY <1>3, <2>3, <2>4 DEF do_close, CloseDevice, ra, wa
  <2>6. /\ AtMostOne(q1, "do_read") /\ AtMostOne(q1, "write_complete")
        /\ Transferred(q1, "do_read", Len(rbuf'))
        /\ Transferred(q1, "write_complete", Len(wbuf))
        /\ writeOp > 0 \/ wbuf = <<>> => None(q1, "write_complete")
        /\ ioPc = "rearm" => None(q1, "do_read")
        /\ thread # "run" => None(q1, "do_read") /\ None(q1, "write_complete")
    BY <1>1, <2>1, AppendToQueue DEF RestOK, QueueOK
  <2>7. /\ AtMostOne(q2, "do_read") /\ AtMostOne(q2, "write_complete")
        /\ Transferred(q2, "do_read", Len(rbuf'))
        /\ Transferred(q2, "write_complete", Len(wbuf))
        /\ wbuf = <<>> => None(q2, "write_complete")
        /\ ioPc = "rearm" => None(q2, "do_read")
        /\ thread # "run" => None(q2, "do_read") /\ None(q2, "write_complete")
        /\ q2 \in Seq(Handlers)
    <3> HIDE DEF q1
    <3>0. Len(wbuf) \in Nat /\ Len(rbuf') \in Nat BY DEF RestOK
    <3>1. CASE writeOp > 0
      <4>1. q2 = Append(q1, wa) BY <3>1
      <4>2. None(q1, "write_complete") /\ thread = "run" /\ wbuf # <<>>
        BY <2>6, <3>0, <3>1 DEF RestOK
      <4>3. 0 <= Len(wbuf) BY <3>0
      <4> HIDE DEF q2
      <4> QED BY <1>1, <2>2, <2>6, <3>0, <4>1, <4>2, <4>3, WriteCompletePosted
    <3>2. CASE ~(writeOp > 0)
      BY <2>2, <2>6, <3>2
    <3> QED BY <3>1, <3>2
  <2>8. /\ readOp' = FALSE /\ writeOp' = 0 /\ dangling' = FALSE
        /\ portOpen' = FALSE /\ line' = <<>>
    BY <1>3 DEF do_close, CloseDevice
  <2> QED
    <3> HIDE DEF q1, q2
    <3>1. QueueOK(queue)' BY <2>5, <2>7, <2>8, NextQueue
    <3>2. writeOp' \in Nat /\ line' \in Seq(Nat) BY <2>8
    <3>3. /\ portOpen' \in BOOLEAN /\ readOp' \in BOOLEAN /\ dangling' \in BOOLEAN
          /\ readOp' => readOp
          /\ writeOp' = 0 \/ writeOp' = writeOp
      BY <2>8
    <3> QED BY <3>1, <3>2, <3>3
<1>4. QED BY <1>2, <1>3 DEF RestOK

\* A write that is started is the only one, and its units are in m_write_buffer.
LEMMA WriteStartKeepsInvariant ==
  ASSUME RestOK, thread = "run", writeOp = 0,
         NEW q, QueueOK(q), None(q, "write_complete"),
         NEW w \in Seq(Nat), w # <<>>, write_start(w, q), wbuf' = w,
         UNCHANGED <<thread, ioPc, readOp, rbuf>>
  PROVE  /\ QueueOK(queue)'
         /\ writeOp' \in Nat /\ writeOp' <= Len(wbuf')
         /\ sent' \in Seq(Nat)
<1> USE DEF RestOK
<1>0. /\ Len(w) \in Nat \ {0} /\ Len(w) \in Nat /\ thread' = "run"
      /\ Len(rbuf) \in Nat
  OBVIOUS
<1>a. Transferred(q, "write_complete", Len(w)) BY DEF None, Transferred
<1>b. /\ q \in Seq(Handlers) /\ AtMostOne(q, "do_read")
      /\ Transferred(q, "do_read", Len(rbuf))
      /\ readOp \/ ioPc = "rearm" => None(q, "do_read")
  BY DEF QueueOK
<1>1. CASE ~portOpen
  <2> DEFINE e == Handler("write_complete", "fault", 0)
  <2>1. e \in Handlers /\ e.h = "write_complete" /\ e.n = 0 BY HandlerType
  <2>2. queue' = Append(q, e) /\ UNCHANGED <<writeOp, sent>> BY <1>1 DEF write_start
  <2> HIDE DEF e
  <2>3. QueueOK(queue)'
    <3>0. e.n <= Len(w) BY <1>0, <2>1
    <3>1. /\ queue' \in Seq(Handlers)
          /\ AtMostOne(queue', "do_read") /\ AtMostOne(queue', "write_complete")
          /\ readOp \/ ioPc = "rearm" => None(queue', "do_read")
          /\ Transferred(queue', "do_read", Len(rbuf))
          /\ Transferred(queue', "write_complete", Len(w))
      BY <1>0, <1>a, <1>b, <2>1, <2>2, <3>0, WriteCompletePosted, Zenon
    <3> QED BY <1>0, <2>2, <3>1, NextQueue
  <2> QED BY <1>0, <2>2, <2>3
<1>2. CASE portOpen /\ queue' # q
  <2> DEFINE e == Handler("write_complete", "ok", Len(w))
  <2>1. e \in Handlers /\ e.h = "write_complete" /\ e.n = Len(w)
    BY <1>0, HandlerType
  <2>2. queue' = Append(q, e) /\ sent' = sent \o w /\ UNCHANGED writeOp
    BY <1>2 DEF write_start
  <2> HIDE DEF e
  <2>3. QueueOK(queue)'
    <3>0. e.n <= Len(w) BY <1>0, <2>1
    <3>1. /\ queue' \in Seq(Handlers)
          /\ AtMostOne(queue', "do_read") /\ AtMostOne(queue', "write_complete")
          /\ readOp \/ ioPc = "rearm" => None(queue', "do_read")
          /\ Transferred(queue', "do_read", Len(rbuf))
          /\ Transferred(queue', "write_complete", Len(w))
      BY <1>0, <1>a, <1>b, <2>1, <2>2, <3>0, WriteCompletePosted, Zenon
    <3> QED BY <1>0, <2>2, <3>1, NextQueue
  <2> QED BY <1>0, <2>2, <2>3
<1>3. CASE portOpen /\ queue' = q
  <2>1. queue' # Append(q, Handler("write_complete", "ok", Len(w)))
    BY <1>0, <1>3, HandlerType DEF QueueOK
  <2>2. writeOp' = Len(w) /\ UNCHANGED sent BY <1>3, <2>1 DEF write_start
  <2>3. QueueOK(queue)'
    BY <1>0, <1>3, <2>2, NextQueue DEF QueueOK, Transferred, None
  <2> QED BY <1>0, <2>2, <2>3
<1>4. QED BY <1>1, <1>2, <1>3

\* A chunk that do_read inserts never outgrows the circular buffer.
LEMMA InsertFits ==
  ASSUME NEW buf \in Seq(Nat), NEW data \in Seq(Nat),
         Len(buf) <= Cap, Len(data) <= ReadSize
  PROVE  Insert(buf, data) \in Seq(Nat) /\ Len(Insert(buf, data)) <= Cap
BY SizesAssumption DEF Insert

\* What a read of the descriptor takes and leaves.
LEMMA ReadTakes ==
  ASSUME RestOK
  PROVE  /\ Taken \in Seq(Nat) /\ Left \in Seq(Nat) /\ Len(Taken) <= ReadSize
         /\ ReadResult \in {"ok", "eof", "fault", "none"}
<1>0. line \in Seq(Nat) /\ Len(line) \in Nat /\ ReadSize \in Nat
  BY SizesAssumption DEF RestOK
<1>1. Taken \in Seq(Nat) /\ Len(Taken) \in 0..Len(line) /\ Len(Taken) <= ReadSize
  <2>1. CASE ReadResult = "ok"
    <3> DEFINE k == Lesser(Len(line), ReadSize)
    <3>1. k \in 0..Len(line) /\ k <= ReadSize BY <1>0 DEF Lesser
    <3> HIDE DEF k
    <3>2. SubSeq(line, 1, k) \in Seq(Nat) /\ Len(SubSeq(line, 1, k)) = k
      BY <1>0, <3>1
    <3> QED BY <2>1, <3>1, <3>2 DEF Taken, k
  <2>2. CASE ReadResult # "ok"
    BY <1>0, <2>2 DEF Taken
  <2> QED BY <2>1, <2>2
<1>2. Left \in Seq(Nat)
  <2> HIDE DEF Taken
  <2> QED BY <1>0, <1>1, SuffixType DEF Left
<1>3. ReadResult \in {"ok", "eof", "fault", "none"} BY DEF ReadResult
<1>4. QED BY <1>1, <1>2, <1>3

-----------------------------------------------------------------------------
(***************************************************************************)
(* Every step keeps the invariant.                                         *)
(***************************************************************************)

\* The conjuncts that relate the receive buffer, the flag and the thread.
BufferOK == BufferWithinCapacity /\ NoStrandedFrame /\ FreshStart /\ ChunkFits

\* A step that leaves the circular buffer and its flag alone keeps their invariant.
LEMMA BufferUnchanged ==
  ASSUME BufferOK, UNCHANGED <<circ, flag>>, Len(rbuf') <= ReadSize,
         thread' = "none" => thread = "none"
  PROVE  BufferOK'
BY DEF BufferOK, BufferWithinCapacity, NoStrandedFrame, FreshStart, ChunkFits, FrameReady

\* An empty circular buffer holds no frame.
LEMMA EmptyNotReady == ~FrameReady(<<>>)
BY SizesAssumption, ChoicesAssumption DEF FrameReady

\* The constructor establishes the invariant.
LEMMA InitInvariant == ASSUME Init PROVE IInv
<1> USE DEF Init
<1>1. RestOK
  <2>1. BufferOK
    BY SizesAssumption, EmptyNotReady
       DEF BufferOK, BufferWithinCapacity, NoStrandedFrame, FreshStart, ChunkFits
  <2>2. /\ rbuf \in Seq(Nat) /\ circ \in Seq(Nat) /\ line \in Seq(Nat)
        /\ wbuf \in Seq(Nat) /\ sent \in Seq(Nat) /\ frame \in Seq(Nat)
        /\ writeOp <= Len(wbuf) /\ writeOp \in Nat
        /\ produced \in 0..MaxBytes /\ calls \in 0..MaxCalls
    BY SizesAssumption
  <2>3. QED BY <2>1, <2>2 DEF RestOK, BufferOK
<1>2. QueueOK(queue)
  BY DEF QueueOK, None, AtMostOne, Transferred
<1>3. QED BY <1>1, <1>2, SplitInvariant

\* do_close.
LEMMA RunDoCloseKeeps ==
  ASSUME QueueOK(queue), RestOK, RunDoClose PROVE QueueOK(queue)' /\ RestOK'
<1>1. QueueOK(Tail(queue)) BY TakeKeepsQueue DEF RunDoClose, Ready
<1>2. do_close(Tail(queue), readOp)
      /\ UNCHANGED <<thread, ioPc, bufVars, fault, produced, sent, appVars>>
  BY DEF RunDoClose
<1>3. BufferOK' BY <1>2, BufferUnchanged DEF RestOK, BufferOK, ChunkFits, bufVars
<1>4. /\ QueueOK(queue)'
      /\ portOpen' \in BOOLEAN /\ readOp' \in BOOLEAN /\ dangling' \in BOOLEAN
      /\ writeOp' \in Nat /\ line' \in Seq(Nat)
      /\ readOp' => readOp
      /\ writeOp' = 0 \/ writeOp' = writeOp
  BY <1>1, <1>2, DoCloseKeepsInvariant DEF RestOK, QueueOK, bufVars
<1>5. writeOp' <= Len(wbuf') BY <1>2, <1>4 DEF RestOK, bufVars
<1>6. QED BY <1>2, <1>3, <1>4, <1>5 DEF RestOK, bufVars, appVars, BufferOK

\* do_write: with an empty buffer it starts a write, else it only queues.
LEMMA RunDoWriteKeeps ==
  ASSUME QueueOK(queue), RestOK, RunDoWrite PROVE QueueOK(queue)' /\ RestOK'
<1> DEFINE q == Tail(queue)
           c == Head(queue).n
<1>1. queue # <<>> /\ thread = "run" BY DEF RunDoWrite, Ready, IoIdle
<1>2. QueueOK(q) BY <1>1, TakeKeepsQueue
<1>3. c \in Nat
  <2>1. Head(queue) \in Handlers BY <1>1 DEF QueueOK
  <2>2. QED BY <2>1 DEF Handlers
<1>4. /\ do_write(c, q)
      /\ UNCHANGED <<portOpen, thread, ioPc, readOp, rbuf, circ, flag, line, fault,
                     produced, appVars>>
  BY DEF RunDoWrite
<1> HIDE DEF q, c
<1>5. wbuf' = Append(wbuf, c) /\ wbuf' \in Seq(Nat) /\ Len(wbuf') = Len(wbuf) + 1
      /\ wbuf' # <<>>
  BY <1>3, <1>4 DEF do_write, RestOK
<1>6. BufferOK' BY <1>4, BufferUnchanged DEF RestOK, BufferOK, ChunkFits
<1>7. CASE wbuf = <<>>
  <2>1. writeOp = 0 BY <1>7 DEF RestOK
  <2>2. wbuf' = <<c>> /\ <<c>> \in Seq(Nat) /\ <<c>> # <<>> BY <1>3, <1>5, <1>7
  <2>3. write_start(<<c>>, q) /\ UNCHANGED dangling BY <1>4, <1>7 DEF do_write
  <2>4. None(q, "write_complete") BY <1>2, <1>7 DEF QueueOK
  <2>5. /\ QueueOK(queue)' /\ writeOp' \in Nat /\ writeOp' <= Len(wbuf')
        /\ sent' \in Seq(Nat)
    BY <1>1, <1>2, <1>3, <1>4, <2>1, <2>2, <2>3, <2>4, WriteStartKeepsInvariant
  <2>6. QED BY <1>1, <1>4, <1>5, <1>6, <2>3, <2>5 DEF RestOK, BufferOK, appVars
<1>8. CASE wbuf # <<>>
  <2>1. /\ queue' = q /\ UNCHANGED <<writeOp, sent>>
        /\ dangling' = dangling \/ dangling' = TRUE
    BY <1>4, <1>8 DEF do_write
  <2>a. dangling' \in BOOLEAN BY <2>1 DEF RestOK
  <2>2. Transferred(q, "write_complete", Len(wbuf'))
    BY <1>2, <1>5, TransferredWeaken DEF QueueOK, RestOK
  <2>3. QueueOK(queue)'
    BY <1>1, <1>2, <1>4, <1>5, <1>8, <2>1, <2>2, NextQueue DEF QueueOK
  <2>4. writeOp' <= Len(wbuf') BY <1>5, <2>1 DEF RestOK
  <2>5. QED BY <1>1, <1>4, <1>5, <1>6, <2>1, <2>a, <2>3, <2>4
           DEF RestOK, BufferOK, appVars
<1>9. QED BY <1>7, <1>8

\* write_complete: the only write is over, so it may start the next.
LEMMA RunWriteCompleteKeeps ==
  ASSUME QueueOK(queue), RestOK, RunWriteComplete PROVE QueueOK(queue)' /\ RestOK'
<1> DEFINE q == Tail(queue)
           n == Head(queue).n
           w == SubSeq(wbuf, n + 1, Len(wbuf))
<1>1. queue # <<>> /\ thread = "run" /\ Head(queue).h = "write_complete"
  BY DEF RunWriteComplete, Ready, IoIdle
<1>2. QueueOK(q) /\ None(q, "write_complete") /\ writeOp = 0 /\ n <= Len(wbuf)
  <2>1. QueueOK(q) BY <1>1, TakeKeepsQueue
  <2>2. /\ None(q, "write_complete") /\ ~None(queue, "write_complete")
        /\ n <= Len(wbuf)
    BY <1>1, TailOfQueue DEF QueueOK, RestOK
  <2>3. QED BY <2>1, <2>2 DEF QueueOK, RestOK
<1>3. n \in Nat
  <2>1. Head(queue) \in Handlers BY <1>1 DEF QueueOK
  <2>2. QED BY <2>1 DEF Handlers
<1>4. /\ write_complete(Head(queue).err, n, q)
      /\ UNCHANGED <<thread, ioPc, rbuf, circ, flag, fault, produced, appVars>>
  BY DEF RunWriteComplete
<1>5. BufferOK' BY <1>4, BufferUnchanged DEF RestOK, BufferOK, ChunkFits
<1>6. CASE Head(queue).err = "ok"
  <2>1. wbuf' = w /\ UNCHANGED <<portOpen, readOp, dangling, line>>
    BY <1>4, <1>6 DEF write_complete
  <2>2. w \in Seq(Nat) /\ Len(w) = Len(wbuf) - n
    <3> HIDE DEF n
    <3> QED BY <1>2, <1>3 DEF RestOK
  <2>3. /\ QueueOK(queue)' /\ writeOp' \in Nat /\ writeOp' <= Len(wbuf')
        /\ sent' \in Seq(Nat)
    <3>1. CASE Len(wbuf) > n
      <4>1. write_start(w, q) BY <1>4, <1>6, <3>1 DEF write_complete
      <4> HIDE DEF w, q, n
      <4>2. w # <<>> BY <1>3, <2>2, <3>1 DEF RestOK
      <4>3. QED
        BY <1>1, <1>2, <1>4, <2>1, <2>2, <4>1, <4>2, WriteStartKeepsInvariant
    <3>2. CASE ~(Len(wbuf) > n)
      <4>1. queue' = q /\ UNCHANGED <<writeOp, sent>>
        BY <1>4, <1>6, <3>2 DEF write_complete
      <4>2. Len(wbuf') \in Nat /\ 0 <= Len(wbuf') BY <2>1, <2>2
      <4> HIDE DEF w, q
      <4>3. Transferred(q, "write_complete", Len(wbuf')) BY <1>2 DEF None, Transferred
      <4>4. QueueOK(queue)'
        BY <1>1, <1>2, <1>4, <2>1, <4>1, <4>3, NextQueue DEF QueueOK
      <4>5. QED BY <1>2, <4>1, <4>2, <4>4 DEF RestOK
    <3>3. QED BY <3>1, <3>2
  <2>4. QED BY <1>1, <1>4, <1>5, <2>1, <2>2, <2>3 DEF RestOK, BufferOK, appVars
<1>7. CASE Head(queue).err # "ok"
  <2>1. do_close(q, readOp) /\ UNCHANGED <<wbuf, sent>> BY <1>4, <1>7 DEF write_complete
  <2> HIDE DEF q
  <2>2. /\ QueueOK(queue)'
        /\ portOpen' \in BOOLEAN /\ readOp' \in BOOLEAN /\ dangling' \in BOOLEAN
        /\ writeOp' \in Nat /\ line' \in Seq(Nat)
        /\ readOp' => readOp
        /\ writeOp' = 0
    BY <1>2, <1>4, <2>1, DoCloseKeepsInvariant DEF QueueOK, RestOK
  <2>3. writeOp' <= Len(wbuf') BY <2>1, <2>2 DEF RestOK
  <2>4. QED BY <1>1, <1>4, <1>5, <2>1, <2>2, <2>3 DEF RestOK, BufferOK, appVars
<1>8. QED BY <1>6, <1>7

\* do_read, from the queue or from the reactor: the read it completes is the only one.
LEMMA DoReadKeeps ==
  ASSUME RestOK, thread = "run", ioPc = "idle",
         NEW q, QueueOK(q), None(q, "do_read"),
         NEW err, NEW data \in Seq(Nat), NEW rest \in Seq(Nat),
         Len(data) <= ReadSize, err = "aborted" => ~readOp,
         rbuf' \in Seq(Nat), Len(rbuf') <= ReadSize,
         do_read(err, data, rest, q),
         UNCHANGED <<thread, wbuf, fault, produced, sent, appVars>>
  PROVE  QueueOK(queue)' /\ RestOK'
<1>0. Transferred(q, "do_read", Len(rbuf')) BY DEF None, Transferred
<1>1. CASE err = "aborted"
  <2>1. /\ queue' = q
        /\ UNCHANGED <<portOpen, readOp, writeOp, dangling, line, circ, flag, ioPc>>
    BY <1>1 DEF do_read
  <2>2. BufferOK' BY <2>1, BufferUnchanged DEF RestOK, BufferOK, ChunkFits
  <2>3. QueueOK(queue)' BY <1>0, <2>1, NextQueue DEF QueueOK
  <2>4. QED BY <2>1, <2>2, <2>3 DEF RestOK, BufferOK, appVars
<1>2. CASE err = "eof"
  <2>1. do_close(q, FALSE) /\ UNCHANGED <<circ, flag, ioPc>> BY <1>2 DEF do_read
  <2>2. BufferOK' BY <2>1, BufferUnchanged DEF RestOK, BufferOK, ChunkFits
  <2>3. /\ QueueOK(queue)'
        /\ portOpen' \in BOOLEAN /\ readOp' \in BOOLEAN /\ dangling' \in BOOLEAN
        /\ writeOp' \in Nat /\ line' \in Seq(Nat)
        /\ readOp' => readOp
        /\ writeOp' = 0 \/ writeOp' = writeOp
    BY <1>0, <2>1, DoCloseKeepsInvariant
  <2>4. writeOp' <= Len(wbuf') BY <2>3 DEF RestOK
  <2>5. QED BY <2>1, <2>2, <2>3, <2>4 DEF RestOK, BufferOK, appVars
<1>3. CASE err \notin {"aborted", "eof"}
  <2>1. /\ circ' = Insert(circ, data) /\ flag' = TRUE /\ ioPc' = "rearm"
        /\ queue' = q /\ line' = rest /\ readOp' = FALSE
        /\ UNCHANGED <<portOpen, writeOp, dangling>>
    BY <1>3 DEF do_read
  <2>2. circ' \in Seq(Nat) /\ BufferOK'
    BY <2>1, InsertFits
       DEF RestOK, BufferOK, BufferWithinCapacity, NoStrandedFrame, FreshStart, ChunkFits
  <2>4. QueueOK(queue)' BY <1>0, <2>1, NextQueue DEF QueueOK
  <2>5. QED BY <2>1, <2>2, <2>4 DEF RestOK, BufferOK, appVars
<1>4. QED BY <1>1, <1>2, <1>3

\* do_read for a read that finished when it was started.
LEMMA RunDoReadKeeps ==
  ASSUME QueueOK(queue), RestOK, RunDoRead PROVE QueueOK(queue)' /\ RestOK'
<1> DEFINE q == Tail(queue)
           n == Head(queue).n
           data == SubSeq(rbuf, 1, n)
<1>1. queue # <<>> /\ thread = "run" /\ ioPc = "idle" /\ Head(queue).h = "do_read"
  BY DEF RunDoRead, Ready, IoIdle
<1>2. /\ QueueOK(q) /\ None(q, "do_read") /\ n <= Len(rbuf) /\ ~readOp
  <2>1. QueueOK(q) BY <1>1, TakeKeepsQueue
  <2>2. /\ None(q, "do_read") /\ ~None(queue, "do_read") /\ n <= Len(rbuf)
    BY <1>1, TailOfQueue DEF QueueOK, RestOK
  <2>3. QED BY <2>1, <2>2 DEF QueueOK, RestOK
<1>3. n \in Nat
  <2>1. Head(queue) \in Handlers BY <1>1 DEF QueueOK
  <2>2. QED BY <2>1 DEF Handlers
<1>4. data \in Seq(Nat) /\ Len(data) <= ReadSize
  <2> HIDE DEF n
  <2>1. rbuf \in Seq(Nat) /\ Len(rbuf) \in Nat /\ n \in 0..Len(rbuf)
        /\ Len(rbuf) <= ReadSize /\ ReadSize \in Nat
    BY <1>2, <1>3, SizesAssumption DEF RestOK, ChunkFits
  <2>2. SubSeq(rbuf, 1, n) \in Seq(Nat) /\ Len(SubSeq(rbuf, 1, n)) = n
    BY <2>1
  <2> QED BY <2>1, <2>2
<1>5. /\ do_read(Head(queue).err, data, line, q)
      /\ UNCHANGED <<thread, rbuf, wbuf, fault, produced, sent, appVars>>
  BY DEF RunDoRead
<1>6. QED
  <2> HIDE DEF q, data
  <2> QED BY <1>1, <1>2, <1>4, <1>5, DoReadKeeps DEF RestOK, ChunkFits

\* do_read for a read that had to wait.
LEMMA ReactorReadKeeps ==
  ASSUME QueueOK(queue), RestOK, ReactorRead PROVE QueueOK(queue)' /\ RestOK'
<1>1. /\ thread = "run" /\ ioPc = "idle" /\ readOp /\ portOpen /\ rbuf' = Taken
      /\ do_read(ReadResult, Taken, Left, queue)
      /\ UNCHANGED <<thread, wbuf, fault, produced, sent, appVars>>
  BY DEF ReactorRead, IoIdle
<1>2. None(queue, "do_read") BY <1>1 DEF QueueOK
<1>3. ReadResult # "aborted" BY ReadTakes
<1>4. QED BY <1>1, <1>2, <1>3, ReadTakes, DoReadKeeps

\* A waiting write is over and its handler is posted.
LEMMA ReactorWriteKeeps ==
  ASSUME QueueOK(queue), RestOK, ReactorWrite PROVE QueueOK(queue)' /\ RestOK'
<1> DEFINE e == Handler("write_complete", IF fault = "none" THEN "ok" ELSE "fault",
                        IF fault = "none" THEN writeOp ELSE 0)
<1>1. /\ thread = "run" /\ writeOp > 0 /\ writeOp' = 0 /\ dangling' = FALSE
      /\ queue' = Append(queue, e)
      /\ UNCHANGED <<portOpen, thread, ioPc, readOp, bufVars, line, fault, produced,
                     appVars>>
  BY DEF ReactorWrite, IoIdle
<1>2. e \in Handlers /\ e.h = "write_complete" /\ e.n <= Len(wbuf)
  <2>1. writeOp \in Nat /\ writeOp <= Len(wbuf) /\ Len(wbuf) \in Nat BY DEF RestOK
  <2>2. CASE fault = "none"
    <3>1. e = Handler("write_complete", "ok", writeOp) BY <2>2
    <3> QED BY <2>1, <3>1, HandlerType
  <2>3. CASE fault # "none"
    <3>1. e = Handler("write_complete", "fault", 0) BY <2>3
    <3> QED BY <2>1, <3>1, HandlerType
  <2> QED BY <2>2, <2>3
<1>3. sent' \in Seq(Nat)
  <2>1. [i \in 1..writeOp |-> Garbage] \in Seq(Nat) BY DEF RestOK, Garbage
  <2>2. SubSeq(wbuf, 1, writeOp) \in Seq(Nat) BY DEF RestOK
  <2> DEFINE x == IF dangling THEN [i \in 1..writeOp |-> Garbage]
                             ELSE SubSeq(wbuf, 1, writeOp)
  <2>3. x \in Seq(Nat) BY <2>1, <2>2
  <2>4. sent' = sent \o x \/ sent' = sent BY DEF ReactorWrite
  <2> HIDE DEF x
  <2>5. sent \in Seq(Nat) BY DEF RestOK
  <2>6. sent \o x \in Seq(Nat) BY <2>3, <2>5
  <2>7. QED BY <2>4, <2>5, <2>6
<1>4. None(queue, "write_complete") /\ wbuf # <<>>
  BY <1>1 DEF QueueOK, RestOK
<1> HIDE DEF e
<1>5. /\ queue' \in Seq(Handlers)
      /\ AtMostOne(queue', "do_read") /\ AtMostOne(queue', "write_complete")
      /\ readOp \/ ioPc = "rearm" => None(queue', "do_read")
      /\ Transferred(queue', "do_read", Len(rbuf))
      /\ Transferred(queue', "write_complete", Len(wbuf))
  <2>1. /\ queue \in Seq(Handlers) /\ AtMostOne(queue, "do_read")
        /\ readOp \/ ioPc = "rearm" => None(queue, "do_read")
        /\ Transferred(queue, "do_read", Len(rbuf))
        /\ Transferred(queue, "write_complete", Len(wbuf))
    BY DEF QueueOK
  <2>2. Len(rbuf) \in Nat /\ Len(wbuf) \in Nat BY DEF RestOK
  <2> QED BY <1>1, <1>2, <1>4, <2>1, <2>2, WriteCompletePosted
<1>6. QueueOK(queue)' BY <1>1, <1>4, <1>5, NextQueue DEF bufVars
<1>7. BufferOK' BY <1>1, BufferUnchanged DEF RestOK, BufferOK, ChunkFits, bufVars
<1>8. writeOp' \in Nat /\ writeOp' <= Len(wbuf') BY <1>1 DEF RestOK, bufVars
<1>9. QED BY <1>1, <1>3, <1>6, <1>7, <1>8 DEF RestOK, BufferOK, bufVars, appVars

\* The end of do_read: the next read waits, or its handler is posted.
LEMMA RearmKeeps ==
  ASSUME QueueOK(queue), RestOK, Rearm PROVE QueueOK(queue)' /\ RestOK'
<1> DEFINE e == Handler("do_read", ReadResult, Len(Taken))
<1>1. /\ thread = "run" /\ ioPc = "rearm" /\ ioPc' = "idle"
      /\ rbuf' = Taken /\ line' = Left
      /\ UNCHANGED <<portOpen, thread, writeOp, dangling, circ, flag, wbuf, fault,
                     produced, sent, appVars>>
  BY DEF Rearm, AsyncReadSome
<1>2. None(queue, "do_read") /\ ~readOp BY <1>1 DEF QueueOK, RestOK
<1>3. /\ Len(rbuf') \in Nat /\ Len(rbuf') <= ReadSize
      /\ rbuf' \in Seq(Nat) /\ line' \in Seq(Nat)
  BY <1>1, ReadTakes
<1>4. BufferOK' BY <1>1, <1>3, BufferUnchanged DEF RestOK, BufferOK
<1>5. Transferred(queue, "do_read", Len(rbuf')) BY <1>2 DEF None, Transferred
<1>6. QueueOK(queue)' /\ readOp' \in BOOLEAN
  <2>1. CASE ReadResult = "none"
    <3>1. readOp' = TRUE /\ UNCHANGED queue BY <2>1 DEF Rearm, AsyncReadSome
    <3>2. QED BY <1>1, <1>2, <1>5, <3>1, NextQueue DEF QueueOK
  <2>2. CASE ReadResult # "none"
    <3>1. queue' = Append(queue, e) /\ UNCHANGED readOp
      BY <2>2 DEF Rearm, AsyncReadSome
    <3>2. e \in Handlers /\ e.h = "do_read" /\ e.n = Len(rbuf')
      BY <1>1, <1>3, <2>2, ReadTakes, HandlerType
    <3> HIDE DEF e
    <3>3. /\ queue' \in Seq(Handlers)
          /\ AtMostOne(queue', "do_read") /\ AtMostOne(queue', "write_complete")
          /\ writeOp > 0 \/ wbuf = <<>> => None(queue', "write_complete")
          /\ Transferred(queue', "do_read", Len(rbuf'))
          /\ Transferred(queue', "write_complete", Len(wbuf))
      <4>1. Len(rbuf') \in Nat /\ Len(wbuf) \in Nat BY <1>3 DEF RestOK
      <4>2. /\ queue \in Seq(Handlers) /\ AtMostOne(queue, "write_complete")
            /\ None(queue, "do_read")
            /\ writeOp > 0 \/ wbuf = <<>> => None(queue, "write_complete")
            /\ Transferred(queue, "write_complete", Len(wbuf))
        BY <1>2, <1>5 DEF QueueOK
      <4>3. Transferred(queue, "do_read", Len(rbuf'))
        BY <4>2 DEF None, Transferred
      <4>4. /\ queue' \in Seq(Handlers)
            /\ AtMostOne(queue', "do_read")
            /\ Transferred(queue', "do_read", Len(rbuf'))
        BY <3>1, <3>2, <4>1, <4>2, <4>3, AppendToQueue
      <4>5. /\ AtMostOne(queue', "write_complete")
            /\ writeOp > 0 \/ wbuf = <<>> => None(queue', "write_complete")
            /\ Transferred(queue', "write_complete", Len(wbuf))
        BY <3>1, <3>2, <4>1, <4>2, AppendToQueue
      <4> QED BY <4>4, <4>5
    <3>4. QED BY <1>1, <1>2, <3>1, <3>3, NextQueue DEF RestOK
  <2>3. QED BY <2>1, <2>2
<1>7. QED BY <1>1, <1>3, <1>4, <1>6 DEF RestOK, BufferOK, appVars

\* The I/O thread ends with nothing under way.
LEMMA ThreadExitKeeps ==
  ASSUME QueueOK(queue), RestOK, ThreadExit PROVE QueueOK(queue)' /\ RestOK'
<1>1. /\ queue = <<>> /\ ~readOp /\ writeOp = 0 /\ ioPc = "idle" /\ thread' = "done"
      /\ UNCHANGED <<portOpen, ioPc, queue, readOp, writeOp, dangling, bufVars,
                     devVars, appVars>>
  BY DEF ThreadExit, IoIdle
<1>2. None(queue', "do_read") /\ None(queue', "write_complete") BY <1>1 DEF None
<1>3. QueueOK(queue)' BY <1>1, <1>2, NextQueue DEF QueueOK, bufVars
<1>4. BufferOK' BY <1>1, BufferUnchanged DEF RestOK, BufferOK, ChunkFits, bufVars
<1>5. QED BY <1>1, <1>3, <1>4 DEF RestOK, BufferOK, bufVars, devVars, appVars

\* open: a thread is started over an empty circular buffer only.
LEMMA OpenKeeps ==
  ASSUME QueueOK(queue), RestOK, open PROVE QueueOK(queue)' /\ RestOK'
<1>1. /\ portOpen' = TRUE /\ fault' = "none" /\ calls' = calls + 1 /\ calls < MaxCalls
      /\ reused' \in BOOLEAN
      /\ UNCHANGED <<ioPc, queue, writeOp, dangling, rbuf, circ, wbuf, line, produced,
                     sent, appPc, frame>>
  BY DEF open, Call, Reuse, RestOK
<1>2. calls' \in 0..MaxCalls BY <1>1, SizesAssumption DEF RestOK
<1>3. CASE thread = "none"
  <2>1. flag' = FALSE /\ readOp' = TRUE /\ thread' = "run" BY <1>3 DEF open
  <2>2. QueueOK(queue)' BY <1>1, <1>3, <2>1, NextQueue DEF QueueOK
  <2>3. circ = <<>> /\ ioPc = "idle" BY <1>3 DEF RestOK, FreshStart
  <2>4. ~FrameReady(circ') BY <1>1, <2>3, EmptyNotReady
  <2>5. BufferOK'
    BY <1>1, <2>1, <2>4
       DEF RestOK, BufferOK, BufferWithinCapacity, NoStrandedFrame, FreshStart,
           ChunkFits, FrameReady
  <2>6. QED BY <1>1, <1>2, <2>1, <2>2, <2>3, <2>5 DEF RestOK, BufferOK
<1>4. CASE thread # "none"
  <2>1. UNCHANGED <<flag, readOp, thread>> BY <1>4 DEF open
  <2>2. QueueOK(queue)' BY <1>1, <2>1, NextQueue DEF QueueOK
  <2>3. BufferOK' BY <1>1, <2>1, BufferUnchanged DEF RestOK, BufferOK, ChunkFits
  <2>4. QED BY <1>1, <1>2, <2>1, <2>2, <2>3 DEF RestOK, BufferOK
<1>5. QED BY <1>3, <1>4

\* The first half of reopen.
LEMMA ReopenKeeps ==
  ASSUME QueueOK(queue), RestOK, reopen PROVE QueueOK(queue)' /\ RestOK'
<1>1. /\ calls' = calls + 1 /\ calls < MaxCalls /\ appPc' = "reopen"
      /\ do_close(queue, readOp)
      /\ UNCHANGED <<thread, ioPc, bufVars, fault, produced, sent, frame, reused>>
  BY DEF reopen, Call
<1>2. calls' \in 0..MaxCalls BY <1>1, SizesAssumption DEF RestOK
<1>3. BufferOK' BY <1>1, BufferUnchanged DEF RestOK, BufferOK, ChunkFits, bufVars
<1>4. /\ QueueOK(queue)'
      /\ portOpen' \in BOOLEAN /\ readOp' \in BOOLEAN /\ dangling' \in BOOLEAN
      /\ writeOp' \in Nat /\ line' \in Seq(Nat)
      /\ readOp' => readOp
      /\ writeOp' = 0 \/ writeOp' = writeOp
  BY <1>1, DoCloseKeepsInvariant DEF RestOK, QueueOK, bufVars
<1>5. writeOp' <= Len(wbuf') BY <1>1, <1>4 DEF RestOK, bufVars
<1>6. QED BY <1>1, <1>2, <1>3, <1>4, <1>5 DEF RestOK, bufVars, BufferOK

\* The second half of reopen.
LEMMA ReopenDeviceKeeps ==
  ASSUME QueueOK(queue), RestOK, ReopenDevice PROVE QueueOK(queue)' /\ RestOK'
<1>1. /\ appPc' = "idle" /\ portOpen' \in BOOLEAN /\ reused' \in BOOLEAN
      /\ fault' = "none" \/ fault' = fault
      /\ UNCHANGED <<ioVars, bufVars, line, produced, sent, calls, frame>>
  BY DEF ReopenDevice, Reuse, RestOK
<1>2. QueueOK(queue)' BY <1>1, NextQueue DEF QueueOK, ioVars, bufVars
<1>3. BufferOK' BY <1>1, BufferUnchanged DEF RestOK, BufferOK, ChunkFits, ioVars, bufVars
<1>4. QED BY <1>1, <1>2, <1>3 DEF RestOK, BufferOK, ioVars, bufVars

\* close and write: they post a handler and change nothing else that matters here.
LEMMA PostKeeps ==
  ASSUME QueueOK(queue), RestOK, close \/ write PROVE QueueOK(queue)' /\ RestOK'
<1>1. /\ calls' = calls + 1 /\ calls < MaxCalls /\ appPc' \in {appPc, "join"}
      /\ UNCHANGED <<portOpen, thread, ioPc, readOp, writeOp, dangling, bufVars,
                     devVars, frame, reused>>
  BY DEF close, write, Call
<1>2. calls' \in 0..MaxCalls BY <1>1, SizesAssumption DEF RestOK
<1>3. PICK e \in Handlers : /\ e.h \notin {"do_read", "write_complete"}
                            /\ queue' = Append(queue, e)
  <2>1. CASE close BY <2>1, HandlerType DEF close
  <2>2. CASE write
    <3>1. calls' \in Nat BY <1>1 DEF RestOK
    <3>2. QED BY <2>2, <3>1, HandlerType DEF write
  <2>3. QED BY <2>1, <2>2
<1>4. QueueOK(queue)'
  BY <1>1, <1>3, PostKeepsQueue, NextQueue DEF QueueOK, bufVars
<1>5. BufferOK' BY <1>1, BufferUnchanged DEF RestOK, BufferOK, ChunkFits, bufVars
<1>6. QED BY <1>1, <1>2, <1>4, <1>5 DEF RestOK, BufferOK, bufVars, devVars

\* The end of close: nothing is under way when the buffers are cleared.
LEMMA CloseJoinedKeeps ==
  ASSUME QueueOK(queue), RestOK, CloseJoined PROVE QueueOK(queue)' /\ RestOK'
<1>1. /\ thread # "run" /\ appPc' = "idle" /\ thread' = "none"
      /\ circ' = <<>> /\ rbuf' = <<>> /\ wbuf' = <<>> /\ reused' = FALSE
      /\ UNCHANGED <<portOpen, ioPc, queue, readOp, writeOp, dangling, flag, devVars,
                     calls, frame>>
  BY DEF CloseJoined
<1>2. None(queue, "do_read") /\ None(queue, "write_complete") /\ writeOp = 0
  BY <1>1 DEF QueueOK, RestOK
<1>3. Transferred(queue, "do_read", 0) /\ Transferred(queue, "write_complete", 0)
  BY <1>2 DEF None, Transferred
<1>4. QueueOK(queue)' BY <1>1, <1>2, <1>3, NextQueue DEF QueueOK
<1>5. ~FrameReady(circ') BY <1>1, EmptyNotReady
<1>6. BufferOK'
  BY <1>1, <1>5, SizesAssumption
     DEF BufferOK, BufferWithinCapacity, NoStrandedFrame, FreshStart, ChunkFits, FrameReady
<1>7. /\ rbuf' \in Seq(Nat) /\ circ' \in Seq(Nat) /\ wbuf' \in Seq(Nat)
      /\ writeOp' \in Nat /\ writeOp' <= Len(wbuf')
  BY <1>1, <1>2
<1>8. QED BY <1>1, <1>2, <1>4, <1>6, <1>7 DEF RestOK, BufferOK, devVars

\* What read returns and what it leaves in the circular buffer: the rest is no
\* longer than before, and holds no complete frame when nothing is returned.
LEMMA ReadKeeps ==
  ASSUME RestOK, NEW result, NEW rest, read(result, rest)
  PROVE  /\ result \in Seq(Nat) /\ rest \in Seq(Nat)
         /\ Len(rest) <= Len(circ)
         /\ result = <<>> => ~FrameReady(rest)
         /\ circ = <<>> => rest = <<>>
<1> USE SizesAssumption, ChoicesAssumption
<1>1. circ \in Seq(Nat) /\ Len(circ) \in Nat BY DEF RestOK
<1>2. CASE ~HasParser
  <2>1. result = circ /\ rest = <<>> BY <1>2 DEF read
  <2>2. QED BY <1>1, <2>1, EmptyNotReady
<1>3. CASE HasParser
  <2>1. PICK k \in 0..Len(circ) :
          LET valid == SubSeq(circ, k + 1, Len(circ)) IN
          IF Len(valid) >= FrameLen
          THEN result = SubSeq(valid, 1, FrameLen)
               /\ rest = SubSeq(valid, FrameLen + 1, Len(valid))
          ELSE result = <<>> /\ rest = valid
    BY <1>3 DEF read, getValidBuffer
  <2> DEFINE valid == SubSeq(circ, k + 1, Len(circ))
  <2>2. valid \in Seq(Nat) /\ Len(valid) = Len(circ) - k BY <1>1
  <2>3. IF Len(valid) >= FrameLen
        THEN result = SubSeq(valid, 1, FrameLen)
             /\ rest = SubSeq(valid, FrameLen + 1, Len(valid))
        ELSE result = <<>> /\ rest = valid
    BY <2>1
  <2> HIDE DEF valid
  <2>4. CASE Len(valid) >= FrameLen
    <3>1. result \in Seq(Nat) /\ Len(result) = FrameLen BY <2>2, <2>3, <2>4
    <3>2. rest \in Seq(Nat) /\ Len(rest) = Len(valid) - FrameLen
      <4>1. rest = SubSeq(valid, FrameLen + 1, Len(valid)) BY <2>3, <2>4
      <4>2. FrameLen \in 0..Len(valid) BY <2>2, <2>4
      <4>3. QED BY <2>2, <4>1, <4>2, SuffixType
    <3>3. result # <<>> BY <3>1
    <3>4. Len(rest) <= Len(circ) /\ Len(circ) # 0 BY <1>1, <2>2, <2>4, <3>2
    <3>5. QED BY <3>1, <3>2, <3>3, <3>4
  <2>5. CASE ~(Len(valid) >= FrameLen)
    <3>1. result = <<>> /\ rest = valid BY <2>3, <2>5
    <3>2. ~FrameReady(rest) BY <1>1, <1>3, <2>2, <2>5, <3>1 DEF FrameReady
    <3>3. Len(rest) <= Len(circ) /\ (circ = <<>> => rest = <<>>) BY <1>1, <2>2, <3>1
    <3>4. QED BY <2>2, <3>1, <3>2, <3>3
  <2>6. QED BY <2>4, <2>5
<1>4. QED BY <1>2, <1>3

\* receive: the flag is cleared only over a buffer without a frame.
LEMMA ReceiveKeeps ==
  ASSUME QueueOK(queue), RestOK, receive PROVE QueueOK(queue)' /\ RestOK'
<1>1. /\ read(frame', circ') /\ flag' = (frame' # <<>>)
      /\ UNCHANGED <<portOpen, ioVars, rbuf, wbuf, devVars, appPc, calls, reused>>
  BY DEF receive
<1>2. /\ frame' \in Seq(Nat) /\ circ' \in Seq(Nat) /\ Len(circ') <= Len(circ)
      /\ frame' = <<>> => ~FrameReady(circ')
      /\ circ = <<>> => circ' = <<>>
  BY <1>1, ReadKeeps
<1>3. FrameReady(circ)' <=> FrameReady(circ') BY DEF FrameReady
<1>4. NoStrandedFrame' BY <1>1, <1>2, <1>3 DEF NoStrandedFrame
<1>5. BufferWithinCapacity'
  BY <1>2, SizesAssumption DEF RestOK, BufferWithinCapacity
<1>6. FreshStart' /\ ChunkFits' BY <1>1, <1>2 DEF RestOK, FreshStart, ChunkFits, ioVars
<1>7. QueueOK(queue)' BY <1>1, NextQueue DEF QueueOK, ioVars
<1>8. flag' \in BOOLEAN BY <1>1
<1>9. QED BY <1>1, <1>2, <1>4, <1>5, <1>6, <1>7, <1>8 DEF RestOK, ioVars, devVars

\* The device and the line.
LEMMA DeviceKeeps ==
  ASSUME QueueOK(queue), RestOK, Device PROVE QueueOK(queue)' /\ RestOK'
<1>1. UNCHANGED <<portOpen, ioVars, bufVars, sent, appVars>>
  BY DEF Device, DeviceSends, LineFails
<1>2. line' \in Seq(Nat) /\ produced' \in 0..MaxBytes /\ fault' \in {"none"} \cup LineFaults
  <2>1. CASE DeviceSends
    <3>1. /\ produced' = produced + 1 /\ produced < MaxBytes /\ UNCHANGED fault
          /\ line' = IF portOpen THEN Append(line, produced + 1) ELSE line
      BY <2>1 DEF DeviceSends
    <3>2. produced' \in 0..MaxBytes /\ produced + 1 \in Nat
      BY <3>1, SizesAssumption DEF RestOK
    <3>3. QED BY <3>1, <3>2 DEF RestOK
  <2>2. CASE LineFails BY <2>2 DEF LineFails, RestOK
  <2>3. QED BY <2>1, <2>2 DEF Device
<1>3. QueueOK(queue)' BY <1>1, NextQueue DEF QueueOK, ioVars, bufVars
<1>4. BufferOK' BY <1>1, BufferUnchanged DEF RestOK, BufferOK, ChunkFits, ioVars, bufVars
<1>5. QED BY <1>1, <1>2, <1>3, <1>4 DEF RestOK, BufferOK, ioVars, bufVars, appVars

\* A step that changes nothing.
LEMMA StutterKeeps ==
  ASSUME QueueOK(queue), RestOK, UNCHANGED vars PROVE QueueOK(queue)' /\ RestOK'
<1> USE DEF vars, ioVars, bufVars, devVars, appVars
<1>1. QueueOK(queue)' BY NextQueue DEF QueueOK
<1>2. BufferOK' BY BufferUnchanged DEF RestOK, BufferOK, ChunkFits
<1>3. QED BY <1>1, <1>2 DEF RestOK, BufferOK

-----------------------------------------------------------------------------
(***************************************************************************)
(* The theorems.                                                           *)
(***************************************************************************)

\* IInv is an invariant of the port: it holds at first and every step of the I/O
\* thread, the application and the device keeps it.
THEOREM InductiveInvariant == Spec => []IInv
<1>1. ASSUME IInv, [Next]_vars PROVE IInv'
  <2>1. QueueOK(queue) /\ RestOK BY <1>1, SplitInvariant
  <2>2. QueueOK(queue)' /\ RestOK'
    <3>1. CASE IoThread
      BY <2>1, <3>1, RunDoReadKeeps, RunDoCloseKeeps, RunDoWriteKeeps,
         RunWriteCompleteKeeps, ReactorReadKeeps, ReactorWriteKeeps, RearmKeeps,
         ThreadExitKeeps DEF IoThread
    <3>2. CASE Application
      BY <2>1, <3>2, OpenKeeps, ReopenKeeps, ReopenDeviceKeeps, PostKeeps,
         CloseJoinedKeeps, ReceiveKeeps DEF Application
    <3>3. CASE Device BY <2>1, <3>3, DeviceKeeps
    <3>4. CASE UNCHANGED vars BY <2>1, <3>4, StutterKeeps
    <3>5. QED BY <1>1, <3>1, <3>2, <3>3, <3>4 DEF Next
  <2>3. (QueueOK(queue) /\ RestOK => IInv)' BY SplitInvariant, PTL
  <2>4. QED BY <2>2, <2>3
<1>2. QED BY <1>1, InitInvariant, PTL DEF Spec

\* Every variable of the port keeps its type.
THEOREM TypeCorrect == Spec => []TypeOK
<1>1. IInv => TypeOK BY DEF IInv
<1>2. QED BY <1>1, InductiveInvariant, PTL

\* One read of the descriptor at a time, so m_read_buffer is never overwritten under
\* a handler that has yet to copy it (open, do_read).
THEOREM ReadsNeverOverlap == Spec => []SingleReader
<1>1. IInv => SingleReader BY DEF IInv
<1>2. QED BY <1>1, InductiveInvariant, PTL

\* One asynchronous write at a time, and write_complete never erases more than
\* m_write_buffer holds (do_write, write_start, write_complete).
THEOREM WritesNeverOverlap == Spec => []SingleWriter
<1>1. IInv => SingleWriter BY DEF IInv
<1>2. QED BY <1>1, InductiveInvariant, PTL

\* The circular buffer keeps to its capacity whatever the device sends (do_read).
THEOREM CapacityRespected == Spec => []BufferWithinCapacity
<1>1. IInv => BufferWithinCapacity BY DEF IInv
<1>2. QED BY <1>1, InductiveInvariant, PTL

\* No complete frame waits in the buffer behind a cleared data_flag_ (do_read,
\* receive, dataConsumed).
THEOREM FramesNeverStranded == Spec => []NoStrandedFrame
<1>1. IInv => NoStrandedFrame BY DEF IInv
<1>2. QED BY <1>1, InductiveInvariant, PTL

-----------------------------------------------------------------------------
(***************************************************************************)
(* Commands in order.  What the device has received, then what of          *)
(* m_write_buffer is not sent, then the commands in the queue, is one      *)
(* ascending sequence of the numbers of calls.                             *)
(***************************************************************************)

\* The j-th unit of m_write_buffer is not of a write that was done.
Unsent(q, j) ==
  \A k \in DOMAIN q : q[k].h = "write_complete" /\ q[k].err = "ok" => q[k].n < j

\* The number x is behind all units in s.
Behind(x, s) == \A i \in DOMAIN s : s[i] < x

InOrder(s) ==
  \A i, j \in DOMAIN s : i < j /\ s[i] # Garbage /\ s[j] # Garbage => s[i] < s[j]

\* The commands in a queue q, behind those in s and w.
PostedInOrder(q, s, w, c) ==
  \A k \in DOMAIN q : q[k].h = "do_write" =>
    /\ 0 < q[k].n /\ q[k].n <= c /\ Behind(q[k].n, s) /\ Behind(q[k].n, w)
    /\ \A l \in DOMAIN q : k < l /\ q[l].h = "do_write" => q[k].n < q[l].n

\* The units of a write buffer w, behind those in s, before number c + 1.
BufferInOrder(q, s, w, c) ==
  /\ Behind(c + 1, s) /\ Behind(c + 1, w)
  /\ \A j \in DOMAIN w : 0 < w[j] /\ (Unsent(q, j) => Behind(w[j], s))
  /\ \A i, j \in DOMAIN w : i < j => w[i] < w[j]

Ordered(q, s, w, c) ==
  /\ q \in Seq(Handlers) /\ s \in Seq(Nat) /\ w \in Seq(Nat) /\ c \in Nat
  /\ InOrder(s) /\ PostedInOrder(q, s, w, c) /\ BufferInOrder(q, s, w, c)

\* Taking a handler, other than that of a write that was done.
LEMMA OrderedTail ==
  ASSUME NEW q, NEW s, NEW w, NEW c, Ordered(q, s, w, c), q # <<>>,
         Head(q).h # "write_complete" \/ Head(q).err # "ok"
  PROVE  /\ Ordered(Tail(q), s, w, c)
         /\ Head(q).h = "do_write" =>
              /\ Head(q).n \in Nat /\ 0 < Head(q).n /\ Head(q).n <= c
              /\ Behind(Head(q).n, s) /\ Behind(Head(q).n, w)
              /\ \A k \in DOMAIN Tail(q) : Tail(q)[k].h = "do_write" => Head(q).n < Tail(q)[k].n
<1>1. /\ Tail(q) \in Seq(Handlers) /\ Head(q) \in Handlers
      /\ Len(q) \in Nat \ {0} /\ Head(q) = q[1]
      /\ DOMAIN q = 1..Len(q)
      /\ DOMAIN Tail(q) = 1..(Len(q) - 1)
      /\ \A i \in 1..(Len(q) - 1) : Tail(q)[i] = q[i + 1]
  BY DEF Ordered
<1>2. PostedInOrder(Tail(q), s, w, c)
  BY <1>1 DEF Ordered, PostedInOrder
<1>3. ASSUME NEW j \in DOMAIN w, Unsent(Tail(q), j) PROVE Unsent(q, j)
  <2>1. ASSUME NEW k \in DOMAIN q, q[k].h = "write_complete", q[k].err = "ok"
        PROVE  q[k].n < j
    <3>1. k # 1 BY <1>1, <2>1
    <3>2. k - 1 \in DOMAIN Tail(q) /\ Tail(q)[k - 1] = q[k] BY <1>1, <2>1, <3>1
    <3>3. QED BY <1>3, <2>1, <3>2 DEF Unsent
  <2>2. QED BY <2>1 DEF Unsent
<1>4. BufferInOrder(Tail(q), s, w, c)
  BY <1>3 DEF Ordered, BufferInOrder
<1>5. Head(q).h = "do_write" =>
         /\ Head(q).n \in Nat /\ 0 < Head(q).n /\ Head(q).n <= c
         /\ Behind(Head(q).n, s) /\ Behind(Head(q).n, w)
         /\ \A k \in DOMAIN Tail(q) : Tail(q)[k].h = "do_write" => Head(q).n < Tail(q)[k].n
  <2> SUFFICES ASSUME Head(q).h = "do_write"
               PROVE  /\ Head(q).n \in Nat /\ 0 < Head(q).n /\ Head(q).n <= c
                      /\ Behind(Head(q).n, s) /\ Behind(Head(q).n, w)
                      /\ \A k \in DOMAIN Tail(q) :
                           Tail(q)[k].h = "do_write" => Head(q).n < Tail(q)[k].n
    OBVIOUS
  <2>1. 1 \in DOMAIN q /\ q[1].h = "do_write" BY <1>1
  <2>2. /\ 0 < q[1].n /\ q[1].n <= c /\ Behind(q[1].n, s) /\ Behind(q[1].n, w)
        /\ \A l \in DOMAIN q : 1 < l /\ q[l].h = "do_write" => q[1].n < q[l].n
    BY <2>1 DEF Ordered, PostedInOrder
  <2>3. q[1].n \in Nat BY <1>1 DEF Handlers
  <2>4. QED BY <1>1, <2>2, <2>3
<1>6. QED BY <1>1, <1>2, <1>4, <1>5 DEF Ordered

\* Posting a handler that is no do_write.
LEMMA OrderedPost ==
  ASSUME NEW q, NEW s, NEW w, NEW c, Ordered(q, s, w, c),
         NEW e \in Handlers, e.h # "do_write"
  PROVE  Ordered(Append(q, e), s, w, c)
<1>1. /\ Append(q, e) \in Seq(Handlers)
      /\ Len(q) \in Nat
      /\ DOMAIN q = 1..Len(q)
      /\ DOMAIN Append(q, e) = 1..(Len(q) + 1)
      /\ \A i \in 1..Len(q) : Append(q, e)[i] = q[i]
      /\ Append(q, e)[Len(q) + 1] = e
  BY DEF Ordered
<1>2. PostedInOrder(Append(q, e), s, w, c)
  BY <1>1 DEF Ordered, PostedInOrder
<1>3. ASSUME NEW j \in DOMAIN w, Unsent(Append(q, e), j) PROVE Unsent(q, j)
  BY <1>1, <1>3 DEF Unsent
<1>4. BufferInOrder(Append(q, e), s, w, c)
  BY <1>3 DEF Ordered, BufferInOrder
<1>5. QED BY <1>1, <1>2, <1>4 DEF Ordered

\* Posting the command of a call.
LEMMA OrderedCommand ==
  ASSUME NEW q, NEW s, NEW w, NEW c, Ordered(q, s, w, c),
         NEW e \in Handlers, e.h = "do_write", e.n = c + 1
  PROVE  Ordered(Append(q, e), s, w, c + 1)
<1>1. /\ Append(q, e) \in Seq(Handlers)
      /\ Len(q) \in Nat /\ c \in Nat
      /\ DOMAIN q = 1..Len(q)
      /\ DOMAIN Append(q, e) = 1..(Len(q) + 1)
      /\ \A i \in 1..Len(q) : Append(q, e)[i] = q[i] /\ q[i] \in Handlers
      /\ Append(q, e)[Len(q) + 1] = e
  BY DEF Ordered
<1>2. PostedInOrder(Append(q, e), s, w, c + 1)
  <2>1. Behind(e.n, s) /\ Behind(e.n, w) BY DEF Ordered, BufferInOrder
  <2>2. \A k \in 1..Len(q) : q[k].n \in Nat BY <1>1 DEF Handlers
  <2>3. ASSUME NEW k \in 1..Len(q), q[k].h = "do_write"
        PROVE  /\ 0 < q[k].n /\ q[k].n <= c /\ Behind(q[k].n, s) /\ Behind(q[k].n, w)
               /\ \A l \in 1..Len(q) : k < l /\ q[l].h = "do_write" => q[k].n < q[l].n
    BY <1>1, <2>3 DEF Ordered, PostedInOrder
  <2>4. QED BY <1>1, <2>1, <2>2, <2>3 DEF PostedInOrder
<1>3. ASSUME NEW j \in DOMAIN w, Unsent(Append(q, e), j) PROVE Unsent(q, j)
  BY <1>1, <1>3 DEF Unsent
<1>4. Behind(c + 2, s) /\ Behind(c + 2, w)
  <2>1. /\ \A i \in DOMAIN s : s[i] \in Nat
        /\ \A i \in DOMAIN w : w[i] \in Nat
    BY DEF Ordered
  <2>2. Behind(c + 1, s) /\ Behind(c + 1, w) BY DEF Ordered, BufferInOrder
  <2>3. QED BY <1>1, <2>1, <2>2 DEF Behind
<1>5. BufferInOrder(Append(q, e), s, w, c + 1)
  <2>1. (c + 1) + 1 = c + 2 BY <1>1
  <2>2. QED BY <1>3, <1>4, <2>1 DEF Ordered, BufferInOrder
<1>6. QED BY <1>1, <1>2, <1>5 DEF Ordered

\* The elements of two sequences, one behind the other.
LEMMA JoinElements ==
  ASSUME NEW s \in Seq(Nat), NEW t \in Seq(Nat)
  PROVE  /\ s \o t \in Seq(Nat)
         /\ \A i \in DOMAIN (s \o t) :
              \/ i \in DOMAIN s /\ (s \o t)[i] = s[i]
              \/ \E k \in DOMAIN t : i = Len(s) + k /\ (s \o t)[i] = t[k]
<1>1. /\ DOMAIN s = 1..Len(s) /\ DOMAIN t = 1..Len(t) /\ Len(s) \in Nat /\ Len(t) \in Nat
      /\ s \o t \in Seq(Nat) /\ DOMAIN (s \o t) = 1..(Len(s) + Len(t))
  OBVIOUS
<1>2. \A i \in 1..(Len(s) + Len(t)) : (s \o t)[i] = IF i <= Len(s) THEN s[i] ELSE t[i - Len(s)]
  OBVIOUS
<1>3. ASSUME NEW i \in DOMAIN (s \o t)
      PROVE  \/ i \in DOMAIN s /\ (s \o t)[i] = s[i]
             \/ \E k \in DOMAIN t : i = Len(s) + k /\ (s \o t)[i] = t[k]
  <2> DEFINE k == i - Len(s)
             m == Len(s)
             u == s \o t
  <2>1. i \in 1..(m + Len(t)) /\ m \in Nat /\ Len(t) \in Nat BY <1>1
  <2>2. u[i] = IF i <= m THEN s[i] ELSE t[k] BY <1>2, <2>1
  <2>3. DOMAIN s = 1..m /\ DOMAIN t = 1..Len(t) BY <1>1
  <2> HIDE DEF u, m
  <2>4. CASE i <= m
    <3>1. i \in 1..m BY <2>1, <2>4
    <3> QED BY <2>2, <2>3, <2>4, <3>1 DEF u, m
  <2>5. CASE ~(i <= m)
    <3>1. i - m \in 1..Len(t) /\ i = m + (i - m) BY <2>1, <2>5
    <3>2. u[i] = t[i - m] BY <2>2, <2>5 DEF m
    <3> QED BY <2>3, <3>1, <3>2 DEF u, m
  <2> QED BY <2>4, <2>5
<1> QED BY <1>1, <1>3

\* The first n units of the buffer are sent, or what memory has in their place.
LEMMA OrderedSent ==
  ASSUME NEW q, NEW s, NEW w, NEW c, Ordered(q, s, w, c),
         None(q, "write_complete"), NEW n \in 0..Len(w),
         NEW t \in Seq(Nat), Len(t) = n,
         (\A i \in 1..n : t[i] = w[i]) \/ (\A i \in 1..n : t[i] = Garbage),
         NEW e \in Handlers, e.h = "write_complete", e.err = "ok", e.n = n
  PROVE  Ordered(Append(q, e), s \o t, w, c)
<1>1. /\ Append(q, e) \in Seq(Handlers)
      /\ Len(q) \in Nat /\ c \in Nat
      /\ DOMAIN q = 1..Len(q)
      /\ DOMAIN Append(q, e) = 1..(Len(q) + 1)
      /\ \A i \in 1..Len(q) : Append(q, e)[i] = q[i]
      /\ Append(q, e)[Len(q) + 1] = e
  BY DEF Ordered
<1>2. /\ s \in Seq(Nat) /\ w \in Seq(Nat) /\ DOMAIN w = 1..Len(w)
      /\ Len(s) \in Nat /\ Len(w) \in Nat /\ n \in Nat /\ DOMAIN t = 1..n
      /\ \A i \in DOMAIN s : s[i] \in Nat
      /\ \A i \in DOMAIN w : w[i] \in Nat
  BY DEF Ordered
<1>3. \A i \in 1..n : i \in DOMAIN w BY <1>2
<1> DEFINE u == s \o t
<1>4. /\ u \in Seq(Nat)
      /\ \A i \in DOMAIN u :
           \/ i \in DOMAIN s /\ u[i] = s[i]
           \/ \E k \in 1..n : i = Len(s) + k /\ u[i] = t[k]
  BY <1>2, JoinElements
<1>5. DOMAIN s = 1..Len(s) BY <1>2
<1> HIDE DEF u
<1>6. /\ \A j \in DOMAIN w : 0 < w[j] /\ Behind(w[j], s)
      /\ \A i, j \in DOMAIN w : i < j => w[i] < w[j]
  <2>1. \A j : Unsent(q, j) BY DEF Unsent, None
  <2>2. QED BY <2>1 DEF Ordered, BufferInOrder
<1>7. ASSUME NEW x \in Nat, 0 < x, Behind(x, s), \A i \in 1..n : w[i] < x PROVE Behind(x, u)
  <2>1. \A k \in 1..n : t[k] < x BY <1>7 DEF Garbage
  <2>2. QED BY <1>4, <1>7, <2>1 DEF Behind
<1>8. InOrder(u)
  <2> SUFFICES ASSUME NEW i \in DOMAIN u, NEW j \in DOMAIN u, i < j,
                      u[i] # Garbage, u[j] # Garbage
               PROVE  u[i] < u[j]
    BY DEF InOrder
  <2>1. CASE j \in DOMAIN s /\ u[j] = s[j]
    <3>1. i \in DOMAIN s /\ u[i] = s[i]
      <4>1. \A k \in 1..n : i # Len(s) + k BY <1>2, <1>5, <2>1
      <4>2. QED BY <1>4, <4>1
    <3>2. QED BY <2>1, <3>1 DEF Ordered, InOrder
  <2>2. ASSUME NEW k \in 1..n, j = Len(s) + k, u[j] = t[k] PROVE u[i] < u[j]
    <3>1. \A l \in 1..n : t[l] = w[l] BY <2>2
    <3>2. CASE i \in DOMAIN s /\ u[i] = s[i]
      <4>1. Behind(w[k], s) BY <1>3, <1>6
      <4>2. QED BY <2>2, <3>1, <3>2, <4>1 DEF Behind
    <3>3. ASSUME NEW l \in 1..n, i = Len(s) + l, u[i] = t[l] PROVE u[i] < u[j]
      <4>1. l < k BY <1>2, <2>2, <3>3
      <4>2. w[l] < w[k] BY <1>3, <1>6, <4>1
      <4>3. QED BY <2>2, <3>1, <3>3, <4>2
    <3>4. QED BY <1>4, <3>2, <3>3
  <2>3. QED BY <1>4, <2>1, <2>2
<1>9. PostedInOrder(Append(q, e), u, w, c)
  <2>1. ASSUME NEW k \in DOMAIN q, q[k].h = "do_write" PROVE Behind(q[k].n, u)
    <3>1. 0 < q[k].n /\ Behind(q[k].n, s) /\ Behind(q[k].n, w)
      BY <2>1 DEF Ordered, PostedInOrder
    <3>2. q[k].n \in Nat
      <4>1. q[k] \in Handlers BY <2>1 DEF Ordered
      <4>2. QED BY <4>1 DEF Handlers
    <3>3. \A i \in 1..n : w[i] < q[k].n BY <1>3, <3>1 DEF Behind
    <3>4. QED BY <1>7, <3>1, <3>2, <3>3
  <2>2. ASSUME NEW k \in DOMAIN q, q[k].h = "do_write"
        PROVE  /\ 0 < q[k].n /\ q[k].n <= c /\ Behind(q[k].n, w)
               /\ \A l \in DOMAIN q : k < l /\ q[l].h = "do_write" => q[k].n < q[l].n
    BY <2>2 DEF Ordered, PostedInOrder
  <2>3. QED BY <1>1, <2>1, <2>2 DEF PostedInOrder
<1>10. BufferInOrder(Append(q, e), u, w, c)
  <2>1. ASSUME NEW j \in DOMAIN w, Unsent(Append(q, e), j) PROVE Behind(w[j], u)
    <3>1. n < j
      <4>1. Len(q) + 1 \in DOMAIN Append(q, e) BY <1>1
      <4>2. QED BY <1>1, <2>1, <4>1 DEF Unsent
    <3>2. \A i \in 1..n : i < j BY <1>2, <2>1, <3>1
    <3>3. \A i \in 1..n : w[i] < w[j] BY <1>3, <1>6, <2>1, <3>2
    <3>4. w[j] \in Nat /\ 0 < w[j] /\ Behind(w[j], s) BY <1>2, <1>6, <2>1
    <3>5. QED BY <1>7, <3>3, <3>4
  <2>2. Behind(c + 1, u) /\ Behind(c + 1, w)
    <3>1. Behind(c + 1, s) /\ Behind(c + 1, w) BY DEF Ordered, BufferInOrder
    <3>2. \A i \in 1..n : w[i] < c + 1 BY <1>3, <3>1 DEF Behind
    <3>3. c + 1 \in Nat /\ 0 < c + 1 BY <1>1
    <3>4. QED BY <1>7, <3>1, <3>2, <3>3
  <2>3. QED BY <1>6, <2>1, <2>2 DEF BufferInOrder
<1>11. InOrder(s \o t) /\ PostedInOrder(Append(q, e), s \o t, w, c)
       /\ BufferInOrder(Append(q, e), s \o t, w, c) /\ s \o t \in Seq(Nat)
  BY <1>4, <1>8, <1>9, <1>10 DEF u
<1>12. QED BY <1>1, <1>2, <1>11 DEF Ordered

\* The units of a write that was done are erased with its handler.
LEMMA OrderedErased ==
  ASSUME NEW q, NEW s, NEW w, NEW c, Ordered(q, s, w, c), q # <<>>,
         Head(q).h = "write_complete", AtMostOne(q, "write_complete"),
         Head(q).n <= Len(w)
  PROVE  Ordered(Tail(q), s, SubSeq(w, Head(q).n + 1, Len(w)), c)
<1> DEFINE n == Head(q).n
           v == SubSeq(w, n + 1, Len(w))
<1>1. /\ Tail(q) \in Seq(Handlers) /\ Head(q) \in Handlers
      /\ Len(q) \in Nat \ {0} /\ Head(q) = q[1]
      /\ DOMAIN q = 1..Len(q)
      /\ DOMAIN Tail(q) = 1..(Len(q) - 1)
      /\ \A i \in 1..(Len(q) - 1) : Tail(q)[i] = q[i + 1]
  BY DEF Ordered
<1>2. n \in Nat /\ s \in Seq(Nat) /\ w \in Seq(Nat) /\ c \in Nat BY <1>1 DEF Handlers, Ordered
<1>3. n \in 0..Len(w) BY <1>2
<1> HIDE DEF n
<1>4. /\ v \in Seq(Nat) /\ DOMAIN v = 1..(Len(w) - n) /\ DOMAIN w = 1..Len(w)
      /\ Len(w) \in Nat
      /\ \A i \in 1..(Len(w) - n) : v[i] = w[n + i]
  BY <1>2, <1>3, SuffixType
<1> HIDE DEF v
<1>5. \A j \in 1..(Len(w) - n) : n + j \in DOMAIN w /\ n < n + j BY <1>3, <1>4
<1>6. ASSUME NEW j \in 1..(Len(w) - n) PROVE Unsent(q, n + j)
  <2>1. ASSUME NEW k \in DOMAIN q, q[k].h = "write_complete" PROVE q[k].n = n
    BY <1>1, <2>1 DEF AtMostOne, n
  <2>2. QED BY <1>5, <2>1 DEF Unsent
<1>7. PostedInOrder(Tail(q), s, v, c)
  <2>1. ASSUME NEW x, Behind(x, w) PROVE Behind(x, v) BY <1>4, <1>5, <2>1 DEF Behind
  <2>2. ASSUME NEW k \in DOMAIN q, q[k].h = "do_write"
        PROVE  /\ 0 < q[k].n /\ q[k].n <= c /\ Behind(q[k].n, s) /\ Behind(q[k].n, v)
               /\ \A l \in DOMAIN q : k < l /\ q[l].h = "do_write" => q[k].n < q[l].n
    BY <2>1, <2>2 DEF Ordered, PostedInOrder
  <2>3. QED BY <1>1, <2>2 DEF PostedInOrder
<1>8. BufferInOrder(Tail(q), s, v, c)
  <2>1. Behind(c + 1, v) BY <1>4, <1>5 DEF Ordered, BufferInOrder, Behind
  <2>2. \A j \in DOMAIN v : 0 < v[j] /\ Behind(v[j], s)
    BY <1>4, <1>5, <1>6 DEF Ordered, BufferInOrder
  <2>3. \A i, j \in DOMAIN v : i < j => v[i] < v[j]
    <3> SUFFICES ASSUME NEW i \in 1..(Len(w) - n), NEW j \in 1..(Len(w) - n), i < j
                 PROVE  w[n + i] < w[n + j]
      BY <1>4
    <3>1. n + i < n + j BY <1>2
    <3>2. QED BY <1>5, <3>1 DEF Ordered, BufferInOrder
  <2>4. QED BY <2>1, <2>2, <2>3 DEF Ordered, BufferInOrder
<1>9. QED BY <1>1, <1>2, <1>4, <1>7, <1>8 DEF Ordered, v, n

\* A command of the queue comes into the buffer.
LEMMA OrderedQueued ==
  ASSUME NEW q, NEW s, NEW w, NEW c, Ordered(q, s, w, c),
         NEW n \in Nat, 0 < n, n <= c, Behind(n, s), Behind(n, w),
         \A k \in DOMAIN q : q[k].h = "do_write" => n < q[k].n
  PROVE  Ordered(q, s, Append(w, n), c)
<1> DEFINE v == Append(w, n)
<1>1. s \in Seq(Nat) /\ w \in Seq(Nat) /\ c \in Nat BY DEF Ordered
<1>2. /\ v \in Seq(Nat) /\ DOMAIN v = 1..(Len(w) + 1) /\ DOMAIN w = 1..Len(w)
      /\ Len(w) \in Nat /\ v[Len(w) + 1] = n
      /\ \A i \in 1..Len(w) : v[i] = w[i]
  BY <1>1
<1> HIDE DEF v
<1>3. ASSUME NEW x, Behind(x, w), n < x PROVE Behind(x, v) BY <1>2, <1>3 DEF Behind
<1>4. PostedInOrder(q, s, v, c)
  BY <1>3 DEF Ordered, PostedInOrder
<1>5. n < c + 1 BY <1>1
<1>6. Behind(c + 1, v) BY <1>3, <1>5 DEF Ordered, BufferInOrder
<1>7. ASSUME NEW j \in DOMAIN v PROVE 0 < v[j] /\ (Unsent(q, j) => Behind(v[j], s))
  <2>1. CASE j = Len(w) + 1 BY <1>2, <2>1
  <2>2. CASE j # Len(w) + 1
    <3>1. j \in DOMAIN w /\ v[j] = w[j] BY <1>2, <1>7, <2>2
    <3>2. QED BY <3>1 DEF Ordered, BufferInOrder
  <2>3. QED BY <2>1, <2>2
<1>8. ASSUME NEW i \in DOMAIN v, NEW j \in DOMAIN v, i < j PROVE v[i] < v[j]
  <2>1. i \in DOMAIN w /\ v[i] = w[i] BY <1>2, <1>8
  <2>2. CASE j = Len(w) + 1 BY <1>2, <2>1, <2>2 DEF Behind
  <2>3. CASE j # Len(w) + 1
    <3>1. j \in DOMAIN w /\ v[j] = w[j] BY <1>2, <1>8, <2>3
    <3>2. QED BY <1>8, <2>1, <3>1 DEF Ordered, BufferInOrder
  <2>4. QED BY <2>2, <2>3
<1>9. BufferInOrder(q, s, v, c) BY <1>6, <1>7, <1>8 DEF Ordered, BufferInOrder
<1>10. QED BY <1>1, <1>2, <1>4, <1>9 DEF Ordered, v

\* A call that writes nothing.
LEMMA OrderedCall ==
  ASSUME NEW q, NEW s, NEW w, NEW c, Ordered(q, s, w, c)
  PROVE  Ordered(q, s, w, c + 1)
<1>1. /\ c \in Nat
      /\ \A i \in DOMAIN s : s[i] \in Nat
      /\ \A i \in DOMAIN w : w[i] \in Nat
      /\ \A k \in DOMAIN q : q[k] \in Handlers
  BY DEF Ordered
<1>2. \A k \in DOMAIN q : q[k].n \in Nat BY <1>1 DEF Handlers
<1>3. Behind((c + 1) + 1, s) /\ Behind((c + 1) + 1, w)
  <2>1. Behind(c + 1, s) /\ Behind(c + 1, w) BY DEF Ordered, BufferInOrder
  <2>2. QED BY <1>1, <2>1 DEF Behind
<1>4. BufferInOrder(q, s, w, c + 1) BY <1>3 DEF Ordered, BufferInOrder
<1>5. PostedInOrder(q, s, w, c + 1)
  <2>1. ASSUME NEW k \in DOMAIN q, q[k].h = "do_write"
        PROVE  /\ 0 < q[k].n /\ q[k].n <= c /\ Behind(q[k].n, s) /\ Behind(q[k].n, w)
               /\ \A l \in DOMAIN q : k < l /\ q[l].h = "do_write" => q[k].n < q[l].n
    BY <2>1 DEF Ordered, PostedInOrder
  <2>2. \A k \in DOMAIN q : q[k].n <= c => q[k].n <= c + 1 BY <1>1, <1>2
  <2>3. QED BY <2>1, <2>2 DEF PostedInOrder
<1>6. QED BY <1>1, <1>4, <1>5 DEF Ordered

\* close() empties the buffer.
LEMMA OrderedEmptied ==
  ASSUME NEW q, NEW s, NEW w, NEW c, Ordered(q, s, w, c)
  PROVE  Ordered(q, s, <<>>, c)
<1>1. <<>> \in Seq(Nat) /\ \A x : Behind(x, <<>>) BY DEF Behind
<1>2. PostedInOrder(q, s, <<>>, c) BY <1>1 DEF Ordered, PostedInOrder
<1>3. BufferInOrder(q, s, <<>>, c) BY <1>1 DEF Ordered, BufferInOrder
<1>4. QED BY <1>1, <1>2, <1>3 DEF Ordered

\* write_start.
LEMMA OrderedStart ==
  ASSUME NEW q, NEW w, Ordered(q, sent, w, calls), None(q, "write_complete"),
         write_start(w, q)
  PROVE  Ordered(queue', sent', w, calls)
<1> DEFINE f == Handler("write_complete", "fault", 0)
           o == Handler("write_complete", "ok", Len(w))
<1>1. w \in Seq(Nat) BY DEF Ordered
<1>2. Len(w) \in Nat /\ Len(w) \in 0..Len(w) BY <1>1
<1>3. /\ f \in Handlers /\ f.h # "do_write"
      /\ o \in Handlers /\ o.h = "write_complete" /\ o.err = "ok" /\ o.n = Len(w)
  BY <1>2, HandlerType
<1>4. \/ queue' = q /\ sent' = sent
      \/ queue' = Append(q, f) /\ sent' = sent
      \/ queue' = Append(q, o) /\ sent' = sent \o w
  BY DEF write_start
<1> HIDE DEF f, o
<1>5. Ordered(Append(q, f), sent, w, calls) BY <1>3, OrderedPost
<1>6. Ordered(Append(q, o), sent \o w, w, calls) BY <1>1, <1>2, <1>3, OrderedSent
<1> QED BY <1>4, <1>5, <1>6

\* do_close.
LEMMA OrderedClose ==
  ASSUME NEW q, NEW s, NEW w, NEW c, Ordered(q, s, w, c), NEW reading \in BOOLEAN,
         do_close(q, reading)
  PROVE  Ordered(queue', s, w, c)
<1>1. CASE ~portOpen BY <1>1 DEF do_close
<1>2. CASE portOpen
  <2> DEFINE ra == Handler("do_read", "aborted", 0)
             wa == Handler("write_complete", "aborted", 0)
             q1 == IF reading THEN Append(q, ra) ELSE q
             q2 == IF writeOp > 0 THEN Append(q1, wa) ELSE q1
  <2>1. /\ ra \in Handlers /\ wa \in Handlers
        /\ ra.h # "do_write" /\ wa.h # "do_write"
    BY HandlerType
  <2> HIDE DEF ra, wa
  <2>2. q \in Seq(Handlers) BY DEF Ordered
  <2>3. q1 \in Seq(Handlers) BY <2>1, <2>2
  <2>4. q \o (IF reading THEN <<ra>> ELSE <<>>) = q1 BY <2>1, <2>2
  <2>5. Ordered(q1, s, w, c) BY <2>1, OrderedPost
  <2> HIDE DEF q1
  <2>6. q1 \o (IF writeOp > 0 THEN <<wa>> ELSE <<>>) = q2 BY <2>1, <2>3
  <2>7. Ordered(q2, s, w, c) BY <2>1, <2>5, OrderedPost
  <2>8. queue' = q2 BY <1>2, <2>4, <2>6 DEF do_close, CloseDevice, ra, wa
  <2> HIDE DEF q2
  <2> QED BY <2>7, <2>8
<1> QED BY <1>1, <1>2

CommandsOrdered == Ordered(queue, sent, wbuf, calls)

\* CommandsOrdered of the next state, spelt out.
LEMMA NextOrdered == CommandsOrdered' <=> Ordered(queue', sent', wbuf', calls')
BY DEF CommandsOrdered, Ordered, InOrder, PostedInOrder, BufferInOrder, Behind, Unsent

\* do_read, from the queue or from the reactor, do_close, and the end of do_read.
LEMMA ReadsOrdered ==
  ASSUME QueueOK(queue), RestOK, CommandsOrdered,
         RunDoRead \/ ReactorRead \/ RunDoClose \/ Rearm
  PROVE  CommandsOrdered'
<1>1. UNCHANGED <<sent, wbuf, calls>>
  BY DEF RunDoRead, ReactorRead, RunDoClose, Rearm, bufVars, appVars
<1>2. Ordered(queue, sent, wbuf, calls) /\ readOp \in BOOLEAN BY DEF CommandsOrdered, RestOK
<1>3. CASE RunDoRead \/ RunDoClose
  <2>1. /\ queue # <<>> /\ Head(queue).h # "write_complete"
        /\ queue' = Tail(queue) \/ do_close(Tail(queue), FALSE) \/ do_close(Tail(queue), readOp)
    BY <1>3 DEF RunDoRead, RunDoClose, Ready, do_read
  <2>2. Ordered(Tail(queue), sent, wbuf, calls) BY <1>2, <2>1, OrderedTail
  <2>3. Ordered(queue', sent, wbuf, calls) BY <1>2, <2>1, <2>2, OrderedClose
  <2> QED BY <1>1, <2>3, NextOrdered
<1>4. CASE ReactorRead
  <2>1. queue' = queue \/ do_close(queue, FALSE) BY <1>4 DEF ReactorRead, do_read
  <2>2. Ordered(queue', sent, wbuf, calls) BY <1>2, <2>1, OrderedClose
  <2> QED BY <1>1, <2>2, NextOrdered
<1>5. CASE Rearm
  <2> DEFINE e == Handler("do_read", ReadResult, Len(Taken))
  <2>1. queue' = queue \/ (ReadResult # "none" /\ queue' = Append(queue, e))
    BY <1>5 DEF Rearm, AsyncReadSome
  <2>2. CASE queue' = queue BY <1>1, <1>2, <2>2, NextOrdered
  <2>3. CASE ReadResult # "none" /\ queue' = Append(queue, e)
    <3>1. ReadResult \in {"ok", "aborted", "eof", "fault"} /\ Len(Taken) \in Nat
      BY <2>3, ReadTakes
    <3>2. e \in Handlers /\ e.h # "do_write" BY <3>1, HandlerType
    <3> HIDE DEF e
    <3>3. Ordered(queue', sent, wbuf, calls) BY <1>2, <2>3, <3>2, OrderedPost
    <3> QED BY <1>1, <3>3, NextOrdered
  <2> QED BY <2>1, <2>2, <2>3
<1> QED BY <1>3, <1>4, <1>5

\* do_write.
LEMMA DoWriteOrdered ==
  ASSUME QueueOK(queue), RestOK, CommandsOrdered, RunDoWrite PROVE CommandsOrdered'
<1> DEFINE c == Head(queue).n
           q == Tail(queue)
           w == Append(wbuf, c)
<1>1. /\ queue # <<>> /\ Head(queue).h = "do_write" /\ do_write(c, q) /\ calls' = calls
  BY DEF RunDoWrite, Ready, appVars
<1>2. /\ Ordered(q, sent, wbuf, calls) /\ c \in Nat /\ 0 < c /\ c <= calls
      /\ Behind(c, sent) /\ Behind(c, wbuf)
      /\ \A k \in DOMAIN q : q[k].h = "do_write" => c < q[k].n
  BY <1>1, OrderedTail DEF CommandsOrdered
<1> HIDE DEF q, c
<1>3. Ordered(q, sent, w, calls) BY <1>2, OrderedQueued
<1>4. wbuf' = w BY <1>1 DEF do_write
<1>5. CASE wbuf = <<>>
  <2>1. w = <<c>> BY <1>2, <1>5
  <2>2. write_start(<<c>>, q) BY <1>1, <1>5 DEF do_write
  <2>3. None(q, "write_complete") BY <1>1, <1>5, TailOfQueue DEF QueueOK, q
  <2> HIDE DEF w
  <2>4. Ordered(queue', sent', w, calls) BY <1>3, <2>1, <2>2, <2>3, OrderedStart
  <2> QED BY <1>1, <1>4, <2>4, NextOrdered
<1>6. CASE wbuf # <<>>
  <2>1. queue' = q /\ sent' = sent BY <1>1, <1>6 DEF do_write
  <2> HIDE DEF w
  <2> QED BY <1>1, <1>3, <1>4, <2>1, NextOrdered
<1> QED BY <1>5, <1>6

\* write_complete.
LEMMA WriteCompleteOrdered ==
  ASSUME QueueOK(queue), RestOK, CommandsOrdered, RunWriteComplete PROVE CommandsOrdered'
<1> DEFINE q == Tail(queue)
           n == Head(queue).n
           w == SubSeq(wbuf, n + 1, Len(wbuf))
<1>1. /\ queue # <<>> /\ Head(queue).h = "write_complete"
      /\ write_complete(Head(queue).err, n, q) /\ calls' = calls
  BY DEF RunWriteComplete, Ready, appVars
<1>2. /\ None(q, "write_complete") /\ n <= Len(wbuf) /\ AtMostOne(queue, "write_complete")
  BY <1>1, TailOfQueue DEF QueueOK, RestOK
<1>3. CASE Head(queue).err = "ok"
  <2>1. Ordered(q, sent, w, calls) BY <1>1, <1>2, OrderedErased DEF CommandsOrdered
  <2>2. /\ wbuf' = w
        /\ write_start(w, q) \/ (queue' = q /\ sent' = sent)
    BY <1>1, <1>3 DEF write_complete
  <2> HIDE DEF w, q
  <2>3. Ordered(queue', sent', w, calls) BY <1>2, <2>1, <2>2, OrderedStart
  <2> QED BY <1>1, <2>2, <2>3, NextOrdered
<1>4. CASE Head(queue).err # "ok"
  <2>1. Ordered(q, sent, wbuf, calls) BY <1>1, <1>4, OrderedTail DEF CommandsOrdered
  <2>2. do_close(q, readOp) /\ readOp \in BOOLEAN /\ UNCHANGED <<wbuf, sent>>
    BY <1>1, <1>4 DEF write_complete, RestOK
  <2> HIDE DEF q
  <2>3. Ordered(queue', sent, wbuf, calls) BY <2>1, <2>2, OrderedClose
  <2> QED BY <1>1, <2>2, <2>3, NextOrdered
<1> QED BY <1>3, <1>4

\* The driver takes a waiting write, or reports an error.
LEMMA ReactorWriteOrdered ==
  ASSUME QueueOK(queue), RestOK, CommandsOrdered, ReactorWrite PROVE CommandsOrdered'
<1> DEFINE t == IF dangling THEN [i \in 1..writeOp |-> Garbage] ELSE SubSeq(wbuf, 1, writeOp)
           o == Handler("write_complete", "ok", writeOp)
           f == Handler("write_complete", "fault", 0)
<1>1. /\ writeOp > 0 /\ UNCHANGED <<wbuf, calls>>
      /\ \/ sent' = sent \o t /\ queue' = Append(queue, o)
         \/ sent' = sent /\ queue' = Append(queue, f)
  BY DEF ReactorWrite, bufVars, appVars
<1>2. /\ writeOp \in Nat /\ writeOp \in 0..Len(wbuf) /\ wbuf \in Seq(Nat)
      /\ dangling \in BOOLEAN
  BY DEF RestOK
<1>3. None(queue, "write_complete") /\ Ordered(queue, sent, wbuf, calls)
  BY <1>1 DEF QueueOK, CommandsOrdered
<1>4. /\ f \in Handlers /\ f.h # "do_write"
      /\ o \in Handlers /\ o.h = "write_complete" /\ o.err = "ok" /\ o.n = writeOp
  BY <1>2, HandlerType
<1>5. /\ t \in Seq(Nat) /\ Len(t) = writeOp
      /\ (\A i \in 1..writeOp : t[i] = wbuf[i]) \/ (\A i \in 1..writeOp : t[i] = Garbage)
  <2>1. CASE dangling
    <3>1. t = [i \in 1..writeOp |-> Garbage] BY <2>1
    <3> HIDE DEF t
    <3> QED BY <1>2, <3>1 DEF Garbage
  <2>2. CASE ~dangling
    <3>1. t = SubSeq(wbuf, 1, writeOp) BY <2>2
    <3> HIDE DEF t
    <3> QED BY <1>2, <3>1
  <2> QED BY <1>2, <2>1, <2>2
<1> HIDE DEF t, o, f
<1>6. Ordered(Append(queue, f), sent, wbuf, calls) BY <1>3, <1>4, OrderedPost
<1>7. Ordered(Append(queue, o), sent \o t, wbuf, calls) BY <1>2, <1>3, <1>4, <1>5, OrderedSent
<1>8. Ordered(queue', sent', wbuf, calls) BY <1>1, <1>6, <1>7
<1> QED BY <1>1, <1>8, NextOrdered

\* Calls, and steps that touch neither commands nor the queue.
LEMMA OthersOrdered ==
  ASSUME QueueOK(queue), RestOK, CommandsOrdered,
         Application \/ ThreadExit \/ Device \/ UNCHANGED vars
  PROVE  CommandsOrdered'
<1> USE DEF vars, ioVars, bufVars, devVars, appVars
<1>1. Ordered(queue, sent, wbuf, calls) /\ readOp \in BOOLEAN BY DEF CommandsOrdered, RestOK
<1>2. Ordered(queue, sent, wbuf, calls + 1) BY <1>1, OrderedCall
<1>3. CASE open
  <2>1. UNCHANGED <<queue, sent, wbuf>> /\ calls' = calls + 1 BY <1>3 DEF open, Call
  <2> QED BY <1>2, <2>1, NextOrdered
<1>4. CASE reopen
  <2>1. do_close(queue, readOp) /\ UNCHANGED <<sent, wbuf>> /\ calls' = calls + 1
    BY <1>4 DEF reopen, Call
  <2>2. Ordered(queue', sent, wbuf, calls + 1) BY <1>1, <1>2, <2>1, OrderedClose
  <2> QED BY <2>1, <2>2, NextOrdered
<1>5. CASE close
  <2> DEFINE e == Handler("do_close", "ok", 0)
  <2>1. queue' = Append(queue, e) /\ UNCHANGED <<sent, wbuf>> /\ calls' = calls + 1
    BY <1>5 DEF close, Call
  <2>2. e \in Handlers /\ e.h # "do_write" BY HandlerType
  <2> HIDE DEF e
  <2>3. Ordered(queue', sent, wbuf, calls + 1) BY <1>2, <2>1, <2>2, OrderedPost
  <2> QED BY <2>1, <2>3, NextOrdered
<1>6. CASE write
  <2> DEFINE e == Handler("do_write", "ok", calls + 1)
  <2>1. queue' = Append(queue, e) /\ UNCHANGED <<sent, wbuf>> /\ calls' = calls + 1
    BY <1>6 DEF write, Call
  <2>2. calls + 1 \in Nat BY <1>1 DEF Ordered
  <2>3. e \in Handlers /\ e.h = "do_write" /\ e.n = calls + 1 BY <2>2, HandlerType
  <2> HIDE DEF e
  <2>4. Ordered(queue', sent, wbuf, calls + 1) BY <1>1, <2>1, <2>3, OrderedCommand
  <2> QED BY <2>1, <2>4, NextOrdered
<1>7. CASE CloseJoined
  <2>1. UNCHANGED <<queue, sent, calls>> /\ wbuf' = <<>> BY <1>7 DEF CloseJoined
  <2>2. Ordered(queue, sent, <<>>, calls) BY <1>1, OrderedEmptied
  <2> QED BY <2>1, <2>2, NextOrdered
<1>8. CASE ReopenDevice \/ receive \/ ThreadExit \/ Device \/ UNCHANGED vars
  <2>1. UNCHANGED <<queue, sent, wbuf, calls>>
    BY <1>8 DEF ReopenDevice, receive, ThreadExit, Device, DeviceSends, LineFails
  <2> QED BY <1>1, <2>1, NextOrdered
<1> QED BY <1>3, <1>4, <1>5, <1>6, <1>7, <1>8 DEF Application

\* Every command reaches the device at most once and in the order of the calls to
\* write(), whatever is queued, fails, is closed or opened again in between (do_write,
\* write_start, write_complete, close).
THEOREM CommandsKeptInOrder == Spec => []CommandsInOrder
<1>1. Init => CommandsOrdered
  <2> SUFFICES ASSUME Init PROVE CommandsOrdered OBVIOUS
  <2>1. queue = <<>> /\ sent = <<>> /\ wbuf = <<>> /\ calls = 0 BY DEF Init
  <2> QED BY <2>1 DEF CommandsOrdered, Ordered, InOrder, PostedInOrder, BufferInOrder, Behind
<1>2. IInv /\ CommandsOrdered /\ [Next]_vars => CommandsOrdered'
  <2> SUFFICES ASSUME IInv, CommandsOrdered, [Next]_vars PROVE CommandsOrdered' OBVIOUS
  <2>1. QueueOK(queue) /\ RestOK BY SplitInvariant
  <2> QED
    BY <2>1, ReadsOrdered, DoWriteOrdered, WriteCompleteOrdered, ReactorWriteOrdered,
       OthersOrdered DEF Next, IoThread
<1>3. CommandsOrdered => CommandsInOrder
  BY DEF CommandsOrdered, Ordered, InOrder, CommandsInOrder
<1> QED BY <1>1, <1>2, <1>3, InductiveInvariant, PTL DEF Spec

-----------------------------------------------------------------------------
(***************************************************************************)
(* Whole frames.  The bytes in the circular buffer, those of a finished    *)
(* read whose do_read is still to run, and those on the line are one run   *)
(* of consecutive bytes, as long as no thread is used for a second time.   *)
(***************************************************************************)

\* n bytes of m_read_buffer wait for their do_read in the queue q.
Waits(q, n) ==
  /\ None(q, "do_read") => n = 0
  /\ \A i \in DOMAIN q : q[i].h = "do_read" => q[i].n = n /\ (q[i].err # "ok" => n = 0)

\* The last of the bytes taken from the line is e, and n of them wait.
Stream(e, n) ==
  /\ \A i \in 1..Len(circ) : circ[i] = e - n - Len(circ) + i
  /\ \A i \in 1..n : rbuf[i] = e - n + i
  /\ portOpen => e + Len(line) = produced

\* What the device sent since the port was opened and nobody took is on the line.
LineOK ==
  /\ ~portOpen => line = <<>>
  /\ Len(line) <= produced
  /\ \A i \in 1..Len(line) : line[i] = produced - Len(line) + i

Unbroken ==
  ~reused => \E e \in 0..MaxBytes, n \in 0..ReadSize : Waits(queue, n) /\ Stream(e, n)

Whole ==
  /\ LineOK
  /\ appPc = "reopen" => ~portOpen
  /\ thread = "none" => ~reused
  /\ Unbroken

\* The waiting bytes when the queue grows or its head is taken.
LEMMA QueueWaits ==
  ASSUME NEW q \in Seq(Handlers), NEW n \in Nat, Waits(q, n)
  PROVE  /\ q # <<>> /\ Head(q).h # "do_read" => Waits(Tail(q), n)
         /\ \A e \in Handlers : e.h # "do_read" => Waits(Append(q, e), n)
<1>1. ASSUME q # <<>>, Head(q).h # "do_read" PROVE Waits(Tail(q), n)
  <2>1. /\ Len(q) \in Nat \ {0} /\ Head(q) = q[1] /\ DOMAIN q = 1..Len(q)
        /\ DOMAIN Tail(q) = 1..(Len(q) - 1)
        /\ \A i \in 1..(Len(q) - 1) : Tail(q)[i] = q[i + 1]
    BY <1>1
  <2>2. None(Tail(q), "do_read") => None(q, "do_read")
    <3> SUFFICES ASSUME None(Tail(q), "do_read"), NEW i \in DOMAIN q PROVE q[i].h # "do_read"
      BY DEF None
    <3>1. CASE i = 1 BY <1>1, <2>1, <3>1
    <3>2. CASE i # 1
      <4>1. i - 1 \in 1..(Len(q) - 1) /\ Tail(q)[i - 1] = q[i] BY <2>1, <3>2
      <4> QED BY <2>1, <4>1 DEF None
    <3> QED BY <3>1, <3>2
  <2> QED BY <2>1, <2>2 DEF Waits
<1>2. ASSUME NEW e \in Handlers, e.h # "do_read" PROVE Waits(Append(q, e), n)
  <2>1. /\ Len(q) \in Nat /\ DOMAIN q = 1..Len(q)
        /\ DOMAIN Append(q, e) = 1..(Len(q) + 1)
        /\ \A i \in 1..Len(q) : Append(q, e)[i] = q[i]
        /\ Append(q, e)[Len(q) + 1] = e
    OBVIOUS
  <2> QED BY <1>2, <2>1 DEF Waits, None
<1> QED BY <1>1, <1>2

\* The queue when a read is finished and its handler is posted, or none is there.
LEMMA ReadWaits ==
  ASSUME NEW q \in Seq(Handlers), None(q, "do_read")
  PROVE  /\ Waits(q, 0)
         /\ \A e \in Handlers : e.h = "do_read" /\ (e.err # "ok" => e.n = 0)
              => Waits(Append(q, e), e.n)
<1>1. Waits(q, 0) BY DEF Waits, None
<1>2. ASSUME NEW e \in Handlers, e.h = "do_read", e.err # "ok" => e.n = 0
      PROVE  Waits(Append(q, e), e.n)
  <2>1. /\ Len(q) \in Nat /\ DOMAIN q = 1..Len(q)
        /\ DOMAIN Append(q, e) = 1..(Len(q) + 1)
        /\ \A i \in 1..Len(q) : Append(q, e)[i] = q[i]
        /\ Append(q, e)[Len(q) + 1] = e
    OBVIOUS
  <2> QED BY <1>2, <2>1 DEF Waits, None
<1> QED BY <1>1, <1>2

\* do_close aborts a read that was waiting, without bytes.
LEMMA CloseWaits ==
  ASSUME RestOK, NEW q, QueueOK(q), NEW reading \in BOOLEAN,
         reading => None(q, "do_read"), do_close(q, reading),
         NEW n \in Nat, Waits(q, n)
  PROVE  /\ Waits(queue', n)
         /\ (line' = line /\ portOpen' = portOpen) \/ (line' = <<>> /\ portOpen' = FALSE)
         /\ portOpen' = FALSE
<1>1. CASE ~portOpen
  BY <1>1 DEF do_close, RestOK
<1>2. CASE portOpen
  <2> DEFINE ra == Handler("do_read", "aborted", 0)
             wa == Handler("write_complete", "aborted", 0)
             q1 == IF reading THEN Append(q, ra) ELSE q
             q2 == IF writeOp > 0 THEN Append(q1, wa) ELSE q1
  <2>1. ra \in Handlers /\ wa \in Handlers /\ ra.h = "do_read" /\ ra.n = 0
        /\ wa.h = "write_complete"
    BY HandlerType
  <2> HIDE DEF ra, wa
  <2>2. q \in Seq(Handlers) BY DEF QueueOK
  <2>3. q1 \in Seq(Handlers) BY <2>1, <2>2
  <2>4. q \o (IF reading THEN <<ra>> ELSE <<>>) = q1
    BY <2>1, <2>2
  <2>5. Waits(q1, n)
    <3>1. CASE reading
      <4>1. n = 0 BY <3>1 DEF Waits
      <4>2. Waits(Append(q, ra), 0) BY <2>1, <2>2, <3>1, ReadWaits
      <4> QED BY <3>1, <4>1, <4>2
    <3>2. CASE ~reading BY <3>2
    <3> QED BY <3>1, <3>2
  <2> HIDE DEF q1
  <2>6. q1 \o (IF writeOp > 0 THEN <<wa>> ELSE <<>>) = q2
    BY <2>1, <2>3
  <2>7. Waits(q2, n) BY <2>1, <2>3, <2>5, QueueWaits
  <2>8. queue' = q2 /\ line' = <<>> /\ portOpen' = FALSE
    BY <1>2, <2>4, <2>6 DEF do_close, CloseDevice, ra, wa
  <2> HIDE DEF q2
  <2> QED BY <2>7, <2>8
<1> QED BY <1>1, <1>2 DEF RestOK

\* A write that is started posts its write_complete at most.
LEMMA WriteWaits ==
  ASSUME NEW q \in Seq(Handlers), NEW w \in Seq(Nat), write_start(w, q),
         NEW n \in Nat, Waits(q, n)
  PROVE  Waits(queue', n)
<1> DEFINE f == Handler("write_complete", "fault", 0)
           o == Handler("write_complete", "ok", Len(w))
<1>1. f \in Handlers /\ f.h = "write_complete" /\ o \in Handlers /\ o.h = "write_complete"
  BY HandlerType
<1>2. queue' = q \/ queue' = Append(q, f) \/ queue' = Append(q, o)
  BY DEF write_start
<1> HIDE DEF f, o
<1>3. f.h # "do_read" /\ o.h # "do_read" BY <1>1
<1> QED BY <1>1, <1>2, <1>3, QueueWaits

\* A step that takes no byte and puts none anywhere, but may lose the line's.
Quiet ==
  /\ UNCHANGED <<circ, rbuf, produced, reused>>
  /\ \/ line' = line /\ portOpen' = portOpen
     \/ line' = <<>> /\ portOpen' = FALSE
  /\ \A n \in 0..ReadSize : Waits(queue, n) => Waits(queue', n)

\* Taking a handler that is not do_read leaves the waiting bytes.
LEMMA TailWaits ==
  ASSUME QueueOK(queue), queue # <<>>, Head(queue).h # "do_read",
         NEW n \in 0..ReadSize, Waits(queue, n)
  PROVE  Waits(Tail(queue), n) /\ n \in Nat
BY QueueWaits, SizesAssumption DEF QueueOK

\* do_close.
LEMMA RunDoCloseQuiet ==
  ASSUME QueueOK(queue), RestOK, RunDoClose PROVE Quiet
<1>1. queue # <<>> /\ Head(queue).h = "do_close" /\ do_close(Tail(queue), readOp)
      /\ UNCHANGED <<thread, ioPc, bufVars, fault, produced, sent, appVars>>
  BY DEF RunDoClose, Ready
<1>2. QueueOK(Tail(queue)) BY <1>1, TakeKeepsQueue
<1>3. readOp \in BOOLEAN /\ (readOp => None(Tail(queue), "do_read"))
  BY <1>2 DEF RestOK, QueueOK
<1>4. ASSUME NEW n \in 0..ReadSize, Waits(queue, n) PROVE Waits(queue', n)
  <2>1. Waits(Tail(queue), n) /\ n \in Nat BY <1>1, <1>4, TailWaits
  <2> QED BY <1>1, <1>2, <1>3, <2>1, CloseWaits
<1>5. \/ line' = line /\ portOpen' = portOpen
      \/ line' = <<>> /\ portOpen' = FALSE
  BY <1>1 DEF do_close, CloseDevice
<1> QED BY <1>1, <1>4, <1>5 DEF Quiet, bufVars, appVars

\* do_write.
LEMMA RunDoWriteQuiet ==
  ASSUME QueueOK(queue), RestOK, RunDoWrite PROVE Quiet
<1> DEFINE c == Head(queue).n
<1>1. queue # <<>> /\ Head(queue).h = "do_write" /\ do_write(c, Tail(queue))
      /\ UNCHANGED <<portOpen, thread, ioPc, readOp, rbuf, circ, flag, line, fault,
                     produced, appVars>>
  BY DEF RunDoWrite, Ready
<1>2. Head(queue) \in Handlers /\ Tail(queue) \in Seq(Handlers) BY <1>1 DEF QueueOK
<1>3. c \in Nat BY <1>2 DEF Handlers
<1> HIDE DEF c
<1>4. ASSUME NEW n \in 0..ReadSize, Waits(queue, n) PROVE Waits(queue', n)
  <2>1. Waits(Tail(queue), n) /\ n \in Nat BY <1>1, <1>4, TailWaits
  <2>2. CASE wbuf = <<>>
    <3>1. write_start(<<c>>, Tail(queue)) /\ <<c>> \in Seq(Nat)
      BY <1>1, <1>3, <2>2 DEF do_write
    <3> QED BY <1>2, <2>1, <3>1, WriteWaits
  <2>3. CASE wbuf # <<>> BY <1>1, <2>1, <2>3 DEF do_write
  <2> QED BY <2>2, <2>3
<1> QED BY <1>1, <1>4 DEF Quiet, appVars

\* write_complete.
LEMMA RunWriteCompleteQuiet ==
  ASSUME QueueOK(queue), RestOK, RunWriteComplete PROVE Quiet
<1> DEFINE m == Head(queue).n
           err == Head(queue).err
           w == SubSeq(wbuf, m + 1, Len(wbuf))
<1>1. queue # <<>> /\ Head(queue).h = "write_complete"
      /\ write_complete(err, m, Tail(queue))
      /\ UNCHANGED <<thread, ioPc, rbuf, circ, flag, fault, produced, appVars>>
  BY DEF RunWriteComplete, Ready
<1>2. QueueOK(Tail(queue)) BY <1>1, TakeKeepsQueue
<1>3. Head(queue) \in Handlers /\ Tail(queue) \in Seq(Handlers) BY <1>1 DEF QueueOK
<1>4. m \in Nat BY <1>3 DEF Handlers
<1>5. w \in Seq(Nat)
  <2> HIDE DEF m
  <2> QED BY <1>4 DEF RestOK
<1> HIDE DEF m, err
<1>6. CASE err = "ok"
  <2>1. UNCHANGED <<portOpen, readOp, line>>
        /\ IF Len(wbuf) > m THEN write_start(w, Tail(queue)) ELSE queue' = Tail(queue)
    BY <1>1, <1>6 DEF write_complete
  <2>2. ASSUME NEW n \in 0..ReadSize, Waits(queue, n) PROVE Waits(queue', n)
    <3>1. Waits(Tail(queue), n) /\ n \in Nat BY <1>1, <2>2, TailWaits
    <3> HIDE DEF w
    <3>2. CASE Len(wbuf) > m BY <1>3, <1>5, <2>1, <3>1, <3>2, WriteWaits
    <3>3. CASE ~(Len(wbuf) > m) BY <2>1, <3>1, <3>3
    <3> QED BY <3>2, <3>3
  <2> QED BY <1>1, <2>1, <2>2 DEF Quiet, appVars
<1>7. CASE err # "ok"
  <2>1. do_close(Tail(queue), readOp) BY <1>1, <1>7 DEF write_complete
  <2>2. readOp \in BOOLEAN /\ (readOp => None(Tail(queue), "do_read"))
    BY <1>2 DEF RestOK, QueueOK
  <2>3. ASSUME NEW n \in 0..ReadSize, Waits(queue, n) PROVE Waits(queue', n)
    <3>1. Waits(Tail(queue), n) /\ n \in Nat BY <1>1, <2>3, TailWaits
    <3> QED BY <1>2, <2>1, <2>2, <3>1, CloseWaits
  <2>4. \/ line' = line /\ portOpen' = portOpen
        \/ line' = <<>> /\ portOpen' = FALSE
    BY <2>1 DEF do_close, CloseDevice
  <2> QED BY <1>1, <2>3, <2>4 DEF Quiet, appVars
<1> QED BY <1>6, <1>7

\* The steps that only append to the queue, or leave it.
LEMMA PostQuiet ==
  ASSUME QueueOK(queue), RestOK,
         ReactorWrite \/ ThreadExit \/ close \/ write \/ LineFails \/ UNCHANGED vars
  PROVE  Quiet
<1> USE DEF vars, ioVars, bufVars, devVars, appVars
<1>1. UNCHANGED <<circ, rbuf, produced, reused, line, portOpen>>
  BY DEF ReactorWrite, ThreadExit, close, write, LineFails
<1>2. queue' = queue \/ \E e \in Handlers : e.h # "do_read" /\ queue' = Append(queue, e)
  <2>1. CASE ReactorWrite
    <3>1. writeOp \in Nat BY DEF RestOK
    <3>2. /\ Handler("write_complete", "ok", writeOp) \in Handlers
          /\ Handler("write_complete", "fault", 0) \in Handlers
          /\ Handler("write_complete", "ok", writeOp).h = "write_complete"
          /\ Handler("write_complete", "fault", 0).h = "write_complete"
      BY <3>1, HandlerType
    <3>3. \/ queue' = Append(queue, Handler("write_complete", "ok", writeOp))
          \/ queue' = Append(queue, Handler("write_complete", "fault", 0))
      BY <2>1 DEF ReactorWrite
    <3> QED BY <3>2, <3>3
  <2>2. CASE close
    <3>1. queue' = Append(queue, Handler("do_close", "ok", 0)) BY <2>2 DEF close
    <3>2. /\ Handler("do_close", "ok", 0) \in Handlers
          /\ Handler("do_close", "ok", 0).h = "do_close"
      BY HandlerType
    <3> QED BY <3>1, <3>2
  <2>3. CASE write
    <3>1. queue' = Append(queue, Handler("do_write", "ok", calls')) /\ calls' \in Nat
      BY <2>3, SizesAssumption DEF write, Call, RestOK
    <3>2. /\ Handler("do_write", "ok", calls') \in Handlers
          /\ Handler("do_write", "ok", calls').h = "do_write"
      BY <3>1, HandlerType
    <3> QED BY <3>1, <3>2
  <2>4. CASE ThreadExit \/ LineFails \/ UNCHANGED vars BY <2>4 DEF ThreadExit, LineFails
  <2> QED BY <2>1, <2>2, <2>3, <2>4
<1>3. ASSUME NEW n \in 0..ReadSize, Waits(queue, n) PROVE Waits(queue', n)
  <2>1. n \in Nat /\ queue \in Seq(Handlers) BY SizesAssumption DEF QueueOK
  <2> QED BY <1>2, <1>3, <2>1, QueueWaits
<1> QED BY <1>1, <1>3 DEF Quiet

\* reopen.
LEMMA ReopenQuiet ==
  ASSUME QueueOK(queue), RestOK, reopen PROVE Quiet /\ ~portOpen'
<1>1. do_close(queue, readOp)
      /\ UNCHANGED <<thread, ioPc, bufVars, fault, produced, sent, frame, reused>>
  BY DEF reopen
<1>2. readOp \in BOOLEAN /\ (readOp => None(queue, "do_read")) BY DEF RestOK, QueueOK
<1>3. ASSUME NEW n \in 0..ReadSize, Waits(queue, n) PROVE Waits(queue', n)
  <2>1. n \in Nat BY SizesAssumption
  <2> QED BY <1>1, <1>2, <1>3, <2>1, CloseWaits
<1>4. \/ line' = line /\ portOpen' = portOpen
      \/ line' = <<>> /\ portOpen' = FALSE
  BY <1>1 DEF do_close, CloseDevice
<1>5. ~portOpen' BY <1>1 DEF do_close, CloseDevice
<1> QED BY <1>1, <1>3, <1>4, <1>5 DEF Quiet, bufVars

\* The steps of the queue that move no byte keep the run of bytes.
LEMMA QuietWhole ==
  ASSUME RestOK, Whole, Quiet,
         appPc' = "reopen" => appPc = "reopen" \/ ~portOpen',
         thread' = "none" => thread = "none"
  PROVE  Whole'
<1>1. UNCHANGED <<circ, rbuf, produced, reused>> BY DEF Quiet
<1>2. LineOK'
  <2>1. CASE line' = line /\ portOpen' = portOpen BY <1>1, <2>1 DEF Whole, LineOK
  <2>2. CASE line' = <<>> /\ portOpen' = FALSE
    <3>1. Len(line') = 0 /\ 1..Len(line') = {} /\ produced' >= 0
      BY <1>1, <2>2, SizesAssumption DEF RestOK
    <3> QED BY <2>2, <3>1 DEF LineOK
  <2> QED BY <2>1, <2>2 DEF Quiet
<1>3. ASSUME ~reused PROVE Unbroken'
  <2>1. PICK e \in 0..MaxBytes, n \in 0..ReadSize : Waits(queue, n) /\ Stream(e, n)
    BY <1>3 DEF Whole, Unbroken
  <2>2. Waits(queue, n)'
    <3>1. Waits(queue', n) BY <2>1 DEF Quiet
    <3> QED BY <3>1 DEF Waits, None
  <2>3. Stream(e, n)'
    <3>1. CASE line' = line /\ portOpen' = portOpen BY <1>1, <2>1, <3>1 DEF Stream
    <3>2. CASE portOpen' = FALSE BY <1>1, <2>1, <3>2 DEF Stream
    <3> QED BY <3>1, <3>2 DEF Quiet
  <2> QED BY <2>2, <2>3 DEF Unbroken
<1>4. Unbroken' BY <1>1, <1>3 DEF Unbroken
<1>5. appPc' = "reopen" => ~portOpen' BY DEF Whole, Quiet
<1> QED BY <1>1, <1>2, <1>4, <1>5 DEF Whole

\* Both counts exist only while the thread is used for the first time.
LEMMA UnbrokenParts ==
  ASSUME Whole, ~reused
  PROVE  \E e \in 0..MaxBytes, n \in 0..ReadSize : Waits(queue, n) /\ Stream(e, n)
BY DEF Whole, Unbroken

\* What do_read leaves in the circular buffer still ends with the last byte taken.
LEMMA InsertStream ==
  ASSUME NEW buf \in Seq(Nat), NEW data \in Seq(Nat), NEW e \in Nat,
         Len(buf) <= Cap, Len(data) <= Cap,
         \A i \in 1..Len(buf) : buf[i] = e - Len(data) - Len(buf) + i,
         \A i \in 1..Len(data) : data[i] = e - Len(data) + i
  PROVE  \A i \in 1..Len(Insert(buf, data)) :
           Insert(buf, data)[i] = e - Len(Insert(buf, data)) + i
<1>1. CASE Cap - Len(buf) < Len(data)
  <2>1. Insert(buf, data) = data BY <1>1 DEF Insert
  <2> QED BY <2>1
<1>2. CASE ~(Cap - Len(buf) < Len(data))
  <2>1. Insert(buf, data) = buf \o data BY <1>2 DEF Insert
  <2>2. /\ Len(buf \o data) = Len(buf) + Len(data) /\ Len(buf) \in Nat /\ Len(data) \in Nat
        /\ \A i \in 1..Len(buf) : (buf \o data)[i] = buf[i]
        /\ \A i \in 1..Len(data) : (buf \o data)[Len(buf) + i] = data[i]
    OBVIOUS
  <2>3. ASSUME NEW i \in 1..(Len(buf) + Len(data))
        PROVE  (buf \o data)[i] = e - (Len(buf) + Len(data)) + i
    <3>1. CASE i <= Len(buf) BY <2>2, <3>1
    <3>2. CASE ~(i <= Len(buf))
      <4>1. i - Len(buf) \in 1..Len(data) /\ Len(buf) + (i - Len(buf)) = i BY <2>2, <3>2
      <4> QED BY <2>2, <4>1
    <3> QED BY <3>1, <3>2
  <2> QED BY <2>1, <2>2, <2>3
<1> QED BY <1>1, <1>2

\* The bytes a read takes are the first on the line and the rest stays there.
LEMMA TakenStream ==
  ASSUME RestOK, LineOK, portOpen
  PROVE  /\ Len(Taken) \in 0..ReadSize /\ Len(Taken) <= Len(line)
         /\ \A i \in 1..Len(Taken) : Taken[i] = produced - Len(line) + i
         /\ Len(Left) = Len(line) - Len(Taken)
         /\ \A i \in 1..Len(Left) : Left[i] = produced - Len(Left) + i
<1> USE SizesAssumption
<1>0. line \in Seq(Nat) /\ Len(line) \in Nat /\ produced \in Nat BY DEF RestOK
<1>1. /\ Len(Taken) \in 0..ReadSize /\ Len(Taken) <= Len(line)
      /\ \A i \in 1..Len(Taken) : Taken[i] = line[i]
  BY <1>0 DEF Taken, Lesser
<1> HIDE DEF Taken
<1>2. /\ Len(Left) = Len(line) - Len(Taken)
      /\ \A i \in 1..Len(Left) : Left[i] = line[Len(Taken) + i]
  <2> DEFINE n == Len(Taken)
  <2>1. n \in 0..Len(line) BY <1>0, <1>1
  <2>2. Left = SubSeq(line, n + 1, Len(line)) BY DEF Left
  <2> HIDE DEF n
  <2>3. Len(Left) = Len(line) - n /\ \A i \in 1..Len(Left) : Left[i] = line[n + i]
    BY <1>0, <2>1, <2>2, SuffixType
  <2> QED BY <2>3 DEF n
<1>3. \A i \in 1..Len(Taken) : Taken[i] = produced - Len(line) + i
  BY <1>0, <1>1 DEF LineOK
<1>4. \A i \in 1..Len(Left) : Left[i] = produced - Len(Left) + i
  BY <1>0, <1>1, <1>2 DEF LineOK
<1> QED BY <1>1, <1>2, <1>3, <1>4

\* A read that does not succeed takes nothing.
LEMMA ClosedTakesNothing ==
  ASSUME RestOK, ReadResult # "ok"
  PROVE  Taken = <<>> /\ Left = line
<1>1. Taken = <<>> BY DEF Taken
<1>2. Left = SubSeq(line, 1, Len(line)) BY <1>1 DEF Left
<1>3. SubSeq(line, 1, Len(line)) = line BY DEF RestOK
<1> QED BY <1>1, <1>2, <1>3

\* do_read: the waiting bytes go to the end of the circular buffer, or the step is
\* that of a read that brought none.
LEMMA RunDoReadMoves ==
  ASSUME QueueOK(queue), RestOK, RunDoRead, NEW n \in 0..ReadSize, Waits(queue, n)
  PROVE  \/ Quiet /\ UNCHANGED <<thread, appPc>>
         \/ /\ Waits(queue', 0) /\ n <= Len(rbuf)
            /\ circ' = Insert(circ, SubSeq(rbuf, 1, n))
            /\ UNCHANGED <<rbuf, line, portOpen, produced, reused, thread, appPc>>
<1> DEFINE m == Head(queue).n
           err == Head(queue).err
           data == SubSeq(rbuf, 1, m)
<1>1. queue # <<>> /\ Head(queue).h = "do_read" /\ do_read(err, data, line, Tail(queue))
      /\ UNCHANGED <<thread, rbuf, wbuf, fault, produced, sent, appVars>>
  BY DEF RunDoRead, Ready
<1>2. QueueOK(Tail(queue)) /\ None(Tail(queue), "do_read") /\ m <= Len(rbuf)
  <2>1. QueueOK(Tail(queue)) BY <1>1, TakeKeepsQueue
  <2>2. None(Tail(queue), "do_read") /\ m <= Len(rbuf)
    BY <1>1, TailOfQueue DEF QueueOK, RestOK
  <2> QED BY <2>1, <2>2
<1>3. Tail(queue) \in Seq(Handlers) /\ 1 \in DOMAIN queue /\ Head(queue) = queue[1]
  BY <1>1 DEF QueueOK
<1>4. ASSUME NEW k \in 0..ReadSize, Waits(queue, k) PROVE k = m /\ (err # "ok" => k = 0)
  BY <1>1, <1>3, <1>4 DEF Waits
<1>5. Waits(Tail(queue), 0) BY <1>2, <1>3, ReadWaits
<1>6. n = m BY <1>4
<1> HIDE DEF m, err
<1>7. CASE err = "aborted"
  <2>1. queue' = Tail(queue) /\ UNCHANGED <<portOpen, line, circ>>
    BY <1>1, <1>7 DEF do_read
  <2>2. \A k \in 0..ReadSize : Waits(queue, k) => Waits(queue', k)
    BY <1>4, <1>5, <1>7, <2>1
  <2> QED BY <1>1, <2>1, <2>2 DEF Quiet, appVars
<1>8. CASE err = "eof"
  <2>1. do_close(Tail(queue), FALSE) /\ UNCHANGED circ BY <1>1, <1>8 DEF do_read
  <2>2. Waits(queue', 0) BY <1>2, <1>5, <2>1, CloseWaits
  <2>3. \A k \in 0..ReadSize : Waits(queue, k) => Waits(queue', k) BY <1>4, <1>8, <2>2
  <2>4. \/ line' = line /\ portOpen' = portOpen
        \/ line' = <<>> /\ portOpen' = FALSE
    BY <2>1 DEF do_close, CloseDevice
  <2> QED BY <1>1, <2>1, <2>3, <2>4 DEF Quiet, appVars
<1>9. CASE err \notin {"aborted", "eof"}
  <2>1. /\ queue' = Tail(queue) /\ line' = line /\ circ' = Insert(circ, data)
        /\ UNCHANGED portOpen
    BY <1>1, <1>9 DEF do_read
  <2> QED BY <1>1, <1>2, <1>5, <1>6, <2>1 DEF appVars
<1> QED BY <1>7, <1>8, <1>9

\* do_read keeps the run of bytes.
LEMMA RunDoReadWhole ==
  ASSUME QueueOK(queue), RestOK, Whole, RunDoRead PROVE Whole'
<1>1. CASE reused
  <2>1. /\ UNCHANGED <<rbuf, produced, reused, thread, appPc>>
        /\ \/ line' = line /\ portOpen' = portOpen
           \/ line' = <<>> /\ portOpen' = FALSE
    BY DEF RunDoRead, do_read, do_close, CloseDevice, appVars
  <2>2. LineOK'
    <3>1. CASE line' = line /\ portOpen' = portOpen BY <2>1, <3>1 DEF Whole, LineOK
    <3>2. CASE line' = <<>> /\ portOpen' = FALSE
      <4>1. Len(line') = 0 /\ 1..Len(line') = {} /\ produced' >= 0
        BY <2>1, <3>2, SizesAssumption DEF RestOK
      <4> QED BY <3>2, <4>1 DEF LineOK
    <3> QED BY <2>1, <3>1, <3>2
  <2> QED BY <1>1, <2>1, <2>2 DEF Whole, Unbroken
<1>2. CASE ~reused
  <2>1. PICK e \in 0..MaxBytes, n \in 0..ReadSize : Waits(queue, n) /\ Stream(e, n)
    BY <1>2, UnbrokenParts
  <2>2. CASE Quiet /\ UNCHANGED <<thread, appPc>> BY <2>2, QuietWhole
  <2>3. CASE /\ Waits(queue', 0) /\ n <= Len(rbuf)
             /\ circ' = Insert(circ, SubSeq(rbuf, 1, n))
             /\ UNCHANGED <<rbuf, line, portOpen, produced, reused, thread, appPc>>
    <3> DEFINE data == SubSeq(rbuf, 1, n)
    <3>1. LineOK' BY <2>3 DEF Whole, LineOK
    <3>2. n \in Nat /\ n <= ReadSize BY SizesAssumption
    <3>a. rbuf \in Seq(Nat) /\ n <= Len(rbuf) BY <2>3 DEF RestOK
    <3>3. /\ data \in Seq(Nat) /\ Len(data) = n
          /\ \A i \in 1..n : data[i] = rbuf[i]
      BY <3>2, <3>a
    <3> HIDE DEF data
    <3>4. /\ circ \in Seq(Nat) /\ Len(circ) <= Cap /\ Len(data) <= Cap /\ e \in Nat
      BY <3>2, <3>3, SizesAssumption DEF RestOK, BufferWithinCapacity
    <3>5. /\ \A i \in 1..Len(circ) : circ[i] = e - Len(data) - Len(circ) + i
          /\ \A i \in 1..Len(data) : data[i] = e - Len(data) + i
      BY <2>1, <3>3 DEF Stream
    <3>6. \A i \in 1..Len(Insert(circ, data)) :
            Insert(circ, data)[i] = e - Len(Insert(circ, data)) + i
      BY <3>3, <3>4, <3>5, InsertStream
    <3>7. circ' = Insert(circ, data) BY <2>3 DEF data
    <3>8. Stream(e, 0)'
      <4>0. e - 0 = e BY <3>4
      <4>1. \A i \in 1..Len(circ') : circ'[i] = e - 0 - Len(circ') + i
        BY <3>6, <3>7, <4>0
      <4>2. portOpen' => e + Len(line') = produced' BY <2>1, <2>3 DEF Stream
      <4> QED BY <4>1, <4>2 DEF Stream
    <3>9. Waits(queue, 0)' BY <2>3 DEF Waits, None
    <3>10. Unbroken' BY <3>8, <3>9, SizesAssumption DEF Unbroken
    <3> QED BY <2>3, <3>1, <3>10 DEF Whole
  <2> QED BY <2>1, <2>2, <2>3, RunDoReadMoves
<1> QED BY <1>1, <1>2

\* The reactor's read: the bytes taken go to the end of the circular buffer, or the
\* port is closed at the end of file.
LEMMA ReactorReadMoves ==
  ASSUME QueueOK(queue), RestOK, ReactorRead
  PROVE  /\ portOpen /\ Waits(queue, 0) /\ Waits(queue', 0)
         /\ None(queue, "do_read")
         /\ UNCHANGED <<produced, reused, thread, appPc>>
         /\ \/ circ' = circ /\ line' = <<>> /\ portOpen' = FALSE
            \/ circ' = Insert(circ, Taken) /\ line' = Left /\ portOpen' = portOpen
<1> DEFINE r == ReadResult
<1>1. /\ readOp /\ portOpen /\ r # "none" /\ do_read(r, Taken, Left, queue)
      /\ UNCHANGED <<thread, wbuf, fault, produced, sent, appVars>>
  BY DEF ReactorRead
<1>2. None(queue, "do_read") /\ queue \in Seq(Handlers) BY <1>1 DEF QueueOK
<1>3. r # "aborted" BY ReadTakes
<1>4. Waits(queue, 0) BY <1>2, ReadWaits
<1> HIDE DEF r
<1>5. CASE r = "eof"
  <2>1. do_close(queue, FALSE) /\ UNCHANGED circ BY <1>1, <1>5 DEF do_read
  <2>2. Waits(queue', 0) /\ portOpen' = FALSE /\ line' = <<>>
    BY <1>1, <1>4, <2>1, CloseWaits DEF do_close, CloseDevice
  <2> QED BY <1>1, <1>2, <1>4, <2>1, <2>2 DEF appVars
<1>6. CASE r # "eof"
  <2>1. /\ queue' = queue /\ line' = Left /\ circ' = Insert(circ, Taken)
        /\ UNCHANGED portOpen
    BY <1>1, <1>3, <1>6 DEF do_read
  <2> QED BY <1>1, <1>2, <1>4, <2>1 DEF appVars
<1> QED BY <1>5, <1>6

\* The reactor's read keeps the run of bytes.
LEMMA ReactorReadWhole ==
  ASSUME QueueOK(queue), RestOK, Whole, ReactorRead PROVE Whole'
<1> USE SizesAssumption
<1>1. /\ portOpen /\ Waits(queue, 0) /\ Waits(queue', 0)
      /\ None(queue, "do_read")
      /\ UNCHANGED <<produced, reused, thread, appPc>>
      /\ \/ circ' = circ /\ line' = <<>> /\ portOpen' = FALSE
         \/ circ' = Insert(circ, Taken) /\ line' = Left /\ portOpen' = portOpen
  BY ReactorReadMoves
<1>3. LineOK BY DEF Whole
<1>4. Taken \in Seq(Nat) /\ Left \in Seq(Nat) BY ReadTakes
<1>5. /\ Len(Taken) \in 0..ReadSize /\ Len(Taken) <= Len(line)
      /\ \A i \in 1..Len(Taken) : Taken[i] = produced - Len(line) + i
      /\ Len(Left) = Len(line) - Len(Taken)
      /\ \A i \in 1..Len(Left) : Left[i] = produced - Len(Left) + i
  BY <1>1, <1>3, TakenStream
<1>7. ASSUME NEW n \in 0..ReadSize, Waits(queue, n) PROVE n = 0
  BY <1>1, <1>7 DEF Waits
<1>8. Len(line) \in Nat /\ produced \in Nat /\ produced <= MaxBytes
  BY DEF RestOK
<1>9. CASE circ' = circ /\ line' = <<>> /\ portOpen' = FALSE
  <2>3. LineOK'
    <3>1. Len(line') = 0 /\ 1..Len(line') = {} BY <1>9
    <3> QED BY <1>1, <1>8, <1>9, <3>1 DEF LineOK
  <2>4. ASSUME ~reused PROVE Unbroken'
    <3>1. PICK e \in 0..MaxBytes, n \in 0..ReadSize : Waits(queue, n) /\ Stream(e, n)
      BY <2>4, UnbrokenParts
    <3>2. n = 0 BY <1>7, <3>1
    <3>3. Stream(e, 0)' BY <1>9, <3>1, <3>2 DEF Stream
    <3>4. Waits(queue, 0)' BY <1>1 DEF Waits, None
    <3> QED BY <3>3, <3>4 DEF Unbroken
  <2>5. Unbroken' BY <1>1, <2>4 DEF Unbroken
  <2> QED BY <1>1, <1>9, <2>3, <2>5 DEF Whole
<1>10. CASE circ' = Insert(circ, Taken) /\ line' = Left /\ portOpen' = portOpen
  <2>a. /\ Len(Taken) \in Nat /\ Len(Taken) <= Len(line) /\ Len(Left) = Len(line) - Len(Taken)
    BY <1>5
  <2>b. Len(Left) \in Nat /\ Len(Left) <= produced
    <3>1. Len(line) <= produced BY <1>3 DEF LineOK
    <3> QED BY <1>4, <1>8, <2>a, <3>1
  <2>2. LineOK'
    <3>1. portOpen' = portOpen /\ line' = Left /\ produced' = produced BY <1>1, <1>10
    <3>2. \A i \in 1..Len(Left) : Left[i] = produced - Len(Left) + i BY <1>5
    <3> QED BY <1>1, <2>b, <3>1, <3>2 DEF LineOK
  <2>3. ASSUME ~reused PROVE Unbroken'
    <3>1. PICK e \in 0..MaxBytes, n \in 0..ReadSize : Waits(queue, n) /\ Stream(e, n)
      BY <2>3, UnbrokenParts
    <3>2. n = 0 BY <1>7, <3>1
    <3>3. e + Len(line) = produced /\ e \in Nat BY <1>1, <3>1 DEF Stream
    <3>a. PICK f \in Nat : f = e + Len(Taken) BY <1>5, <3>3
    <3>4. f \in 0..MaxBytes /\ f + Len(Left) = produced BY <1>8, <2>a, <3>3, <3>a
    <3>5. /\ circ \in Seq(Nat) /\ Len(circ) \in Nat /\ Len(circ) <= Cap
          /\ Len(Taken) <= Cap /\ Len(Taken) <= ReadSize
      BY <1>5 DEF RestOK, BufferWithinCapacity
    <3>6. \A i \in 1..Len(circ) : circ[i] = f - Len(Taken) - Len(circ) + i
      BY <1>5, <3>1, <3>2, <3>3, <3>5, <3>a DEF Stream
    <3>7. \A i \in 1..Len(Taken) : Taken[i] = f - Len(Taken) + i
      <4>1. produced - Len(line) = e /\ f - Len(Taken) = e BY <1>8, <2>a, <3>3, <3>a
      <4> QED BY <1>5, <4>1
    <3>8. f \in Nat OBVIOUS
    <3>9. \A i \in 1..Len(Insert(circ, Taken)) :
            Insert(circ, Taken)[i] = f - Len(Insert(circ, Taken)) + i
      BY <1>4, <3>5, <3>6, <3>7, <3>8, InsertStream
    <3>10. Insert(circ, Taken) \in Seq(Nat) BY <1>4, <3>5, InsertFits
    <3>11. Stream(f, 0)'
      <4>0. f - 0 = f OBVIOUS
      <4>1. \A i \in 1..Len(circ') : circ'[i] = f - 0 - Len(circ') + i
        BY <1>10, <3>9, <4>0
      <4>2. portOpen' => f + Len(line') = produced' BY <1>1, <1>10, <3>4
      <4> QED BY <4>1, <4>2 DEF Stream
    <3>12. Waits(queue, 0)' BY <1>1 DEF Waits, None
    <3> QED BY <3>4, <3>11, <3>12 DEF Unbroken
  <2>4. Unbroken' BY <1>1, <2>3 DEF Unbroken
  <2> QED BY <1>1, <1>10, <2>2, <2>4 DEF Whole
<1> QED BY <1>1, <1>9, <1>10

\* The end of do_read: a read that finishes at once leaves its bytes waiting.
LEMMA RearmMoves ==
  ASSUME QueueOK(queue), RestOK, Rearm
  PROVE  /\ None(queue, "do_read") /\ Waits(queue', Len(Taken))
         /\ rbuf' = Taken /\ line' = Left
         /\ ReadResult # "ok" => Taken = <<>> /\ Left = line
         /\ UNCHANGED <<circ, portOpen, produced, reused, thread, appPc>>
<1> DEFINE r == ReadResult
           h == Handler("do_read", r, Len(Taken))
<1>1. /\ ioPc = "rearm" /\ AsyncReadSome
      /\ UNCHANGED <<portOpen, thread, circ, produced, appVars>>
  BY DEF Rearm
<1>2. rbuf' = Taken /\ line' = Left
      /\ (r = "none" => queue' = queue) /\ (r # "none" => queue' = Append(queue, h))
  BY <1>1 DEF AsyncReadSome
<1>3. None(queue, "do_read") /\ queue \in Seq(Handlers) BY <1>1 DEF QueueOK
<1>4. r \in {"ok", "eof", "fault", "none"} /\ Taken \in Seq(Nat)
  BY ReadTakes
<1>6. r # "ok" => Taken = <<>> /\ Left = line BY ClosedTakesNothing
<1>8. r # "none" => h \in Handlers /\ h.h = "do_read" /\ h.n = Len(Taken) /\ h.err = r
  BY <1>4 DEF Handler, Handlers
<1>9. Len(<<>>) = 0 OBVIOUS
<1>10. UNCHANGED <<circ, portOpen, produced, reused, thread, appPc>> BY <1>1 DEF appVars
<1> HIDE DEF r, h
<1>12. Waits(queue', Len(Taken))
  <2>1. CASE r = "none" BY <1>2, <1>3, <1>6, <1>9, <2>1, ReadWaits
  <2>2. CASE r # "none" BY <1>2, <1>3, <1>6, <1>8, <1>9, <2>2, ReadWaits
  <2> QED BY <2>1, <2>2
<1> QED BY <1>2, <1>3, <1>6, <1>10, <1>12 DEF r

\* The end of do_read keeps the run of bytes.
LEMMA RearmWhole ==
  ASSUME QueueOK(queue), RestOK, Whole, Rearm PROVE Whole'
<1> USE SizesAssumption
<1>1. /\ None(queue, "do_read") /\ Waits(queue', Len(Taken))
      /\ rbuf' = Taken /\ line' = Left
      /\ ReadResult # "ok" => Taken = <<>> /\ Left = line
      /\ UNCHANGED <<circ, portOpen, produced, reused, thread, appPc>>
  BY RearmMoves
<1>4. Taken \in Seq(Nat) /\ Left \in Seq(Nat) /\ Len(Taken) \in 0..ReadSize
  BY ReadTakes
<1>5. LineOK BY DEF Whole
<1>7. Len(line) \in Nat /\ produced \in Nat /\ produced <= MaxBytes
  BY DEF RestOK
<1>9. Len(<<>>) = 0 OBVIOUS
<1>10. portOpen =>
         /\ Len(Taken) <= Len(line)
         /\ \A i \in 1..Len(Taken) : Taken[i] = produced - Len(line) + i
         /\ Len(Left) = Len(line) - Len(Taken)
         /\ \A i \in 1..Len(Left) : Left[i] = produced - Len(Left) + i
  BY <1>5, TakenStream
<1>11. ~portOpen => Taken = <<>> /\ Left = line BY <1>1 DEF ReadResult
<1>13. LineOK'
  <2>1. CASE portOpen BY <1>1, <1>4, <1>5, <1>7, <1>10, <2>1 DEF LineOK
  <2>2. CASE ~portOpen BY <1>1, <1>5, <1>11, <2>2 DEF LineOK
  <2> QED BY <2>1, <2>2
<1>14. ASSUME ~reused PROVE Unbroken'
  <2>1. PICK e \in 0..MaxBytes, n \in 0..ReadSize : Waits(queue, n) /\ Stream(e, n)
    BY <1>14, UnbrokenParts
  <2>2. n = 0 BY <1>1, <2>1 DEF Waits
  <2>a. PICK t \in 0..ReadSize : t = Len(Taken) BY <1>4
  <2>b. PICK f \in Nat : f = e + t OBVIOUS
  <2>3. portOpen => e + Len(line) = produced BY <2>1 DEF Stream
  <2>4. f \in 0..MaxBytes /\ (portOpen => f + Len(Left) = produced)
    <3>1. CASE portOpen
      <4>1. Len(Taken) <= Len(line) /\ Len(Left) = Len(line) - Len(Taken) BY <1>10, <3>1
      <4> QED BY <1>4, <1>7, <2>3, <2>a, <2>b, <3>1, <4>1
    <3>2. CASE ~portOpen BY <1>9, <1>11, <2>a, <2>b, <3>2
    <3> QED BY <3>1, <3>2
  <2>5. circ \in Seq(Nat) /\ Len(circ) \in Nat /\ t \in Nat BY DEF RestOK
  <2>6. \A i \in 1..Len(circ) : circ[i] = f - t - Len(circ) + i
    BY <2>1, <2>2, <2>5, <2>b DEF Stream
  <2>7. \A i \in 1..t : Taken[i] = f - t + i
    <3>1. CASE portOpen
      <4>1. produced - Len(line) = e /\ f - t = e BY <1>7, <2>3, <2>5, <2>b, <3>1
      <4> QED BY <1>10, <2>a, <3>1, <4>1
    <3>2. CASE ~portOpen
      <4>1. 1..t = {} BY <1>9, <1>11, <2>a, <3>2
      <4> QED BY <4>1
    <3> QED BY <3>1, <3>2
  <2>8. Stream(f, t)' BY <1>1, <2>4, <2>6, <2>7 DEF Stream
  <2>9. Waits(queue, t)' BY <1>1, <2>a DEF Waits, None
  <2> QED BY <2>4, <2>8, <2>9 DEF Unbroken
<1>15. Unbroken' BY <1>1, <1>14 DEF Unbroken
<1> QED BY <1>1, <1>13, <1>15 DEF Whole

\* Before a thread is started nothing was read: the next byte is the first.
LEMMA FreshWhole ==
  ASSUME QueueOK(queue), RestOK, thread = "none", LineOK', produced' \in 0..MaxBytes,
         circ' = <<>>, queue' = queue, Len(line') \in Nat
  PROVE  Unbroken'
<1>1. Waits(queue, 0)
  BY ReadWaits DEF QueueOK
<1>2. PICK e \in 0..MaxBytes : e = produced' - Len(line')
  BY SizesAssumption DEF LineOK
<1>3. Waits(queue, 0)' BY <1>1 DEF Waits, None
<1>4. Stream(e, 0)'
  <2>1. 1..Len(circ') = {} /\ 1..0 = {} OBVIOUS
  <2>2. e + Len(line') = produced' BY <1>2, SizesAssumption
  <2> QED BY <2>1, <2>2 DEF Stream
<1> QED BY <1>3, <1>4, SizesAssumption DEF Unbroken

\* open and the end of reopen: a port that is opened has an empty line, and a
\* thread that is there already is used again.
LEMMA OpenWhole ==
  ASSUME QueueOK(queue), RestOK, Whole, open \/ ReopenDevice PROVE Whole'
<1> USE DEF ioVars, bufVars
<1>1. /\ ~portOpen /\ Reuse /\ UNCHANGED <<queue, rbuf, circ, line, produced>>
      /\ appPc' \in {"idle", "join"} \/ appPc' = appPc
      /\ thread' = "none" => thread = "none"
      /\ portOpen' \in BOOLEAN
  <2>1. CASE open BY <2>1 DEF open, Call, RestOK
  <2>2. CASE ReopenDevice BY <2>2 DEF ReopenDevice, Whole
  <2> QED BY <2>1, <2>2
<1>a. appPc' # "reopen"
  BY DEF open, Call, ReopenDevice
<1>2. line = <<>> /\ line' = <<>> BY <1>1 DEF Whole, LineOK
<1>3. LineOK'
  <2>1. Len(line') = 0 /\ 1..Len(line') = {} /\ produced' >= 0
    BY <1>1, <1>2, SizesAssumption DEF RestOK
  <2> QED BY <1>2, <2>1 DEF LineOK
<1>4. thread' = "none" => ~reused' BY <1>1 DEF Reuse, Whole
<1>5. Unbroken'
  <2>1. CASE thread = "none"
    <3>1. circ' = <<>> BY <1>1, <2>1 DEF RestOK, FreshStart
    <3>2. produced' \in 0..MaxBytes /\ Len(line') \in Nat BY <1>1, <1>2 DEF RestOK
    <3> QED BY <1>1, <1>3, <2>1, <3>1, <3>2, FreshWhole
  <2>2. CASE thread # "none" /\ portOpen'
    <3>1. reused' BY <1>1, <2>2 DEF Reuse, RestOK
    <3> QED BY <3>1 DEF Unbroken
  <2>3. CASE thread # "none" /\ ~portOpen'
    <3>1. reused' = reused BY <1>1, <2>3 DEF Reuse, RestOK
    <3>2. ASSUME ~reused PROVE Unbroken'
      <4>1. PICK e \in 0..MaxBytes, n \in 0..ReadSize : Waits(queue, n) /\ Stream(e, n)
        BY <3>2, UnbrokenParts
      <4>2. Waits(queue, n)' BY <1>1, <4>1 DEF Waits, None
      <4>3. Stream(e, n)' BY <1>1, <2>3, <4>1 DEF Stream
      <4> QED BY <4>2, <4>3 DEF Unbroken
    <3> QED BY <3>1, <3>2 DEF Unbroken
  <2> QED BY <2>1, <2>2, <2>3
<1> QED BY <1>a, <1>3, <1>4, <1>5 DEF Whole

\* The end of close: the buffer is empty and nothing waits.
LEMMA CloseJoinedWhole ==
  ASSUME QueueOK(queue), RestOK, Whole, CloseJoined PROVE Whole'
<1>1. /\ thread # "run" /\ appPc' = "idle" /\ circ' = <<>> /\ reused' = FALSE
      /\ UNCHANGED <<portOpen, queue, line, produced>>
  BY DEF CloseJoined, devVars
<1>2. LineOK' BY <1>1 DEF Whole, LineOK
<1>3. None(queue, "do_read") /\ queue \in Seq(Handlers) BY <1>1 DEF QueueOK
<1>4. Waits(queue, 0)' BY <1>1, <1>3, ReadWaits DEF Waits, None
<1>5. Len(line') \in Nat /\ produced' \in 0..MaxBytes BY <1>1 DEF RestOK
<1>6. PICK e \in 0..MaxBytes : e = produced' - Len(line')
  BY <1>2, <1>5, SizesAssumption DEF LineOK
<1>7. Stream(e, 0)'
  <2>1. 1..Len(circ') = {} /\ 1..0 = {} BY <1>1
  <2>2. e + Len(line') = produced' BY <1>5, <1>6, SizesAssumption
  <2> QED BY <2>1, <2>2 DEF Stream
<1>8. Unbroken' BY <1>4, <1>7, SizesAssumption DEF Unbroken
<1> QED BY <1>1, <1>2, <1>8 DEF Whole

\* The elements of s are consecutive and the last is f.
Run(s, f) == \A i \in 1..Len(s) : s[i] = f - Len(s) + i
Steps(s) == \A i \in 1..(Len(s) - 1) : s[i + 1] = s[i] + 1

\* The elements of the sequence from the m-th on.
LEMMA SuffixElements ==
  ASSUME NEW s \in Seq(Nat), NEW m \in 1..(Len(s) + 1)
  PROVE  /\ Len(SubSeq(s, m, Len(s))) = Len(s) - m + 1
         /\ \A i \in 1..Len(SubSeq(s, m, Len(s))) : SubSeq(s, m, Len(s))[i] = s[m + i - 1]
OBVIOUS

\* What a parser takes from the buffer and what it leaves there are consecutive
\* when the buffer is.
LEMMA ParserStream ==
  ASSUME NEW buf \in Seq(Nat), NEW f \in Int, Run(buf, f),
         NEW result, NEW rest, getValidBuffer(buf, result, rest)
  PROVE  Steps(result) /\ Run(rest, f)
<1> USE SizesAssumption DEF Run, Steps
<1>1. PICK k \in 0..Len(buf) :
        LET valid == SubSeq(buf, k + 1, Len(buf)) IN
        IF Len(valid) >= FrameLen
        THEN result = SubSeq(valid, 1, FrameLen)
             /\ rest = SubSeq(valid, FrameLen + 1, Len(valid))
        ELSE result = <<>> /\ rest = valid
  BY DEF getValidBuffer
<1> DEFINE valid == SubSeq(buf, k + 1, Len(buf))
<1>2. /\ valid \in Seq(Nat) /\ Len(valid) = Len(buf) - k /\ Len(valid) \in Nat
      /\ \A i \in 1..Len(valid) : valid[i] = buf[k + i]
  OBVIOUS
<1>3. IF Len(valid) >= FrameLen
      THEN result = SubSeq(valid, 1, FrameLen)
           /\ rest = SubSeq(valid, FrameLen + 1, Len(valid))
      ELSE result = <<>> /\ rest = valid
  BY <1>1
<1> HIDE DEF valid
<1>4. \A i \in 1..Len(valid) : valid[i] = f - Len(valid) + i
  <2> SUFFICES ASSUME NEW i \in 1..Len(valid) PROVE valid[i] = f - Len(valid) + i
    OBVIOUS
  <2>1. k + i \in 1..Len(buf) /\ f - Len(buf) + (k + i) = f - Len(valid) + i BY <1>2
  <2> QED BY <1>2, <2>1
<1>5. CASE Len(valid) >= FrameLen
  <2>1. result = SubSeq(valid, 1, FrameLen)
        /\ rest = SubSeq(valid, FrameLen + 1, Len(valid))
    BY <1>3, <1>5
  <2>2. Len(result) = FrameLen /\ \A i \in 1..FrameLen : result[i] = valid[i]
    BY <1>2, <1>5, <2>1
  <2>3. /\ Len(rest) = Len(valid) - FrameLen
        /\ \A i \in 1..Len(rest) : rest[i] = valid[FrameLen + i]
    <3>1. PICK m \in Nat : m = FrameLen + 1 OBVIOUS
    <3>2. rest = SubSeq(valid, m, Len(valid)) BY <2>1, <3>1
    <3>a. valid \in Seq(Nat) /\ Len(valid) \in Nat BY <1>2
    <3>3. /\ Len(rest) = Len(valid) - m + 1
          /\ \A i \in 1..Len(rest) : rest[i] = valid[m + i - 1]
      BY <1>5, <3>1, <3>2, <3>a, SuffixElements
    <3>4. \A i \in 1..Len(rest) : m + i - 1 = FrameLen + i BY <3>1
    <3> QED BY <1>2, <3>1, <3>3, <3>4
  <2>4. ASSUME NEW i \in 1..(Len(result) - 1) PROVE result[i + 1] = result[i] + 1
    <3>1. /\ i \in 1..FrameLen /\ i + 1 \in 1..FrameLen
          /\ i \in 1..Len(valid) /\ i + 1 \in 1..Len(valid)
      BY <1>2, <1>5, <2>2
    <3>2. result[i] = f - Len(valid) + i /\ result[i + 1] = f - Len(valid) + (i + 1)
      BY <1>4, <2>2, <3>1
    <3> QED BY <1>2, <3>2
  <2>5. ASSUME NEW i \in 1..Len(rest) PROVE rest[i] = f - Len(rest) + i
    <3>1. /\ FrameLen + i \in 1..Len(valid)
          /\ f - Len(valid) + (FrameLen + i) = f - Len(rest) + i
      BY <1>2, <1>5, <2>3
    <3> QED BY <1>4, <2>3, <3>1
  <2> QED BY <2>4, <2>5
<1>6. CASE ~(Len(valid) >= FrameLen)
  <2>1. result = <<>> /\ rest = valid BY <1>3, <1>6
  <2>2. 1..(Len(result) - 1) = {} BY <2>1
  <2> QED BY <1>4, <2>1, <2>2
<1> QED BY <1>5, <1>6

\* receive: a whole frame is taken from the front of the run, and the rest stays.
LEMMA ReceiveWhole ==
  ASSUME QueueOK(queue), RestOK, Whole, receive
  PROVE  Whole' /\ (~reused => Consecutive')
<1>1. /\ read(frame', circ')
      /\ UNCHANGED <<portOpen, thread, queue, rbuf, line, produced, appPc, reused>>
  BY DEF receive, ioVars, devVars
<1>2. LineOK' BY <1>1 DEF Whole, LineOK
<1>3. ASSUME ~reused PROVE Unbroken' /\ Consecutive'
  <2>1. PICK e \in 0..MaxBytes, n \in 0..ReadSize : Waits(queue, n) /\ Stream(e, n)
    BY <1>3, UnbrokenParts
  <2>2. PICK f \in Int : f = e - n BY SizesAssumption
  <2>3. circ \in Seq(Nat) /\ Run(circ, f) BY <2>1, <2>2 DEF Stream, RestOK, Run
  <2>4. /\ HasParser => \A i \in 1..(Len(frame') - 1) : frame'[i + 1] = frame'[i] + 1
        /\ \A i \in 1..Len(circ') : circ'[i] = f - Len(circ') + i
    <3>1. CASE HasParser
      <4>1. getValidBuffer(circ, frame', circ') BY <1>1, <3>1 DEF read
      <4>2. Steps(frame') /\ Run(circ', f) BY <2>3, <4>1, ParserStream
      <4> QED BY <4>2 DEF Steps, Run
    <3>2. CASE ~HasParser
      <4>1. circ' = <<>> BY <1>1, <3>2 DEF read
      <4>2. 1..Len(circ') = {} BY <4>1
      <4> QED BY <3>2, <4>2
    <3> QED BY <3>1, <3>2
  <2>5. Stream(e, n)' BY <1>1, <2>1, <2>2, <2>4 DEF Stream
  <2>6. Waits(queue, n)' BY <1>1, <2>1 DEF Waits, None
  <2>7. Consecutive' BY <2>4 DEF Consecutive
  <2> QED BY <2>5, <2>6, <2>7 DEF Unbroken
<1>4. Unbroken' BY <1>1, <1>3 DEF Unbroken
<1> QED BY <1>1, <1>2, <1>3, <1>4 DEF Whole

\* A byte of the device comes behind the others on the line.
LEMMA DeviceSendsWhole ==
  ASSUME QueueOK(queue), RestOK, Whole, DeviceSends PROVE Whole'
<1>1. /\ produced < MaxBytes /\ produced' = produced + 1
      /\ line' = (IF portOpen THEN Append(line, produced + 1) ELSE line)
      /\ UNCHANGED <<portOpen, thread, queue, rbuf, circ, appVars>>
  BY DEF DeviceSends, ioVars, bufVars
<1>2. line \in Seq(Nat) /\ Len(line) \in Nat /\ produced \in Nat /\ Len(line) <= produced
  BY SizesAssumption DEF RestOK, Whole, LineOK
<1>3. CASE portOpen
  <2>1. line' = Append(line, produced + 1) BY <1>1, <1>3
  <2>2. /\ Len(line') = Len(line) + 1 /\ line'[Len(line) + 1] = produced + 1
        /\ \A i \in 1..Len(line) : line'[i] = line[i]
    BY <1>2, <2>1
  <2>3. LineOK'
    <3>1. ASSUME NEW i \in 1..Len(line') PROVE line'[i] = produced' - Len(line') + i
      <4>1. produced' - Len(line') = produced - Len(line) BY <1>1, <1>2, <2>2
      <4>2. CASE i = Len(line) + 1 BY <1>2, <2>2, <4>1, <4>2
      <4>3. CASE i # Len(line) + 1
        <5>1. i \in 1..Len(line) BY <1>2, <2>2, <4>3
        <5> QED BY <2>2, <4>1, <5>1 DEF Whole, LineOK
      <4> QED BY <4>2, <4>3
    <3> QED BY <1>1, <1>2, <1>3, <2>2, <3>1 DEF LineOK
  <2>4. ASSUME ~reused PROVE Unbroken'
    <3>1. PICK e \in 0..MaxBytes, n \in 0..ReadSize : Waits(queue, n) /\ Stream(e, n)
      BY <2>4, UnbrokenParts
    <3>2. Waits(queue, n)' BY <1>1, <3>1 DEF Waits, None
    <3>a. e + Len(line) = produced BY <1>3, <3>1 DEF Stream
    <3>3. e + Len(line') = produced'
      BY <1>1, <1>2, <2>2, <3>a, SizesAssumption
    <3>4. Stream(e, n)' BY <1>1, <3>1, <3>3 DEF Stream
    <3> QED BY <3>2, <3>4 DEF Unbroken
  <2>5. Unbroken' BY <1>1, <2>4 DEF Unbroken, appVars
  <2> QED BY <1>1, <2>3, <2>5 DEF Whole, appVars
<1>4. CASE ~portOpen
  <2>1. line = <<>> /\ line' = <<>> BY <1>1, <1>4 DEF Whole, LineOK
  <2>2. Len(line') = 0 /\ 1..Len(line') = {} BY <2>1
  <2>3. LineOK' BY <1>1, <1>2, <2>1, <2>2 DEF LineOK
  <2>4. ASSUME ~reused PROVE Unbroken'
    <3>1. PICK e \in 0..MaxBytes, n \in 0..ReadSize : Waits(queue, n) /\ Stream(e, n)
      BY <2>4, UnbrokenParts
    <3>2. Waits(queue, n)' BY <1>1, <3>1 DEF Waits, None
    <3>3. Stream(e, n)' BY <1>1, <1>4, <3>1 DEF Stream
    <3> QED BY <3>2, <3>3 DEF Unbroken
  <2>5. Unbroken' BY <1>1, <2>4 DEF Unbroken, appVars
  <2> QED BY <1>1, <1>4, <2>3, <2>5 DEF Whole, appVars
<1> QED BY <1>3, <1>4

\* Every step keeps the run of bytes, and hands out consecutive ones.
LEMMA StepWhole ==
  ASSUME IInv, Whole, [Next]_vars
  PROVE  Whole' /\ (~reused /\ frame' # frame => Consecutive')
<1>1. QueueOK(queue) /\ RestOK BY SplitInvariant
<1>2. CASE receive BY <1>1, <1>2, ReceiveWhole
<1>3. CASE RunDoRead \/ ReactorRead \/ Rearm \/ DeviceSends
  <2>1. Whole'
    BY <1>1, <1>3, RunDoReadWhole, ReactorReadWhole, RearmWhole, DeviceSendsWhole
  <2>2. frame' = frame
    BY <1>3 DEF RunDoRead, ReactorRead, Rearm, DeviceSends, appVars
  <2> QED BY <2>1, <2>2
<1>4. CASE \/ RunDoClose \/ RunDoWrite \/ RunWriteComplete \/ ReactorWrite \/ ThreadExit
           \/ reopen \/ close \/ write \/ LineFails \/ UNCHANGED vars
  <2>1. Quiet
    BY <1>1, <1>4, RunDoCloseQuiet, RunDoWriteQuiet, RunWriteCompleteQuiet, PostQuiet,
       ReopenQuiet
  <2>2. /\ frame' = frame
        /\ thread' = "none" => thread = "none"
        /\ appPc' = "reopen" => appPc = "reopen" \/ reopen
    BY <1>4 DEF RunDoClose, RunDoWrite, RunWriteComplete, ReactorWrite, ThreadExit, reopen,
         close, write, LineFails, vars, ioVars, appVars
  <2>3. reopen => ~portOpen' BY <1>1, ReopenQuiet
  <2> QED BY <1>1, <2>1, <2>2, <2>3, QuietWhole
<1>5. CASE open \/ ReopenDevice \/ CloseJoined
  <2>1. Whole' BY <1>1, <1>5, OpenWhole, CloseJoinedWhole
  <2>2. frame' = frame BY <1>5 DEF open, ReopenDevice, CloseJoined
  <2> QED BY <2>1, <2>2
<1> QED BY <1>2, <1>3, <1>4, <1>5 DEF Next, IoThread, Application, Device

\* A parser hands out whole messages of the device: on a thread that is used for
\* the first time, no overflow, close or line failure joins bytes that were not
\* consecutive on the line (do_read, read, getValidBuffer, close).
THEOREM FramesWhole == Spec => FrameIntact
<1>1. Init => Whole
  <2> SUFFICES ASSUME Init PROVE Whole OBVIOUS
  <2>1. /\ line = <<>> /\ portOpen = FALSE /\ queue = <<>> /\ circ = <<>> /\ produced = 0
        /\ appPc = "idle" /\ reused = FALSE
    BY DEF Init
  <2>2. /\ Len(line) = 0 /\ 1..Len(line) = {} /\ 1..Len(circ) = {} /\ 1..0 = {}
        /\ DOMAIN queue = {}
    BY <2>1
  <2>3. LineOK BY <2>1, <2>2 DEF LineOK
  <2>4. Waits(queue, 0) BY <2>1, <2>2 DEF Waits
  <2>5. Stream(0, 0) BY <2>1, <2>2 DEF Stream
  <2>6. Unbroken BY <2>4, <2>5, SizesAssumption DEF Unbroken
  <2> QED BY <2>1, <2>3, <2>6 DEF Whole
<1>2. IInv /\ Whole /\ [Next]_vars => Whole' BY StepWhole
<1>3. IInv /\ Whole /\ [Next]_vars => [~reused /\ frame' # frame => Consecutive']_vars
  BY StepWhole
<1> QED BY <1>1, <1>2, <1>3, InductiveInvariant, PTL DEF Spec, FrameIntact

---------------------------------------------------------------------------

(***************************************************************************)
(*                    Request and reply over the port                      *)
(***************************************************************************)

(***************************************************************************)
(* The answers on their way.  The circular buffer, the bytes that wait for *)
(* their do_read and the line hold answers in the order of the commands,   *)
(* all behind the one that was handed out last.                            *)
(***************************************************************************)

InSeq(s, x) == \E i \in DOMAIN s : s[i] = x

\* The first n elements of s ascend between lo (exclusive) and hi, and are in W.
Ascends(s, n, lo, hi, W) ==
  /\ lo <= hi
  /\ \A i \in 1..n : s[i] \in W /\ lo < s[i] /\ s[i] <= hi
  /\ \A i, j \in 1..n : i < j => s[i] < s[j]

\* n bytes wait for do_read; a and b separate the three places.
Flow(W, n, a, b) ==
  /\ Waits(queue, n)
  /\ Ascends(circ, Len(circ), answered, a, W)
  /\ Ascends(rbuf, n, a, b, W)
  /\ Ascends(line, Len(line), b, produced, W)

Flows(W) == \E n \in 0..ReadSize, a, b \in 0..MaxBytes : Flow(W, n, a, b)

\* The answers that may be on their way.
Expected ==
  {x \in 1..MaxBytes : InSeq(sent, x) /\ (clean => tpc = "receive" /\ x = lastCommand)}

\* A command in a queue of handlers, or anywhere between write and the reader.
Posted(q, x) == \E i \in DOMAIN q : q[i].h = "do_write" /\ q[i].n = x
Unit(x) == InSeq(sent, x) \/ InSeq(wbuf, x) \/ Posted(queue, x)

Numbered == \A x \in Nat : Unit(x) => x <= calls

(***************************************************************************)
(* While nothing went wrong.                                               *)
(***************************************************************************)

\* No command but the last waits for its answer.
Accounted ==
  \A x \in Nat : Unit(x) => x <= produced \/ (tpc = "receive" /\ x = lastCommand)

AllOk(q) == \A i \in DOMAIN q : q[i].err = "ok"

\* Between calls the port is open and being read, or closed with nothing left of it.
PortIdle ==
  /\ None(queue, "do_close") /\ AllOk(queue)
  /\ portOpen => ReaderArmed
  /\ ~portOpen => thread = "none" /\ queue = <<>> /\ wbuf = <<>>

\* In close() the handler that closes the port is still to come or was the last.
PortClosing ==
  \/ thread = "run" /\ (portOpen => ~None(queue, "do_close"))
  \/ thread = "done" /\ queue = <<>> /\ ~portOpen

PortReady ==
  /\ appPc = "idle" => PortIdle
  /\ appPc = "join" => PortClosing

CleanState ==
  /\ fault = "none" /\ appPc # "reopen" /\ tpc # "reconfigure"
  /\ tpc # "idle" => appPc = "idle"
  /\ tpc \in {"configure", "send"} => portOpen
  /\ tpc = "receive" /\ lastCommand # 0 => portOpen
  /\ Accounted /\ PortReady /\ ResultOfTheCommand

TransportTypes ==
  /\ tpc \in {"idle", "connect", "configure", "reconfigure", "send", "receive"}
  /\ lastCommand \in 0..MaxCalls
  /\ lastResult \in Seq(Nat) /\ answered \in 0..MaxBytes /\ clean \in BOOLEAN
  /\ tpc # "idle" => lastResult = <<>>

\* What is added to the invariant of the port.
Exchange ==
  /\ TransportTypes
  /\ Numbered /\ Flows(Expected)
  /\ clean => CleanState

TInv == IInv /\ Exchange

-----------------------------------------------------------------------------
(***************************************************************************)
(* Ascending sequences.                                                    *)
(***************************************************************************)

\* The bounds may be widened and the set enlarged.
LEMMA AscendsWeaken ==
  ASSUME NEW s \in Seq(Nat), NEW n \in 0..Len(s), NEW W, NEW V, W \subseteq V,
         NEW lo \in Nat, NEW hi \in Nat, NEW lo2 \in Nat, NEW hi2 \in Nat,
         lo2 <= lo, hi <= hi2, Ascends(s, n, lo, hi, W)
  PROVE  Ascends(s, n, lo2, hi2, V)
<1>1. \A i \in 1..n : s[i] \in Nat OBVIOUS
<1> QED BY <1>1 DEF Ascends

\* Nothing ascends.
LEMMA AscendsEmpty ==
  ASSUME NEW s, NEW W, NEW lo \in Nat, NEW hi \in Nat, lo <= hi
  PROVE  Ascends(s, 0, lo, hi, W)
<1>1. 1..0 = {} OBVIOUS
<1> QED BY <1>1 DEF Ascends

\* Only the first n elements count.
LEMMA AscendsPrefix ==
  ASSUME NEW s, NEW t, NEW n \in Nat, NEW W, NEW lo, NEW hi,
         \A i \in 1..n : t[i] = s[i], Ascends(s, n, lo, hi, W)
  PROVE  Ascends(t, n, lo, hi, W)
BY DEF Ascends

\* One sequence after the other.
LEMMA AscendsConcat ==
  ASSUME NEW s \in Seq(Nat), NEW t \in Seq(Nat), NEW W,
         NEW lo \in Nat, NEW mid \in Nat, NEW hi \in Nat,
         Ascends(s, Len(s), lo, mid, W), Ascends(t, Len(t), mid, hi, W)
  PROVE  Ascends(s \o t, Len(s \o t), lo, hi, W)
<1> DEFINE c == s \o t
<1>1. /\ Len(c) = Len(s) + Len(t) /\ Len(s) \in Nat /\ Len(t) \in Nat
      /\ \A i \in 1..Len(s) : c[i] = s[i] /\ s[i] \in Nat
      /\ \A i \in 1..Len(t) : c[Len(s) + i] = t[i] /\ t[i] \in Nat
  OBVIOUS
<1>2. \A i \in 1..Len(c) : i > Len(s) => i - Len(s) \in 1..Len(t) /\ c[i] = t[i - Len(s)]
  <2> HIDE DEF c
  <2> SUFFICES ASSUME NEW i \in 1..Len(c), i > Len(s)
               PROVE  i - Len(s) \in 1..Len(t) /\ c[i] = t[i - Len(s)]
    OBVIOUS
  <2>1. i - Len(s) \in 1..Len(t) /\ Len(s) + (i - Len(s)) = i BY <1>1
  <2> QED BY <1>1, <2>1
<1> HIDE DEF c
<1>3. \A i \in 1..Len(s) : s[i] \in W /\ lo < s[i] /\ s[i] <= mid BY DEF Ascends
<1>4. \A i \in 1..Len(t) : t[i] \in W /\ mid < t[i] /\ t[i] <= hi BY DEF Ascends
<1>5. lo <= hi BY DEF Ascends
<1>6. ASSUME NEW i \in 1..Len(c) PROVE c[i] \in W /\ lo < c[i] /\ c[i] <= hi
  <2>1. lo <= mid /\ mid <= hi BY DEF Ascends
  <2>2. CASE i <= Len(s)
    <3>1. i \in 1..Len(s) BY <1>1, <2>2
    <3>2. c[i] = s[i] /\ s[i] \in Nat BY <1>1, <3>1
    <3>3. s[i] \in W /\ lo < s[i] /\ s[i] <= mid BY <1>3, <3>1
    <3> QED BY <2>1, <3>2, <3>3
  <2>3. CASE i > Len(s)
    <3>1. PICK k \in 1..Len(t) : c[i] = t[k] BY <1>2, <2>3
    <3>2. t[k] \in Nat BY <1>1
    <3>3. t[k] \in W /\ mid < t[k] /\ t[k] <= hi BY <1>4
    <3> QED BY <2>1, <3>1, <3>2, <3>3
  <2> QED BY <1>1, <2>2, <2>3
<1>7. ASSUME NEW i \in 1..Len(c), NEW j \in 1..Len(c), i < j PROVE c[i] < c[j]
  <2>1. CASE j <= Len(s)
    <3>1. i \in 1..Len(s) /\ j \in 1..Len(s) BY <1>1, <1>7, <2>1
    <3> QED BY <1>1, <1>7, <3>1 DEF Ascends
  <2>2. CASE i <= Len(s) /\ j > Len(s)
    <3>1. i \in 1..Len(s) BY <1>1, <2>2
    <3>2. PICK k \in 1..Len(t) : c[j] = t[k] BY <1>2, <2>2
    <3>3. c[i] = s[i] /\ s[i] \in Nat /\ t[k] \in Nat BY <1>1, <3>1
    <3>4. s[i] <= mid /\ mid < t[k] BY <1>3, <1>4, <3>1, Zenon
    <3>5. \A x, y \in Nat : x <= mid /\ mid < y => x < y OBVIOUS
    <3>6. s[i] < t[k] BY <3>3, <3>4, <3>5, Zenon
    <3> QED BY <3>2, <3>3, <3>6, Zenon
  <2>3. CASE i > Len(s)
    <3>1. /\ i - Len(s) \in 1..Len(t) /\ c[i] = t[i - Len(s)]
          /\ j - Len(s) \in 1..Len(t) /\ c[j] = t[j - Len(s)]
          /\ i - Len(s) < j - Len(s)
      BY <1>1, <1>2, <1>7, <2>3
    <3> QED BY <3>1 DEF Ascends
  <2> QED BY <1>1, <2>1, <2>2, <2>3
<1> QED BY <1>5, <1>6, <1>7 DEF Ascends, c

\* The elements of the part of a sequence without its first m.
LEMMA SuffixFrom ==
  ASSUME NEW s \in Seq(Nat), NEW m \in 0..Len(s)
  PROVE  /\ SubSeq(s, m + 1, Len(s)) \in Seq(Nat)
         /\ Len(SubSeq(s, m + 1, Len(s))) = Len(s) - m
         /\ \A i \in 1..(Len(s) - m) : SubSeq(s, m + 1, Len(s))[i] = s[m + i]
<1>1. PICK k \in 1..(Len(s) + 1) : k = m + 1 OBVIOUS
<1> DEFINE t == SubSeq(s, k, Len(s))
<1>2. /\ Len(t) = Len(s) - k + 1 /\ t \in Seq(Nat)
      /\ \A i \in 1..Len(t) : t[i] = s[k + i - 1]
  BY SuffixElements
<1> HIDE DEF t
<1>3. Len(t) = Len(s) - m BY <1>1, <1>2
<1>4. ASSUME NEW i \in 1..(Len(s) - m) PROVE t[i] = s[m + i]
  <2>1. k + i - 1 = m + i BY <1>1
  <2> QED BY <1>2, <1>3, <2>1
<1> QED BY <1>1, <1>2, <1>3, <1>4 DEF t

\* The part of a sequence from an element on, behind what precedes it.
LEMMA AscendsSuffix ==
  ASSUME NEW s \in Seq(Nat), NEW m \in 0..Len(s), NEW W,
         NEW lo \in Nat, NEW hi \in Nat, Ascends(s, Len(s), lo, hi, W),
         NEW t, Len(t) = Len(s) - m, \A i \in 1..(Len(s) - m) : t[i] = s[m + i]
  PROVE  /\ Ascends(t, Len(t), lo, hi, W)
         /\ m > 0 => s[m] \in Nat /\ Ascends(t, Len(t), s[m], hi, W)
<1>4. ASSUME NEW i \in 1..Len(t) PROVE t[i] = s[m + i] /\ m + i \in 1..Len(s) OBVIOUS
<1>5. \A i \in 1..Len(s) : s[i] \in Nat OBVIOUS
<1>6. ASSUME NEW i \in 1..Len(t) PROVE t[i] \in W /\ lo < t[i] /\ t[i] <= hi
  BY <1>4 DEF Ascends
<1>7. ASSUME NEW i \in 1..Len(t), NEW j \in 1..Len(t), i < j PROVE t[i] < t[j]
  <2>1. m + i < m + j BY <1>7
  <2> QED BY <1>4, <2>1 DEF Ascends
<1>8. Ascends(t, Len(t), lo, hi, W) BY <1>6, <1>7 DEF Ascends
<1>9. ASSUME m > 0 PROVE s[m] \in Nat /\ Ascends(t, Len(t), s[m], hi, W)
  <2>1. m \in 1..Len(s) BY <1>9
  <2>2. s[m] \in Nat /\ s[m] <= hi BY <1>5, <2>1 DEF Ascends
  <2>3. ASSUME NEW i \in 1..Len(t) PROVE s[m] < t[i]
    <3>1. m < m + i OBVIOUS
    <3> QED BY <1>4, <2>1, <3>1 DEF Ascends
  <2> QED BY <1>6, <1>7, <2>2, <2>3 DEF Ascends
<1> QED BY <1>8, <1>9

\* do_read puts a chunk behind the bytes of the circular buffer, or in their place.
LEMMA InsertAscends ==
  ASSUME NEW buf \in Seq(Nat), NEW data \in Seq(Nat), NEW W,
         NEW lo \in Nat, NEW mid \in Nat, NEW hi \in Nat,
         Ascends(buf, Len(buf), lo, mid, W), Ascends(data, Len(data), mid, hi, W)
  PROVE  Ascends(Insert(buf, data), Len(Insert(buf, data)), lo, hi, W)
<1>1. CASE Cap - Len(buf) < Len(data)
  <2>1. Insert(buf, data) = data BY <1>1 DEF Insert
  <2>2. lo <= mid /\ Len(data) \in 0..Len(data) BY DEF Ascends
  <2>3. Ascends(data, Len(data), lo, hi, W) BY <2>2, AscendsWeaken
  <2> QED BY <2>1, <2>3
<1>2. CASE ~(Cap - Len(buf) < Len(data))
  <2>1. Insert(buf, data) = buf \o data BY <1>2 DEF Insert
  <2> QED BY <2>1, AscendsConcat
<1> QED BY <1>1, <1>2

\* What a read of the descriptor takes comes before what it leaves.
LEMMA TakenAscends ==
  ASSUME RestOK, NEW W, NEW lo \in 0..MaxBytes, NEW hi \in 0..MaxBytes,
         Ascends(line, Len(line), lo, hi, W)
  PROVE  \E mid \in 0..MaxBytes :
           /\ Ascends(Taken, Len(Taken), lo, mid, W)
           /\ Ascends(Left, Len(Left), mid, hi, W)
<1> USE SizesAssumption
<1>0. line \in Seq(Nat) /\ Len(line) \in Nat BY DEF RestOK
<1>1. PICK m \in 0..Len(line) : m = Len(Taken) /\ \A i \in 1..m : Taken[i] = line[i]
  <2>1. Len(Taken) \in 0..Len(line) /\ \A i \in 1..Len(Taken) : Taken[i] = line[i]
    BY <1>0 DEF Taken, Lesser
  <2> QED BY <2>1
<1> HIDE DEF Taken
<1>2. /\ Len(Left) = Len(line) - m
      /\ \A i \in 1..(Len(line) - m) : Left[i] = line[m + i]
  <2>1. Left = SubSeq(line, m + 1, Len(line)) BY <1>1 DEF Left
  <2> QED BY <1>0, <2>1, SuffixFrom
<1>a. lo \in Nat /\ hi \in Nat /\ lo <= lo OBVIOUS
<1>3. CASE m = 0
  <2>1. Ascends(Taken, Len(Taken), lo, lo, W) BY <1>1, <1>3, <1>a, AscendsEmpty
  <2>2. Ascends(Left, Len(Left), lo, hi, W) BY <1>0, <1>2, <1>a, AscendsSuffix
  <2> QED BY <2>1, <2>2
<1>4. CASE m > 0
  <2>1. line[m] \in Nat /\ Ascends(Left, Len(Left), line[m], hi, W)
    BY <1>0, <1>2, <1>4, <1>a, AscendsSuffix
  <2>2. m \in 1..Len(line) BY <1>4
  <2>3. line[m] <= hi /\ lo < line[m] BY <2>2 DEF Ascends
  <2>4. line[m] \in 0..MaxBytes BY <2>1, <2>3
  <2>5. Ascends(Taken, Len(Taken), lo, line[m], W)
    <3>1. ASSUME NEW i \in 1..m PROVE Taken[i] \in W /\ lo < Taken[i] /\ Taken[i] <= line[m]
      <4>1. i \in 1..Len(line) /\ Taken[i] = line[i] /\ line[i] \in Nat BY <1>0, <1>1
      <4>2. line[i] \in W /\ lo < line[i] BY <4>1 DEF Ascends
      <4>3. CASE i = m BY <2>1, <4>1, <4>2, <4>3
      <4>4. CASE i < m
        <5>1. line[i] < line[m] BY <2>2, <4>1, <4>4 DEF Ascends
        <5> QED BY <2>1, <4>1, <4>2, <5>1
      <4> QED BY <4>3, <4>4
    <3>2. ASSUME NEW i \in 1..m, NEW j \in 1..m, i < j PROVE Taken[i] < Taken[j]
      <4>1. i \in 1..Len(line) /\ j \in 1..Len(line) OBVIOUS
      <4> QED BY <1>1, <3>2, <4>1 DEF Ascends
    <3>3. lo <= line[m] BY <2>1, <2>3
    <3> QED BY <1>1, <3>1, <3>2, <3>3 DEF Ascends
  <2> QED BY <2>1, <2>4, <2>5
<1> QED BY <1>3, <1>4

\* What read hands out comes from the front of the buffer, before what it leaves.
LEMMA ReadAscends ==
  ASSUME RestOK, NEW W, NEW lo \in Nat, NEW hi \in Nat,
         Ascends(circ, Len(circ), lo, hi, W),
         NEW result, NEW rest, read(result, rest)
  PROVE  /\ result = <<>> => Ascends(rest, Len(rest), lo, hi, W)
         /\ result # <<>> =>
              /\ Len(result) \in Nat \ {0}
              /\ Ascends(result, Len(result), lo, result[Len(result)], W)
              /\ result[Len(result)] \in Nat /\ result[Len(result)] <= hi
              /\ Ascends(rest, Len(rest), result[Len(result)], hi, W)
<1> USE SizesAssumption
<1>0. circ \in Seq(Nat) /\ Len(circ) \in Nat BY DEF RestOK
<1>1. \A i \in 1..Len(circ) : circ[i] \in Nat BY <1>0
<1>2. PICK k \in 0..Len(circ), m \in 0..Len(circ) :
        /\ k <= m /\ Len(result) = m - k
        /\ \A i \in 1..(m - k) : result[i] = circ[k + i]
        /\ Len(rest) = Len(circ) - m
        /\ \A i \in 1..(Len(circ) - m) : rest[i] = circ[m + i]
        /\ m = k <=> result = <<>>
  <2>1. CASE ~HasParser
    <3>1. result = circ /\ rest = <<>> BY <2>1 DEF read
    <3>4. PICK k \in 0..Len(circ), m \in 0..Len(circ) : k = 0 /\ m = Len(circ) BY <1>0
    <3>5. /\ k <= m /\ m - k = Len(circ) /\ Len(result) = m - k
          /\ Len(rest) = Len(circ) - m /\ 1..(Len(circ) - m) = {}
          /\ m = k <=> result = <<>>
      BY <1>0, <3>1, <3>4
    <3>6. \A i \in 1..(m - k) : result[i] = circ[k + i] BY <1>0, <3>1, <3>4
    <3> QED BY <3>5, <3>6
  <2>2. CASE HasParser
    <3>1. PICK k \in 0..Len(circ) :
            LET valid == SubSeq(circ, k + 1, Len(circ)) IN
            IF Len(valid) >= FrameLen
            THEN result = SubSeq(valid, 1, FrameLen)
                 /\ rest = SubSeq(valid, FrameLen + 1, Len(valid))
            ELSE result = <<>> /\ rest = valid
      BY <2>2 DEF read, getValidBuffer
    <3> DEFINE valid == SubSeq(circ, k + 1, Len(circ))
    <3>2. /\ valid \in Seq(Nat) /\ Len(valid) = Len(circ) - k
          /\ \A i \in 1..Len(valid) : valid[i] = circ[k + i]
      BY <1>0, SuffixFrom
    <3>3. IF Len(valid) >= FrameLen
          THEN result = SubSeq(valid, 1, FrameLen)
               /\ rest = SubSeq(valid, FrameLen + 1, Len(valid))
          ELSE result = <<>> /\ rest = valid
      BY <3>1
    <3> HIDE DEF valid
    <3>5. CASE Len(valid) >= FrameLen
      <4>1. PICK m \in 0..Len(circ) : m = k + FrameLen BY <1>0, <3>2, <3>5
      <4>2. valid \in Seq(Nat) /\ Len(valid) = Len(circ) - k BY <3>2
      <4>3. Len(result) = FrameLen /\ \A i \in 1..FrameLen : result[i] = valid[i]
        <5>1. result = SubSeq(valid, 1, FrameLen) BY <3>3, <3>5
        <5> QED BY <3>5, <4>2, <5>1
      <4>4. m - k = FrameLen /\ k <= m /\ FrameLen \in 0..Len(valid) BY <3>5, <4>1, <4>2
      <4>5. ASSUME NEW i \in 1..(m - k) PROVE result[i] = circ[k + i]
        <5>1. i \in 1..FrameLen /\ i \in 1..Len(valid) BY <4>4
        <5> QED BY <3>2, <4>3, <5>1
      <4>6. /\ Len(rest) = Len(valid) - FrameLen
            /\ \A i \in 1..(Len(valid) - FrameLen) : rest[i] = valid[FrameLen + i]
        <5>1. rest = SubSeq(valid, FrameLen + 1, Len(valid)) BY <3>3, <3>5
        <5> QED BY <4>2, <4>4, <5>1, SuffixFrom
      <4>7. Len(valid) - FrameLen = Len(circ) - m BY <4>1, <4>2
      <4>8. ASSUME NEW i \in 1..(Len(circ) - m) PROVE rest[i] = circ[m + i]
        <5>1. FrameLen + i \in 1..Len(valid) /\ k + (FrameLen + i) = m + i
          BY <4>1, <4>2, <4>7
        <5>2. rest[i] = valid[FrameLen + i] BY <4>6, <4>7
        <5>3. valid[FrameLen + i] = circ[k + (FrameLen + i)] BY <3>2, <5>1
        <5> QED BY <5>1, <5>2, <5>3
      <4>9. m # k /\ result # <<>> BY <4>1, <4>3
      <4>10. Len(result) = m - k /\ Len(rest) = Len(circ) - m BY <4>3, <4>4, <4>6, <4>7
      <4> QED BY <4>4, <4>5, <4>8, <4>9, <4>10
    <3>6. CASE ~(Len(valid) >= FrameLen)
      <4>1. result = <<>> /\ rest = valid BY <3>3, <3>6
      <4>2. /\ k <= k /\ Len(result) = k - k /\ 1..(k - k) = {} BY <4>1
      <4>3. /\ Len(rest) = Len(circ) - k
            /\ \A i \in 1..(Len(circ) - k) : rest[i] = circ[k + i]
        BY <3>2, <4>1
      <4> QED BY <4>1, <4>2, <4>3
    <3> QED BY <3>5, <3>6
  <2> QED BY <2>1, <2>2
<1>3. Ascends(rest, Len(rest), lo, hi, W) BY <1>0, <1>2, AscendsSuffix
<1>4. ASSUME result # <<>>
      PROVE  /\ Len(result) \in Nat \ {0}
             /\ Ascends(result, Len(result), lo, result[Len(result)], W)
             /\ result[Len(result)] \in Nat /\ result[Len(result)] <= hi
             /\ Ascends(rest, Len(rest), result[Len(result)], hi, W)
  <2>1. PICK n \in Nat \ {0} : n = Len(result) /\ n = m - k /\ m \in 1..Len(circ) /\ k + n = m
    BY <1>2, <1>4
  <2>2. n \in 1..(m - k) /\ result[n] = circ[m] BY <1>2, <2>1
  <2>3. circ[m] \in Nat /\ Ascends(rest, Len(rest), circ[m], hi, W)
    <3>1. m > 0 BY <2>1
    <3> QED BY <1>0, <1>2, <3>1, AscendsSuffix
  <2>4. circ[m] <= hi /\ lo < circ[m] BY <2>1 DEF Ascends
  <2>5. ASSUME NEW i \in 1..n
        PROVE  result[i] \in W /\ lo < result[i] /\ result[i] <= circ[m]
    <3>1. k + i \in 1..Len(circ) /\ result[i] = circ[k + i] BY <1>2, <2>1
    <3>2. circ[k + i] \in W /\ lo < circ[k + i] /\ circ[k + i] \in Nat
      BY <1>1, <3>1 DEF Ascends
    <3>3. CASE i = n BY <2>1, <2>3, <3>1, <3>2, <3>3
    <3>4. CASE i < n
      <4>1. k + i < m BY <2>1, <3>4
      <4>2. circ[k + i] < circ[m] BY <2>1, <3>1, <4>1 DEF Ascends
      <4> QED BY <2>3, <3>1, <3>2, <4>2
    <3> QED BY <3>3, <3>4
  <2>6. ASSUME NEW i \in 1..n, NEW j \in 1..n, i < j PROVE result[i] < result[j]
    <3>1. /\ k + i \in 1..Len(circ) /\ result[i] = circ[k + i]
          /\ k + j \in 1..Len(circ) /\ result[j] = circ[k + j]
          /\ k + i < k + j
      <4>1. i \in 1..(m - k) /\ j \in 1..(m - k) BY <2>1
      <4> QED BY <1>2, <2>1, <2>6, <4>1
    <3> QED BY <3>1 DEF Ascends
  <2>7. lo <= circ[m] BY <2>3, <2>4
  <2>8. Ascends(result, n, lo, circ[m], W) BY <2>5, <2>6, <2>7 DEF Ascends
  <2> QED BY <2>1, <2>2, <2>3, <2>4, <2>8
<1> QED BY <1>3, <1>4

-----------------------------------------------------------------------------
(***************************************************************************)
(* The steps of the port move answers on and lose them, and never change   *)
(* their order.                                                            *)
(***************************************************************************)

\* The three places and the bytes that wait, spelt out for the next state.
LEMMA NextFlow ==
  ASSUME NEW W, NEW n \in 0..ReadSize, NEW a \in 0..MaxBytes, NEW b \in 0..MaxBytes,
         Waits(queue', n), Ascends(circ', Len(circ'), answered', a, W),
         Ascends(rbuf', n, a, b, W), Ascends(line', Len(line'), b, produced', W)
  PROVE  Flows(W)'
<1>1. Waits(queue, n)' BY DEF Waits, None
<1>2. Flow(W, n, a, b)' BY <1>1 DEF Flow, Ascends
<1> QED BY <1>2 DEF Flows

\* The waiting bytes are in m_read_buffer.
LEMMA WaitingBytes ==
  ASSUME QueueOK(queue), RestOK, NEW n \in 0..ReadSize, Waits(queue, n)
  PROVE  n \in 0..Len(rbuf)
<1> USE SizesAssumption
<1>0. Len(rbuf) \in Nat /\ queue \in Seq(Handlers) BY DEF RestOK, QueueOK
<1>1. CASE None(queue, "do_read") BY <1>0, <1>1 DEF Waits
<1>2. CASE ~None(queue, "do_read")
  <2>1. PICK i \in DOMAIN queue : queue[i].h = "do_read" BY <1>2 DEF None
  <2>2. queue[i].n = n BY <2>1 DEF Waits
  <2>3. queue[i].n <= Len(rbuf) BY <2>1 DEF QueueOK, Transferred
  <2> QED BY <1>0, <2>2, <2>3
<1> QED BY <1>1, <1>2

\* Steps that move no byte.
LEMMA QuietFlow ==
  ASSUME RestOK, NEW W, Flows(W), UNCHANGED <<circ, rbuf, produced, answered>>,
         line' = line \/ line' = <<>>,
         \A n \in 0..ReadSize : Waits(queue, n) => Waits(queue', n)
  PROVE  Flows(W)'
<1>1. PICK n \in 0..ReadSize, a, b \in 0..MaxBytes : Flow(W, n, a, b) BY DEF Flows
<1>2. Ascends(line', Len(line'), b, produced', W)
  <2>1. CASE line' = line BY <1>1, <2>1 DEF Flow
  <2>2. CASE line' = <<>>
    <3>1. Len(line') = 0 BY <2>2
    <3>2. b \in Nat /\ produced \in Nat BY SizesAssumption DEF RestOK
    <3>3. b <= produced BY <1>1 DEF Flow, Ascends
    <3> QED BY <3>1, <3>2, <3>3, AscendsEmpty
  <2> QED BY <2>1, <2>2
<1>3. /\ Waits(queue', n) /\ Ascends(circ', Len(circ'), answered', a, W)
      /\ Ascends(rbuf', n, a, b, W)
  BY <1>1 DEF Flow
<1> QED BY <1>2, <1>3, NextFlow

\* do_read.
LEMMA RunDoReadFlow ==
  ASSUME QueueOK(queue), RestOK, answered \in 0..MaxBytes, RunDoRead, NEW W, Flows(W),
         answered' = answered
  PROVE  Flows(W)'
<1>1. PICK n \in 0..ReadSize, a, b \in 0..MaxBytes : Flow(W, n, a, b) BY DEF Flows
<1>2. Waits(queue, n) BY <1>1 DEF Flow
<1>3. CASE Quiet /\ UNCHANGED <<thread, appPc>> BY <1>3, QuietFlow DEF Quiet
<1>4. CASE /\ Waits(queue', 0) /\ n <= Len(rbuf)
           /\ circ' = Insert(circ, SubSeq(rbuf, 1, n))
           /\ UNCHANGED <<rbuf, line, portOpen, produced, reused, thread, appPc>>
  <2> DEFINE data == SubSeq(rbuf, 1, n)
  <2>1. n \in Nat /\ rbuf \in Seq(Nat) /\ circ \in Seq(Nat) BY SizesAssumption DEF RestOK
  <2>2. /\ data \in Seq(Nat) /\ Len(data) = n
        /\ \A i \in 1..n : data[i] = rbuf[i]
    BY <1>4, <2>1
  <2> HIDE DEF data
  <2>3. Ascends(data, Len(data), a, b, W)
    <3>1. Ascends(rbuf, n, a, b, W) BY <1>1 DEF Flow
    <3> QED BY <2>1, <2>2, <3>1, AscendsPrefix
  <2>4. a \in Nat /\ b \in Nat /\ answered \in Nat /\ b <= b /\ 0 \in 0..ReadSize
    BY SizesAssumption
  <2>5. Ascends(circ, Len(circ), answered, a, W) BY <1>1 DEF Flow
  <2>6. Ascends(circ', Len(circ'), answered', b, W)
    <3>1. circ' = Insert(circ, data) BY <1>4 DEF data
    <3> QED BY <2>1, <2>2, <2>3, <2>4, <2>5, <3>1, InsertAscends
  <2>7. Ascends(rbuf', 0, b, b, W) BY <2>4, AscendsEmpty
  <2>8. Ascends(line', Len(line'), b, produced', W) BY <1>1, <1>4 DEF Flow
  <2> QED BY <1>4, <2>4, <2>6, <2>7, <2>8, NextFlow
<1> QED BY <1>2, <1>3, <1>4, RunDoReadMoves

\* The reactor's read.
LEMMA ReactorReadFlow ==
  ASSUME QueueOK(queue), RestOK, answered \in 0..MaxBytes, ReactorRead, NEW W, Flows(W),
         answered' = answered
  PROVE  Flows(W)'
<1>1. PICK n \in 0..ReadSize, a, b \in 0..MaxBytes : Flow(W, n, a, b) BY DEF Flows
<1>2. /\ Waits(queue', 0) /\ None(queue, "do_read") /\ UNCHANGED produced
      /\ \/ circ' = circ /\ line' = <<>>
         \/ circ' = Insert(circ, Taken) /\ line' = Left
  BY ReactorReadMoves
<1>3. n = 0 BY <1>1, <1>2 DEF Flow, Waits
<1>4. /\ a \in Nat /\ b \in Nat /\ answered \in Nat /\ 0 \in 0..ReadSize
      /\ produced \in 0..MaxBytes /\ produced \in Nat
  BY SizesAssumption DEF RestOK
<1>5. /\ Ascends(circ, Len(circ), answered, a, W)
      /\ Ascends(line, Len(line), b, produced, W)
      /\ a <= b /\ b <= produced
  BY <1>1 DEF Flow, Ascends
<1>6. CASE circ' = circ /\ line' = <<>>
  <2>1. Len(line') = 0 BY <1>6
  <2>2. Ascends(line', Len(line'), b, produced', W) BY <1>2, <1>4, <1>5, <2>1, AscendsEmpty
  <2>3. Ascends(rbuf', 0, a, b, W) BY <1>4, <1>5, AscendsEmpty
  <2> QED BY <1>2, <1>4, <1>5, <1>6, <2>2, <2>3, NextFlow
<1>7. CASE circ' = Insert(circ, Taken) /\ line' = Left
  <2>1. PICK c \in 0..MaxBytes : /\ Ascends(Taken, Len(Taken), b, c, W)
                                 /\ Ascends(Left, Len(Left), c, produced, W)
    BY <1>4, <1>5, TakenAscends
  <2>2. circ \in Seq(Nat) /\ Taken \in Seq(Nat) BY ReadTakes DEF RestOK
  <2>3. c \in Nat /\ c <= c /\ Len(circ) \in 0..Len(circ) BY <2>2, SizesAssumption
  <2>4. Ascends(circ, Len(circ), answered, b, W)
    BY <1>4, <1>5, <2>2, <2>3, AscendsWeaken
  <2>5. Ascends(circ', Len(circ'), answered', c, W)
    BY <1>4, <1>7, <2>1, <2>2, <2>3, <2>4, InsertAscends
  <2>6. Ascends(rbuf', 0, c, c, W) BY <2>3, AscendsEmpty
  <2> QED BY <1>2, <1>4, <1>7, <2>1, <2>5, <2>6, NextFlow
<1> QED BY <1>2, <1>6, <1>7

\* The end of do_read.
LEMMA RearmFlow ==
  ASSUME QueueOK(queue), RestOK, answered \in 0..MaxBytes, Rearm, NEW W, Flows(W),
         answered' = answered
  PROVE  Flows(W)'
<1>1. PICK n \in 0..ReadSize, a, b \in 0..MaxBytes : Flow(W, n, a, b) BY DEF Flows
<1>2. /\ None(queue, "do_read") /\ Waits(queue', Len(Taken))
      /\ rbuf' = Taken /\ line' = Left /\ UNCHANGED <<circ, produced>>
  BY RearmMoves
<1>4. /\ a \in Nat /\ b \in Nat /\ answered \in Nat /\ produced \in 0..MaxBytes
      /\ circ \in Seq(Nat)
  BY SizesAssumption DEF RestOK
<1>5. /\ Ascends(circ, Len(circ), answered, a, W)
      /\ Ascends(line, Len(line), b, produced, W)
      /\ a <= b
  BY <1>1 DEF Flow, Ascends
<1>6. PICK c \in 0..MaxBytes : /\ Ascends(Taken, Len(Taken), b, c, W)
                               /\ Ascends(Left, Len(Left), c, produced, W)
  BY <1>4, <1>5, TakenAscends
<1>7. answered <= answered /\ Len(circ) \in 0..Len(circ) BY <1>4
<1>8. Ascends(circ, Len(circ), answered, b, W)
  BY <1>4, <1>5, <1>7, AscendsWeaken
<1>9. PICK t \in 0..ReadSize : t = Len(Taken) BY ReadTakes
<1> QED BY <1>2, <1>6, <1>8, <1>9, NextFlow

\* The end of close.
LEMMA CloseJoinedFlow ==
  ASSUME QueueOK(queue), RestOK, answered \in 0..MaxBytes, CloseJoined, NEW W, Flows(W),
         answered' = answered
  PROVE  Flows(W)'
<1>1. PICK n \in 0..ReadSize, a, b \in 0..MaxBytes : Flow(W, n, a, b) BY DEF Flows
<1>2. /\ thread # "run" /\ circ' = <<>> /\ UNCHANGED <<queue, line, produced>>
  BY DEF CloseJoined, devVars
<1>3. None(queue, "do_read") /\ queue \in Seq(Handlers) BY <1>2 DEF QueueOK
<1>4. Waits(queue', 0) BY <1>2, <1>3, ReadWaits
<1>5. a \in Nat /\ b \in Nat /\ answered \in Nat /\ Len(circ') = 0 /\ 0 \in 0..ReadSize
  BY <1>2, SizesAssumption
<1>6. answered <= a /\ a <= b /\ Ascends(line, Len(line), b, produced, W)
  BY <1>1 DEF Flow, Ascends
<1>7. Ascends(circ', Len(circ'), answered', a, W) /\ Ascends(rbuf', 0, a, b, W)
  BY <1>5, <1>6, AscendsEmpty
<1> QED BY <1>2, <1>4, <1>5, <1>6, <1>7, NextFlow

\* Every step of the I/O thread, every call but receive, and a failing line.
LEMMA PortFlow ==
  ASSUME QueueOK(queue), RestOK, answered \in 0..MaxBytes, NEW W, Flows(W),
         \/ IoThread \/ open \/ reopen \/ ReopenDevice \/ close \/ CloseJoined \/ write
         \/ LineFails \/ UNCHANGED vars,
         answered' = answered
  PROVE  Flows(W)'
<1>1. CASE RunDoRead \/ ReactorRead \/ Rearm \/ CloseJoined
  BY <1>1, RunDoReadFlow, ReactorReadFlow, RearmFlow, CloseJoinedFlow
<1>2. CASE \/ RunDoClose \/ RunDoWrite \/ RunWriteComplete \/ ReactorWrite \/ ThreadExit
           \/ reopen \/ close \/ write \/ LineFails \/ UNCHANGED vars
  <2>1. Quiet
    BY <1>2, RunDoCloseQuiet, RunDoWriteQuiet, RunWriteCompleteQuiet, PostQuiet,
       ReopenQuiet
  <2> QED BY <2>1, QuietFlow DEF Quiet
<1>3. CASE open \/ ReopenDevice
  <2>1. UNCHANGED <<circ, rbuf, produced, line, queue>>
    BY <1>3 DEF open, ReopenDevice, ioVars, bufVars
  <2> QED BY <2>1, QuietFlow
<1> QED BY <1>1, <1>2, <1>3 DEF IoThread

-----------------------------------------------------------------------------
(***************************************************************************)
(* Commands.  The I/O thread hands them on and makes up none, but for the  *)
(* garbage of a moved m_write_buffer.                                      *)
(***************************************************************************)

\* Elements of sequences that are put together or taken apart.
LEMMA InSeqParts ==
  ASSUME NEW s \in Seq(Nat), NEW t \in Seq(Nat), NEW x, NEW e \in Nat, NEW m \in 0..Len(s)
  PROVE  /\ InSeq(s \o t, x) <=> InSeq(s, x) \/ InSeq(t, x)
         /\ InSeq(Append(s, e), x) => InSeq(s, x) \/ x = e
         /\ InSeq(SubSeq(s, 1, m), x) => InSeq(s, x)
         /\ InSeq(SubSeq(s, m + 1, Len(s)), x) => InSeq(s, x)
<1>1. InSeq(s \o t, x) <=> InSeq(s, x) \/ InSeq(t, x)
  <2>1. /\ DOMAIN (s \o t) = 1..(Len(s) + Len(t)) /\ DOMAIN s = 1..Len(s)
        /\ DOMAIN t = 1..Len(t) /\ Len(s) \in Nat /\ Len(t) \in Nat
        /\ \A i \in 1..Len(s) : (s \o t)[i] = s[i]
        /\ \A i \in 1..Len(t) : (s \o t)[Len(s) + i] = t[i]
    OBVIOUS
  <2>2. ASSUME InSeq(s \o t, x) PROVE InSeq(s, x) \/ InSeq(t, x)
    <3>1. PICK i \in 1..(Len(s) + Len(t)) : (s \o t)[i] = x BY <2>1, <2>2 DEF InSeq
    <3>2. CASE i <= Len(s)
      <4>1. i \in 1..Len(s) BY <2>1, <3>2
      <4> QED BY <2>1, <3>1, <4>1 DEF InSeq
    <3>3. CASE ~(i <= Len(s))
      <4>1. i - Len(s) \in 1..Len(t) /\ Len(s) + (i - Len(s)) = i BY <2>1, <3>3
      <4> QED BY <2>1, <3>1, <4>1 DEF InSeq
    <3> QED BY <3>2, <3>3
  <2>3. ASSUME InSeq(s, x) PROVE InSeq(s \o t, x)
    <3>1. PICK i \in 1..Len(s) : s[i] = x BY <2>1, <2>3 DEF InSeq
    <3>2. i \in 1..(Len(s) + Len(t)) BY <2>1
    <3> QED BY <2>1, <3>1, <3>2 DEF InSeq
  <2>4. ASSUME InSeq(t, x) PROVE InSeq(s \o t, x)
    <3>1. PICK i \in 1..Len(t) : t[i] = x BY <2>1, <2>4 DEF InSeq
    <3>2. Len(s) + i \in 1..(Len(s) + Len(t)) BY <2>1
    <3> QED BY <2>1, <3>1, <3>2 DEF InSeq
  <2> QED BY <2>2, <2>3, <2>4
<1>2. InSeq(Append(s, e), x) => InSeq(s, x) \/ x = e
  <2>1. /\ DOMAIN Append(s, e) = 1..(Len(s) + 1) /\ DOMAIN s = 1..Len(s) /\ Len(s) \in Nat
        /\ \A i \in 1..Len(s) : Append(s, e)[i] = s[i]
        /\ Append(s, e)[Len(s) + 1] = e
    OBVIOUS
  <2> SUFFICES ASSUME NEW i \in 1..(Len(s) + 1), Append(s, e)[i] = x
               PROVE  InSeq(s, x) \/ x = e
    BY <2>1 DEF InSeq
  <2>2. CASE i = Len(s) + 1 BY <2>1, <2>2
  <2>3. CASE i # Len(s) + 1
    <3>1. i \in 1..Len(s) BY <2>1, <2>3
    <3> QED BY <2>1, <3>1 DEF InSeq
  <2> QED BY <2>2, <2>3
<1>3. InSeq(SubSeq(s, 1, m), x) => InSeq(s, x)
  <2>1. /\ DOMAIN SubSeq(s, 1, m) = 1..m /\ DOMAIN s = 1..Len(s)
        /\ \A i \in 1..m : SubSeq(s, 1, m)[i] = s[i] /\ i \in 1..Len(s)
    OBVIOUS
  <2> QED BY <2>1 DEF InSeq
<1>4. InSeq(SubSeq(s, m + 1, Len(s)), x) => InSeq(s, x)
  <2> DEFINE u == SubSeq(s, m + 1, Len(s))
  <2>1. u \in Seq(Nat) /\ Len(u) = Len(s) - m /\ \A i \in 1..(Len(s) - m) : u[i] = s[m + i]
    BY SuffixFrom
  <2> HIDE DEF u
  <2>2. DOMAIN u = 1..(Len(s) - m) /\ DOMAIN s = 1..Len(s) BY <2>1
  <2>3. \A i \in 1..(Len(s) - m) : m + i \in 1..Len(s) OBVIOUS
  <2>4. InSeq(u, x) => InSeq(s, x) BY <2>1, <2>2, <2>3 DEF InSeq
  <2> QED BY <2>4 DEF u
<1> QED BY <1>1, <1>2, <1>3, <1>4

\* The commands in a queue that loses its head or gets another handler.
LEMMA PostedParts ==
  ASSUME NEW q \in Seq(Handlers), NEW x
  PROVE  /\ q # <<>> => (Posted(Tail(q), x) => Posted(q, x))
         /\ q # <<>> /\ Head(q).h = "do_write" => Posted(q, Head(q).n)
         /\ \A e \in Handlers :
              Posted(Append(q, e), x) => Posted(q, x) \/ (e.h = "do_write" /\ e.n = x)
<1>1. ASSUME q # <<>>
      PROVE  /\ Posted(Tail(q), x) => Posted(q, x)
             /\ Head(q).h = "do_write" => Posted(q, Head(q).n)
  <2>1. /\ Len(q) \in Nat \ {0} /\ Head(q) = q[1] /\ DOMAIN q = 1..Len(q)
        /\ DOMAIN Tail(q) = 1..(Len(q) - 1)
        /\ \A i \in 1..(Len(q) - 1) : Tail(q)[i] = q[i + 1] /\ i + 1 \in 1..Len(q)
    BY <1>1
  <2> QED BY <2>1 DEF Posted
<1>2. ASSUME NEW e \in Handlers, Posted(Append(q, e), x)
      PROVE  Posted(q, x) \/ (e.h = "do_write" /\ e.n = x)
  <2>1. /\ Len(q) \in Nat /\ DOMAIN q = 1..Len(q)
        /\ DOMAIN Append(q, e) = 1..(Len(q) + 1)
        /\ \A i \in 1..Len(q) : Append(q, e)[i] = q[i]
        /\ Append(q, e)[Len(q) + 1] = e
    OBVIOUS
  <2> QED BY <1>2, <2>1 DEF Posted
<1> QED BY <1>1, <1>2

\* do_close posts no command.
LEMMA ClosePosts ==
  ASSUME NEW q \in Seq(Handlers), NEW reading \in BOOLEAN, do_close(q, reading), NEW x,
         Posted(queue', x)
  PROVE  Posted(q, x)
<1>1. CASE ~portOpen BY <1>1 DEF do_close
<1>2. CASE portOpen
  <2> DEFINE ra == Handler("do_read", "aborted", 0)
             wa == Handler("write_complete", "aborted", 0)
             q1 == IF reading THEN Append(q, ra) ELSE q
             q2 == IF writeOp > 0 THEN Append(q1, wa) ELSE q1
  <2>1. /\ ra \in Handlers /\ wa \in Handlers
        /\ ra.h # "do_write" /\ wa.h # "do_write"
    BY HandlerType
  <2> HIDE DEF ra, wa
  <2>3. q1 \in Seq(Handlers) BY <2>1
  <2>4. q \o (IF reading THEN <<ra>> ELSE <<>>) = q1 BY <2>1
  <2>5. Posted(q1, x) => Posted(q, x) BY <2>1, PostedParts
  <2> HIDE DEF q1
  <2>6. q1 \o (IF writeOp > 0 THEN <<wa>> ELSE <<>>) = q2 BY <2>1, <2>3
  <2>7. Posted(q2, x) => Posted(q1, x) BY <2>1, <2>3, PostedParts
  <2>8. queue' = q2 BY <1>2, <2>4, <2>6 DEF do_close, CloseDevice, ra, wa
  <2> HIDE DEF q2
  <2> QED BY <2>5, <2>7, <2>8
<1> QED BY <1>1, <1>2

\* write_start posts none either, and sends what it is given.
LEMMA WriteStartPosts ==
  ASSUME NEW q \in Seq(Handlers), NEW w \in Seq(Nat), sent \in Seq(Nat), write_start(w, q),
         NEW x
  PROVE  /\ Posted(queue', x) => Posted(q, x)
         /\ InSeq(sent', x) => InSeq(sent, x) \/ InSeq(w, x)
         /\ InSeq(sent, x) => InSeq(sent', x)
<1> DEFINE f == Handler("write_complete", "fault", 0)
           o == Handler("write_complete", "ok", Len(w))
<1>1. /\ f \in Handlers /\ o \in Handlers /\ f.h # "do_write" /\ o.h # "do_write"
  BY HandlerType
<1>2. /\ queue' = q \/ queue' = Append(q, f) \/ queue' = Append(q, o)
      /\ sent' = sent \/ sent' = sent \o w
  BY DEF write_start
<1> HIDE DEF f, o
<1>3. Posted(queue', x) => Posted(q, x)
  <2>1. Posted(Append(q, f), x) => Posted(q, x) BY <1>1, PostedParts
  <2>2. Posted(Append(q, o), x) => Posted(q, x) BY <1>1, PostedParts
  <2> QED BY <1>2, <2>1, <2>2
<1>4. InSeq(sent \o w, x) <=> InSeq(sent, x) \/ InSeq(w, x)
  <2>1. 0 \in 0..Len(sent) /\ 0 \in Nat OBVIOUS
  <2> QED BY <2>1, InSeqParts
<1> QED BY <1>2, <1>3, <1>4

\* A step that hands commands on.
HandsOn ==
  /\ \A x \in Nat : InSeq(sent', x) \/ InSeq(wbuf', x) \/ Posted(queue', x)
                      => Unit(x) \/ x = 0
  /\ \A x \in Nat : InSeq(sent, x) => InSeq(sent', x)

\* do_read, from the queue or from the reactor, and do_close.
LEMMA ReadsHandOn ==
  ASSUME QueueOK(queue), RestOK, RunDoRead \/ ReactorRead \/ RunDoClose
  PROVE  HandsOn
<1> USE DEF HandsOn, Unit
<1>1. UNCHANGED <<sent, wbuf>>
  BY DEF RunDoRead, ReactorRead, RunDoClose, bufVars
<1>2. queue \in Seq(Handlers) /\ readOp \in BOOLEAN BY DEF QueueOK, RestOK
<1>3. CASE RunDoRead
  <2>1. queue # <<>> /\ Tail(queue) \in Seq(Handlers) BY <1>2, <1>3 DEF RunDoRead, Ready
  <2>2. queue' = Tail(queue) \/ do_close(Tail(queue), FALSE)
    BY <1>3 DEF RunDoRead, do_read
  <2>3. ASSUME NEW x \in Nat, Posted(queue', x) PROVE Posted(queue, x)
    <3>1. Posted(Tail(queue), x) BY <2>1, <2>2, <2>3, ClosePosts
    <3> QED BY <1>2, <2>1, <3>1, PostedParts
  <2> QED BY <1>1, <2>3
<1>4. CASE ReactorRead
  <2>1. queue' = queue \/ do_close(queue, FALSE) BY <1>4 DEF ReactorRead, do_read
  <2>2. ASSUME NEW x \in Nat, Posted(queue', x) PROVE Posted(queue, x)
    BY <1>2, <2>1, <2>2, ClosePosts
  <2> QED BY <1>1, <2>2
<1>5. CASE RunDoClose
  <2>1. queue # <<>> /\ Tail(queue) \in Seq(Handlers) BY <1>2, <1>5 DEF RunDoClose, Ready
  <2>2. do_close(Tail(queue), readOp) BY <1>5 DEF RunDoClose
  <2>3. ASSUME NEW x \in Nat, Posted(queue', x) PROVE Posted(queue, x)
    <3>1. Posted(Tail(queue), x) BY <1>2, <2>1, <2>2, <2>3, ClosePosts
    <3> QED BY <1>2, <2>1, <3>1, PostedParts
  <2> QED BY <1>1, <2>3
<1> QED BY <1>3, <1>4, <1>5

\* do_write.
LEMMA DoWriteHandsOn ==
  ASSUME QueueOK(queue), RestOK, RunDoWrite PROVE HandsOn
<1> USE DEF HandsOn, Unit
<1> DEFINE c == Head(queue).n
           q == Tail(queue)
<1>1. queue # <<>> /\ Head(queue).h = "do_write" /\ do_write(c, q)
  BY DEF RunDoWrite, Ready
<1>2. Head(queue) \in Handlers /\ queue \in Seq(Handlers) /\ q \in Seq(Handlers)
  BY <1>1 DEF QueueOK
<1>3. c \in Nat BY <1>2 DEF Handlers
<1>4. Posted(queue, c) BY <1>1, <1>2, PostedParts
<1>5. \A x : Posted(q, x) => Posted(queue, x) BY <1>1, <1>2, PostedParts
<1> HIDE DEF c, q
<1>6. wbuf \in Seq(Nat) /\ sent \in Seq(Nat) /\ <<>> \in Seq(Nat) /\ 0 \in 0..Len(wbuf)
  BY DEF RestOK
<1>7. wbuf' = Append(wbuf, c) BY <1>1 DEF do_write
<1>8. ASSUME NEW x \in Nat, InSeq(wbuf', x) PROVE Unit(x)
  <2>1. InSeq(wbuf, x) \/ x = c BY <1>3, <1>6, <1>7, <1>8, InSeqParts
  <2> QED BY <1>4, <2>1
<1>9. CASE wbuf = <<>>
  <2>1. write_start(<<c>>, q) /\ <<c>> \in Seq(Nat) BY <1>1, <1>3, <1>9 DEF do_write
  <2>2. ASSUME NEW x \in Nat
        PROVE  /\ Posted(queue', x) => Posted(q, x)
               /\ InSeq(sent', x) => InSeq(sent, x) \/ InSeq(<<c>>, x)
               /\ InSeq(sent, x) => InSeq(sent', x)
    BY <1>2, <1>6, <2>1, WriteStartPosts
  <2>3. \A x : InSeq(<<c>>, x) => x = c BY DEF InSeq
  <2> QED BY <1>4, <1>5, <1>8, <2>2, <2>3
<1>10. CASE wbuf # <<>>
  <2>1. queue' = q /\ UNCHANGED sent BY <1>1, <1>10 DEF do_write
  <2> QED BY <1>5, <1>8, <2>1
<1> QED BY <1>9, <1>10

\* write_complete.
LEMMA WriteCompleteHandsOn ==
  ASSUME QueueOK(queue), RestOK, RunWriteComplete PROVE HandsOn
<1> USE DEF HandsOn, Unit
<1> DEFINE m == Head(queue).n
           q == Tail(queue)
           w == SubSeq(wbuf, m + 1, Len(wbuf))
<1>1. queue # <<>> /\ Head(queue).h = "write_complete"
      /\ write_complete(Head(queue).err, m, q)
  BY DEF RunWriteComplete, Ready
<1>2. Head(queue) \in Handlers /\ queue \in Seq(Handlers) /\ q \in Seq(Handlers)
  BY <1>1 DEF QueueOK
<1>3. m \in Nat BY <1>2 DEF Handlers
<1>4. m <= Len(wbuf) BY <1>1, TailOfQueue DEF QueueOK, RestOK
<1>5. \A x : Posted(q, x) => Posted(queue, x) BY <1>1, <1>2, PostedParts
<1> HIDE DEF m, q
<1>6. /\ wbuf \in Seq(Nat) /\ sent \in Seq(Nat) /\ m \in 0..Len(wbuf) /\ 0 \in Nat
      /\ readOp \in BOOLEAN
  BY <1>3, <1>4 DEF RestOK
<1>7. /\ w \in Seq(Nat)
      /\ \A x : InSeq(w, x) => InSeq(wbuf, x)
  BY <1>6, InSeqParts, SuffixFrom
<1>8. CASE Head(queue).err = "ok"
  <2>1. wbuf' = w BY <1>1, <1>8 DEF write_complete
  <2>2. CASE Len(wbuf) > m
    <3>1. write_start(w, q) BY <1>1, <1>8, <2>2 DEF write_complete
    <3> HIDE DEF w
    <3>2. ASSUME NEW x \in Nat
          PROVE  /\ Posted(queue', x) => Posted(q, x)
                 /\ InSeq(sent', x) => InSeq(sent, x) \/ InSeq(w, x)
                 /\ InSeq(sent, x) => InSeq(sent', x)
      BY <1>2, <1>6, <1>7, <3>1, WriteStartPosts
    <3> QED BY <1>5, <1>7, <2>1, <3>2
  <2>3. CASE ~(Len(wbuf) > m)
    <3>1. queue' = q /\ UNCHANGED sent BY <1>1, <1>8, <2>3 DEF write_complete
    <3> HIDE DEF w
    <3> QED BY <1>5, <1>7, <2>1, <3>1
  <2> QED BY <2>2, <2>3
<1>9. CASE Head(queue).err # "ok"
  <2>1. do_close(q, readOp) /\ UNCHANGED <<wbuf, sent>> BY <1>1, <1>9 DEF write_complete
  <2>2. ASSUME NEW x \in Nat, Posted(queue', x) PROVE Posted(q, x)
    BY <1>2, <1>6, <2>1, <2>2, ClosePosts
  <2> QED BY <1>5, <2>1, <2>2
<1> QED BY <1>8, <1>9

\* The reactor's write: the units in m_write_buffer, or garbage.
LEMMA ReactorWriteHandsOn ==
  ASSUME QueueOK(queue), RestOK, ReactorWrite PROVE HandsOn
<1> USE DEF HandsOn, Unit
<1> DEFINE o == Handler("write_complete", "ok", writeOp)
           f == Handler("write_complete", "fault", 0)
           u == IF dangling THEN [i \in 1..writeOp |-> Garbage] ELSE SubSeq(wbuf, 1, writeOp)
<1>1. /\ queue \in Seq(Handlers) /\ wbuf \in Seq(Nat) /\ sent \in Seq(Nat)
      /\ writeOp \in 0..Len(wbuf) /\ 0 \in Nat /\ writeOp \in Nat /\ 0 \in 0..Len(sent)
  BY DEF QueueOK, RestOK
<1>2. /\ o \in Handlers /\ f \in Handlers /\ o.h # "do_write" /\ f.h # "do_write"
  BY <1>1, HandlerType
<1>3. /\ queue' = Append(queue, o) \/ queue' = Append(queue, f)
      /\ sent' = sent \o u \/ sent' = sent
      /\ UNCHANGED wbuf
  BY DEF ReactorWrite, bufVars
<1>4. u \in Seq(Nat) /\ \A x : InSeq(u, x) => InSeq(wbuf, x) \/ x = 0
  <2>1. CASE dangling
    <3>1. u = [i \in 1..writeOp |-> 0] BY <2>1 DEF Garbage
    <3>2. [i \in 1..writeOp |-> 0] \in Seq(Nat) BY <1>1
    <3> QED BY <3>1, <3>2 DEF InSeq
  <2>2. CASE ~dangling
    <3>1. u = SubSeq(wbuf, 1, writeOp) BY <2>2
    <3>2. SubSeq(wbuf, 1, writeOp) \in Seq(Nat) BY <1>1
    <3> HIDE DEF u
    <3> QED BY <1>1, <3>1, <3>2, InSeqParts
  <2> QED BY <2>1, <2>2
<1> HIDE DEF o, f, u
<1>5. \A x \in Nat : Posted(queue', x) => Posted(queue, x)
  <2>1. \A x \in Nat : Posted(Append(queue, f), x) => Posted(queue, x)
    BY <1>1, <1>2, PostedParts
  <2>2. \A x \in Nat : Posted(Append(queue, o), x) => Posted(queue, x)
    BY <1>1, <1>2, PostedParts
  <2> QED BY <1>3, <2>1, <2>2
<1>6. \A x \in Nat : InSeq(sent \o u, x) <=> InSeq(sent, x) \/ InSeq(u, x)
  BY <1>1, <1>4, InSeqParts
<1> QED BY <1>3, <1>4, <1>5, <1>6

\* The end of do_read and of the thread.
LEMMA RearmHandsOn ==
  ASSUME QueueOK(queue), RestOK, Rearm \/ ThreadExit PROVE HandsOn
<1> USE DEF HandsOn, Unit
<1> DEFINE h == Handler("do_read", ReadResult, Len(Taken))
<1>1. UNCHANGED <<sent, wbuf>> BY DEF Rearm, ThreadExit, bufVars, devVars
<1>2. queue' = queue \/ (ReadResult # "none" /\ queue' = Append(queue, h))
  BY DEF Rearm, ThreadExit, AsyncReadSome
<1>3. ReadResult # "none" => h \in Handlers /\ h.h # "do_write"
  <2>1. Len(Taken) \in Nat /\ ReadResult \in {"ok", "eof", "fault", "none"}
    BY ReadTakes
  <2> QED BY <2>1, HandlerType
<1> HIDE DEF h
<1>4. queue \in Seq(Handlers) BY DEF QueueOK
<1>5. ASSUME NEW x \in Nat, Posted(queue', x) PROVE Posted(queue, x)
  <2>1. CASE queue' = queue BY <1>5, <2>1
  <2>2. CASE ReadResult # "none" /\ queue' = Append(queue, h)
    <3>1. h \in Handlers /\ h.h # "do_write" BY <1>3, <2>2
    <3>2. Posted(Append(queue, h), x) BY <1>5, <2>2
    <3> QED BY <1>4, <3>1, <3>2, PostedParts
  <2> QED BY <1>2, <2>1, <2>2
<1> QED BY <1>1, <1>5

\* Every step of the I/O thread.
LEMMA IoHandsOn ==
  ASSUME QueueOK(queue), RestOK, IoThread PROVE HandsOn
BY ReadsHandOn, DoWriteHandsOn, WriteCompleteHandsOn, ReactorWriteHandsOn, RearmHandsOn
   DEF IoThread

\* The calls that post no command, and a line that fails.
LEMMA CallsHandOn ==
  ASSUME QueueOK(queue), RestOK,
         open \/ reopen \/ ReopenDevice \/ close \/ CloseJoined \/ LineFails \/ UNCHANGED vars
  PROVE  HandsOn
<1> USE DEF HandsOn, Unit, ioVars, bufVars, devVars, appVars
<1>1. queue \in Seq(Handlers) /\ readOp \in BOOLEAN BY DEF QueueOK, RestOK
<1>2. UNCHANGED sent /\ (wbuf' = wbuf \/ wbuf' = <<>>)
  BY DEF open, reopen, ReopenDevice, close, CloseJoined, LineFails, vars
<1>3. \A x : ~InSeq(<<>>, x) BY DEF InSeq
<1>4. CASE open \/ ReopenDevice \/ CloseJoined \/ LineFails \/ UNCHANGED vars
  <2>1. UNCHANGED queue BY <1>4 DEF open, ReopenDevice, CloseJoined, LineFails, vars
  <2> QED BY <1>2, <1>3, <2>1
<1>5. CASE reopen
  <2>1. do_close(queue, readOp) BY <1>5 DEF reopen
  <2>2. ASSUME NEW x \in Nat, Posted(queue', x) PROVE Posted(queue, x)
    BY <1>1, <2>1, <2>2, ClosePosts
  <2> QED BY <1>2, <1>3, <2>2
<1>6. CASE close
  <2> DEFINE h == Handler("do_close", "ok", 0)
  <2>1. queue' = Append(queue, h) BY <1>6 DEF close
  <2>2. h \in Handlers /\ h.h # "do_write" BY HandlerType
  <2> HIDE DEF h
  <2>3. \A x \in Nat : Posted(queue', x) => Posted(queue, x)
    BY <1>1, <2>1, <2>2, PostedParts
  <2> QED BY <1>2, <1>3, <2>3
<1> QED BY <1>4, <1>5, <1>6

-----------------------------------------------------------------------------
(***************************************************************************)
(* The port while nothing goes wrong: it is read while it is open, and     *)
(* close closes it.                                                        *)
(***************************************************************************)

\* Handlers of a name, and handlers without an error, in a queue that loses its head
\* or gets another handler.
LEMMA OkQueue ==
  ASSUME NEW q \in Seq(Handlers), NEW h
  PROVE  /\ q # <<>> =>
              /\ AllOk(q) => AllOk(Tail(q)) /\ Head(q).err = "ok"
              /\ None(q, h) => None(Tail(q), h) /\ Head(q).h # h
              /\ None(Tail(q), h) /\ Head(q).h # h => None(q, h)
         /\ \A e \in Handlers :
              /\ AllOk(q) /\ e.err = "ok" => AllOk(Append(q, e))
              /\ None(Append(q, e), h) <=> None(q, h) /\ e.h # h
<1>1. ASSUME q # <<>>
      PROVE  /\ AllOk(q) => AllOk(Tail(q)) /\ Head(q).err = "ok"
             /\ None(q, h) => None(Tail(q), h) /\ Head(q).h # h
             /\ None(Tail(q), h) /\ Head(q).h # h => None(q, h)
  <2>1. /\ Len(q) \in Nat \ {0} /\ Head(q) = q[1] /\ DOMAIN q = 1..Len(q)
        /\ DOMAIN Tail(q) = 1..(Len(q) - 1)
        /\ \A i \in 1..(Len(q) - 1) : Tail(q)[i] = q[i + 1] /\ i + 1 \in 1..Len(q)
        /\ 1 \in 1..Len(q)
    BY <1>1
  <2>2. AllOk(q) => AllOk(Tail(q)) /\ Head(q).err = "ok" BY <2>1 DEF AllOk
  <2>3. None(q, h) => None(Tail(q), h) /\ Head(q).h # h BY <2>1 DEF None
  <2>4. None(Tail(q), h) /\ Head(q).h # h => None(q, h)
    <3> SUFFICES ASSUME None(Tail(q), h), Head(q).h # h, NEW i \in DOMAIN q
                 PROVE  q[i].h # h
      BY DEF None
    <3>1. CASE i = 1 BY <2>1, <3>1
    <3>2. CASE i # 1
      <4>1. i - 1 \in 1..(Len(q) - 1) /\ (i - 1) + 1 = i BY <2>1, <3>2
      <4>2. Tail(q)[i - 1] = q[i] BY <2>1, <4>1
      <4> QED BY <2>1, <4>1, <4>2 DEF None
    <3> QED BY <3>1, <3>2
  <2> QED BY <2>2, <2>3, <2>4
<1>2. ASSUME NEW e \in Handlers
      PROVE  /\ AllOk(q) /\ e.err = "ok" => AllOk(Append(q, e))
             /\ None(Append(q, e), h) <=> None(q, h) /\ e.h # h
  <2>1. /\ Len(q) \in Nat /\ DOMAIN q = 1..Len(q)
        /\ DOMAIN Append(q, e) = 1..(Len(q) + 1)
        /\ \A i \in 1..Len(q) : Append(q, e)[i] = q[i] /\ i \in 1..(Len(q) + 1)
        /\ Append(q, e)[Len(q) + 1] = e /\ Len(q) + 1 \in 1..(Len(q) + 1)
    OBVIOUS
  <2>2. AllOk(q) /\ e.err = "ok" => AllOk(Append(q, e)) BY <2>1 DEF AllOk
  <2>3. None(Append(q, e), h) <=> None(q, h) /\ e.h # h BY <2>1 DEF None
  <2> QED BY <2>2, <2>3
<1> QED BY <1>1, <1>2

\* What a step of the I/O thread does to a queue: it takes the head or nothing, and
\* posts one handler or none, as long as the port stays open.
Moved(q, e) ==
  /\ queue' = q \/ (e \in Handlers /\ queue' = Append(q, e))
  /\ q = queue \/ (queue # <<>> /\ Head(queue).h # "do_close" /\ q = Tail(queue))

\* The I/O thread runs before its steps, and after all but its last.
LEMMA IoRuns ==
  ASSUME IoThread
  PROVE  thread = "run" /\ (~ThreadExit => thread' = "run")
<1>1. thread = "run"
  BY DEF IoThread, RunDoRead, RunDoClose, RunDoWrite, RunWriteComplete, ReactorRead,
         ReactorWrite, Rearm, ThreadExit, Ready, IoIdle
<1>2. ~ThreadExit => thread' = thread
  BY DEF IoThread, RunDoRead, RunDoClose, RunDoWrite, RunWriteComplete, ReactorRead,
         ReactorWrite, Rearm
<1> QED BY <1>1, <1>2

\* In close: do_close is not lost.
LEMMA JoinStep ==
  ASSUME QueueOK(queue), RestOK, IoThread, ~ThreadExit, portOpen'
  PROVE  portOpen /\ \E q, e : Moved(q, e)
<1> USE DEF Moved
<1>1. queue \in Seq(Handlers) BY DEF QueueOK
<1>2. CASE RunDoRead
  <2>1. queue # <<>> /\ Head(queue).h = "do_read" BY <1>2 DEF RunDoRead, Ready
  <2>2. portOpen /\ queue' = Tail(queue) BY <1>2 DEF RunDoRead, do_read, do_close, CloseDevice
  <2> QED BY <2>1, <2>2
<1>3. CASE RunDoClose BY <1>3 DEF RunDoClose, do_close, CloseDevice
<1>4. CASE RunDoWrite
  <2>1. queue # <<>> /\ Head(queue).h = "do_write" BY <1>4 DEF RunDoWrite, Ready
  <2>2. portOpen BY <1>4 DEF RunDoWrite
  <2> DEFINE o == Handler("write_complete", "ok", Len(<<Head(queue).n>>))
  <2>3. queue' = Tail(queue) \/ queue' = Append(Tail(queue), o)
    BY <1>4, <2>2 DEF RunDoWrite, do_write, write_start
  <2>4. o \in Handlers BY HandlerType
  <2> HIDE DEF o
  <2> QED BY <2>1, <2>2, <2>3, <2>4
<1>5. CASE RunWriteComplete
  <2>1. queue # <<>> /\ Head(queue).h = "write_complete" BY <1>5 DEF RunWriteComplete, Ready
  <2> DEFINE m == Head(queue).n
             w == SubSeq(wbuf, m + 1, Len(wbuf))
             o == Handler("write_complete", "ok", Len(w))
  <2>2. portOpen BY <1>5 DEF RunWriteComplete, write_complete, do_close, CloseDevice
  <2>3. queue' = Tail(queue) \/ queue' = Append(Tail(queue), o)
    BY <1>5, <2>2 DEF RunWriteComplete, write_complete, write_start, do_close, CloseDevice
  <2>4. o \in Handlers
    <3>1. Head(queue) \in Handlers BY <1>1, <2>1
    <3>2. m \in Nat /\ wbuf \in Seq(Nat) BY <3>1 DEF Handlers, RestOK
    <3>3. m <= Len(wbuf) BY <2>1, TailOfQueue DEF QueueOK, RestOK
    <3>4. m \in 0..Len(wbuf) BY <3>2, <3>3
    <3>5. w \in Seq(Nat) BY <3>2, <3>4, SuffixType
    <3>6. Len(w) \in Nat BY <3>5
    <3> QED BY <3>6, HandlerType
  <2> HIDE DEF o
  <2> QED BY <2>1, <2>2, <2>3, <2>4
<1>6. CASE ReactorRead
  <2>1. portOpen /\ queue' = queue BY <1>6 DEF ReactorRead, do_read, do_close, CloseDevice
  <2> QED BY <2>1
<1>7. CASE ReactorWrite
  <2> DEFINE o == Handler("write_complete", "ok", writeOp)
             f == Handler("write_complete", "fault", 0)
  <2>1. portOpen /\ (queue' = Append(queue, o) \/ queue' = Append(queue, f))
    BY <1>7 DEF ReactorWrite
  <2>2. o \in Handlers /\ f \in Handlers BY HandlerType DEF RestOK
  <2> HIDE DEF o, f
  <2> QED BY <2>1, <2>2
<1>8. CASE Rearm
  <2> DEFINE h == Handler("do_read", ReadResult, Len(Taken))
  <2>1. portOpen /\ (queue' = queue \/ (ReadResult # "none" /\ queue' = Append(queue, h)))
    BY <1>8 DEF Rearm, AsyncReadSome
  <2>2. ReadResult # "none" => h \in Handlers
    <3>1. Len(Taken) \in Nat /\ ReadResult \in {"ok", "eof", "fault", "none"} BY ReadTakes
    <3> QED BY <3>1, HandlerType
  <2> HIDE DEF h
  <2> QED BY <2>1, <2>2
<1> QED BY <1>2, <1>3, <1>4, <1>5, <1>6, <1>7, <1>8 DEF IoThread

\* In close the I/O thread runs until the port is closed.
LEMMA ClosingKept ==
  ASSUME QueueOK(queue), RestOK, IoThread, PortClosing PROVE PortClosing'
<1>1. thread = "run" BY IoRuns
<1>2. portOpen => ~None(queue, "do_close") BY <1>1 DEF PortClosing
<1>3. CASE ThreadExit
  <2>1. queue = <<>> /\ thread' = "done" /\ UNCHANGED <<queue, portOpen>>
    BY <1>3 DEF ThreadExit
  <2>2. None(queue, "do_close") BY <2>1 DEF None
  <2> QED BY <1>2, <2>1, <2>2 DEF PortClosing
<1>4. CASE ~ThreadExit
  <2>1. thread' = "run" BY <1>1, <1>4, IoRuns
  <2>2. ASSUME portOpen' PROVE ~None(queue', "do_close")
    <3>1. PICK q, e : portOpen /\ Moved(q, e) BY <1>4, <2>2, JoinStep
    <3>2. ~None(queue, "do_close") /\ queue \in Seq(Handlers) BY <1>2, <3>1 DEF QueueOK
    <3>3. q \in Seq(Handlers) /\ ~None(q, "do_close")
      <4>1. CASE q = queue BY <3>2, <4>1
      <4>2. CASE queue # <<>> /\ Head(queue).h # "do_close" /\ q = Tail(queue)
        BY <3>2, <4>2, OkQueue
      <4> QED BY <3>1, <4>1, <4>2 DEF Moved
    <3>4. CASE queue' = q BY <3>3, <3>4
    <3>5. CASE e \in Handlers /\ queue' = Append(q, e) BY <3>3, <3>5, OkQueue
    <3> QED BY <3>1, <3>4, <3>5 DEF Moved
  <2>3. None(queue, "do_close")' <=> None(queue', "do_close") BY DEF None
  <2> QED BY <2>1, <2>2, <2>3 DEF PortClosing
<1> QED BY <1>3, <1>4

\* A read that is under way, in a queue without errors.
Reading(q) == readOp \/ ioPc = "rearm" \/ ~None(q, "do_read")

\* Its handler is armed.
LEMMA ArmedReading ==
  ASSUME AllOk(queue) PROVE ReaderArmed <=> thread = "run" /\ Reading(queue)
BY DEF AllOk, ReaderArmed, Reading, None

\* The same in the next state.
LEMMA NextIdle ==
  ASSUME portOpen', thread' = "run", AllOk(queue'), None(queue', "do_close"),
         readOp' \/ ioPc' = "rearm" \/ ~None(queue', "do_read")
  PROVE  PortIdle'
<1>1. ReaderArmed' BY DEF ReaderArmed, AllOk, None
<1>2. None(queue, "do_close")' /\ AllOk(queue)' BY DEF None, AllOk
<1> QED BY <1>1, <1>2 DEF PortIdle

\* Between calls the I/O thread reads on, as long as the line works.
LEMMA IdleKept ==
  ASSUME QueueOK(queue), RestOK, IoThread, fault = "none", PortIdle PROVE PortIdle'
<1>1. thread = "run" BY IoRuns
<1>2. /\ portOpen /\ AllOk(queue) /\ None(queue, "do_close") /\ queue \in Seq(Handlers)
      /\ Reading(queue)
  BY <1>1, ArmedReading DEF PortIdle, QueueOK
<1>3. ~ThreadExit
  <2>1. SUFFICES ASSUME ThreadExit PROVE FALSE OBVIOUS
  <2>2. queue = <<>> /\ ~readOp /\ ioPc = "idle" BY <2>1 DEF ThreadExit, IoIdle
  <2>3. None(queue, "do_read") BY <2>2 DEF None
  <2> QED BY <1>2, <2>2, <2>3 DEF Reading
<1>4. thread' = "run" BY <1>3, IoRuns
<1>5. CASE RunDoRead
  <2>1. queue # <<>> /\ Head(queue).h = "do_read" BY <1>5 DEF RunDoRead, Ready
  <2>2. /\ AllOk(Tail(queue)) /\ Head(queue).err = "ok" /\ None(Tail(queue), "do_close")
    BY <1>2, <2>1, OkQueue
  <2>3. portOpen' = portOpen /\ queue' = Tail(queue) /\ ioPc' = "rearm"
    BY <1>5, <2>2 DEF RunDoRead, do_read
  <2> QED BY <1>2, <1>4, <2>2, <2>3, NextIdle
<1>6. CASE RunDoClose
  <2>1. queue # <<>> /\ Head(queue).h = "do_close" BY <1>6 DEF RunDoClose, Ready
  <2> QED BY <1>2, <2>1, OkQueue
<1>7. ASSUME NEW w \in Nat, queue # <<>>, Head(queue).h # "do_read", portOpen' = portOpen,
             UNCHANGED <<readOp, ioPc>>,
             \/ queue' = Tail(queue)
             \/ queue' = Append(Tail(queue), Handler("write_complete", "ok", w))
      PROVE  PortIdle'
  <2> DEFINE o == Handler("write_complete", "ok", w)
  <2>1. o \in Handlers /\ o.h = "write_complete" /\ o.err = "ok"
    BY HandlerType DEF Handler
  <2>2. Tail(queue) \in Seq(Handlers) BY <1>2, <1>7
  <2>3. queue' = Tail(queue) \/ queue' = Append(Tail(queue), o) BY <1>7
  <2> HIDE DEF o
  <2>4. AllOk(Tail(queue)) /\ None(Tail(queue), "do_close") BY <1>2, <1>7, OkQueue
  <2>5. None(Tail(queue), "do_read") => None(queue, "do_read") BY <1>2, <1>7, OkQueue
  <2>6. /\ AllOk(queue') /\ None(queue', "do_close")
        /\ None(queue', "do_read") => None(Tail(queue), "do_read")
    <3>1. CASE queue' = Tail(queue) BY <2>4, <3>1
    <3>2. CASE queue' = Append(Tail(queue), o) BY <2>1, <2>2, <2>4, <3>2, OkQueue
    <3> QED BY <2>3, <3>1, <3>2
  <2> QED BY <1>2, <1>4, <1>7, <2>5, <2>6, NextIdle DEF Reading
<1>8. CASE RunDoWrite
  <2>1. queue # <<>> /\ Head(queue).h = "do_write" BY <1>8 DEF RunDoWrite, Ready
  <2>2. PICK w \in Nat : w = Len(<<Head(queue).n>>) OBVIOUS
  <2>3. /\ portOpen' = portOpen /\ UNCHANGED <<readOp, ioPc>>
        /\ \/ queue' = Tail(queue)
           \/ queue' = Append(Tail(queue), Handler("write_complete", "ok", w))
    BY <1>2, <1>8, <2>2 DEF RunDoWrite, do_write, write_start
  <2> QED BY <1>7, <2>1, <2>3
<1>9. CASE RunWriteComplete
  <2>1. queue # <<>> /\ Head(queue).h = "write_complete" BY <1>9 DEF RunWriteComplete, Ready
  <2>2. Head(queue).err = "ok" BY <1>2, <2>1, OkQueue
  <2> DEFINE m == Head(queue).n
             u == SubSeq(wbuf, m + 1, Len(wbuf))
  <2>3. Len(u) \in Nat
    <3>1. Head(queue) \in Handlers BY <1>2, <2>1
    <3>2. m \in Nat /\ wbuf \in Seq(Nat) BY <3>1 DEF Handlers, RestOK
    <3>3. m <= Len(wbuf) BY <2>1, TailOfQueue DEF QueueOK, RestOK
    <3>4. m \in 0..Len(wbuf) BY <3>2, <3>3
    <3>5. u \in Seq(Nat) BY <3>2, <3>4, SuffixType
    <3> QED BY <3>5
  <2>4. /\ portOpen' = portOpen /\ UNCHANGED <<readOp, ioPc>>
        /\ \/ queue' = Tail(queue)
           \/ queue' = Append(Tail(queue), Handler("write_complete", "ok", Len(u)))
    BY <1>2, <1>9, <2>2 DEF RunWriteComplete, write_complete, write_start
  <2> HIDE DEF u
  <2>5. PICK w \in Nat : w = Len(u) BY <2>3
  <2> QED BY <1>7, <2>1, <2>4, <2>5
<1>10. CASE ReactorRead
  <2>1. ReadResult = "ok" BY <1>2, <1>10 DEF ReactorRead, ReadResult
  <2>2. portOpen' = portOpen /\ queue' = queue /\ ioPc' = "rearm"
    BY <1>10, <2>1 DEF ReactorRead, do_read
  <2> QED BY <1>2, <1>4, <2>2, NextIdle
<1>11. CASE ReactorWrite
  <2> DEFINE o == Handler("write_complete", "ok", writeOp)
  <2>1. o \in Handlers /\ o.h = "write_complete" /\ o.err = "ok"
    BY HandlerType DEF Handler, RestOK
  <2>2. portOpen' = portOpen /\ UNCHANGED <<readOp, ioPc>> /\ queue' = Append(queue, o)
    BY <1>11 DEF ReactorWrite
  <2> HIDE DEF o
  <2>3. /\ AllOk(queue') /\ None(queue', "do_close")
        /\ None(queue', "do_read") => None(queue, "do_read")
    BY <1>2, <2>1, <2>2, OkQueue
  <2> QED BY <1>2, <1>4, <2>2, <2>3, NextIdle DEF Reading
<1>12. CASE Rearm
  <2> DEFINE h == Handler("do_read", "ok", Len(Taken))
  <2>1. ReadResult \in {"ok", "none"} BY <1>2 DEF ReadResult
  <2>2. h \in Handlers /\ h.h = "do_read" /\ h.err = "ok"
    BY ReadTakes, HandlerType DEF Handler
  <2>3. portOpen' = portOpen BY <1>12 DEF Rearm
  <2>4. CASE ReadResult = "none"
    <3>1. readOp' = TRUE /\ queue' = queue BY <1>12, <2>4 DEF Rearm, AsyncReadSome
    <3> QED BY <1>2, <1>4, <2>3, <3>1, NextIdle
  <2>5. CASE ReadResult = "ok"
    <3>1. queue' = Append(queue, h) BY <1>12, <2>5 DEF Rearm, AsyncReadSome
    <3> HIDE DEF h
    <3>2. AllOk(queue') /\ None(queue', "do_close") /\ ~None(queue', "do_read")
      BY <1>2, <2>2, <3>1, OkQueue
    <3> QED BY <1>2, <1>4, <2>3, <3>2, NextIdle
  <2> QED BY <2>1, <2>4, <2>5
<1> QED
  BY <1>3, <1>5, <1>6, <1>8, <1>9, <1>10, <1>11, <1>12 DEF IoThread

\* The calls: open arms the reader, close posts do_close and joins, write posts.
LEMMA CallsKeepReady ==
  ASSUME QueueOK(queue), RestOK, PortReady, appPc # "reopen",
         open \/ write \/ CloseJoined \/ (close /\ portOpen)
  PROVE  PortReady' /\ appPc' # "reopen"
<1>0. queue \in Seq(Handlers) BY DEF QueueOK
<1>1. CASE open
  <2>1. appPc = "idle" /\ ~portOpen BY <1>1 DEF open, Call
  <2>2. thread = "none" /\ queue = <<>> BY <2>1 DEF PortReady, PortIdle
  <2>3. portOpen' /\ thread' = "run" /\ readOp' /\ queue' = <<>> /\ appPc' = appPc
    BY <1>1, <2>2 DEF open
  <2>4. AllOk(queue') /\ None(queue', "do_close") BY <2>3 DEF AllOk, None
  <2> QED BY <2>1, <2>3, <2>4, NextIdle DEF PortReady
<1>2. CASE write
  <2> DEFINE w == Handler("do_write", "ok", calls')
  <2>1. /\ appPc = "idle" /\ portOpen /\ queue' = Append(queue, w)
        /\ UNCHANGED <<portOpen, thread, ioPc, readOp, appPc>>
    BY <1>2 DEF write, Call
  <2>2. calls' \in Nat BY <1>2, SizesAssumption DEF write, Call, RestOK
  <2>3. w \in Handlers /\ w.h = "do_write" /\ w.err = "ok"
    BY <2>2, HandlerType DEF Handler
  <2> HIDE DEF w
  <2>4. /\ AllOk(queue) /\ None(queue, "do_close")
        /\ thread = "run" /\ Reading(queue)
    BY <2>1, ArmedReading DEF PortReady, PortIdle
  <2>5. /\ AllOk(queue') /\ None(queue', "do_close")
        /\ None(queue', "do_read") => None(queue, "do_read")
    BY <1>0, <2>1, <2>3, <2>4, OkQueue
  <2>6. PortIdle' BY <2>1, <2>4, <2>5, NextIdle DEF Reading
  <2> QED BY <2>1, <2>6 DEF PortReady
<1>3. CASE CloseJoined
  <2>1. /\ appPc = "join" /\ thread # "run" /\ appPc' = "idle" /\ thread' = "none"
        /\ wbuf' = <<>> /\ UNCHANGED <<portOpen, queue>>
    BY <1>3 DEF CloseJoined
  <2>2. queue = <<>> /\ ~portOpen BY <2>1 DEF PortReady, PortClosing
  <2>3. PortIdle' BY <2>1, <2>2 DEF PortIdle, None, AllOk
  <2> QED BY <2>1, <2>3 DEF PortReady
<1>4. CASE close /\ portOpen
  <2> DEFINE d == Handler("do_close", "ok", 0)
  <2>1. appPc = "idle" /\ appPc' = "join" /\ queue' = Append(queue, d) /\ UNCHANGED thread
    BY <1>4 DEF close, Call
  <2>2. d \in Handlers /\ d.h = "do_close" BY HandlerType
  <2> HIDE DEF d
  <2>3. thread = "run" BY <1>4, <2>1 DEF PortReady, PortIdle, ReaderArmed
  <2>4. ~None(queue', "do_close") BY <1>0, <2>1, <2>2, OkQueue
  <2>5. PortClosing' BY <2>1, <2>3, <2>4 DEF PortClosing, None
  <2> QED BY <2>1, <2>5 DEF PortReady
<1> QED BY <1>1, <1>2, <1>3, <1>4

\* The I/O thread.
LEMMA IoKeepsReady ==
  ASSUME QueueOK(queue), RestOK, PortReady, appPc # "reopen", fault = "none", IoThread
  PROVE  PortReady' /\ appPc' = appPc
<1>1. appPc' = appPc
  BY DEF IoThread, RunDoRead, RunDoClose, RunDoWrite, RunWriteComplete, ReactorRead,
         ReactorWrite, Rearm, ThreadExit, appVars
<1> QED BY <1>1, IdleKept, ClosingKept DEF PortReady

\* Steps that leave the port and its queue alone.
LEMMA SameReady ==
  ASSUME PortReady, UNCHANGED <<portOpen, ioVars, wbuf, appPc>>
  PROVE  PortReady'
BY DEF PortReady, PortIdle, PortClosing, ReaderArmed, None, AllOk, ioVars

-----------------------------------------------------------------------------
(***************************************************************************)
(* The parts of the invariant that most steps keep in the same way.        *)
(***************************************************************************)

\* Every step of the port keeps its invariant.
LEMMA PortKeeps ==
  ASSUME QueueOK(queue), RestOK,
         IoThread \/ Application \/ LineFails \/ UNCHANGED vars
  PROVE  QueueOK(queue)' /\ RestOK'
<1>1. CASE IoThread
  BY <1>1, RunDoReadKeeps, RunDoCloseKeeps, RunDoWriteKeeps, RunWriteCompleteKeeps,
     ReactorReadKeeps, ReactorWriteKeeps, RearmKeeps, ThreadExitKeeps DEF IoThread
<1>2. CASE Application
  BY <1>2, OpenKeeps, ReopenKeeps, ReopenDeviceKeeps, PostKeeps, CloseJoinedKeeps,
     ReceiveKeeps DEF Application
<1>3. CASE LineFails BY <1>3, DeviceKeeps DEF Device
<1>4. CASE UNCHANGED vars BY <1>4, StutterKeeps
<1> QED BY <1>1, <1>2, <1>3, <1>4

\* Commands that were handed on keep their numbers.
LEMMA HandedOnNumbered ==
  ASSUME Numbered, HandsOn, calls \in Nat, calls' \in Nat, calls <= calls'
  PROVE  Numbered'
<1> SUFFICES ASSUME NEW x \in Nat, Unit(x)' PROVE x <= calls'
  BY DEF Numbered
<1>1. Unit(x) \/ x = 0 BY DEF HandsOn, Unit, InSeq, Posted
<1>2. CASE Unit(x)
  <2>1. x <= calls BY <1>2 DEF Numbered
  <2> QED BY <2>1
<1>3. CASE x = 0 BY <1>3
<1> QED BY <1>1, <1>2, <1>3

\* They stay answered, or the one that waits for its answer.
LEMMA HandedOnAccounted ==
  ASSUME Accounted, HandsOn, produced \in Nat, produced' = produced,
         tpc = "receive" => \/ tpc' = "receive" /\ lastCommand' = lastCommand
                            \/ lastCommand <= produced
  PROVE  Accounted'
<1> SUFFICES ASSUME NEW x \in Nat, Unit(x)'
             PROVE  x <= produced' \/ (tpc' = "receive" /\ x = lastCommand')
  BY DEF Accounted
<1>1. Unit(x) \/ x = 0 BY DEF HandsOn, Unit, InSeq, Posted
<1>2. CASE Unit(x)
  <2>1. x <= produced \/ (tpc = "receive" /\ x = lastCommand) BY <1>2 DEF Accounted
  <2> QED BY <2>1
<1>3. CASE x = 0 BY <1>3
<1> QED BY <1>1, <1>2, <1>3

\* Answers in a larger set.
LEMMA FlowsWiden ==
  ASSUME NEW W, Flows(W)', W \subseteq Expected'
  PROVE  Flows(Expected)'
<1>1. PICK n \in 0..ReadSize, a, b \in 0..MaxBytes : Flow(W, n, a, b)' BY DEF Flows
<1>2. Flow(Expected, n, a, b)' BY <1>1 DEF Flow, Ascends
<1> QED BY <1>2 DEF Flows

\* The answers that may be on their way are still those, or no longer all.
LEMMA ExpectedGrows ==
  ASSUME \A x \in Nat : InSeq(sent, x) => InSeq(sent', x),
         clean' => /\ clean
                   /\ tpc = "receive" => tpc' = "receive" /\ lastCommand' = lastCommand
  PROVE  Expected \subseteq Expected'
<1> SUFFICES ASSUME NEW x \in Expected PROVE x \in Expected' OBVIOUS
<1>1. /\ x \in 1..MaxBytes /\ InSeq(sent, x)
      /\ clean => tpc = "receive" /\ x = lastCommand
  BY DEF Expected
<1>2. InSeq(sent, x)' BY <1>1, SizesAssumption DEF InSeq
<1> QED BY <1>1, <1>2 DEF Expected

\* A step of the port that hands out no answer.
LEMMA StepFlows ==
  ASSUME QueueOK(queue), RestOK, answered \in 0..MaxBytes, Flows(Expected),
         \A x \in Nat : InSeq(sent, x) => InSeq(sent', x),
         \/ IoThread \/ open \/ reopen \/ ReopenDevice \/ close \/ CloseJoined \/ write
         \/ LineFails \/ UNCHANGED vars,
         answered' = answered,
         clean' => /\ clean
                   /\ tpc = "receive" => tpc' = "receive" /\ lastCommand' = lastCommand
  PROVE  Flows(Expected)'
<1>1. PICK W : W = Expected OBVIOUS
<1>2. Flows(W) BY <1>1
<1>3. Flows(W)' BY <1>2, PortFlow
<1>4. W \subseteq Expected' BY <1>1, ExpectedGrows
<1> QED BY <1>3, <1>4, FlowsWiden

\* Steps of the transport that only call the port, none of them write or receive.
LEMMA CallStep ==
  ASSUME QueueOK(queue), RestOK, Exchange,
         \/ IoThread \/ open \/ reopen \/ ReopenDevice \/ close \/ CloseJoined
         \/ LineFails \/ UNCHANGED vars,
         answered' = answered,
         clean' => /\ clean
                   /\ tpc = "receive" => tpc' = "receive" /\ lastCommand' = lastCommand
  PROVE  Numbered' /\ Flows(Expected)' /\ (clean' => Accounted')
<1>1. HandsOn BY IoHandsOn, CallsHandOn
<1>2. /\ answered \in 0..MaxBytes /\ Flows(Expected) /\ Numbered
      /\ clean => Accounted
  BY DEF Exchange, TransportTypes, CleanState
<1>3. /\ calls' = calls \/ calls' = calls + 1
      /\ produced' = produced
  BY DEF IoThread, RunDoRead, RunDoClose, RunDoWrite, RunWriteComplete, ReactorRead,
         ReactorWrite, Rearm, ThreadExit, open, reopen, ReopenDevice, close, CloseJoined,
         LineFails, Call, vars, appVars, devVars
<1>4. calls \in Nat /\ calls' \in Nat /\ calls <= calls' /\ produced \in Nat
  BY <1>3, SizesAssumption DEF RestOK
<1>5. Numbered' BY <1>1, <1>2, <1>4, HandedOnNumbered
<1>6. \A x \in Nat : InSeq(sent, x) => InSeq(sent', x) BY <1>1 DEF HandsOn
<1>7. Flows(Expected)' BY <1>2, <1>6, StepFlows
<1>8. ASSUME clean' PROVE Accounted' BY <1>1, <1>2, <1>3, <1>4, <1>8, HandedOnAccounted
<1> QED BY <1>5, <1>7, <1>8

-----------------------------------------------------------------------------
(***************************************************************************)
(* The steps of the transport, one after the other.                        *)
(***************************************************************************)

\* sendCommand.
LEMMA sendCommandKeeps ==
  ASSUME QueueOK(queue), RestOK, Exchange, sendCommand PROVE Exchange'
<1>1. /\ tpc = "idle" /\ appPc = "idle" /\ tpc' \in {"connect", "receive"}
      /\ lastCommand' = 0 /\ lastResult' = <<>> /\ UNCHANGED <<vars, answered, clean>>
  BY DEF sendCommand
<1>2. TransportTypes' BY <1>1, SizesAssumption DEF Exchange, TransportTypes
<1>3. Numbered' /\ Flows(Expected)' /\ (clean' => Accounted')
  BY <1>1, CallStep
<1>4. ASSUME clean' PROVE CleanState'
  <2>1. CleanState BY <1>1, <1>4 DEF Exchange
  <2>2. PortReady' BY <1>1, <2>1, SameReady DEF CleanState, vars, ioVars, bufVars, appVars
  <2>3. fault' = "none" /\ appPc' = "idle"
    BY <1>1, <2>1 DEF CleanState, vars, devVars, appVars
  <2> QED BY <1>1, <1>3, <1>4, <2>2, <2>3 DEF CleanState, ResultOfTheCommand
<1> QED BY <1>2, <1>3, <1>4 DEF Exchange

\* connect: a port that was closed is armed when it is opened.
LEMMA connectKeeps ==
  ASSUME QueueOK(queue), RestOK, Exchange, connect PROVE Exchange'
<1>1. /\ tpc = "connect" /\ UNCHANGED <<lastCommand, lastResult, answered, clean>>
      /\ \/ portOpen /\ tpc' = "send" /\ UNCHANGED vars
         \/ open /\ tpc' = "configure"
  BY DEF connect
<1>2. TransportTypes' /\ lastResult' = <<>> BY <1>1 DEF Exchange, TransportTypes
<1>3. Numbered' /\ Flows(Expected)' /\ (clean' => Accounted')
  BY <1>1, CallStep
<1>4. ASSUME clean' PROVE CleanState'
  <2>1. CleanState BY <1>1, <1>4 DEF Exchange
  <2>2. PortReady' /\ portOpen' /\ fault' = "none" /\ appPc' = "idle"
    <3>1. CASE portOpen /\ UNCHANGED vars
      BY <1>1, <2>1, <3>1, SameReady DEF CleanState, vars, ioVars, bufVars, appVars, devVars
    <3>2. CASE open
      <4>1. portOpen' /\ fault' = "none" /\ appPc' = appPc /\ appPc = "idle"
        BY <3>2 DEF open, Call
      <4> QED BY <2>1, <3>2, <4>1, CallsKeepReady DEF CleanState
    <3> QED BY <1>1, <3>1, <3>2
  <2> QED BY <1>1, <1>2, <1>3, <1>4, <2>2 DEF CleanState, ResultOfTheCommand
<1> QED BY <1>2, <1>3, <1>4 DEF Exchange

\* configure and its second try.
LEMMA configureKeeps ==
  ASSUME QueueOK(queue), RestOK, Exchange, configure \/ reconfigure PROVE Exchange'
<1>1. CASE configure
  <2>1. /\ tpc = "configure" /\ UNCHANGED <<lastCommand, lastResult, answered>>
        /\ \/ tpc' = "send" /\ UNCHANGED <<vars, clean>>
           \/ reopen /\ tpc' = "reconfigure" /\ clean' = FALSE
    BY <1>1 DEF configure
  <2>2. TransportTypes' /\ lastResult' = <<>> BY <2>1 DEF Exchange, TransportTypes
  <2>3. Numbered' /\ Flows(Expected)' /\ (clean' => Accounted')
    BY <2>1, CallStep
  <2>4. ASSUME clean' PROVE CleanState'
    <3>1. CleanState /\ UNCHANGED vars /\ tpc' = "send" BY <2>1, <2>4 DEF Exchange
    <3>2. PortReady' /\ portOpen' /\ fault' = "none" /\ appPc' = "idle"
      BY <2>1, <3>1, SameReady DEF CleanState, vars, ioVars, bufVars, appVars, devVars
    <3> QED BY <2>2, <2>3, <2>4, <3>1, <3>2 DEF CleanState, ResultOfTheCommand
  <2> QED BY <2>2, <2>3, <2>4 DEF Exchange
<1>2. CASE reconfigure
  <2>1. /\ tpc = "reconfigure" /\ ReopenDevice /\ tpc' \in {"send", "idle"}
        /\ UNCHANGED <<lastCommand, lastResult, answered, clean>>
    BY <1>2 DEF reconfigure
  <2>2. TransportTypes' BY <2>1 DEF Exchange, TransportTypes
  <2>3. ~clean' BY <2>1 DEF Exchange, CleanState
  <2>4. Numbered' /\ Flows(Expected)' BY <2>1, <2>3, CallStep
  <2> QED BY <2>2, <2>3, <2>4 DEF Exchange
<1> QED BY <1>1, <1>2

\* send: the command is the newest of all.
LEMMA sendKeeps ==
  ASSUME QueueOK(queue), RestOK, Exchange, send PROVE Exchange'
<1>1. tpc = "send" /\ UNCHANGED <<lastResult, answered, clean>> BY DEF send
<1>2. CASE write /\ lastCommand' = calls' /\ tpc' = "receive"
  <2> DEFINE w == Handler("do_write", "ok", calls')
  <2>1. /\ appPc = "idle" /\ portOpen /\ queue' = Append(queue, w)
        /\ calls < MaxCalls /\ calls' = calls + 1
        /\ UNCHANGED <<portOpen, wbuf, fault, produced, sent, appPc>>
    BY <1>2 DEF write, Call, bufVars, devVars
  <2>2. /\ calls \in Nat /\ calls' \in Nat /\ calls' \in 0..MaxCalls /\ calls <= calls'
        /\ produced \in Nat
    BY <2>1, SizesAssumption DEF RestOK
  <2>3. w \in Handlers /\ w.h = "do_write" /\ w.n = calls' BY <2>2, HandlerType
  <2> HIDE DEF w
  <2>4. ASSUME NEW x \in Nat, Unit(x)' PROVE Unit(x) \/ x = calls'
    <3>1. queue \in Seq(Handlers) BY DEF QueueOK
    <3>2. Posted(Append(queue, w), x) => Posted(queue, x) \/ x = calls'
      BY <2>3, <3>1, PostedParts
    <3>3. InSeq(sent, x) \/ InSeq(wbuf, x) \/ Posted(Append(queue, w), x)
      BY <2>1, <2>4 DEF Unit, InSeq, Posted
    <3> QED BY <3>2, <3>3 DEF Unit
  <2>5. TransportTypes' /\ lastResult' = <<>>
    BY <1>1, <1>2, <2>2 DEF Exchange, TransportTypes
  <2>6. Numbered'
    <3> SUFFICES ASSUME NEW x \in Nat, Unit(x)' PROVE x <= calls' BY DEF Numbered
    <3>1. CASE Unit(x)
      <4>1. x <= calls BY <3>1 DEF Exchange, Numbered
      <4> QED BY <2>2, <4>1
    <3>2. CASE x = calls' BY <2>2, <3>2
    <3> QED BY <2>4, <3>1, <3>2
  <2>7. Flows(Expected)'
    <3>1. answered \in 0..MaxBytes /\ Flows(Expected) BY DEF Exchange, TransportTypes
    <3>2. \A x \in Nat : InSeq(sent, x) => InSeq(sent', x) BY <2>1
    <3> QED BY <1>1, <1>2, <3>1, <3>2, StepFlows
  <2>8. ASSUME clean' PROVE CleanState'
    <3>1. CleanState BY <1>1, <2>8 DEF Exchange
    <3>2. Accounted'
      <4> SUFFICES ASSUME NEW x \in Nat, Unit(x)'
                   PROVE  x <= produced' \/ (tpc' = "receive" /\ x = lastCommand')
        BY DEF Accounted
      <4>1. CASE Unit(x)
        <5>1. x <= produced BY <1>1, <3>1, <4>1 DEF CleanState, Accounted
        <5> QED BY <2>1, <5>1
      <4>2. CASE x = calls' BY <1>2, <4>2
      <4> QED BY <2>4, <4>1, <4>2
    <3>3. PortReady' BY <1>2, <3>1, CallsKeepReady DEF CleanState
    <3>4. fault' = "none" BY <2>1, <3>1 DEF CleanState
    <3> QED BY <1>2, <2>1, <2>5, <3>2, <3>3, <3>4 DEF CleanState, ResultOfTheCommand
  <2> QED BY <2>5, <2>6, <2>7, <2>8 DEF Exchange
<1>3. CASE ~portOpen /\ tpc' = "idle" /\ UNCHANGED <<vars, lastCommand>>
  <2>1. TransportTypes' BY <1>1, <1>3 DEF Exchange, TransportTypes
  <2>2. ~clean' BY <1>1, <1>3 DEF Exchange, CleanState
  <2>3. Numbered' /\ Flows(Expected)' BY <1>1, <1>3, <2>2, CallStep
  <2> QED BY <2>1, <2>2, <2>3 DEF Exchange
<1> QED BY <1>2, <1>3 DEF send

\* Behind the only answer there can be, there is none.
LEMMA FlowsNothing ==
  ASSUME NEW W, NEW c \in Nat, W \subseteq {c}, Flows(W)', answered' \in Nat, c <= answered'
  PROVE  Flows({})'
<1>1. PICK n \in 0..ReadSize, a, b \in 0..MaxBytes : Flow(W, n, a, b)' BY DEF Flows
<1>2. a \in Nat /\ b \in Nat BY SizesAssumption
<1>3. /\ Ascends(circ', Len(circ'), answered', a, W) /\ Ascends(rbuf', n, a, b, W)
      /\ Ascends(line', Len(line'), b, produced', W) /\ Waits(queue', n)
  BY <1>1 DEF Flow, Ascends, Waits, None
<1>4. c <= a /\ c <= b BY <1>2, <1>3 DEF Ascends
<1>5. ASSUME NEW s, NEW m, NEW lo \in Nat, NEW hi, c <= lo, Ascends(s, m, lo, hi, W)
      PROVE  Ascends(s, m, lo, hi, {})
  <2>1. ASSUME NEW i \in 1..m PROVE FALSE
    <3>1. s[i] = c /\ lo < s[i] BY <1>5, <2>1 DEF Ascends
    <3> QED BY <1>5, <3>1
  <2> QED BY <1>5, <2>1 DEF Ascends
<1>6. /\ Ascends(circ', Len(circ'), answered', a, {}) /\ Ascends(rbuf', n, a, b, {})
      /\ Ascends(line', Len(line'), b, produced', {})
  BY <1>2, <1>3, <1>4, <1>5
<1> QED BY <1>3, <1>6, NextFlow

\* A turn of receive that finds no frame.
LEMMA EmptyTurnKeeps ==
  ASSUME QueueOK(queue), RestOK, Exchange, ReceiveFrame, frame' = <<>> PROVE Exchange'
<1>1. /\ tpc = "receive" /\ appPc = "idle" /\ portOpen /\ read(frame', circ')
      /\ lastResult' = <<>> /\ tpc' = "receive"
      /\ UNCHANGED <<portOpen, ioVars, rbuf, wbuf, devVars, appPc, calls, reused>>
      /\ UNCHANGED <<answered, lastCommand, clean>>
  BY DEF ReceiveFrame, receive
<1>2. TransportTypes' BY <1>1 DEF Exchange, TransportTypes
<1>3. HandsOn BY <1>1 DEF HandsOn, Unit, ioVars, devVars
<1>4. /\ calls \in Nat /\ calls' = calls /\ calls <= calls
      /\ produced \in Nat /\ produced' = produced
  BY <1>1, SizesAssumption DEF RestOK, devVars
<1>5. Numbered' BY <1>3, <1>4, HandedOnNumbered DEF Exchange
<1>6. Flows(Expected)'
  <2>1. PICK W : W = Expected OBVIOUS
  <2>2. PICK n \in 0..ReadSize, a, b \in 0..MaxBytes : Flow(W, n, a, b)
    BY <2>1 DEF Exchange, Flows
  <2>3. a \in Nat /\ answered \in Nat BY SizesAssumption DEF Exchange, TransportTypes
  <2>4. Ascends(circ, Len(circ), answered, a, W) BY <2>2 DEF Flow
  <2>5. Ascends(circ', Len(circ'), answered', a, W) BY <1>1, <2>3, <2>4, ReadAscends
  <2>6. /\ Waits(queue', n) /\ Ascends(rbuf', n, a, b, W)
        /\ Ascends(line', Len(line'), b, produced', W)
    BY <1>1, <2>2 DEF Flow, ioVars, devVars
  <2>7. Flows(W)' BY <2>5, <2>6, NextFlow
  <2>8. W \subseteq Expected' BY <1>1, <2>1, ExpectedGrows DEF devVars
  <2> QED BY <2>7, <2>8, FlowsWiden
<1>7. ASSUME clean' PROVE CleanState'
  <2>1. CleanState BY <1>1, <1>7 DEF Exchange
  <2>2. PortReady' BY <1>1, <2>1, SameReady DEF CleanState
  <2>3. fault' = "none" /\ appPc' = "idle" /\ portOpen' BY <1>1, <2>1 DEF CleanState, devVars
  <2>4. Accounted' BY <1>1, <1>3, <1>4, <2>1, HandedOnAccounted DEF CleanState
  <2> QED BY <1>1, <2>2, <2>3, <2>4 DEF CleanState, ResultOfTheCommand
<1> QED BY <1>2, <1>5, <1>6, <1>7 DEF Exchange

\* A turn that finds one: the answers come in order, and while nothing went wrong
\* it is the one answer to the command.
LEMMA FrameKeeps ==
  ASSUME QueueOK(queue), RestOK, Exchange, ReceiveFrame, frame' # <<>>
  PROVE  /\ Exchange'
         /\ answered < frame'[1] /\ InSeq(sent, frame'[1])
<1>1. /\ tpc = "receive" /\ appPc = "idle" /\ portOpen /\ read(frame', circ')
      /\ lastResult' = frame' /\ tpc' = "idle" /\ answered' = frame'[Len(frame')]
      /\ UNCHANGED <<portOpen, ioVars, rbuf, wbuf, devVars, appPc, calls, reused>>
      /\ UNCHANGED <<lastCommand, clean>>
  BY DEF ReceiveFrame, receive
<1>2. PICK W : W = Expected OBVIOUS
<1>3. PICK n \in 0..ReadSize, a, b \in 0..MaxBytes : Flow(W, n, a, b)
  BY <1>2 DEF Exchange, Flows
<1>4. /\ a \in Nat /\ b \in Nat /\ answered \in Nat /\ produced \in Nat
      /\ lastCommand \in Nat
  BY SizesAssumption DEF Exchange, TransportTypes, RestOK
<1>5. Ascends(circ, Len(circ), answered, a, W) BY <1>3 DEF Flow
<1>6. /\ Len(frame') \in Nat \ {0}
      /\ Ascends(frame', Len(frame'), answered, answered', W)
      /\ answered' \in Nat /\ answered' <= a
      /\ Ascends(circ', Len(circ'), answered', a, W)
  BY <1>1, <1>4, <1>5, ReadAscends
<1>7. 1 \in 1..Len(frame') /\ Len(frame') \in 1..Len(frame') BY <1>6
<1>8. /\ frame'[1] \in W /\ answered < frame'[1] /\ answered' \in W
  BY <1>1, <1>6, <1>7 DEF Ascends
<1>9. InSeq(sent, frame'[1]) BY <1>2, <1>8 DEF Expected
<1>10. /\ Waits(queue', n) /\ Ascends(rbuf', n, a, b, W)
       /\ Ascends(line', Len(line'), b, produced', W)
  BY <1>1, <1>3 DEF Flow, ioVars, devVars
<1>11. Flows(W)' BY <1>6, <1>10, NextFlow
<1>12. a <= b /\ b <= produced BY <1>3 DEF Flow, Ascends
<1>13. clean => W \subseteq {lastCommand} /\ answered' = lastCommand
  BY <1>2, <1>8 DEF Expected
<1>14. Flows(Expected)'
  <2>1. CASE clean
    <3>1. lastCommand <= answered' BY <1>4, <1>6, <1>13, <2>1
    <3>2. Flows({})' BY <1>4, <1>6, <1>11, <1>13, <2>1, <3>1, FlowsNothing
    <3> QED BY <3>2, FlowsWiden
  <2>2. CASE ~clean
    <3>1. W \subseteq Expected' BY <1>1, <1>2, <2>2, ExpectedGrows DEF devVars
    <3> QED BY <1>11, <3>1, FlowsWiden
  <2> QED BY <2>1, <2>2
<1>15. frame' \in Seq(Nat) BY <1>1, ReadKeeps
<1>16. answered' \in 0..MaxBytes BY <1>4, <1>6, SizesAssumption
<1>17. TransportTypes' BY <1>1, <1>15, <1>16 DEF Exchange, TransportTypes
<1>18. HandsOn BY <1>1 DEF HandsOn, Unit, ioVars, devVars
<1>19. calls \in Nat /\ calls' = calls /\ calls <= calls /\ produced' = produced
  BY <1>1, SizesAssumption DEF RestOK, devVars
<1>20. Numbered' BY <1>18, <1>19, HandedOnNumbered DEF Exchange
<1>21. ASSUME clean' PROVE CleanState'
  <2>1. clean /\ CleanState BY <1>1, <1>21 DEF Exchange
  <2>2. PortReady' BY <1>1, <2>1, SameReady DEF CleanState
  <2>3. fault' = "none" /\ appPc' = "idle" BY <1>1, <2>1 DEF CleanState, devVars
  <2>4. lastCommand <= produced BY <1>4, <1>6, <1>12, <1>13, <2>1
  <2>5. Accounted' BY <1>4, <1>18, <1>19, <2>1, <2>4, HandedOnAccounted DEF CleanState
  <2>6. frame' = <<lastCommand>>
    <3>1. \A i \in 1..Len(frame') : frame'[i] = lastCommand
      BY <1>6, <1>13, <2>1 DEF Ascends
    <3>2. Len(frame') = 1
      <4>1. SUFFICES ASSUME Len(frame') # 1 PROVE FALSE OBVIOUS
      <4>a. Len(frame') \in Nat \ {0} BY <1>6
      <4>2. 1 \in 1..Len(frame') /\ 2 \in 1..Len(frame') /\ 1 < 2 BY <4>1, <4>a
      <4>3. frame'[1] < frame'[2] BY <1>6, <4>2 DEF Ascends
      <4> QED BY <1>4, <3>1, <4>2, <4>3
    <3> QED BY <1>15, <3>1, <3>2
  <2> QED BY <1>1, <2>2, <2>3, <2>5, <2>6 DEF CleanState, ResultOfTheCommand
<1> QED BY <1>8, <1>9, <1>14, <1>17, <1>20, <1>21 DEF Exchange

\* receive gives up, or finds the port closed.
LEMMA GiveUpKeeps ==
  ASSUME QueueOK(queue), RestOK, Exchange, ReceiveThrows \/ ReceiveTimeout PROVE Exchange'
<1>0. clean' \in BOOLEAN /\ (clean' => clean)
  <2>1. clean \in BOOLEAN BY DEF Exchange, TransportTypes
  <2>2. CASE ReceiveThrows BY <2>1, <2>2 DEF ReceiveThrows
  <2>3. CASE ReceiveTimeout
    <3>1. clean' = (clean /\ ~AnswerPending) BY <2>3 DEF ReceiveTimeout
    <3> QED BY <3>1
  <2> QED BY <2>2, <2>3
<1>1. /\ tpc = "receive" /\ tpc' = "idle" /\ (clean' => clean)
      /\ UNCHANGED <<vars, lastCommand, lastResult, answered>>
      /\ clean' \in BOOLEAN
  BY <1>0 DEF ReceiveThrows, ReceiveTimeout
<1>2. TransportTypes' BY <1>1 DEF Exchange, TransportTypes
<1>3. HandsOn BY <1>1, CallsHandOn
<1>4. /\ calls \in Nat /\ calls' = calls /\ calls <= calls
      /\ produced \in Nat /\ produced' = produced
  BY <1>1, SizesAssumption DEF RestOK, vars, devVars, appVars
<1>5. Numbered' BY <1>3, <1>4, HandedOnNumbered DEF Exchange
<1>6. PICK W : W = Expected OBVIOUS
<1>7. Flows(W)'
  <2>1. Flows(W) /\ answered \in 0..MaxBytes BY <1>6 DEF Exchange, TransportTypes
  <2> QED BY <1>1, <2>1, PortFlow
<1>8. CASE ~clean'
  <2>1. W \subseteq Expected' BY <1>1, <1>6, <1>8, ExpectedGrows DEF vars, devVars
  <2>2. Flows(Expected)' BY <1>7, <2>1, FlowsWiden
  <2> QED BY <1>2, <1>5, <1>8, <2>2 DEF Exchange
<1>9. CASE clean'
  <2>1. clean /\ CleanState BY <1>1, <1>9 DEF Exchange
  <2>2. Flows({})' /\ lastCommand <= produced
    <3>1. CASE ReceiveThrows
      <4>1. lastCommand = 0 BY <1>1, <2>1, <3>1 DEF ReceiveThrows, CleanState
      <4>2. W \subseteq {0} BY <1>6, <2>1, <4>1 DEF Expected
      <4>3. answered' \in Nat /\ 0 <= answered' /\ 0 \in Nat
        BY <1>2, SizesAssumption DEF TransportTypes
      <4>4. Flows({})' BY <1>7, <4>2, <4>3, FlowsNothing
      <4> QED BY <1>4, <4>1, <4>4
    <3>2. CASE ReceiveTimeout
      <4>1. /\ ~(produced < lastCommand) /\ line = <<>> /\ circ = <<>>
            /\ None(queue, "do_read")
        BY <1>9, <3>2 DEF ReceiveTimeout, AnswerPending
      <4>2. lastCommand \in Nat BY SizesAssumption DEF Exchange, TransportTypes
      <4>3. PICK n \in 0..ReadSize, a, b \in 0..MaxBytes : Flow(W, n, a, b)'
        BY <1>7 DEF Flows
      <4>4. UNCHANGED <<queue, circ, rbuf, line, answered, produced>>
        BY <1>1 DEF vars, ioVars, bufVars, devVars
      <4>5. /\ n = 0 /\ Waits(queue', n)
        BY <4>1, <4>3, <4>4 DEF Flow, Waits, None
      <4>6. answered' <= a /\ a <= b /\ b <= produced'
        BY <4>3 DEF Flow, Ascends
      <4>7. Len(circ') = 0 /\ Len(line') = 0 BY <4>1, <4>4
      <4>8. a \in Nat /\ b \in Nat /\ answered' \in Nat /\ produced' \in Nat
        BY <1>2, <1>4, SizesAssumption DEF TransportTypes
      <4>9. /\ Ascends(circ', Len(circ'), answered', a, {}) /\ Ascends(rbuf', n, a, b, {})
            /\ Ascends(line', Len(line'), b, produced', {})
        BY <4>5, <4>6, <4>7, <4>8, AscendsEmpty
      <4>10. Flows({})' BY <4>5, <4>9, NextFlow
      <4> QED BY <1>4, <4>1, <4>2, <4>10
    <3> QED BY <3>1, <3>2
  <2>3. Flows(Expected)' BY <2>2, FlowsWiden
  <2>4. Accounted' BY <1>3, <1>4, <2>1, <2>2, HandedOnAccounted DEF CleanState
  <2>5. PortReady' BY <1>1, <2>1, SameReady DEF CleanState, vars, ioVars, bufVars, appVars
  <2>6. fault' = "none" /\ appPc' = "idle"
    BY <1>1, <2>1 DEF CleanState, vars, devVars, appVars
  <2>7. lastResult' = <<>> BY <1>1 DEF Exchange, TransportTypes
  <2>8. CleanState' BY <1>1, <2>4, <2>5, <2>6, <2>7 DEF CleanState, ResultOfTheCommand
  <2> QED BY <1>2, <1>5, <2>3, <2>8 DEF Exchange
<1> QED BY <1>8, <1>9

\* disconnect and its end.
LEMMA disconnectKeeps ==
  ASSUME QueueOK(queue), RestOK, Exchange, disconnect \/ Disconnected PROVE Exchange'
<1>1. /\ UNCHANGED <<tpc, lastCommand, lastResult, answered, clean>>
      /\ (tpc = "idle" /\ portOpen /\ close) \/ CloseJoined
  BY DEF disconnect, Disconnected, transportVars
<1>2. TransportTypes' BY <1>1 DEF Exchange, TransportTypes
<1>3. Numbered' /\ Flows(Expected)' /\ (clean' => Accounted')
  BY <1>1, CallStep
<1>4. ASSUME clean' PROVE CleanState'
  <2>1. CleanState BY <1>1, <1>4 DEF Exchange
  <2>2. tpc = "idle"
    <3>1. CloseJoined => appPc = "join" BY DEF CloseJoined
    <3> QED BY <1>1, <2>1, <3>1 DEF CleanState
  <2>3. PortReady' /\ appPc' # "reopen" BY <1>1, <2>1, CallsKeepReady DEF CleanState
  <2>4. fault' = "none" BY <1>1, <2>1 DEF CleanState, close, CloseJoined, devVars
  <2>5. ResultOfTheCommand' BY <1>1, <2>1 DEF CleanState, ResultOfTheCommand
  <2> QED BY <1>1, <1>3, <1>4, <2>2, <2>3, <2>4, <2>5 DEF CleanState
<1> QED BY <1>2, <1>3, <1>4 DEF Exchange

\* The reader answers a command it received, behind the answers of before.
LEMMA AnswerKeeps ==
  ASSUME QueueOK(queue), RestOK, Exchange, ReaderAnswers
  PROVE  QueueOK(queue)' /\ RestOK' /\ Exchange'
<1>1. /\ portOpen
      /\ UNCHANGED <<portOpen, ioVars, bufVars, fault, sent, appVars, transportVars>>
  BY DEF ReaderAnswers
<1>2. PICK i \in DOMAIN sent : /\ sent[i] > produced /\ sent[i] <= MaxBytes
                               /\ produced' = sent[i] /\ line' = Append(line, sent[i])
  BY DEF ReaderAnswers
<1>3. PICK v \in Nat : v = sent[i]
  <2>1. sent \in Seq(Nat) BY DEF RestOK
  <2>2. sent[i] \in Nat BY <2>1
  <2> QED BY <2>2
<1>4. /\ InSeq(sent, v) /\ v > produced /\ v <= MaxBytes
      /\ produced' = v /\ line' = Append(line, v)
  BY <1>2, <1>3 DEF InSeq
<1>5. produced \in Nat /\ line \in Seq(Nat) BY SizesAssumption DEF RestOK
<1>6. v \in 1..MaxBytes BY <1>4, <1>5, SizesAssumption
<1>7. QueueOK(queue)' BY <1>1, NextQueue DEF QueueOK, ioVars, bufVars
<1>8. RestOK'
  <2>1. BufferOK' BY <1>1, BufferUnchanged DEF RestOK, BufferOK, ChunkFits, ioVars, bufVars
  <2>2. line' \in Seq(Nat) /\ produced' \in 0..MaxBytes BY <1>4, <1>5, <1>6
  <2> QED BY <1>1, <2>1, <2>2 DEF RestOK, BufferOK, ioVars, bufVars, appVars
<1>9. HandsOn BY <1>1 DEF HandsOn, Unit, ioVars, bufVars
<1>10. calls \in Nat /\ calls' = calls /\ calls <= calls
  BY <1>1, SizesAssumption DEF RestOK, appVars
<1>11. Numbered' BY <1>9, <1>10, HandedOnNumbered DEF Exchange
<1>12. TransportTypes' BY <1>1 DEF Exchange, TransportTypes, transportVars
<1>13. v \in Expected'
  <2>1. clean => tpc = "receive" /\ v = lastCommand
    <3>1. ~(v <= produced) BY <1>4, <1>5
    <3> QED BY <1>4, <3>1 DEF Exchange, CleanState, Accounted, Unit
  <2>2. InSeq(sent, v)' BY <1>1, <1>4 DEF InSeq
  <2> QED BY <1>1, <1>6, <2>1, <2>2 DEF Expected, transportVars
<1>14. Flows(Expected)'
  <2>1. PICK W : W = Expected OBVIOUS
  <2>2. PICK V : V = W \cup {v} OBVIOUS
  <2>3. PICK n \in 0..ReadSize, a, b \in 0..MaxBytes : Flow(W, n, a, b)
    BY <2>1 DEF Exchange, Flows
  <2>4. a \in Nat /\ b \in Nat /\ answered \in Nat
    BY SizesAssumption DEF Exchange, TransportTypes
  <2>5. /\ Ascends(circ, Len(circ), answered, a, V) /\ Ascends(rbuf, n, a, b, V)
        /\ Ascends(line, Len(line), b, produced, V) /\ Waits(queue, n)
    BY <2>2, <2>3 DEF Flow, Ascends
  <2>6. Ascends(line', Len(line'), b, produced', V)
    <3>1. <<v>> \in Seq(Nat) /\ Len(<<v>>) = 1 /\ <<v>>[1] = v /\ line' = line \o <<v>>
      BY <1>4, <1>5
    <3>2. v \in V /\ produced < v BY <1>4, <1>5, <2>2
    <3>3. Ascends(<<v>>, 1, produced, v, V)
      <4>1. \A k \in 1..1 : k = 1 OBVIOUS
      <4>2. produced <= v /\ v <= v BY <1>5, <3>2
      <4> QED BY <3>1, <3>2, <4>1, <4>2 DEF Ascends
    <3> QED BY <1>4, <1>5, <2>4, <2>5, <3>1, <3>3, AscendsConcat
  <2>7. UNCHANGED <<circ, rbuf, queue, answered>> BY <1>1 DEF ioVars, bufVars, transportVars
  <2>8. Flows(V)' BY <2>5, <2>6, <2>7, NextFlow
  <2>9. W \subseteq Expected' BY <1>1, <2>1, ExpectedGrows DEF transportVars
  <2> QED BY <1>13, <2>2, <2>8, <2>9, FlowsWiden
<1>15. ASSUME clean' PROVE CleanState'
  <2>1. CleanState BY <1>1, <1>15 DEF Exchange, transportVars
  <2>2. PortReady' BY <1>1, <2>1, SameReady DEF CleanState, bufVars, appVars
  <2>3. Accounted'
    <3> SUFFICES ASSUME NEW x \in Nat, Unit(x)'
                 PROVE  x <= produced' \/ (tpc' = "receive" /\ x = lastCommand')
      BY DEF Accounted
    <3>1. Unit(x) BY <1>1 DEF Unit, InSeq, Posted, ioVars, bufVars
    <3>2. x <= produced \/ (tpc = "receive" /\ x = lastCommand)
      BY <2>1, <3>1 DEF CleanState, Accounted
    <3> QED BY <1>1, <1>4, <1>5, <3>2 DEF transportVars
  <2> QED
    BY <1>1, <2>1, <2>2, <2>3 DEF CleanState, ResultOfTheCommand, appVars, transportVars
<1> QED BY <1>7, <1>8, <1>11, <1>12, <1>14, <1>15 DEF Exchange

\* The I/O thread, a failing line, and steps that change nothing.
LEMMA BackgroundKeeps ==
  ASSUME QueueOK(queue), RestOK, Exchange,
         \/ (IoThread \/ UNCHANGED vars) /\ UNCHANGED transportVars
         \/ LineFails /\ clean' = FALSE /\ UNCHANGED <<tpc, lastCommand, lastResult, answered>>
  PROVE  Exchange'
<1>1. /\ UNCHANGED <<tpc, lastCommand, lastResult, answered>>
      /\ IoThread \/ UNCHANGED vars \/ LineFails
      /\ clean' = FALSE \/ (clean' = clean /\ (IoThread \/ UNCHANGED vars))
  BY DEF transportVars
<1>2. TransportTypes'
  <2>1. clean' \in BOOLEAN BY <1>1 DEF Exchange, TransportTypes
  <2> QED BY <1>1, <2>1 DEF Exchange, TransportTypes
<1>3. Numbered' /\ Flows(Expected)' /\ (clean' => Accounted')
  BY <1>1, CallStep
<1>4. ASSUME clean' PROVE CleanState'
  <2>1. CleanState /\ (IoThread \/ UNCHANGED vars) BY <1>1, <1>4 DEF Exchange
  <2>2. PortReady' /\ appPc' = appPc /\ fault' = "none"
    <3>1. CASE IoThread
      <4>1. fault' = fault
        BY <3>1 DEF IoThread, RunDoRead, RunDoClose, RunDoWrite, RunWriteComplete,
             ReactorRead, ReactorWrite, Rearm, ThreadExit, devVars
      <4> QED BY <2>1, <3>1, <4>1, IoKeepsReady DEF CleanState
    <3>2. CASE UNCHANGED vars
      BY <2>1, <3>2, SameReady DEF CleanState, vars, ioVars, bufVars, appVars, devVars
    <3> QED BY <2>1, <3>1, <3>2
  <2>3. ASSUME portOpen, appPc = "idle" PROVE portOpen'
    <3>1. CASE IoThread
      <4>1. PortIdle /\ PortIdle'
        BY <2>1, <2>2, <2>3 DEF CleanState, PortReady
      <4>2. thread = "run" BY <3>1, IoRuns
      <4>3. thread' # "none" BY <3>1, <4>2, IoRuns DEF ThreadExit
      <4> QED BY <4>1, <4>3 DEF PortIdle
    <3>2. CASE UNCHANGED vars BY <2>3, <3>2 DEF vars
    <3> QED BY <2>1, <3>1, <3>2
  <2> QED BY <1>1, <1>3, <1>4, <2>1, <2>2, <2>3 DEF CleanState, ResultOfTheCommand
<1> QED BY <1>2, <1>3, <1>4 DEF Exchange

-----------------------------------------------------------------------------
(***************************************************************************)
(* The theorems.                                                           *)
(***************************************************************************)

\* At first nothing is on its way.
LEMMA InitExchange == ASSUME TInit PROVE Exchange
<1>1. /\ portOpen = FALSE /\ thread = "none" /\ queue = <<>> /\ circ = <<>> /\ rbuf = <<>>
      /\ wbuf = <<>> /\ line = <<>> /\ sent = <<>> /\ fault = "none" /\ produced = 0
      /\ appPc = "idle" /\ calls = 0 /\ tpc = "idle" /\ lastCommand = 0
      /\ lastResult = <<>> /\ answered = 0 /\ clean = TRUE
  BY DEF TInit, Init
<1>2. TransportTypes BY <1>1, SizesAssumption DEF TransportTypes
<1>3. \A x : ~Unit(x) BY <1>1 DEF Unit, InSeq, Posted
<1>4. Numbered /\ Accounted BY <1>3 DEF Numbered, Accounted
<1>5. None(queue, "do_read") /\ None(queue, "do_close") /\ AllOk(queue)
  BY <1>1 DEF None, AllOk
<1>6. CleanState
  BY <1>1, <1>4, <1>5 DEF CleanState, PortReady, PortIdle, ResultOfTheCommand
<1>7. Flows(Expected)
  <2>1. Waits(queue, 0) BY <1>1 DEF Waits
  <2>2. Len(circ) = 0 /\ Len(line) = 0 /\ 0 \in Nat /\ 0 <= 0 BY <1>1
  <2>3. Flow(Expected, 0, 0, 0) BY <1>1, <2>1, <2>2, AscendsEmpty DEF Flow
  <2>4. 0 \in 0..ReadSize /\ 0 \in 0..MaxBytes BY SizesAssumption
  <2> QED BY <2>3, <2>4 DEF Flows
<1> QED BY <1>2, <1>4, <1>6, <1>7 DEF Exchange

\* Every step keeps the invariant and hands out answers in their order.
LEMMA StepExchange ==
  ASSUME TInv, [TNext]_tvars
  PROVE  /\ TInv'
         /\ lastResult' # <<>> /\ lastResult' # lastResult =>
              /\ answered < lastResult'[1]
              /\ \E i \in DOMAIN sent : sent[i] = lastResult'[1]
<1>1. QueueOK(queue) /\ RestOK /\ Exchange BY SplitInvariant DEF TInv
<1>2. ASSUME QueueOK(queue)', RestOK' PROVE IInv'
  <2>1. (QueueOK(queue) /\ RestOK => IInv)' BY SplitInvariant, PTL
  <2> QED BY <1>2, <2>1
<1>3. CASE sendCommand \/ connect \/ configure \/ reconfigure \/ send
  <2>1. Exchange'
    BY <1>1, <1>3, sendCommandKeeps, connectKeeps, configureKeeps, sendKeeps
  <2>2. QueueOK(queue)' /\ RestOK'
    <3>1. Application \/ UNCHANGED vars
      BY <1>3 DEF sendCommand, connect, configure, reconfigure, send, Application
    <3> QED BY <1>1, <3>1, PortKeeps
  <2>3. lastResult' = <<>> \/ lastResult' = lastResult
    BY <1>3 DEF sendCommand, connect, configure, reconfigure, send
  <2> QED BY <1>2, <2>1, <2>2, <2>3 DEF TInv
<1>4. CASE ReceiveFrame
  <2>1. QueueOK(queue)' /\ RestOK' BY <1>1, <1>4, PortKeeps DEF ReceiveFrame, Application
  <2>2. lastResult' = frame' BY <1>4 DEF ReceiveFrame
  <2>3. CASE frame' = <<>> BY <1>1, <1>2, <1>4, <2>1, <2>2, <2>3, EmptyTurnKeeps DEF TInv
  <2>4. CASE frame' # <<>>
    <3>1. Exchange' /\ answered < frame'[1] /\ InSeq(sent, frame'[1])
      BY <1>1, <1>4, <2>4, FrameKeeps
    <3> QED BY <1>2, <2>1, <2>2, <3>1 DEF TInv, InSeq
  <2> QED BY <2>3, <2>4
<1>5. CASE ReceiveThrows \/ ReceiveTimeout \/ disconnect \/ Disconnected
  <2>1. Exchange' BY <1>1, <1>5, GiveUpKeeps, disconnectKeeps
  <2>2. QueueOK(queue)' /\ RestOK'
    <3>1. Application \/ UNCHANGED vars
      BY <1>5 DEF ReceiveThrows, ReceiveTimeout, disconnect, Disconnected, Application
    <3> QED BY <1>1, <3>1, PortKeeps
  <2>3. lastResult' = lastResult
    BY <1>5 DEF ReceiveThrows, ReceiveTimeout, disconnect, Disconnected, transportVars
  <2> QED BY <1>2, <2>1, <2>2, <2>3 DEF TInv
<1>6. CASE ReaderAnswers
  <2>1. QueueOK(queue)' /\ RestOK' /\ Exchange' BY <1>1, <1>6, AnswerKeeps
  <2>2. lastResult' = lastResult BY <1>6 DEF ReaderAnswers, transportVars
  <2> QED BY <1>2, <2>1, <2>2 DEF TInv
<1>7. CASE \/ (IoThread \/ UNCHANGED vars) /\ UNCHANGED transportVars
           \/ LineFails /\ clean' = FALSE /\ UNCHANGED <<tpc, lastCommand, lastResult, answered>>
  <2>1. Exchange' BY <1>1, <1>7, BackgroundKeeps
  <2>2. QueueOK(queue)' /\ RestOK' BY <1>1, <1>7, PortKeeps
  <2>3. lastResult' = lastResult BY <1>7 DEF transportVars
  <2> QED BY <1>2, <2>1, <2>2, <2>3 DEF TInv
<1> QED BY <1>3, <1>4, <1>5, <1>6, <1>7 DEF TNext, tvars

\* TInv is an invariant of request and reply over a serial port.
THEOREM ExchangeInvariant == TSpec => []TInv
<1>1. TInit => TInv BY InitInvariant, InitExchange DEF TInit, TInv
<1>2. TInv /\ [TNext]_tvars => TInv' BY StepExchange
<1> QED BY <1>1, <1>2, PTL DEF TSpec

\* sendCommand hands out no answer twice and none before an earlier one, whatever is
\* lost by an overflow, a reconnection or a failing line and whatever comes late
\* (SerialPortDataTransport::receive, SerialPort::read, do_read).
THEOREM AnswersComeInOrder == TSpec => AnswersInOrder
<1>1. TInv /\ [TNext]_tvars =>
        [lastResult' # <<>> /\ lastResult' # lastResult =>
           /\ answered < lastResult'[1]
           /\ \E i \in DOMAIN sent : sent[i] = lastResult'[1]]_tvars
  BY StepExchange
<1> QED BY <1>1, ExchangeInvariant, PTL DEF TSpec, AnswersInOrder

\* While nothing went wrong and no answer was late, the result of sendCommand is the
\* answer to its command and the port it waits on is being read, through any number
\* of disconnections and reconnections (DataTransport::sendCommand, connect, close).
THEOREM ExchangeStaysClean == TSpec => []CleanExchange
<1>1. TInv => CleanExchange
  BY DEF TInv, Exchange, CleanExchange, CleanState, PortReady, PortIdle
<1> QED BY <1>1, ExchangeInvariant, PTL

\* Every variable of the transport and of its port keeps its type.
THEOREM TransportTypeCorrect == TSpec => []TTypeOK
<1>1. TInv => TTypeOK
  BY SizesAssumption DEF TInv, IInv, Exchange, TransportTypes, TTypeOK
<1> QED BY <1>1, ExchangeInvariant, PTL

=============================================================================
