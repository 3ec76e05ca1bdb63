# A TLA+ verification of liblogicalaccess

liblogicalaccess is a C++ library that reads and writes RFID and smart cards through many
kinds of reader. This directory holds TLA+ models of the parts of it that are concurrent or
run a protocol, the TLC configurations that check them, and proofs for TLAPS. Paths below
are relative to the repository's root; a component's sources are listed in `PROJECT.json`,
as are the lines each definition models (`map`).

## 1. Inventory

An application asks a *reader provider* for *reader units*, waits for a card
(`waitInsertion`), gets a *chip* with *commands* and *services*, and the commands reach the
card through a *reader/card adapter* and a *data transport*.

    service -> commands -> reader/card adapter -> data transport -> line -> reader -> card
                              ^ result checker        ^ buffer parser (serial)
    reader unit: connectToReader, waitInsertion, waitRemoval, chips

| Component | State | Operations | What is hard | What makes it correct |
|---|---|---|---|---|
| Serial port (`readerproviders/serialport.*`) | descriptor, reader thread, asio queue, read, write and circular buffers, data flag | open, reopen, close, write, read, waitMoreData; handlers do_read, do_write, do_close, write_complete | two threads, asynchronous operations, line faults, full buffer | one operation of each kind at a time, no overrun, no hidden or mixed message, calls return |
| Serial transport (`serialportdatatransport`, `datatransport`) | last command and result | sendCommand, connect, configure, send, receive, disconnect | timeouts, late answers, reconnection | a result answers its command |
| TCP, UDP and Rpleth transports | socket, timer, stream buffer | the same | segmentation, partial sends, late datagrams | the same |
| OSDP (`plugins/.../osdp`) | channel (sequence number, security block), secure channel (R-MAC, C-MAC) | handshake, poll, led, buzzer, profiles, APDUs, waitInsertion, waitRemoval | lost and repeated replies, BUSY, slow cards | both ends in step, replies matched to commands, everything secured |
| PC/SC readers | context, connection, proxy unit, ATR | waitInsertion, waitRemoval, connect | remaining time, cards that change | waits end in time, the chip is the one present |
| Keyboard readers | shared memory, four events, two watch threads | waitInputChar, hook process | two processes without a lock, timeouts on both sides | every key once, in order |
| SCIEL readers | list of active tags, timers | refresh, waits | tags that vanish for a while | a tag is removed only after its time |
| Buffer parsers | none (they edit the circular buffer) | getValidBuffer | noise, partial frames, lengths 0 or negative | progress, no frame lost or joined |
| Result checker | permanent and single-shot checks | AddCheck, CheckResult | exceptions in between | single-shot checks concern one command |
| DESFire, MIFARE Plus, STid, ePassport sessions | session keys, IV, counters | authenticate, commands, chained frames | errors inside a session | a failed step leaves no half session |
| Badge formats and encodings | fields of a format | getLinearData, setLinearData | widths that are no whole bytes, overlapping parities, byte order | reading back what was written, refusing what is damaged |
| NDEF, TLV, ASN.1 | none | pure functions | lengths, boundaries | reading back what was written |
| Keys, key storage, locations, XML, plugins, settings, logs, cryptography, key server client, single-command cards | data | getters, computations | nothing in the order of steps | unit tests |

Interactions: the application's thread calls everything; the only second thread of the
portable code is the I/O thread of a serial port, which shares the port's buffers and flag
with it. The keyboard plugin (Windows) adds a watch thread and a second process. Everything
else interacts by synchronous calls and by messages to a reader that may answer late or
never. Nothing is stored on disk, so recovery means reconnecting.

## 2. Modules

### SerialPort

Class `SerialPort`, with boost::asio's `serial_port` and `io_service` modelled from their use
(marked external). `queue` holds the handlers that are ready; `readOp` and `writeOp` are the
operations the reactor still waits for. The action of the I/O thread for a handler is the
handler's whole body, except that `do_read` is cut at its unlock (`ioPc = "rearm"`), since
the application may take the mutex before the next read is started. `close` is cut at its
`join`, `reopen` between its two calls, because the I/O thread runs there too. `receive` is
one turn of the loop that `SerialPortDataTransport::receive` drives: the callback runs inside
`waitMoreData` with the mutex held, so reading and `dataConsumed` are one step.

Bytes are numbered in the order the device sends them, which makes a lost, repeated or
misplaced byte visible. A message has `FrameLen` bytes and a recognisable first one;
`getValidBuffer` does what the library's parsers have in common: it drops noise and takes one
message if it is complete. Commands are single units, numbered by call.

Two data races of the code are choices of the model: growing `m_write_buffer` while asio
sends from it may leave the device with bytes of freed memory (`dangling`), and the driver
may take a write at once or later. `reopen` runs on the application's thread while the I/O
thread uses the same asio object; its two calls are steps of their own, and what a torn
asio object would do is not modelled. The history variable `reused` says that the port was
opened again, by `open` or `reopen`, under a thread object that was there already; a
`close()` that returned ends that.

### SerialPortDataTransport

Extends `SerialPort` by `DataTransport::sendCommand`: connect (open and configure, with the
optional retry that reopens the port), send, receive until a message or the deadline, and
`disconnect`. The reader answers a command it received with one message that carries the
command's number, at any time or never. The history variable `clean` says that so far
nothing went wrong: no line fault, no failed configuration, no deadline that passed with an
answer pending; `answered` is the answer handed out last, in any call. A `sendCommand` with an
empty command, which only receives, is included.

### OSDP

The control panel's side: `OSDPChannel` (`createPackage`, `unPackage`), `OSDPSecureChannel`
(MAC chain), `OSDPCommands::transmit` with its BUSY loop, each command, the handshake of
`OSDPReaderUnit::connectToReader` step by step, and `OSDPReaderCardAdapter::sendCommand` with
its poll after an acknowledgement. The device and the line are external: the constant
`Faults` says what they may do. Cryptography is ideal: a MAC is the sequence of everything
it chains. Replies carry, in a field `re` no code reads, the command they answer.

Left out: the bytes of a package (a package arrives whole or not at all), the truncation of
the MAC to four bytes, the choice between the default and the configured key, the result
checker. `disconnectFromReader` empties the line. A reader is used only after
`connectToReader` returned true; the code dereferences a null pointer otherwise.

### OSDPReaderUnit

`waitInsertion` and `waitRemoval`, with time in steps of 100 ms. A call's poll and what it
does with the reply are one step; LED and buzzer after a detection are another, since they
can fail. The reader reports a card at every poll except the one after a release, reports a
tamper change once, and may send XRDs that concern no card. `away` and `early` are history
variables of the running call.

### DESFireSession

`DESFireCrypto` (session key, initialisation vector, authentication method, table of keys) and
the operations of `DESFireISO7816Commands` and `DESFireEV1ISO7816Commands` that read or change
it: selecting, creating and deleting applications, erasing, ten ways to authenticate (legacy,
ISO and native AES, each with the key at hand or in a SAM; ISO through PKCS; ISO and AES
through the key server; native ISO), changing a key, its settings, the configuration with or
without a default key for new applications, reading and writing in each communication mode,
lists in several frames, `getVersion`, `getCardUID`, and as one action (`Transmits`) the
commands of a single transmit, among them files and transactions. `host.buf` says that `d_buf`
still holds an answer that was deciphered. The vector of a host in `CM_LEGACY`, which it does
not use (`initBuf` clears it), is empty in the model. The card is external and keeps a state of
its own. Each exchange is done, refused by the card, lost before the card or lost after it; all
but the first throw. An initialisation vector is the sequence of what was chained into it, so
two are equal exactly when the same things were chained in the same order. `clean`, `skipped`,
`keptISO` and `doubt` are history variables: nothing thrown since the selection; in this
session, a reply's CMAC left out by the code and a legacy authentication by the SAM of a host
that was in `CM_ISO`; the slots whose key the host cannot know. The bytes of a command, the
length of a read and the length of a MAC (`d_mac_size`) are left out.

### KeyboardHook

The library (`KeyboardReaderProvider`, `KeyboardReaderUnit`) and the hook process of each
Windows session (`islogkbdhook`), which share one key and three manual-reset events. The
steps are cut where the two sides can meet: reset, read and report on one side, write and
signal on the other. Setting an event releases the waiting threads at once (external). One
`Tick` is 500 ms; a thread is late by at most `MaxDelay` ticks. What the keys of a badge spell
is a choice among `Chips`, or none when they have not the configured form: the properties are
about keys. Starting a hook may fail; the session is recorded as hooked all the same. `overlap`
is a history variable: a hook gave up on a key, or two hooks were at one.

### PCSCReaderUnit

`waitInsertion`, `waitRemoval`, `connect` and `disconnect` of a unit and of its proxy, which
each have a connection and a chip. The service that reports the state of readers is external,
as are the user who moves cards and another program that takes a card and lets it go: while
it has it the service answers `waitRemoval` at once, and afterwards the wait blocks for the whole
of maxwait again. The remaining time of `waitInsertion` is computed as in the code, with an
unsigned difference that wraps. `seen`, `emptied` and `reused` are history variables.

### RequestReply and NetworkTransports

`RequestReply` is the abstract specification of `DataTransport::sendCommand`: every call
ends, and it returns the answer to its command or an error; a transport that keeps its
connection is allowed to return another answer once something was left on the connection
(`doubt`). `NetworkTransports` has the TCP, UDP and Rpleth transports step by step (connect,
send, receive, timers, the frames of Rpleth) over a network that delays, loses, doubles and
cuts, and a device that sends badges unasked. Its property `Promise` is the refinement
`INSTANCE RequestReply WITH fresh <- (kind = "tcp")`: TCP, which connects for every command,
keeps the strong promise. Loss between two lines of the same function (a datagram that
`available()` counted and that is then dropped) is left out, and so are an empty command, with
which `sendCommand` only receives on whatever connection there is (no code of the library does
that over these transports), and a timeout of 0, with which UDP waits until a datagram comes.
A UDP `connect` that fails leaves no socket; `send` then uses the null pointer, which the
model takes for an exception.

### BufferParsers

`getValidBuffer` of the twelve readers that have a parser, as operators from a buffer to a
result and a rest, over bytes, with the widths of the lengths they compute (`short` in OSDP,
`unsigned short` in STid STR). The device sends messages of its protocol; one byte of noise may
come before one of them, or two bytes anywhere, also over a length; the line cuts the bytes
into chunks of any size, and a read may come between any two. A parser that goes outside of the
buffer sets `undefined`.

### AccessFormats

Ten badge formats: bits of a field in memory order, aligned and swapped as
`BinaryDataType`, `BitHelper` and `BigEndianDataRepresentation` do it, the parities and the
checksum, and what `setLinearData` looks at, in its order. One object writes, the data
arrives whole, with one wrong bit, short or empty, and a second object reads it.

### Proofs

`SerialPortProofs`, `OSDPProofs`, `OSDPReaderUnitProofs`, `DESFireSessionProofs`,
`KeyboardHookProofs`, `PCSCReaderUnitProofs`, `NetworkTransportsProofs` and
`BufferParsersProofs` extend the module of their name; see section 5. The first covers
`SerialPort` and, in its second half, `SerialPortDataTransport`, whose proofs use the lemmas
about the steps of the port; `SerialPortDataTransport` assumes nothing of the port's
constants, so the theorems about the port keep their generality.

## 3. Runs

| Run | Checks | Result |
|---|---|---|
| `serial_lifecycle` | CommandsInOrder, SingleReader, SingleWriter, BufferWithinCapacity, NoStrandedFrame, FrameIntact, InputDrained | hold |
| `serial_close_hangs` | CloseReturns | violated: `close()` may join a thread that never ends |
| `transport_exchange` | CleanExchange, AnswersInOrder | hold |
| `osdp_lossy_line` | TypeOK, AtMostOneAhead, AnswerOfTheApdu, SecuredReplyMatches, CallEnds | hold |
| `osdp_session` | SessionInStep, SequenceAdvances | hold |
| `osdp_wait` | RemovedMeansGone, RemovalNoticed, InsertionNoticed, InsertionTimesOut | hold |
| `desfire_session` | TypeOK, SessionAgreement, KeyTableTrue, AuthenticateRestores | hold |
| `keyboard_hook` | KeysOnceInOrder, HookStays, HooksExit | hold |
| `pcsc_wait` | NoHandleWhileWaiting, ActsWhereSeen, RemovedMeansGone, InsertionTimesOut, RemovalTimesOut | hold |
| `network_exchange` | TypeOK, QuietBetweenCalls, Promise | hold |
| `frame_parsers` | MessagesAsSent, InsideTheBuffer, MessagesFound | hold |
| `access_formats` | RoundTrip, DamageDetected | hold |

**Serial port.** `serial_lifecycle` has every call and both faults: four calls are enough for
open, write, a fault or close, and open again; five bytes with a capacity of three, reads of
two and messages of two give every alignment of a chunk, a message and a full buffer. The fifth
byte matters: with four no behaviour joins two messages over a gap, with five one does when
a thread is used again, which is why FrameIntact speaks of threads used for the first time
(section 4). `InputDrained` supposes that a read is under way, which section 4 shows is not
always so. Two commands and a fault are enough for `CommandsInOrder`: a write that failed, and
one behind it in `m_write_buffer` or in the queue.

**Transport.** Six counted calls allow open, write, close, open and two more writes. Messages
have one byte and the buffer two, so an overflow drops whole answers.

**OSDP.** `osdp_lossy_line` has losses, delays, repeated replies and two BUSY replies over
four calls: connecting, two APDUs and one more command, or a second connection.
`osdp_session` has a good line, a device that may have another key or acknowledge an APDU
first, and six calls, so that sequence numbers wrap. A second is one turn of the BUSY loop
(`TicksPerSecond = 1`); with more only the length of the loop changes. `AnswerOfTheApdu`
is checked for a device that answers an APDU in its reply to it (section 4 says what happens
with a card that needs longer).

**Waits.** Four events (card, tamper switch, stray XRD) and three calls with maxwait 0, 200
and 400 ms allow a wait that times out after a release and is called again.
`RemovedMeansGone` has the exceptions the code makes: a report of another kind is taken for
a removal, and so is the first poll of a call that follows a release.

**DESFire.** Two keys, the card level and one application, two key numbers, two sessions and a
chain of four items: the second session may differ from the first in every respect, and one
exception or reset may fall on any exchange. The properties name the cases in which host and
card part without an exception (section 4); the run reaches each of them (272,034 states).

**Keyboard.** Two sessions, two keys and threads late by up to a second (`MaxDelay = 2`):
a hook that is being started, one that types and a console that switches at the same time.
With a delay of 1500 ms or more a hook could rightly give the library up.

**PC/SC.** Two readers, one of which needs a proxy, two cards, three moves and four calls:
enough for a card on one reader, its removal, and a card on the other, in every order with the
calls. maxwait is unlimited or two ticks, and the thread may lose two ticks before a call, so
that the remaining time wraps. Another program may take and release the card at any moment of
a wait.

**Network.** Four commands and three faults: an answer that is late, doubled or cut, then two
commands to show where it ends up.

**Parsers.** Three messages of each protocol, of its shortest lengths, in all chunkings; the
noise is CR, which several protocols use, or 255, which none of them does. Two bytes of 255 over
a length make it 0xFFFF, so that the run reaches all four cases in which a parser leaves the
buffer. `MessagesFound` and `MessagesAsSent` say for which parsers noise costs nothing;
`InsideTheBuffer` holds for every noise.

**Formats.** Each field is empty, full, alternating, or has one bit: its lowest, its highest, the
first that it cannot carry, or the lowest of the second byte; each of these with each of the
other field. Every single bit may be wrong.

Deadlock is not checked: every model may stop once its bounds are used up and the line is
silent.

**Fairness.** `SerialPort!FairSpec`: the scheduler runs both threads (weak fairness of the
I/O thread as a whole and of the application's steps inside a call), which is what an
operating system gives. Nothing is assumed of the device. `OSDP!Spec`: weak fairness of the
steps of a running call, because receiving has a deadline; the device need not answer.
`OSDPReaderUnit!Spec`: weak fairness of the turns of a running loop, because every poll
returns or throws. `KeyboardHook!Spec`: time passes and the check threads of the hooks are
scheduled; neither the library nor the user need do anything. `PCSCReaderUnit!Spec`: the
clock ticks, the thread of the call runs and the service reports a change or the end of its
time. `NetworkTransports!Spec`: the steps of a running `sendCommand`, whose waits all have a
timer; the device need not answer. `BufferParsers!Spec`: the bytes that were sent arrive, and
the receive loop reads. `DESFireSession` and `AccessFormats` state no liveness.

## 4. Where the code differs from its documentation

`serial_close_hangs` is explained, with the line it contradicts, under `findings` in
`PROJECT.json`. The models also contain behaviour that has no run of its own. Where a
property depends on it, its definition names the case.

Serial port and transport:

- `reopen()` starts no read: the waiting one is aborted, `io_service::run` ends and nobody reads
  the port. `serialport.hpp:93` says that it "has the exact same behavior than a call to
  close() followed by a call to open()".
- After a write that failed the unsent bytes stay in `m_write_buffer`; once the port is open
  again `do_write` takes them for a write under way and sends nothing any more.
- `close()` on a closed port posts a `do_close` that the thread of the next `open()` runs,
  which closes the new port. After an end of file the thread object is still there, so the
  next `open()` starts no reader and the `close()` after it returns with the port open.
- The I/O thread closes the port by itself at an end of file or a failed write, and keeps
  running while a handler is left. `open()` then finds a thread object, keeps the bytes in the
  circular buffer, and bytes from before and after the gap may be handed out as one message;
  the same happens with `reopen()`.
- `m_write_buffer` may move while it is being sent.
- An answer that comes after its timeout is the result of the next command
  (`datatransport.hpp:77`: "the result of the command").

OSDP:

- One BUSY reply clears `isSCB`, and every later command of the connection leaves without MAC and
  encryption, although `osdpreaderunit.cpp:254` sets it after "Successful Authentication".
- The answer of a card that needs more than one poll is returned to the next APDU.
- The BUSY loop measures CPU time while it sleeps; its comment says three seconds.
- `waitRemoval` takes a tamper report or an XRD for a removal, and one that timed out
  after a release reports a removal when it is called again at once. An XRD does not count
  as waiting in `waitInsertion`.
- After a failed handshake `connectToReader` returns false for ever (line 242), and
  `dataLength` is a char: more than 127 bytes of data are taken for none
  (`osdpchannel.cpp:67`).

DESFire:

- `iks_wrapper_` is never reset: after a session of the key server every later ISO session of
  the chip computes its CMACs with the old reference, although the declaration says "If
  present it means we use IKS" (`desfirecrypto.hpp:516`).
- `setConfiguration`, `changeFileSettings` in plain and lists in several frames leave a CMAC out
  of the chain, which breaks the session some calls later.
- A legacy authentication with a DES key in the SAM (`sam_authenticate_p2`,
  `desfireiso7816commands.cpp:990`) does not set `d_auth_method`: after an ISO session the host
  stays in `CM_ISO` while the card is in a legacy session.
- `createApplication` notes zeroes for the keys of the new application, also after
  `setConfiguration(defaultKey)` gave the card another key for them.
- An enciphered answer stays in `d_buf`, and `getVersion` and `changeKey` do not clear it: the
  next of them takes a right MAC for wrong and throws, `changeKey` after the card changed the key.
- `changeKey_PICC` enciphers with `d_sessionKey` also when the session is one of the key server.
- A lost answer to `selectApplication` leaves the host in the old application.
- A native read of more than 248 bytes sends the parameters of the first part again before
  those of the second (`desfireiso7816commands.cpp:703`; not modelled).

Keyboard readers:

- A hook that gave up on a key leaves `hKbdEventProcessed` set when the library takes the key
  after all, and then overwrites a later key before it is read.
- Keys that were typed while nobody waited make a chip of their own at the next wait.
- The loop that should end the hooks starts from an uninitialised iterator
  (`keyboardreaderprovider.cpp:387`), and a session that had a hook never gets another one.
- `d_removalIdentifier` is never cleared by `waitInsertion`.

PC/SC:

- The remaining time is an unsigned difference (line 291): when the limit passed before it is
  taken the wait lasts 49 days.
- A proxy left from the last card is kept when the next one is seen on another reader.
- `waitRemoval` spins when the card's state changes otherwise than by a removal. When the state
  changes back it waits for the whole of maxwait once more, and so returns after up to twice
  maxwait.

Network:

- A badge that is read between a Rpleth command and its answer is returned as the answer, and
  so on with every later command. `receiveBadge` takes the badge from a copy of the list, which
  therefore is never emptied (`rplethreaderunit.cpp:659`; not modelled).
- UDP keeps its socket: a late or doubled datagram is the answer to the next command. When
  `connect` failed the null socket is used. With a timeout of 0 it waits for ever (line 110), and
  `receive_from` has no timeout (line 123).
- TCP returns the first segment of an answer, and does not look at how much `send` took.

Parsers:

- GigaTMS takes a message past the end of the buffer when three bytes have come (line 37:
  `size() - 4` is unsigned). Admitto looks at the byte after the last one (line 22).
- OSDP keeps the length in a `short` (line 30): one of 0x8000 or more is negative, passes the test
  and makes the end of the message lie before the buffer. STid STR compares the sum of length
  and header as an `unsigned short` (line 20) and takes the sum that has not wrapped: a length
  of 0xFFF9 or more goes far past the end.
- STidPRG and Gunnebo never remove a byte of noise and find nothing after it. An Elatec length
  of 0 consumes nothing. What Promag returns after ESC or BEL depends on the chunks.

Formats:

- Getronik 40 compares a parity with a whole byte (line 191) and so refuses every badge whose
  first 38 bits have odd parity, those it wrote itself included;
  `tests/unittest/test_format.cpp:189` writes and reads one of the others. It never looks at
  its parity bit, so that a wrong bit is accepted in half of the badges.
- The formats of 40 bits accept empty data and keep their fields. All formats set their fields
  before they look at the parities.
- `BCDByteDataType::convert` writes its i-th byte at bit i (line 42), and `writeAt` keeps bits
  after the ones it is asked to write (not modelled).

## 5. What is proved

TLAPS proves the theorems below for every value of the constants that the modules' ASSUMEs
allow: any sizes, sets of readers, keys or sessions, and any bound on calls, bytes and
faults. With them every safety property of the runs is proved, except those of
`AccessFormats`.

| Module | Theorem | Property |
|---|---|---|
| `SerialPortProofs` | CommandsKeptInOrder | CommandsInOrder |
| | TypeCorrect, ReadsNeverOverlap, WritesNeverOverlap, CapacityRespected, FramesNeverStranded | TypeOK, SingleReader, SingleWriter, BufferWithinCapacity, NoStrandedFrame |
| | FramesWhole | FrameIntact |
| | AnswersComeInOrder, ExchangeStaysClean | AnswersInOrder, CleanExchange |
| `OSDPProofs` | TypeCorrect, OneExchangeAhead, SecuredReplyIsOfTheCommand | TypeOK, AtMostOneAhead, SecuredReplyMatches |
| | SessionKept, SequenceNumbersAdvance, if nothing is lost or BUSY | SessionInStep, SequenceAdvances |
| | AnswerIsOfTheApdu, if the device does not acknowledge first | AnswerOfTheApdu |
| `OSDPReaderUnitProofs` | TypeCorrect, RemovalIsReal | TypeOK, RemovedMeansGone |
| `DESFireSessionProofs` | TypeCorrect, HostAndCardAgree, KeyTableIsTrue, SessionRestored | TypeOK, SessionAgreement, KeyTableTrue, AuthenticateRestores |
| `KeyboardHookProofs` | KeysReadOnceInOrder | KeysOnceInOrder |
| | HooksStay, if WatchPeriod + MaxDelay < CheckTimeout | HookStays |
| `PCSCReaderUnitProofs` | TypeCorrect, NoHandleHeld, ReachesTheCardSeen, RemovalIsReal | TypeOK, NoHandleWhileWaiting, ActsWhereSeen, RemovedMeansGone |
| `NetworkTransportsProofs` | TypeCorrect, SilentBetweenCalls | TypeOK, QuietBetweenCalls |
| | KeepsThePromise: initial states and steps are those of `RequestReply` | Promise without its fairness |
| `BufferParsersProofs` | InsideTheBufferHolds, MessagesAsSentHolds | InsideTheBuffer, MessagesAsSent |
| | ParserFinds, ParserInside: what one call of `getValidBuffer` does | |

Each module has an inductive invariant, a lemma that every action keeps it, and the theorems
that follow from it. TLC checked every one of these invariants on the states of the module's
runs before it was proved, except `SentInv` of the parsers, which says that a layout of the
stream exists and is for the prover only. What they say besides the properties themselves:

**Serial port** (`IInv`). `NothingUnderWay`: while no thread runs `io_service::run` there is no
read, no write and no handler but those a call posted, so `open` starts the only read.
`FreshStart`: while there is no thread object the circular buffer is empty, so `open` may clear
the data flag without hiding a message. `WriteHasBuffer`: with a `write_complete` in the queue
`m_write_buffer` is not empty, so `do_write` on an empty buffer starts the only write.
`ChunkFits`: `m_read_buffer` never holds more than the read size. The assumptions are that
sizes are positive and a read fits into the buffer (128 and 256 in the code).

**Commands in order** (`Ordered`). What the device has received, what of `m_write_buffer` is not
sent, and the commands of the posted `do_write`s are one ascending sequence of the numbers of
calls. What could break it is a command that is both sent and kept: while a `write_complete`
without error waits in the queue the buffer still begins with what it sent. `Unsent` leaves out
just those bytes, and no second write starts before they are erased (`WriteHasBuffer`).

**Whole frames** (`Whole`). On a thread that is used for the first time the bytes in the circular
buffer, the bytes of a finished read whose `do_read` still waits, and the bytes on the line are
one run of consecutive numbers; an overflow cuts its front and a close its end. The attempt
to prove this showed that an earlier form of FrameIntact, which excluded only `reopen`, held in
the run because it had four bytes; `open` under a thread that is still running breaks it
with five. TLC checked `Whole` on the 1,027,584 states of `serial_lifecycle`.

**Transport** (`TInv`). Answers ascend through the same three places, above the one handed out
last, and each of them answers a command that was sent (`Flows`); no command anywhere between
`write` and the reader has a number above the calls made (`Numbered`). While `clean`, the only
answer that can be on its way is that of the command `receive` waits for, every other command
has been answered (`Accounted`), no handler carries an error, an open port is armed, and a
closed one has left nothing behind; during `close` the `do_close` is in the queue until the
port is closed (`PortReady`). Checked by TLC on 897,888 states.

**OSDP.** `IInv`, for every set of faults: the chain of MACs the panel has is the beginning of
the device's, at most one exchange shorter, every reply on the line is a part of that chain, and no
command on the line continues a chain the panel has not seen. `SInv`, for a line without loss
and BUSY (`NoLoss`): exactly one package is on the line while `transmit` waits. `AInv`, for a
device that answers APDUs in the reply (`NoAck`) on any line: an answer is in a secured reply to
the package with its APDU, and after a reply in clear no secured one follows. The conditions
are those the code needs: after a loss or a BUSY the two ends part, and after an
acknowledgement the answer is taken from the next poll (section 4). TLC: 420,084 states for
`IInv`, 53,814 for `SInv`, 343,126 and 148,535 for `AInv`.

**OSDP waits.** A card that `waitRemoval` finds undetected was away, was released by this call,
or by the call before and is not detected again; the loops go round only while time is left.

**DESFire.** The invariant is the conjunction of types, SessionAgreement and KeyTableTrue;
lemmas about an exchange (what it leaves alone, and that one that returns keeps both vectors in
step) carry the proof through all the operations and the ten ways to authenticate. With a host
that the SAM left in `CM_ISO` the lemmas say only that the session keys agree. `MaxChain >= 2`,
the room for one exchange, is assumed. That a call that returns and one that throws differ
needs the number of exceptions to be a number (`Counted`), which is shown beside it.

**Keyboard.** Keys are handed over one at a time: at most one hook is at a key, and the state of
its handshake, the event, the library's step and the number of keys read determine each other
(`HandOver`); no check thread has waited longer than the watch thread has slept (`Watched`).
HookStays needs the condition of the theorem: a watch thread that may be later than the hook's
timeout is rightly taken for dead (it sleeps 500 ms, the timeout is 2000 ms). 884,928 states.

**PC/SC.** Only the object that acts holds a connection; a unit for all readers keeps the name
where it saw the card in exactly one place, its proxy or `d_connectedName`; what a wait
looks at. The list of readers is finite and numbered, so that its first reader with a card
exists (the natural numbers are well-founded). 105,018 states.

**Network.** What is on its way answers a command that was sent (Rpleth: or is a badge), on a
connection of TCP the one it was opened for; on a kept connection without doubt the buffer, the
socket and the device together hold nothing or exactly the whole answer of the command
`receive` waits for. The refinement follows step by step.

**Parsers.** Two theorems are about a single call, for each of the twelve protocols.
`ParserInside`: for every buffer of bytes, whatever sent them, the result comes from inside the
buffer and what is left is an end of it, but for the four cases of `Leaves`: Admitto after a last
CR, GigaTMS with three bytes, OSDP with a length that is negative as a `short`, STid STR with one
whose sum wraps. `ParserFinds`: `WellFormed(p, m)` says by which marks and lengths a parser of p finds the
end of m; of a buffer that begins with such a message, or with any part of one, the parser
takes nothing, goes past the end, or returns that message and leaves what is behind it. A
lemma shows that the messages of `Frames` are well-formed; the theorem holds for all others of
any length as well.

Over a run (`SentInv`) two invariants are kept. Where noise costs nothing or the parser waits
at it (`SyncInv`): the bytes of the device are one stream, the buffer and the wire are windows
of it that meet, the buffer begins at the boundary of a message (or at the byte of noise before
it), and `got` has exactly the messages before that boundary. Where a parser drops bytes with
the noise (`DropInv`: GigaTMS, Promag, SCIEL): the buffer is a window anywhere, and `got` are
messages that end before it, at increasing places; a start mark in the window is the beginning
of a message, since no message and no noise the property admits has another one. The bounds on
messages and noise are arbitrary.

Three facts here are inductions over data: what a concatenation of messages has at each place
(`FlattenSeq` is a recursive function), where in it a message begins, and where the loop of
SCIEL over the line ends stops. They are proved by the least counterexample: the set of
lengths for which the fact fails, if it is not empty, has a least element (`WFMin` of
`WellFoundedInduction`, which takes a set and no operator), and that one is refuted from the
one before it. That a recursive function exists, which such a definition needs, is proved the
same way, by building it for one argument more.

Only model-checked:

- liveness, since fairness and ENABLED are outside the prover's reach: InputDrained, CallEnds,
  RemovalNoticed, InsertionNoticed, InsertionTimesOut, RemovalTimesOut, HooksExit,
  MessagesFound and the fairness of `RequestReply` in Promise;
- RoundTrip and DamageDetected of `AccessFormats`: their only constant is the set of formats,
  the run has all ten, and the values of a field are the finite set `Patterns`, so the run goes
  through every behaviour of the specification and a theorem would say nothing more of it.
  What would be worth proving, the same for every value of a field, is a computation with forty
  symbolic bits in ten layouts, whose parities are cardinalities and folds that depend on
  each other; the provers do not find it;
- TypeOK of `KeyboardHook`, which TLC checked on the states of `keyboard_hook`; the proofs
  have the types they need in `Types`.

## 6. Plan

Done: the models of section 2 and the proofs of section 5.

Worth doing next: shorter proofs where lemmas of several modules say the same about sequences
(`SerialPortProofs`, `OSDPProofs` and `BufferParsersProofs` have their own facts about prefixes
and parts), and the conversion of one field in `AccessFormats` (`RevertField` after
`ConvertField`) for every value, which needs no parity.

Worth modelling next: the list of active tags of the SCIEL readers, the result checker, the
sessions of STid, MIFARE Plus and ePassport (counters instead of a chained vector),
`ReaderUnit::waitInsertion` for a given identifier, the data clock and FASC-N formats.

## 7. Not modelled

`PROJECT.json` lists each part with its reason. The models cover a small share of the lines of
the repository, and most of the rest has nothing a model could say more about than a unit
test: the messages generated by protobuf (some 10000 lines), vendored DES and other
cryptography on bytes, which the models of sessions take as ideal, some hundred pairs of
header and source that hold data and write it as XML, factories and plugin tables, and the
builders of single commands, which have the same shape for every card and reader: put bytes
into an APDU, send it, return the answer. What remains and has state is listed at the end of
section 6; readers behind a vendor's library, samples and tests are left aside.
