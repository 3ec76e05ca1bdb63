---------------------------- MODULE BufferParsers ----------------------------
(***************************************************************************)
(* The parsers that find the messages of a reader in what its serial port  *)
(* has received so far (getValidBuffer of the readers' CircularBufferParser *)
(* classes), and the reads of a port whose bytes come in chunks.  A byte is *)
(* a number; a parser maps the buffer to a result, empty when there is no  *)
(* message yet, and to what it leaves in the buffer.                       *)
(***************************************************************************)
EXTENDS Integers, Sequences, FiniteSetsExt, SequencesExt

CONSTANT Count        \* bound: how many messages the device sends
CONSTANT NoiseBytes   \* what a disturbed line puts among the messages

NoNoise == 256
Burst == 257          \* two bytes of noise, anywhere
ASSUME ParserAssumption == Count \in Nat /\ NoiseBytes \subseteq 0 .. 255

VARIABLES
  protocol,    \* whose parser the port has
  noise,       \* the byte of noise between two messages, NoNoise or Burst
  messages,    \* what the device sends
  wire,        \* the bytes still to come
  buffer,      \* m_circular_read_buffer
  got,         \* what read has returned
  undefined    \* a parser has left the buffer

vars == <<protocol, noise, messages, wire, buffer, got, undefined>>

STX == 2
ETX == 3
BEL == 7
LF == 10
CR == 13
ESC == 27
SOM == 83
Open == 91     \* STX and ETX of SCIEL
Close == 93
STX1 == 174
STX2 == 0
STOP == 254

-----------------------------------------------------------------------------
(* Outcomes of a parser.                                                   *)

Outcome(r, b, d) == [result |-> r, rest |-> b, defined |-> d]
Nothing(b) == Outcome(<<>>, b, TRUE)
Dropped == Outcome(<<>>, <<>>, TRUE)

\* The first n bytes are removed, those from `from' to `to' are the result.  It
\* is undefined what happens past the end of the buffer and before its begin.
Cut(b, from, to, n) ==
  IF n < 0 \/ n > Len(b) THEN Outcome(<<>>, b, FALSE)
  ELSE Outcome(SubSeq(b, from, to), SubSeq(b, n + 1, Len(b)), TRUE)

Take(b, n) == Cut(b, 1, n, n)

\* Values of short and of unsigned short.
Short(n) == IF n % 65536 < 32768 THEN n % 65536 ELSE (n % 65536) - 65536
UnsignedShort(n) == n % 65536

\* The least index in S, in a loop that ends with the first hit.
OnFirst(S, b, Then(_)) == IF S = {} THEN Nothing(b) ELSE Then(Min(S))

-----------------------------------------------------------------------------
(* The parsers.  Indices are those of the code plus one.                   *)

\* Looks for CR LF.  When CR is the last byte there is, the byte behind it in
\* memory is compared: `stale'.
Admitto(b, stale) ==
  LET after(i) == IF i < Len(b) THEN b[i + 1] ELSE stale
      Then(i) == Take(b, i + 1)
  IN  IF Len(b) < 2 THEN Nothing(b)
      ELSE OnFirst({i \in 2 .. Len(b) : b[i] = CR /\ after(i) = LF}, b, Then)

AxessTMC13(b) ==
  LET Then(i) == Take(b, i) IN OnFirst({i \in 1 .. Len(b) : b[i] = CR}, b, Then)

\* Mutant: the length byte is counted as one of the bytes it announces.
AxessTMCLegicShort(b) ==
  IF Len(b) >= 7 /\ Len(b) >= b[1] THEN Take(b, b[1]) ELSE Nothing(b)

AxessTMCLegic(b) ==
  IF Len(b) >= 7 /\ Len(b) >= b[1] + 1 THEN Take(b, b[1] + 1) ELSE Nothing(b)

Deister(b) ==
  LET Then(i) == Take(b, i)
  IN  IF Len(b) < 10 THEN Nothing(b)
      ELSE OnFirst({i \in 8 .. Len(b) : b[i] = STOP}, b, Then)

Elatec(b) == IF Len(b) >= 5 /\ Len(b) >= b[1] THEN Take(b, b[1]) ELSE Nothing(b)

\* size() - 4 is unsigned: with three bytes in the buffer it is larger than any
\* length, and the message is taken though it is not there.
GigaTMS(b) ==
  IF Len(b) < 3 THEN Nothing(b)
  ELSE IF b[1] # STX1 \/ b[2] # STX2 \/ b[3] < 3 THEN Dropped
  ELSE IF Len(b) = 3 \/ b[3] <= Len(b) - 4 THEN Take(b, b[3] + 4)
  ELSE Nothing(b)

\* Mutant: the checksum is not waited for.
GunneboEager(b) ==
  LET Then(i) == Take(b, i + (IF b[2] = 49 /\ b[3] = 70 THEN 0 ELSE 1))
  IN  IF Len(b) < 3 \/ b[1] # STX THEN Nothing(b)
      ELSE OnFirst({i \in 2 .. Len(b) : b[i] = ETX}, b, Then)

\* One byte of checksum follows ETX, but not with the STid reader, whose messages
\* begin with "1F".
Gunnebo(b) ==
  LET extra == IF b[2] = 49 /\ b[3] = 70 THEN 0 ELSE 1
      Then(i) == Take(b, i + extra)
  IN  IF Len(b) < 3 \/ b[1] # STX THEN Nothing(b)
      ELSE OnFirst({i \in 2 .. Len(b) : b[i] = ETX /\ i + extra <= Len(b)}, b, Then)

\* Mutant: a message is found when there is more than it.
OSDPStrict(b) ==
  LET n == SelectInSeq(b, LAMBDA x : x = SOM)
      c == IF n = 0 THEN <<>> ELSE SubSeq(b, n, Len(b))
  IN  IF Len(c) >= 6 /\ Short(Len(c)) > Short(c[4] * 256 + c[3])
      THEN Take(c, Short(c[4] * 256 + c[3])) ELSE Nothing(c)

\* All that comes before a start byte is removed.  The length is a short: from
\* 0x8000 on it is negative, and the message ends before the buffer begins.
OSDP(b) ==
  LET n == SelectInSeq(b, LAMBDA x : x = SOM)
      c == IF n = 0 THEN <<>> ELSE SubSeq(b, n, Len(b))
  IN  IF Len(c) >= 6 /\ Short(Len(c)) >= Short(c[4] * 256 + c[3])
      THEN Take(c, Short(c[4] * 256 + c[3])) ELSE Nothing(c)

\* STX and CR are not part of the result.  After ESC or BEL all that is there is.
Promag(b) ==
  LET Then(i) == Cut(b, 2, i - 1, i)
  IN  IF b = <<>> THEN Nothing(b)
      ELSE IF b[1] \in {ESC, BEL} THEN Cut(b, 2, Len(b), Len(b))
      ELSE IF b[1] # STX THEN Dropped
      ELSE OnFirst({i \in 2 .. Len(b) : b[i] = CR}, b, Then)

\* Line ends before the message are removed first, one by one while two bytes are
\* there; begins[i] is where that ends when it has come to i.
Sciel(b) ==
  LET begins[i \in 1 .. Len(b) + 1] ==
        IF i < Len(b) /\ b[i] = CR
        THEN begins[IF b[i + 1] = LF THEN i + 2 ELSE i + 1]
        ELSE i
      c == SubSeq(b, begins[1], Len(b))
      Then(i) == Take(c, i)
  IN  IF Len(b) < 2 THEN Nothing(b)
      ELSE IF Len(c) < 2 THEN Nothing(c)
      ELSE IF c[1] # Open THEN Dropped
      ELSE OnFirst({i \in 2 .. Len(c) : c[i] = Close}, c, Then)

STidPRG(b) ==
  IF Len(b) >= 6 /\ b[1] = STX /\ b[4] + 6 <= Len(b) /\ b[b[4] + 6] = ETX
  THEN Take(b, b[4] + 6)
  ELSE Nothing(b)

\* What is compared is an unsigned short, what is taken is not: a length from
\* 0xFFF9 on is compared as 0 to 6.
STidSTR(b) ==
  IF Len(b) >= 7 /\ Len(b) >= UnsignedShort(b[2] * 256 + b[3] + 7)
  THEN Take(b, b[2] * 256 + b[3] + 7)
  ELSE Nothing(b)

getValidBuffer(p, b, stale) ==
  CASE p = "admitto"       -> Admitto(b, stale)
    [] p = "axesstmc13"    -> AxessTMC13(b)
    [] p = "axesstmclegic" -> AxessTMCLegic(b)
    [] p = "deister"       -> Deister(b)
    [] p = "elatec"        -> Elatec(b)
    [] p = "gigatms"       -> GigaTMS(b)
    [] p = "gunnebo"       -> Gunnebo(b)
    [] p = "osdp"          -> OSDP(b)
    [] p = "promag"        -> Promag(b)
    [] p = "sciel"         -> Sciel(b)
    [] p = "stidprg"       -> STidPRG(b)
    [] p = "stidstr"       -> STidSTR(b)

-----------------------------------------------------------------------------
(* The devices: messages of each,     as its adapter (adaptAnswer) expects *)
(* them, the shortest among them where there is one, with bytes in them    *)
(* that could be taken for a mark.                                         *)

Frames ==
  [admitto       |-> {<<65, CR, LF>>, <<65, CR, 66, CR, LF>>},
   axesstmc13    |-> {<<78, 70, CR>>, <<78, 70, LF, 65, CR>>},
   axesstmclegic |-> {<<6, 1, 2, 3, 4, 5, 6>>, <<7, 7, 7, 7, 6, 6, 6, 6>>},
   deister       |-> {<<255, 255, 251, 1, STOP, 9, 0, 1, 2, STOP>>,
                      <<255, 255, 251, 1, 0, 9, 0, 255, 1, 2, STOP>>},
   elatec        |-> {<<5, 255, 17, 0, 5>>, <<7, 255, 17, 0, 5, 5, 7>>},
   gigatms       |-> {<<STX1, STX2, 3, 1, 2, 3, 4>>, <<STX1, STX2, 4, 1, 1, 1, 1, 4>>},
   gunnebo       |-> {<<STX, 49, 70, ETX>>, <<STX, 49, ETX, ETX>>, <<STX, 49, 65, ETX, STX>>},
   osdp          |-> {<<SOM, 128, 6, 0, 4, SOM>>, <<SOM, 128, 8, 0, 5, SOM, 6, 0>>},
   promag        |-> {<<STX, 65, CR>>, <<STX, 65, LF, CR>>},
   sciel         |-> {<<Open, Close>>, <<Open, CR, 65, Close>>},
   stidprg       |-> {<<STX, 0, 0, 0, 9, ETX>>, <<STX, 0, 0, 2, 1, ETX, ETX, ETX>>},
   stidstr       |-> {<<STX, 0, 0, 1, 1, 7, 7>>, <<STX, 0, 2, 1, 1, 0, 0, 7, 7>>}]

Protocols == DOMAIN Frames

\* What read is to return for a message.
Content(p, m) == IF p = "promag" THEN SubSeq(m, 2, Len(m) - 1) ELSE m
Expected == [i \in DOMAIN messages |-> Content(protocol, messages[i])]

\* The byte x comes twice after the k-th byte of s.
Disturbed(s, k, x) == SubSeq(s, 1, k) \o <<x, x>> \o SubSeq(s, k + 1, Len(s))

Init ==
  /\ protocol \in Protocols
  /\ messages \in [1 .. Count -> Frames[protocol]]
  /\ noise \in {NoNoise, Burst} \cup NoiseBytes
  /\ CASE noise = NoNoise -> wire = FlattenSeq(messages)
       [] noise = Burst   -> \E x \in NoiseBytes, k \in 0 .. Len(FlattenSeq(messages)) :
                                wire = Disturbed(FlattenSeq(messages), k, x)
       [] OTHER -> \E k \in DOMAIN messages :    \* before the k-th message
                      wire = FlattenSeq(InsertAt(messages, k, <<noise>>))
  /\ buffer = <<>> /\ got = <<>> /\ undefined = FALSE

\* do_read puts into the buffer what has come.
Arrive ==
  /\ wire # <<>> /\ ~undefined
  /\ \E n \in 1 .. Len(wire) :
       /\ buffer' = buffer \o SubSeq(wire, 1, n)
       /\ wire' = SubSeq(wire, n + 1, Len(wire))
  /\ UNCHANGED <<protocol, noise, messages, got, undefined>>

\* SerialPort::read; an empty result is no result.
Read ==
  /\ buffer # <<>> /\ ~undefined
  /\ \E stale \in {LF, 0} :
       LET o == getValidBuffer(protocol, buffer, stale)
       IN  /\ buffer' = o.rest
           /\ got' = IF o.result = <<>> THEN got ELSE Append(got, o.result)
           /\ undefined' = ~o.defined
  /\ UNCHANGED <<protocol, noise, messages, wire>>

Next == Arrive \/ Read

\* The bytes come, and the receive loop reads while there is something to find.
Spec == Init /\ [][Next]_vars /\ WF_vars(Arrive) /\ WF_vars(Read)

-----------------------------------------------------------------------------
(* Properties.                                                             *)

\* The noise costs no message: it is removed for itself.
Tolerated ==
  \/ noise = NoNoise
  \/ protocol = "osdp" /\ noise \notin {SOM, Burst}
  \/ protocol = "sciel" /\ noise = CR

\* The noise is seen, though messages may be lost with it or no longer be found.
Noticed ==
  \/ /\ protocol \in {"gigatms", "sciel", "gunnebo", "stidprg"}
     /\ noise \notin {STX, STX1, Open, Burst}
  \/ protocol = "promag" /\ noise \notin {STX, ESC, BEL, Burst}

\* s has the elements of t at some of its places, in the order of t.
Within(s, t) ==
  \E f \in [DOMAIN s -> DOMAIN t] :
    /\ \A i \in DOMAIN s : s[i] = t[f[i]]
    /\ \A i, j \in DOMAIN s : i < j => f[i] < f[j]

\* However the bytes are cut into chunks, what read returns are the messages of
\* the device, whole and in order: none is cut, joined or made up (getValidBuffer
\* of all parsers).  Noise that a parser notices never becomes part of a message.
MessagesAsSent ==
  /\ Tolerated => IsPrefix(got, Expected)
  /\ Noticed => Within(got, Expected)

\* However the bytes are cut, every message is found once it has come: no parser
\* waits for more than the message has.
MessagesFound == <>(Tolerated => undefined \/ got = Expected)

\* The buffers that a parser leaves: that of Admitto looks at the byte after a CR
\* that came last, that of GigaTMS takes a message when just its first three bytes
\* have come, that of OSDP takes a length of 0x8000 or more for a negative one, and
\* that of STid STR compares a length whose sum with the header wraps.
Leaves(p, b) ==
  \/ p = "admitto" /\ Last(b) = CR
  \/ p = "gigatms" /\ Len(b) = 3
  \/ p = "osdp" /\ Short(b[4] * 256 + b[3]) < 0
  \/ p = "stidstr" /\ b[2] * 256 + b[3] + 7 >= 65536

\* Whatever comes on the line, and however it is cut, the parsers stay inside of
\* the buffer (getValidBuffer of all parsers), but for the four cases of Leaves.
InsideTheBuffer == undefined => Leaves(protocol, buffer)
=============================================================================
