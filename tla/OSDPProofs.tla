----------------------------- MODULE OSDPProofs -----------------------------
(***************************************************************************)
(* Proofs about the OSDP panel and its device, for every set of faults,    *)
(* every number of calls and every APDU: how the two chains of MACs are    *)
(* kept in step over a line that loses, delays and repeats packages.       *)
(***************************************************************************)
EXTENDS OSDP, FiniteSets, FiniteSetTheorems, SequenceTheorems, TLAPS

-----------------------------------------------------------------------------
(* The types of packages, channels and MACs.                               *)

Datas ==
  {<<>>, <<"rnda">>, <<"cryptogram">>, <<"cipher">>, <<"getProfile">>,
   <<"setProfile">>, <<"release">>, <<"led">>, <<"buz">>, <<"error">>}
  \cup ({"apdu", "answer"} \X Apdus) \cup ({"profile"} \X {0, 1})
  \cup ({"ccrypt"} \X Nat \X BOOLEAN) \cup ({"rmac"} \X Seq(Nat))

Bodies == (0..3) \X Types \X Datas
Elems == Nat \cup Bodies
Macs == Seq(Elems)

Channels ==
  [seq : 0..3, isSCB : BOOLEAN, sb : Blocks, type : Types, data : Datas]
Secs == [session : Nat, rmac : Macs, cmac : Macs]
Packages ==
  [seq : 0..3, isSCB : BOOLEAN, sb : Blocks, type : Types, data : Datas, mac : Macs]
ReplySet ==
  [seq : 0..3, isSCB : BOOLEAN, sb : Blocks, type : Types, data : Datas, mac : Macs,
   re : Bodies]
Devices ==
  [st : {"clear", "challenged", "secure"}, session : Nat, mac : Macs,
   profile : {0, 1}, answers : Seq(Apdus), last : Seq(ReplySet), busy : Nat]
Ticks == [wall : Nat, cpu : Nat]
Pcs == {"idle", "connPoll", "connChlng", "connCrypt", "connGet", "connSet",
        "unit", "apdu", "apduPoll"}

Typed ==
  /\ open \in BOOLEAN /\ connected \in BOOLEAN
  /\ pc \in Pcs /\ phase \in {"wait", "done"}
  /\ chan \in Channels /\ sec \in Secs /\ ticks \in Ticks
  /\ toPD \in Seq(Packages) /\ toCP \in Seq(ReplySet) /\ pd \in Devices
  /\ calls \in Nat

-----------------------------------------------------------------------------
(* The inductive invariant.                                                *)

\* The steps of the handshake before the first MAC is known.
Hand == {"connPoll", "connChlng", "connCrypt"}

\* Where calls and the line are.  Without a MAC there is no session, and only
\* connectToReader may be under way.
Calls ==
  /\ pc = "idle" => phase = "done"
  /\ pc # "idle" \/ connected = TRUE => open = TRUE
  /\ pc \in {"unit", "apdu", "apduPoll"} => connected = TRUE
  /\ pc \in Hand \cup {"connGet", "connSet"} => connected = FALSE
  /\ open = FALSE => toPD = <<>> /\ toCP = <<>>
  /\ pc \in Hand => sec.rmac = <<>>
  /\ sec.rmac = <<>> => connected = FALSE /\ pc \in Hand \cup {"idle"} /\ sec.cmac = <<>>

\* The kinds of data in the answers of the handshake.
IsKind(d, kind) == d # <<>> /\ d[1] = kind
AnswersChallenge(d) == IsKind(d, "ccrypt") => d[2] = pd.session
AnswersCrypt(d) ==
  IsKind(d, "rmac") => d[2] = <<pd.session>> /\ pd.mac = <<pd.session>>

IsChallenge(p) == p.isSCB = TRUE /\ p.sb = "SCS_11"

\* The handshake goes in step: one package or reply is on the line at most, and
\* what answers the panel is of the device's present session.
Handshake ==
  sec.rmac = <<>> =>
    /\ Len(toPD) + Len(toCP) <= 1
    /\ pc \in Hand /\ phase = "done" => toPD = <<>> /\ toCP = <<>>
    /\ \A i \in 1 .. Len(toPD) :
         /\ toPD[i].isSCB = TRUE => toPD[i].sb \in {"SCS_11", "SCS_13"}
         /\ pc = "connPoll" => toPD[i].isSCB = FALSE
         /\ pc = "connCrypt" => ~IsChallenge(toPD[i])
    /\ pc = "connChlng" =>
         /\ \A i \in 1 .. Len(toCP) : AnswersChallenge(toCP[i].data)
         /\ phase = "done" => AnswersChallenge(chan.data)
    /\ pc = "connCrypt" =>
         /\ sec.session = pd.session
         /\ \A i \in 1 .. Len(toCP) : AnswersCrypt(toCP[i].data)
         /\ phase = "done" => AnswersCrypt(chan.data)

\* A reply has a MAC if and only if it is of a secure session; it is chained to
\* the command it replies to.
WellMade(r) ==
  /\ r.mac # <<>> <=> (r.isSCB = TRUE /\ Macked(r.sb))
  /\ r.mac # <<>> => /\ Len(r.mac) >= 3
                     /\ r.mac[Len(r.mac)] = Body(r) /\ r.mac[Len(r.mac) - 1] = r.re
  /\ r.type = "BUSY" => r.isSCB = FALSE

\* What the device last replied, and may repeat, is of its present state.
LastReply ==
  pd.last # <<>> =>
    /\ WellMade(pd.last[1]) /\ pd.last[1].type # "BUSY"
    /\ AnswersChallenge(pd.last[1].data) /\ AnswersCrypt(pd.last[1].data)
    /\ pd.last[1].mac # <<>> => pd.last[1].mac = pd.mac

\* The replies on the line are well made, and a session has its MAC.
Device ==
  /\ \A i \in 1 .. Len(toCP) : WellMade(toCP[i])
  /\ pd.st = "secure" => pd.mac # <<>>
  /\ LastReply

\* m is the beginning of n.
Begins(m, n) == Len(m) <= Len(n) /\ \A i \in 1 .. Len(m) : m[i] = n[i]

\* In a session the device is where the panel is, or one exchange ahead.  No
\* command on the line continues a chain the panel has not seen, and every reply
\* is a part of the device's chain.
InStepOf(s) ==
  /\ pd.session = s.session
  /\ Begins(s.rmac, pd.mac)
  /\ Len(pd.mac) = Len(s.rmac) \/ Len(pd.mac) = Len(s.rmac) + 2
  /\ Len(s.cmac) = Len(s.rmac) - 1 \/ Len(s.cmac) = Len(s.rmac) + 1
  /\ \A i \in 1 .. Len(toPD) :
       /\ toPD[i].isSCB = TRUE => toPD[i].sb = "SCS_17"
       /\ Len(toPD[i].mac) <= Len(s.rmac) + 1
  /\ \A i \in 1 .. Len(toCP) : toCP[i].mac # <<>> => Begins(toCP[i].mac, pd.mac)

InStep == sec.rmac # <<>> => InStepOf(sec)

\* The replies BUSY that are on the line.
Busies(s) == {i \in 1 .. Len(s) : s[i].type = "BUSY"}

\* Every session begins with a call, and every turn of transmit with a BUSY.
Counters ==
  /\ calls <= MaxCalls /\ pd.session <= calls /\ sec.session <= pd.session
  /\ pc = "connPoll" \/ (\E i \in 1 .. Len(toPD) : IsChallenge(toPD[i]))
       => pd.session < calls
  /\ pd.busy <= MaxBusy /\ ticks.cpu <= ticks.wall
  /\ ticks.wall + Cardinality(Busies(toCP)) <= pd.busy

IInv == Typed /\ Calls /\ Handshake /\ Device /\ InStep /\ Counters

-----------------------------------------------------------------------------
(* Facts about the operators of the model.                                 *)

\* What the data of a package carries is told by its kind.
LEMMA DataKinds ==
  ASSUME NEW d \in Datas, d # <<>>
  PROVE  /\ d[1] = "ccrypt" => d[2] \in Nat /\ d[3] \in BOOLEAN
         /\ d[1] = "rmac" => d[2] \in Seq(Nat)
         /\ d[1] \in {"apdu", "answer"} => d[2] \in Apdus
         /\ d[1] = "profile" => d[2] \in {0, 1}
BY DEF Datas

\* An APDU is in its data.
LEMMA ApduData ==
  ASSUME NEW d \in Datas, d # <<>>, d[1] = "apdu"
  PROVE  d = <<"apdu", d[2]>>
BY DEF Datas

\* The data the panel sends.
LEMMA PanelData ==
  /\ {<<>>, <<"rnda">>, <<"cryptogram">>, <<"cipher">>, <<"getProfile">>,
      <<"setProfile">>, <<"release">>, <<"led">>, <<"buz">>, <<"error">>} \subseteq Datas
  /\ \A a \in Apdus : <<"apdu", a>> \in Datas /\ <<"answer", a>> \in Datas
BY DEF Datas

\* The data the device sends in the handshake and on its profile.
LEMMA DeviceData ==
  /\ \A n \in {0, 1} : <<"profile", n>> \in Datas
  /\ \A n \in Nat, ok \in BOOLEAN : <<"ccrypt", n, ok>> \in Datas
  /\ \A n \in Nat : <<"rmac", <<n>> >> \in Datas
<1>1. \A n \in Nat : <<n>> \in Seq(Nat)
  OBVIOUS
<1> QED BY <1>1 DEF Datas

\* The body of a package is an element of a MAC.
LEMMA BodyTyped ==
  /\ \A c \in Channels : Body(c) \in Elems
  /\ \A p \in Packages : Body(p) \in Bodies /\ Body(p) \in Elems
  /\ \A r \in ReplySet : Body(r) \in Elems
BY DEF Body, Elems, Bodies, Channels, Packages, ReplySet

\* A MAC grows by one element at its end.
LEMMA MacGrows ==
  ASSUME NEW m \in Macs, NEW e \in Elems
  PROVE  /\ Append(m, e) \in Macs /\ Append(m, e) # <<>>
         /\ Len(Append(m, e)) = Len(m) + 1 /\ Append(m, e)[Len(m) + 1] = e
         /\ \A i \in 1 .. Len(m) : Append(m, e)[i] = m[i]
BY DEF Macs

\* The empty MAC, and the first one of a session.
LEMMA FirstMacs ==
  /\ <<>> \in Macs /\ Len(<<>>) = 0
  /\ \A n \in Nat : <<n>> \in Macs /\ Len(<<n>>) = 1
  /\ Seq(Nat) \subseteq Macs
<1>1. Nat \subseteq Elems
  BY DEF Elems
<1>2. Seq(Nat) \subseteq Seq(Elems)
  BY <1>1, SeqMonotonic
<1>3. \A n \in Nat : <<n>> \in Seq(Nat) /\ Len(<<n>>) = 1
  OBVIOUS
<1>4. <<>> \in Seq(Nat) /\ Len(<<>>) = 0
  OBVIOUS
<1> QED BY <1>2, <1>3, <1>4 DEF Macs

\* createPackage: the package has the fields of the channel, and a MAC chained
\* to the last reply if the channel is secured.
LEMMA PackageMade ==
  ASSUME NEW c \in Channels, NEW s \in Secs
  PROVE  LET p == createPackage(c, s) IN
         /\ p \in Packages
         /\ p.seq = c.seq /\ p.isSCB = c.isSCB /\ p.sb = c.sb /\ p.type = c.type
         /\ p.data = c.data /\ Body(p) = Body(c)
         /\ c.isSCB /\ Macked(c.sb) => p.mac = Append(s.rmac, Body(c)) /\ p.mac # <<>>
         /\ ~(c.isSCB /\ Macked(c.sb)) => p.mac = <<>>
<1> DEFINE m == IF c.isSCB /\ Macked(c.sb) THEN Append(s.rmac, Body(c)) ELSE <<>>
<1>1. s.rmac \in Macs /\ Body(c) \in Elems
  BY BodyTyped DEF Secs
<1>2. m \in Macs
  BY <1>1, MacGrows, FirstMacs
<1>3. /\ c.isSCB /\ Macked(c.sb) => m = Append(s.rmac, Body(c)) /\ m # <<>>
      /\ ~(c.isSCB /\ Macked(c.sb)) => m = <<>>
  BY <1>1, MacGrows
<1>4. createPackage(c, s) = [seq |-> c.seq, isSCB |-> c.isSCB, sb |-> c.sb,
                             type |-> c.type, data |-> c.data, mac |-> m]
  BY DEF createPackage
<1> HIDE DEF m
<1>5. createPackage(c, s) \in Packages
  BY <1>2, <1>4 DEF Packages, Channels
<1> QED BY <1>3, <1>4, <1>5 DEF Body

\* Send puts the package on the line, and m_cmac is its MAC if it has one.
LEMMA Sent ==
  ASSUME NEW c \in Channels, NEW s \in Secs, Send(c, s), toPD \in Seq(Packages)
  PROVE  /\ toPD' = Append(toPD, createPackage(c, s)) /\ toPD' \in Seq(Packages)
         /\ chan' \in Channels /\ sec' \in Secs /\ phase' = "wait"
         /\ chan'.seq = c.seq /\ chan'.isSCB = c.isSCB /\ chan'.sb = c.sb
         /\ chan'.type = c.type
         /\ sec'.session = s.session /\ sec'.rmac = s.rmac
         /\ c.isSCB /\ Macked(c.sb) => sec'.cmac = Append(s.rmac, Body(c))
         /\ ~(c.isSCB /\ Macked(c.sb)) => sec'.cmac = s.cmac
<1> DEFINE p == createPackage(c, s)
           d == IF p.mac # <<>> THEN <<"cipher">> ELSE c.data
           m == IF p.mac # <<>> THEN p.mac ELSE s.cmac
<1>1. p \in Packages
  BY PackageMade
<1>2. /\ c.isSCB /\ Macked(c.sb) => p.mac = Append(s.rmac, Body(c)) /\ p.mac # <<>>
      /\ ~(c.isSCB /\ Macked(c.sb)) => p.mac = <<>>
  BY PackageMade
<1>3. /\ toPD' = Append(toPD, p) /\ chan' = [c EXCEPT !.data = d]
      /\ sec' = [s EXCEPT !.cmac = m] /\ phase' = "wait"
  BY DEF Send
<1> HIDE DEF p
<1>4. d \in Datas
  BY PanelData DEF Channels
<1>5. m \in Macs
  BY <1>1 DEF Packages, Secs
<1>6. /\ c.isSCB /\ Macked(c.sb) => m = Append(s.rmac, Body(c))
      /\ ~(c.isSCB /\ Macked(c.sb)) => m = s.cmac
  BY <1>2
<1> HIDE DEF d, m
<1>7. /\ chan' \in Channels /\ chan'.seq = c.seq /\ chan'.isSCB = c.isSCB
      /\ chan'.sb = c.sb /\ chan'.type = c.type
  BY <1>3, <1>4 DEF Channels
<1>8. sec' \in Secs /\ sec'.session = s.session /\ sec'.rmac = s.rmac /\ sec'.cmac = m
  BY <1>3, <1>5 DEF Secs
<1>9. toPD' \in Seq(Packages)
  BY <1>1, <1>3
<1> QED BY <1>3, <1>6, <1>7, <1>8, <1>9 DEF p

\* A reply without a MAC.
LEMMA ReplyMade ==
  ASSUME NEW p \in Packages, NEW sb \in Blocks, NEW type \in Types, NEW data \in Datas
  PROVE  LET r == Reply(p, sb, type, data) IN
         /\ r \in ReplySet
         /\ r.seq = p.seq /\ (r.isSCB <=> sb # "NOSCS") /\ r.sb = sb /\ r.type = type
         /\ r.data = data /\ r.mac = <<>> /\ r.re = Body(p)
<1> DEFINE b == sb # "NOSCS"
<1>1. b \in BOOLEAN /\ Body(p) \in Bodies /\ <<>> \in Macs /\ p.seq \in 0..3
  BY BodyTyped, FirstMacs DEF Packages
<1>2. Reply(p, sb, type, data)
        = [seq |-> p.seq, isSCB |-> b, sb |-> sb, type |-> type, data |-> data,
           mac |-> <<>>, re |-> Body(p)]
  BY DEF Reply
<1>3. b <=> sb # "NOSCS"
  OBVIOUS
<1> HIDE DEF b
<1> QED BY <1>1, <1>2, <1>3 DEF ReplySet

\* A reply of a secure session: its MAC is chained to the command's.
LEMMA SecureReplyShape ==
  ASSUME NEW p \in Packages, NEW type \in Types, NEW data \in Datas
  PROVE  SecureReply(p, type, data) =
           [seq |-> p.seq, isSCB |-> TRUE, sb |-> IF data = <<>> THEN "SCS_16" ELSE "SCS_18",
            type |-> type, data |-> data, mac |-> Append(p.mac, <<p.seq, type, data>>),
            re |-> Body(p)]
<1> DEFINE sb == IF data = <<>> THEN "SCS_16" ELSE "SCS_18"
           q == Reply(p, sb, type, data)
<1>1. (sb # "NOSCS") = TRUE
  OBVIOUS
<1>2. SecureReply(p, type, data) = [q EXCEPT !.mac = Append(p.mac, Body(q))]
  BY DEF SecureReply
<1> HIDE DEF sb
<1>3. q = [seq |-> p.seq, isSCB |-> TRUE, sb |-> sb, type |-> type, data |-> data,
           mac |-> <<>>, re |-> Body(p)]
  BY <1>1 DEF Reply
<1> HIDE DEF q
<1>4. Body(q) = <<p.seq, type, data>>
  BY <1>3 DEF Body
<1> QED BY <1>2, <1>3, <1>4 DEF sb

\* Its fields.
LEMMA SecureReplyMade ==
  ASSUME NEW p \in Packages, NEW type \in Types, NEW data \in Datas
  PROVE  /\ SecureReply(p, type, data) \in ReplySet
         /\ SecureReply(p, type, data).seq = p.seq
         /\ SecureReply(p, type, data).type = type
         /\ SecureReply(p, type, data).data = data
         /\ SecureReply(p, type, data).re = Body(p)
<1> DEFINE r == SecureReply(p, type, data)
           sb == IF data = <<>> THEN "SCS_16" ELSE "SCS_18"
           m == Append(p.mac, <<p.seq, type, data>>)
           b == Body(p)
<1>1. r = [seq |-> p.seq, isSCB |-> TRUE, sb |-> sb, type |-> type, data |-> data,
           mac |-> m, re |-> b]
  BY SecureReplyShape
<1>2. /\ sb \in Blocks /\ b \in Bodies /\ p.seq \in 0..3 /\ p.mac \in Macs
  BY BodyTyped DEF Packages, Blocks
<1>3. m \in Macs
  <2>1. <<p.seq, type, data>> \in Elems BY <1>2 DEF Elems, Bodies
  <2> QED BY <1>2, <2>1, MacGrows
<1> HIDE DEF r, sb, m, b
<1>4. r \in ReplySet
  BY <1>1, <1>2, <1>3 DEF ReplySet
<1>5. r.seq = p.seq /\ r.type = type /\ r.data = data /\ r.re = b
  BY <1>1
<1> QED BY <1>4, <1>5 DEF r, b

\* Its security block calls for a MAC.
LEMMA SecureReplyBlock ==
  ASSUME NEW p \in Packages, NEW type \in Types, NEW data \in Datas
  PROVE  SecureReply(p, type, data).isSCB = TRUE /\ Macked(SecureReply(p, type, data).sb)
BY SecureReplyShape DEF Macked

\* Its MAC is that of the command and its own body.
LEMMA SecureReplyMac ==
  ASSUME NEW p \in Packages, NEW type \in Types, NEW data \in Datas
  PROVE  SecureReply(p, type, data).mac = Append(p.mac, Body(SecureReply(p, type, data)))
<1> DEFINE r == SecureReply(p, type, data)
<1>1. Body(r) = <<p.seq, type, data>>
  BY SecureReplyMade DEF Body
<1>2. r.mac = Append(p.mac, <<p.seq, type, data>>)
  BY SecureReplyShape
<1> QED BY <1>1, <1>2

\* unPackage takes the header of every reply, and its data if the MAC is right.
LEMMA Unpacked ==
  ASSUME NEW r \in ReplySet, chan \in Channels
  PROVE  LET c == unPackage(r) IN
         /\ c \in Channels
         /\ c.seq = r.seq /\ c.isSCB = r.isSCB /\ c.type = r.type
         /\ ~BadMac(r) => c.data = r.data
         /\ c.sb = (IF r.isSCB THEN r.sb ELSE chan.sb)
<1> DEFINE sb == IF r.isSCB THEN r.sb ELSE chan.sb
           d == IF BadMac(r) THEN chan.data ELSE r.data
<1>1. sb \in Blocks /\ d \in Datas
  BY DEF ReplySet, Channels
<1>2. unPackage(r) = [seq |-> r.seq, isSCB |-> r.isSCB, type |-> r.type, sb |-> sb,
                      data |-> d]
  BY DEF unPackage
<1>3. ~BadMac(r) => d = r.data
  OBVIOUS
<1> HIDE DEF sb, d
<1>4. unPackage(r) \in Channels
  BY <1>1, <1>2 DEF Channels, ReplySet
<1> QED BY <1>2, <1>3, <1>4 DEF sb

\* The channel of a command.
LEMMA CommandMade ==
  ASSUME NEW c \in Channels, NEW type \in Types, NEW data \in Datas
  PROVE  LET k == Command(c, type, data) IN
         /\ k \in Channels
         /\ k.seq = c.seq /\ k.isSCB = c.isSCB /\ k.type = type /\ k.data = data
         /\ c.isSCB => k.sb = "SCS_17"
<1> DEFINE sb == IF c.isSCB THEN "SCS_17" ELSE c.sb
<1>1. sb \in Blocks
  BY DEF Channels, Blocks
<1>2. Command(c, type, data) = [c EXCEPT !.type = type, !.data = data, !.sb = sb]
  BY DEF Command
<1>3. c.isSCB => sb = "SCS_17"
  OBVIOUS
<1> HIDE DEF sb
<1> QED BY <1>1, <1>2, <1>3 DEF Channels

\* The sequence number after an exchange.
LEMMA NextSeqTyped ==
  ASSUME NEW c \in Channels
  PROVE  LET k == [c EXCEPT !.seq = NextSeq(@)] IN
         /\ k \in Channels /\ k.isSCB = c.isSCB /\ k.sb = c.sb /\ k.type = c.type
         /\ k.data = c.data /\ k.seq = NextSeq(c.seq)
<1>1. NextSeq(c.seq) \in 0..3
  BY DEF NextSeq, Channels
<1> QED BY <1>1 DEF Channels

\* The BUSY replies on the line can be counted.
LEMMA BusiesCounted ==
  ASSUME NEW s \in Seq(ReplySet)
  PROVE  IsFiniteSet(Busies(s)) /\ Cardinality(Busies(s)) \in Nat
<1>1. Len(s) \in Nat
  OBVIOUS
<1>2. IsFiniteSet(1 .. Len(s)) /\ Busies(s) \in SUBSET (1 .. Len(s))
  BY <1>1, FS_Interval DEF Busies
<1> QED BY <1>2, FS_Subset, FS_CardinalityType

\* A BUSY that is received adds one to those on the line, nothing else does.
LEMMA BusiesGrow ==
  ASSUME NEW s \in Seq(ReplySet), NEW r \in ReplySet
  PROVE  /\ IsFiniteSet(Busies(s)) /\ Cardinality(Busies(s)) \in Nat
         /\ r.type # "BUSY" => Busies(Append(s, r)) = Busies(s)
         /\ Cardinality(Busies(Append(s, r))) <= Cardinality(Busies(s)) + 1
<1>1. Len(s) \in Nat
  OBVIOUS
<1>3. IsFiniteSet(Busies(s)) /\ Cardinality(Busies(s)) \in Nat
  BY BusiesCounted
<1>4. /\ Len(Append(s, r)) = Len(s) + 1 /\ Append(s, r)[Len(s) + 1] = r
      /\ \A i \in 1 .. Len(s) : Append(s, r)[i] = s[i]
  OBVIOUS
<1>5. r.type # "BUSY" => Busies(Append(s, r)) = Busies(s)
  BY <1>1, <1>4 DEF Busies
<1>6. r.type = "BUSY" => Busies(Append(s, r)) = Busies(s) \cup {Len(s) + 1}
  BY <1>1, <1>4 DEF Busies
<1>7. Cardinality(Busies(s) \cup {Len(s) + 1})
        = IF Len(s) + 1 \in Busies(s) THEN Cardinality(Busies(s))
          ELSE Cardinality(Busies(s)) + 1
  BY <1>3, FS_AddElement
<1>8. Cardinality(Busies(Append(s, r))) <= Cardinality(Busies(s)) + 1
  <2>1. CASE r.type # "BUSY"
    BY <2>1, <1>3, <1>5
  <2>2. CASE r.type = "BUSY"
    <3> DEFINE n == Cardinality(Busies(s))
               m == Cardinality(Busies(s) \cup {Len(s) + 1})
    <3>1. n \in Nat /\ (m = n \/ m = n + 1)
      BY <1>3, <1>7
    <3>2. Cardinality(Busies(Append(s, r))) = m
      BY <2>2, <1>6
    <3> HIDE DEF n, m
    <3>3. m <= n + 1
      BY <3>1
    <3> QED BY <3>2, <3>3 DEF n
  <2> QED BY <2>1, <2>2
<1> QED BY <1>3, <1>5, <1>8

\* A BUSY that is taken from the line is one less.
LEMMA BusiesShrink ==
  ASSUME NEW s \in Seq(ReplySet), s # <<>>
  PROVE  /\ Cardinality(Busies(s)) \in Nat /\ Cardinality(Busies(Tail(s))) \in Nat
         /\ Cardinality(Busies(Tail(s))) <= Cardinality(Busies(s))
         /\ Head(s).type = "BUSY" => Cardinality(Busies(Tail(s))) + 1 <= Cardinality(Busies(s))
<1> DEFINE f == [i \in Busies(Tail(s)) |-> i + 1]
           T == Busies(s) \ {1}
<1>1. /\ Len(s) \in Nat \ {0} /\ Tail(s) \in Seq(ReplySet) /\ Len(Tail(s)) = Len(s) - 1
      /\ Head(s) = s[1] /\ \A i \in 1 .. Len(s) - 1 : Tail(s)[i] = s[i + 1]
  OBVIOUS
<1>3. IsFiniteSet(Busies(s)) /\ Cardinality(Busies(s)) \in Nat
  BY BusiesCounted
<1>4. IsFiniteSet(T) /\ Cardinality(T) = IF 1 \in Busies(s) THEN Cardinality(Busies(s)) - 1
                                         ELSE Cardinality(Busies(s))
  BY <1>3, FS_RemoveElement
<1>5. \A i \in Busies(Tail(s)) : i \in Nat /\ i + 1 \in T
  BY <1>1 DEF Busies
<1>6. f \in Injection(Busies(Tail(s)), T)
  BY <1>5 DEF Injection, IsInjective
<1>7. IsFiniteSet(Busies(Tail(s))) /\ Cardinality(Busies(Tail(s))) <= Cardinality(T)
  BY <1>4, <1>6, FS_Injection
<1>8. Cardinality(Busies(Tail(s))) \in Nat
  BY <1>7, FS_CardinalityType
<1>9. Head(s).type = "BUSY" => 1 \in Busies(s)
  BY <1>1 DEF Busies
<1> QED BY <1>3, <1>4, <1>7, <1>8, <1>9

\* There is no BUSY on an empty line.
LEMMA NoBusies == Cardinality(Busies(<<>>)) = 0
BY FS_EmptySet DEF Busies

\* A MAC begins with itself, and with what it was before it grew.
LEMMA BeginsGrows ==
  ASSUME NEW m \in Macs, NEW n \in Macs, NEW e \in Elems, Begins(m, n)
  PROVE  Begins(m, Append(n, e))
BY DEF Begins, Macs

\* The beginning of a beginning.
LEMMA BeginsThrough ==
  ASSUME NEW m \in Macs, NEW n \in Macs, NEW k \in Macs, Begins(m, n), Begins(n, k)
  PROVE  Begins(m, k)
BY DEF Begins, Macs

\* Two beginnings of a MAC are equal when they have one length.
LEMMA BeginsUnique ==
  ASSUME NEW m \in Macs, NEW n \in Macs, NEW k \in Macs, Begins(m, k), Begins(n, k),
         Len(m) = Len(n)
  PROVE  m = n
<1>1. \A i \in 1 .. Len(m) : m[i] = n[i]
  BY DEF Begins, Macs
<1> QED BY <1>1, SeqEqual DEF Macs

-----------------------------------------------------------------------------
(* The invariant over the steps of the panel.                              *)

\* A package leaves on an empty line, as a step of the handshake.
LEMMA HandTransmit ==
  ASSUME IInv, NEW c \in Channels, NEW s \in Secs, NEW k \in Hand, Transmit(c, s, k),
         toPD = <<>>, toCP = <<>>, s.rmac = <<>>, s.cmac = <<>>,
         open' = TRUE, connected' = FALSE, calls' \in Nat, calls' <= MaxCalls,
         pd.session <= calls', s.session <= pd.session,
         c.isSCB = TRUE => c.sb \in {"SCS_11", "SCS_13"},
         k = "connPoll" => c.isSCB = FALSE,
         k = "connCrypt" => s.session = pd.session /\ c.sb # "SCS_11",
         k = "connPoll" \/ c.sb = "SCS_11" => pd.session < calls'
  PROVE  IInv'
<1> DEFINE p == createPackage(c, s)
<1>1. /\ p \in Packages /\ p.isSCB = c.isSCB /\ p.sb = c.sb
  BY PackageMade
<1>2. ~(c.isSCB /\ Macked(c.sb)) /\ c.isSCB \in BOOLEAN
  BY DEF Macked, Channels
<1>3. Send(c, s) /\ toPD \in Seq(Packages)
  BY DEF Transmit, IInv, Typed
<1>4. /\ toPD' = Append(toPD, p) /\ toPD' \in Seq(Packages)
      /\ chan' \in Channels /\ sec' \in Secs /\ phase' = "wait"
      /\ sec'.session = s.session /\ sec'.rmac = <<>> /\ sec'.cmac = <<>>
  BY <1>2, <1>3, Sent
<1>5. pc' = k /\ ticks' = [wall |-> 0, cpu |-> 0] /\ toCP' = toCP /\ pd' = pd
  BY DEF Transmit
<1> HIDE DEF p
<1>6. Len(toPD') = 1 /\ toPD'[1] = p
  BY <1>1, <1>4
<1>7. Typed'
  BY <1>4, <1>5 DEF IInv, Typed, Hand, Pcs, Ticks
<1>8. Calls'
  BY <1>4, <1>5 DEF Calls, Hand
<1>9. Handshake'
  BY <1>1, <1>4, <1>5, <1>6 DEF Handshake, IsChallenge, Hand, Macked
<1>10. Device'
  BY <1>5 DEF IInv, Device, LastReply, AnswersChallenge, AnswersCrypt
<1>11. InStep'
  BY <1>4 DEF InStep
<1>12. Counters'
  BY <1>1, <1>4, <1>5, <1>6, NoBusies DEF IInv, Typed, Devices, Counters, IsChallenge
<1> QED BY <1>7, <1>8, <1>9, <1>10, <1>11, <1>12 DEF IInv

\* A package leaves in a session, with the device in step with secure channel s.
LEMMA SessionTransmit ==
  ASSUME IInv, NEW c \in Channels, NEW s \in Secs,
         NEW k \in {"connGet", "connSet", "unit", "apdu", "apduPoll"},
         Transmit(c, s, k), s.rmac # <<>>, InStepOf(s), s.session <= pd.session,
         c.isSCB = TRUE => c.sb = "SCS_17",
         open' = TRUE, k \in {"unit", "apdu", "apduPoll"} => connected' = TRUE,
         k \in {"connGet", "connSet"} => connected' = FALSE,
         calls' \in Nat, calls <= calls', calls' <= MaxCalls
  PROVE  IInv'
<1> DEFINE p == createPackage(c, s)
<1>1. /\ p \in Packages /\ p.isSCB = c.isSCB /\ p.sb = c.sb
      /\ p.mac = <<>> \/ p.mac = Append(s.rmac, Body(c))
  BY PackageMade
<1>2. Send(c, s) /\ toPD \in Seq(Packages) /\ s.rmac \in Macs /\ Body(c) \in Elems
  BY BodyTyped DEF Transmit, IInv, Typed, Secs
<1>3. /\ toPD' = Append(toPD, p) /\ toPD' \in Seq(Packages)
      /\ chan' \in Channels /\ sec' \in Secs /\ phase' = "wait"
      /\ sec'.session = s.session /\ sec'.rmac = s.rmac
      /\ sec'.cmac = s.cmac \/ sec'.cmac = Append(s.rmac, Body(c))
  BY <1>2, Sent
<1>4. pc' = k /\ ticks' = [wall |-> 0, cpu |-> 0] /\ toCP' = toCP /\ pd' = pd
  BY DEF Transmit
<1> HIDE DEF p
<1>5. /\ Len(s.rmac) \in Nat /\ Len(Append(s.rmac, Body(c))) = Len(s.rmac) + 1
      /\ Len(<<>>) = 0
  BY <1>2, MacGrows, FirstMacs DEF Macs
<1>6. \A i \in 1 .. Len(toPD') : (i \in 1 .. Len(toPD) /\ toPD'[i] = toPD[i]) \/ toPD'[i] = p
  BY <1>1, <1>2, <1>3
<1>7. \A i \in 1 .. Len(toPD') :
        /\ toPD'[i].isSCB = TRUE => toPD'[i].sb = "SCS_17"
        /\ Len(toPD'[i].mac) <= Len(s.rmac) + 1
  BY <1>1, <1>5, <1>6 DEF InStepOf
<1>8. Len(sec'.cmac) = Len(s.rmac) - 1 \/ Len(sec'.cmac) = Len(s.rmac) + 1
  BY <1>3, <1>5 DEF InStepOf
<1>9. Typed'
  BY <1>3, <1>4 DEF IInv, Typed, Pcs, Ticks
<1>10. Calls'
  BY <1>3, <1>4 DEF Calls, Hand
<1>11. Handshake' /\ sec'.rmac # <<>>
  BY <1>3 DEF Handshake
<1>12. Device'
  BY <1>4 DEF IInv, Device, LastReply, AnswersChallenge, AnswersCrypt
<1>13. InStep'
  BY <1>3, <1>4, <1>7, <1>8 DEF InStep, InStepOf
<1>14. Counters'
  <2>1. \A i \in 1 .. Len(toPD') : ~IsChallenge(toPD'[i])
    BY <1>7 DEF IsChallenge
  <2> DEFINE n == Cardinality(Busies(toCP))
  <2>2. n <= pd.busy /\ n \in Nat
    <3>1. ticks.wall \in Nat /\ pd.busy \in Nat /\ toCP \in Seq(ReplySet)
      BY DEF IInv, Typed, Ticks, Devices
    <3>2. ticks.wall + n <= pd.busy
      BY DEF IInv, Counters
    <3>3. n \in Nat
      BY <3>1, BusiesCounted
    <3> HIDE DEF n
    <3> QED BY <3>1, <3>2, <3>3
  <2>3. ticks'.wall + n' <= pd'.busy /\ ticks'.cpu <= ticks'.wall
    <3>1. n' = n
      BY <1>4
    <3> HIDE DEF n
    <3> QED BY <1>4, <2>2, <3>1
  <2>4. /\ calls' <= MaxCalls /\ pd'.session <= calls' /\ sec'.session <= pd'.session
        /\ pd'.busy <= MaxBusy
    BY <1>3, <1>4 DEF IInv, Typed, Devices, Counters
  <2> QED BY <1>4, <2>1, <2>3, <2>4 DEF Counters
<1> QED BY <1>9, <1>10, <1>11, <1>12, <1>13, <1>14 DEF IInv

\* connectToReader sends its first poll on a new channel.
LEMMA connectToReaderKeeps == ASSUME IInv, connectToReader PROVE IInv'
<1> DEFINE c == Command(NewChannel, "POLL", <<>>)
<1>1. NewChannel \in Channels /\ NewChannel.isSCB = FALSE
  BY PanelData DEF NewChannel, Channels, Blocks, Types
<1>2. c \in Channels /\ c.isSCB = FALSE
  <2>1. "POLL" \in Types /\ <<>> \in Datas
    BY PanelData DEF Types
  <2> QED BY <1>1, <2>1, CommandMade
<1>3. /\ NoSession \in Secs /\ NoSession.rmac = <<>> /\ NoSession.cmac = <<>>
      /\ NoSession.session = 0
  BY FirstMacs DEF NoSession, Secs
<1>4. /\ toPD = <<>> /\ toCP = <<>> /\ connected' = FALSE /\ open' = TRUE
      /\ Transmit(c, NoSession, "connPoll")
  BY DEF connectToReader, Calling, IInv, Typed, Calls
<1>5. /\ calls' \in Nat /\ calls' <= MaxCalls /\ pd.session <= calls'
      /\ pd.session < calls' /\ NoSession.session <= pd.session
  BY <1>3, OSDPAssumption DEF connectToReader, Calling, IInv, Typed, Devices, Counters
<1>6. "connPoll" \in Hand
  BY DEF Hand
<1> HIDE DEF c
<1> QED BY <1>2, <1>3, <1>4, <1>5, <1>6, HandTransmit

\* The challenge leaves when the poll was answered.
LEMMA challengeKeeps == ASSUME IInv, challenge PROVE IInv'
<1> DEFINE c == [chan EXCEPT !.type = "CHLNG", !.isSCB = TRUE, !.sb = "SCS_11",
                             !.data = <<"rnda">>]
<1>1. c \in Channels /\ c.sb = "SCS_11" /\ sec \in Secs
  BY PanelData DEF IInv, Typed, Channels, Blocks, Types
<1>2. /\ pc = "connPoll" /\ phase = "done" /\ open' = open /\ connected' = connected
      /\ calls' = calls /\ Transmit(c, sec, "connChlng")
  BY DEF challenge, Returned
<1>3. /\ sec.rmac = <<>> /\ sec.cmac = <<>> /\ open' = TRUE /\ connected' = FALSE
  BY <1>2 DEF IInv, Calls, Hand
<1>4. toPD = <<>> /\ toCP = <<>>
  BY <1>2, <1>3 DEF IInv, Handshake, Hand
<1>5. /\ calls' \in Nat /\ calls' <= MaxCalls /\ pd.session <= calls'
      /\ pd.session < calls' /\ sec.session <= pd.session
  BY <1>2 DEF IInv, Typed, Counters
<1>6. "connChlng" \in Hand
  BY DEF Hand
<1> HIDE DEF c
<1> QED BY <1>1, <1>2, <1>3, <1>4, <1>5, <1>6, HandTransmit

\* sCrypt leaves with the secure channel of the device's session.
LEMMA sCryptKeeps == ASSUME IInv, sCrypt PROVE IInv'
<1> DEFINE c == [chan EXCEPT !.type = "OSCRYPT", !.sb = "SCS_13",
                             !.data = <<"cryptogram">>]
           s == OSDPSecureChannel
<1>1. c \in Channels /\ c.sb = "SCS_13"
  BY PanelData DEF IInv, Typed, Channels, Blocks, Types
<1>2. /\ pc = "connChlng" /\ phase = "done" /\ open' = open /\ connected' = connected
      /\ calls' = calls /\ Transmit(c, s, "connCrypt") /\ ChallengeAnswer
  BY DEF sCrypt, Returned
<1>3. /\ sec.rmac = <<>> /\ open' = TRUE /\ connected' = FALSE
  BY <1>2 DEF IInv, Calls, Hand
<1>4. /\ toPD = <<>> /\ toCP = <<>> /\ chan.data[2] = pd.session
  BY <1>2, <1>3 DEF IInv, Handshake, Hand, AnswersChallenge, IsKind, ChallengeAnswer
<1>5. s \in Secs /\ s.rmac = <<>> /\ s.cmac = <<>> /\ s.session = pd.session
  BY <1>4, FirstMacs DEF OSDPSecureChannel, Secs, IInv, Typed, Devices
<1>6. /\ calls' \in Nat /\ calls' <= MaxCalls /\ pd.session <= calls'
      /\ s.session <= pd.session
  BY <1>2, <1>5 DEF IInv, Typed, Devices, Counters
<1>7. "connCrypt" \in Hand
  BY DEF Hand
<1> HIDE DEF c, s
<1> QED BY <1>1, <1>2, <1>3, <1>4, <1>5, <1>6, <1>7, HandTransmit

\* getProfile is the first command of the session: it is chained to the MAC the
\* device gave in the handshake.
LEMMA getProfileKeeps == ASSUME IInv, getProfile PROVE IInv'
<1> DEFINE d == [chan EXCEPT !.isSCB = TRUE]
           c == Command(d, "XWR", <<"getProfile">>)
           s == [sec EXCEPT !.rmac = chan.data[2]]
<1>1. d \in Channels /\ d.isSCB = TRUE
  BY DEF IInv, Typed, Channels
<1>2. /\ pc = "connCrypt" /\ phase = "done" /\ open' = open /\ connected' = connected
      /\ calls' = calls /\ Transmit(c, s, "connGet") /\ CryptAnswer
  BY DEF getProfile, Returned
<1> HIDE DEF d
<1>3. c \in Channels /\ c.sb = "SCS_17"
  <2>1. "XWR" \in Types /\ <<"getProfile">> \in Datas
    BY PanelData DEF Types
  <2> QED BY <1>1, <2>1, CommandMade
<1>4. /\ sec.rmac = <<>> /\ sec.cmac = <<>> /\ open' = TRUE /\ connected' = FALSE
  BY <1>2 DEF IInv, Calls, Hand
<1>5. /\ toPD = <<>> /\ toCP = <<>> /\ sec.session = pd.session
      /\ chan.data[2] = <<pd.session>> /\ pd.mac = <<pd.session>>
  BY <1>2, <1>4 DEF IInv, Handshake, Hand, AnswersCrypt, IsKind, CryptAnswer
<1>6. /\ pd.session \in Nat /\ <<pd.session>> \in Macs /\ Len(<<pd.session>>) = 1
      /\ Len(<<>>) = 0
  BY FirstMacs DEF IInv, Typed, Devices
<1>7. /\ s \in Secs /\ s.rmac = <<pd.session>> /\ s.cmac = <<>>
      /\ s.session = pd.session
  BY <1>4, <1>5, <1>6 DEF Secs, IInv, Typed
<1> HIDE DEF c, s
<1>8. InStepOf(s) /\ s.rmac # <<>>
  BY <1>5, <1>6, <1>7 DEF InStepOf, Begins
<1>9. /\ calls' \in Nat /\ calls <= calls' /\ calls' <= MaxCalls
      /\ s.session <= pd.session
  BY <1>2, <1>6, <1>7 DEF IInv, Typed, Counters
<1> QED BY <1>2, <1>3, <1>4, <1>6, <1>7, <1>8, <1>9, SessionTransmit

\* A command of the session, with the panel's own secure channel.
LEMMA CommandKeeps ==
  ASSUME IInv, NEW type \in Types, NEW data \in Datas,
         NEW k \in {"connSet", "unit", "apdu", "apduPoll"},
         Transmit(Command(chan, type, data), sec, k), sec.rmac # <<>>,
         open' = TRUE, k \in {"unit", "apdu", "apduPoll"} => connected' = TRUE,
         k = "connSet" => connected' = FALSE,
         calls' = calls \/ (calls < MaxCalls /\ calls' = calls + 1)
  PROVE  IInv'
<1> DEFINE c == Command(chan, type, data)
<1>1. /\ c \in Channels /\ c.isSCB = chan.isSCB /\ (chan.isSCB => c.sb = "SCS_17")
      /\ sec \in Secs
  BY CommandMade DEF IInv, Typed
<1>2. Transmit(c, sec, k)
  OBVIOUS
<1>3. InStepOf(sec) /\ sec.session <= pd.session
  BY DEF IInv, InStep, Counters
<1>4. calls' \in Nat /\ calls <= calls' /\ calls' <= MaxCalls
  BY OSDPAssumption DEF IInv, Typed, Counters
<1> HIDE DEF c
<1> QED BY <1>1, <1>2, <1>3, <1>4, SessionTransmit

\* A reader in another profile is switched.
LEMMA setProfileKeeps == ASSUME IInv, setProfile PROVE IInv'
<1>1. /\ pc = "connGet" /\ open' = open /\ connected' = connected /\ calls' = calls
      /\ Transmit(Command(chan, "XWR", <<"setProfile">>), sec, "connSet")
  BY DEF setProfile, Returned
<1>2. sec.rmac # <<>> /\ open' = TRUE /\ connected' = FALSE
  BY <1>1 DEF IInv, Calls, Hand
<1>3. "XWR" \in Types /\ <<"setProfile">> \in Datas
  BY PanelData DEF Types
<1> QED BY <1>1, <1>2, <1>3, CommandKeeps

\* A command of waitInsertion or waitRemoval.
LEMMA UnitCommandKeeps ==
  ASSUME IInv, NEW type \in Types, NEW data \in Datas, UnitCommand(type, data)
  PROVE  IInv'
<1>1. /\ open = TRUE /\ connected = TRUE /\ open' = open /\ connected' = connected
      /\ calls < MaxCalls /\ calls' = calls + 1
      /\ Transmit(Command(chan, type, data), sec, "unit")
  BY DEF UnitCommand, Calling, IInv, Typed
<1>2. sec.rmac # <<>>
  BY <1>1 DEF IInv, Calls
<1> QED BY <1>1, <1>2, CommandKeeps

\* sendCommand puts the APDU in a package.
LEMMA sendCommandKeeps == ASSUME IInv, sendCommand PROVE IInv'
<1>1. /\ open = TRUE /\ connected = TRUE /\ open' = open /\ connected' = connected
      /\ calls < MaxCalls /\ calls' = calls + 1
  BY DEF sendCommand, Calling, IInv, Typed
<1>2. PICK a \in Apdus : Transmit(Command(chan, "XWR", <<"apdu", a>>), sec, "apdu")
  BY DEF sendCommand
<1>3. sec.rmac # <<>>
  BY <1>1 DEF IInv, Calls
<1>4. "XWR" \in Types /\ <<"apdu", a>> \in Datas
  BY PanelData DEF Types
<1> QED BY <1>1, <1>2, <1>3, <1>4, CommandKeeps

\* The poll for the answer of an APDU that was only acknowledged.
LEMMA PollForAnswerKeeps == ASSUME IInv, PollForAnswer PROVE IInv'
<1>1. /\ pc = "apdu" /\ open' = open /\ connected' = connected /\ calls' = calls
      /\ Transmit(Command(chan, "POLL", <<>>), sec, "apduPoll")
  BY DEF PollForAnswer, Returned
<1>2. sec.rmac # <<>> /\ open' = TRUE /\ connected' = TRUE
  BY <1>1 DEF IInv, Calls, Hand
<1>3. "POLL" \in Types /\ <<>> \in Datas
  BY PanelData DEF Types
<1> QED BY <1>1, <1>2, <1>3, CommandKeeps

\* The first package of a line, and the line without it.
LEMMA Taken ==
  ASSUME NEW S, NEW s \in Seq(S), s # <<>>
  PROVE  /\ Head(s) \in S /\ Head(s) = s[1] /\ Len(s) \in Nat \ {0}
         /\ Tail(s) \in Seq(S) /\ Len(Tail(s)) = Len(s) - 1
         /\ \A i \in 1 .. Len(Tail(s)) : i + 1 \in 1 .. Len(s) /\ Tail(s)[i] = s[i + 1]
OBVIOUS

\* A call ends or throws: the MACs are kept, and a reply is taken at most.
LEMMA LeaveKeeps ==
  ASSUME IInv, Leave, chan' \in Channels, sec' \in Secs,
         sec'.rmac = sec.rmac, sec'.cmac = sec.cmac, sec'.session <= pd.session,
         sec.rmac # <<>> => sec'.session = sec.session,
         open' = open, connected' \in BOOLEAN,
         connected' = TRUE => open = TRUE /\ sec.rmac # <<>>,
         ticks' = ticks, toPD' = toPD, pd' = pd, calls' = calls,
         toCP' = toCP \/ (toCP # <<>> /\ toCP' = Tail(toCP))
  PROVE  IInv'
<1>1. pc' = "idle" /\ phase' = "done"
  BY DEF Leave
<1>2. /\ toCP' \in Seq(ReplySet) /\ Len(toCP') <= Len(toCP) /\ Len(toCP') \in Nat
      /\ \A i \in 1 .. Len(toCP') : \E j \in 1 .. Len(toCP) : toCP'[i] = toCP[j]
  <2>1. toCP \in Seq(ReplySet) /\ Len(toCP) \in Nat
    BY DEF IInv, Typed
  <2>2. CASE toCP' = toCP
    BY <2>1, <2>2
  <2>3. CASE toCP # <<>> /\ toCP' = Tail(toCP)
    BY <2>1, <2>3, Taken
  <2> QED BY <2>2, <2>3
<1>3. Typed'
  BY <1>1, <1>2 DEF IInv, Typed, Pcs
<1>4. Calls'
  <2>1. open' = FALSE => toPD' = <<>> /\ toCP' = <<>>
    BY DEF IInv, Calls
  <2> QED BY <1>1, <2>1 DEF IInv, Calls, Typed, Hand
<1>5. Handshake'
  <2>1. sec.rmac = <<>> =>
          /\ Len(toPD) + Len(toCP) <= 1
          /\ \A i \in 1 .. Len(toPD) :
               toPD[i].isSCB = TRUE => toPD[i].sb \in {"SCS_11", "SCS_13"}
    BY DEF IInv, Handshake
  <2>2. Len(toPD) \in Nat /\ Len(toCP) \in Nat
    BY DEF IInv, Typed
  <2> QED BY <1>1, <1>2, <2>1, <2>2 DEF Handshake, Hand
<1>6. Device'
  <2>1. \A i \in 1 .. Len(toCP') : WellMade(toCP'[i])
    BY <1>2 DEF IInv, Device
  <2> QED BY <2>1 DEF IInv, Device, LastReply, AnswersChallenge, AnswersCrypt
<1>7. InStep'
  BY <1>2 DEF IInv, InStep, InStepOf
<1>8. Counters'
  <2> DEFINE n == Cardinality(Busies(toCP))
  <2>1. n' <= n /\ n \in Nat /\ n' \in Nat
    <3>1. toCP \in Seq(ReplySet) /\ n \in Nat
      BY BusiesCounted DEF IInv, Typed
    <3>2. CASE toCP' = toCP
      BY <3>1, <3>2
    <3>3. CASE toCP # <<>> /\ toCP' = Tail(toCP)
      BY <3>1, <3>3, BusiesShrink
    <3> QED BY <3>2, <3>3
  <2>2. ticks.wall + n <= pd.busy /\ ticks.wall \in Nat /\ pd.busy \in Nat
    BY DEF IInv, Counters, Typed, Ticks, Devices
  <2> HIDE DEF n
  <2>3. ticks'.wall + n' <= pd'.busy
    BY <2>1, <2>2
  <2> QED BY <1>1, <2>3 DEF IInv, Counters, n
<1> QED BY <1>3, <1>4, <1>5, <1>6, <1>7, <1>8 DEF IInv

\* transmit gets nothing in time.
LEMMA TimeoutKeeps == ASSUME IInv, Timeout PROVE IInv'
<1>1. /\ chan \in Channels /\ sec \in Secs /\ connected \in BOOLEAN
      /\ sec.session <= pd.session
      /\ connected = TRUE => open = TRUE /\ sec.rmac # <<>>
  BY DEF IInv, Typed, Calls, Counters
<1> QED BY <1>1, LeaveKeeps DEF Timeout

\* unPackage throws.
LEMMA RejectReplyKeeps == ASSUME IInv, RejectReply PROVE IInv'
<1>1. /\ sec \in Secs /\ connected \in BOOLEAN /\ sec.session <= pd.session
      /\ connected = TRUE => open = TRUE /\ sec.rmac # <<>>
      /\ chan \in Channels /\ toCP \in Seq(ReplySet)
  BY DEF IInv, Typed, Calls, Counters
<1>2. toCP # <<>> /\ Head(toCP) \in ReplySet
  BY <1>1, Taken DEF RejectReply
<1>3. chan' \in Channels
  BY <1>1, <1>2, Unpacked DEF RejectReply
<1> QED BY <1>1, <1>2, <1>3, LeaveKeeps DEF RejectReply

\* challenge() or checkPDAuthentication throws, with a new secure channel if the
\* answer had the length of one.
LEMMA ChallengeFailsKeeps == ASSUME IInv, ChallengeFails PROVE IInv'
<1>1. /\ chan \in Channels /\ sec \in Secs /\ connected \in BOOLEAN
      /\ sec.session <= pd.session /\ pd.session \in Nat
      /\ connected = TRUE => open = TRUE /\ sec.rmac # <<>>
  BY DEF IInv, Typed, Calls, Counters, Devices
<1>2. pc = "connChlng" /\ phase = "done"
  BY DEF ChallengeFails, Returned
<1>3. sec.rmac = <<>> /\ sec.cmac = <<>>
  BY <1>2 DEF IInv, Calls, Hand
<1>4. ChallengeAnswer => chan.data[2] = pd.session
  BY <1>2, <1>3 DEF IInv, Handshake, AnswersChallenge, IsKind, ChallengeAnswer
<1>5. ChallengeAnswer =>
        /\ OSDPSecureChannel \in Secs /\ OSDPSecureChannel.rmac = <<>>
        /\ OSDPSecureChannel.cmac = <<>> /\ OSDPSecureChannel.session <= pd.session
  BY <1>1, <1>4, FirstMacs DEF OSDPSecureChannel, Secs
<1>6. /\ sec' \in Secs /\ sec'.rmac = <<>> /\ sec'.cmac = <<>>
      /\ sec'.session <= pd.session
  BY <1>1, <1>3, <1>5 DEF ChallengeFails
<1> QED BY <1>1, <1>3, <1>6, LeaveKeeps DEF ChallengeFails

\* sCrypt throws.
LEMMA CryptFailsKeeps == ASSUME IInv, CryptFails PROVE IInv'
<1>1. /\ chan \in Channels /\ sec \in Secs /\ connected \in BOOLEAN
      /\ sec.session <= pd.session
      /\ connected = TRUE => open = TRUE /\ sec.rmac # <<>>
  BY DEF IInv, Typed, Calls, Counters
<1> QED BY <1>1, LeaveKeeps DEF CryptFails

\* connectToReader returns, or throws after setProfile.
LEMMA ConnectDoneKeeps == ASSUME IInv, ConnectDone PROVE IInv'
<1>1. /\ chan \in Channels /\ sec \in Secs /\ sec.session <= pd.session
  BY DEF IInv, Typed, Counters
<1>2. pc \in {"connGet", "connSet"}
  BY DEF ConnectDone, Returned
<1>3. open = TRUE /\ sec.rmac # <<>>
  BY <1>2 DEF IInv, Calls, Hand
<1>4. connected' \in BOOLEAN
  BY DEF ConnectDone
<1> QED BY <1>1, <1>3, <1>4, LeaveKeeps DEF ConnectDone

\* A command of waitInsertion or waitRemoval returns.
LEMMA UnitCommandDoneKeeps == ASSUME IInv, UnitCommandDone PROVE IInv'
<1>1. /\ chan \in Channels /\ sec \in Secs /\ connected \in BOOLEAN
      /\ sec.session <= pd.session
      /\ connected = TRUE => open = TRUE /\ sec.rmac # <<>>
  BY DEF IInv, Typed, Calls, Counters
<1> QED BY <1>1, LeaveKeeps DEF UnitCommandDone

\* sendCommand returns.
LEMMA SendCommandDoneKeeps == ASSUME IInv, SendCommandDone PROVE IInv'
<1>1. /\ chan \in Channels /\ sec \in Secs /\ connected \in BOOLEAN
      /\ sec.session <= pd.session
      /\ connected = TRUE => open = TRUE /\ sec.rmac # <<>>
  BY DEF IInv, Typed, Calls, Counters
<1> QED BY <1>1, LeaveKeeps DEF SendCommandDone

\* disconnectFromReader empties the line.
LEMMA disconnectFromReaderKeeps == ASSUME IInv, disconnectFromReader PROVE IInv'
<1>1. /\ pc = "idle" /\ pc' = pc /\ phase' = phase /\ open' = FALSE
      /\ connected' = FALSE /\ toPD' = <<>> /\ toCP' = <<>> /\ chan' = chan
      /\ sec' = sec /\ ticks' = ticks /\ pd' = pd
      /\ calls < MaxCalls /\ calls' = calls + 1
  BY DEF disconnectFromReader, Calling
<1>2. Typed'
  <2>1. <<>> \in Seq(Packages) /\ <<>> \in Seq(ReplySet)
    OBVIOUS
  <2>2. calls' \in Nat
    BY <1>1 DEF IInv, Typed
  <2> QED BY <1>1, <2>1, <2>2 DEF IInv, Typed
<1>3. Calls'
  BY <1>1 DEF IInv, Calls, Hand
<1>4. Handshake'
  BY <1>1 DEF Handshake, Hand
<1>5. Device'
  BY <1>1 DEF IInv, Device, LastReply, AnswersChallenge, AnswersCrypt
<1>6. InStep'
  BY <1>1 DEF IInv, InStep, InStepOf
<1>7. Counters'
  <2> DEFINE n == Cardinality(Busies(toCP))
  <2>1. n \in Nat /\ n' = 0
    BY <1>1, BusiesCounted, NoBusies DEF IInv, Typed
  <2>2. /\ ticks.wall + n <= pd.busy /\ ticks.wall \in Nat /\ pd.busy \in Nat
        /\ calls \in Nat /\ pd.session \in Nat
    BY DEF IInv, Counters, Typed, Ticks, Devices
  <2> HIDE DEF n
  <2>3. ticks'.wall + n' <= pd'.busy
    BY <1>1, <2>1, <2>2
  <2>4. calls' <= MaxCalls /\ pd'.session <= calls'
    BY <1>1, <2>2, OSDPAssumption DEF IInv, Counters
  <2> QED BY <1>1, <2>3, <2>4 DEF IInv, Counters, n
<1> QED BY <1>2, <1>3, <1>4, <1>5, <1>6, <1>7 DEF IInv

\* A reply is taken from the line: transmit returns with it, or after BUSY sends a
\* package that is not secured.  The panel takes a step of the session if the MAC
\* is the device's.
LEMMA ReplyKeeps ==
  ASSUME IInv, phase = "wait", toCP # <<>>, toCP' = Tail(toCP),
         chan' \in Channels, sec' \in Secs, sec'.session = sec.session,
         sec'.cmac = sec.cmac,
         \/ sec'.rmac = sec.rmac
         \/ /\ sec.rmac # <<>> /\ sec'.rmac = pd.mac
            /\ Len(pd.mac) = Len(sec.rmac) + 2 /\ Len(sec.cmac) = Len(sec.rmac) + 1,
         \/ phase' = "done" /\ toPD' = toPD /\ chan'.data = Head(toCP).data
         \/ /\ phase' = "wait"
            /\ \E p \in Packages : /\ p.isSCB = FALSE /\ p.mac = <<>>
                                   /\ toPD' = Append(toPD, p),
         ticks' \in Ticks, ticks'.cpu <= ticks'.wall,
         \/ ticks'.wall = ticks.wall
         \/ ticks'.wall = ticks.wall + 1 /\ Head(toCP).type = "BUSY",
         open' = open, connected' = connected, pc' = pc, pd' = pd, calls' = calls
  PROVE  IInv'
<1>1. /\ toCP \in Seq(ReplySet) /\ toPD \in Seq(Packages) /\ Len(toPD) \in Nat
      /\ sec \in Secs /\ pd \in Devices
  BY DEF IInv, Typed
<1>2. /\ Head(toCP) = toCP[1] /\ Len(toCP) \in Nat \ {0}
      /\ toCP' \in Seq(ReplySet) /\ Len(toCP') = Len(toCP) - 1
      /\ \A i \in 1 .. Len(toCP') : \E j \in 1 .. Len(toCP) : toCP'[i] = toCP[j]
  BY <1>1, Taken
<1>3. /\ toPD' \in Seq(Packages)
      /\ Len(toPD') = Len(toPD) \/ (phase' = "wait" /\ Len(toPD') = Len(toPD) + 1)
      /\ \A i \in 1 .. Len(toPD') :
           \/ i \in 1 .. Len(toPD) /\ toPD'[i] = toPD[i]
           \/ toPD'[i].isSCB = FALSE /\ toPD'[i].mac = <<>>
  <2>1. CASE toPD' = toPD
    BY <1>1, <2>1
  <2>2. CASE phase' = "wait" /\ \E p \in Packages : /\ p.isSCB = FALSE /\ p.mac = <<>>
                                                    /\ toPD' = Append(toPD, p)
    BY <1>1, <2>2
  <2> QED BY <2>1, <2>2
<1>4. sec'.rmac = <<>> <=> sec.rmac = <<>>
  <2>1. /\ Len(sec.rmac) \in Nat /\ Len(<<>>) = 0
    BY <1>1 DEF Secs, Macs
  <2> QED BY <2>1
<1>5. Typed'
  BY <1>2, <1>3 DEF IInv, Typed
<1>6. Calls'
  <2>1. pc # "idle" /\ open = TRUE
    BY DEF IInv, Calls
  <2> QED BY <1>4, <2>1 DEF IInv, Calls, Hand
<1>7. Handshake'
  <2> SUFFICES ASSUME sec.rmac = <<>> PROVE Handshake'
    BY <1>4 DEF Handshake
  <2>1. /\ Len(toPD) + Len(toCP) <= 1
        /\ pc = "connChlng" => AnswersChallenge(Head(toCP).data)
        /\ pc = "connCrypt" => sec.session = pd.session /\ AnswersCrypt(Head(toCP).data)
    BY <1>2 DEF IInv, Handshake
  <2>2. Len(toPD) = 0 /\ Len(toCP') = 0
    BY <1>1, <1>2, <2>1
  <2>3. /\ toCP' = <<>> /\ (phase' = "done" => toPD' = <<>>)
        /\ Len(toPD') + Len(toCP') <= 1
    BY <1>1, <1>2, <1>3, <2>2
  <2>4. \A i \in 1 .. Len(toPD') : toPD'[i].isSCB = FALSE
    BY <1>3, <2>2
  <2>5. phase' = "done" => chan'.data = Head(toCP).data
    OBVIOUS
  <2> QED BY <2>1, <2>2, <2>3, <2>4, <2>5
      DEF Handshake, AnswersChallenge, AnswersCrypt, IsChallenge
<1>8. Device'
  <2>1. \A i \in 1 .. Len(toCP') : WellMade(toCP'[i])
    BY <1>2 DEF IInv, Device
  <2> QED BY <2>1 DEF IInv, Device, LastReply, AnswersChallenge, AnswersCrypt
<1>9. InStep'
  <2> SUFFICES ASSUME sec.rmac # <<>> PROVE InStep'
    BY <1>4 DEF InStep
  <2>1. /\ Len(sec.rmac) \in Nat /\ Len(sec.cmac) \in Nat /\ Len(pd.mac) \in Nat
        /\ Len(<<>>) = 0
    BY <1>1 DEF Secs, Devices, Macs
  <2>2. InStepOf(sec)
    BY DEF IInv, InStep
  <2>3. /\ Begins(sec'.rmac, pd.mac)
        /\ Len(pd.mac) = Len(sec'.rmac) \/ Len(pd.mac) = Len(sec'.rmac) + 2
        /\ Len(sec.cmac) = Len(sec'.rmac) - 1 \/ Len(sec.cmac) = Len(sec'.rmac) + 1
        /\ Len(sec.rmac) <= Len(sec'.rmac) /\ Len(sec'.rmac) \in Nat
    <3>1. CASE sec'.rmac = sec.rmac
      BY <2>1, <2>2, <3>1 DEF InStepOf
    <3>2. CASE /\ sec'.rmac = pd.mac /\ Len(pd.mac) = Len(sec.rmac) + 2
               /\ Len(sec.cmac) = Len(sec.rmac) + 1
      <4>1. Begins(pd.mac, pd.mac)
        BY <2>1 DEF Begins
      <4> QED BY <2>1, <3>2, <4>1
    <3> QED BY <3>1, <3>2
  <2>4. \A i \in 1 .. Len(toPD') :
          /\ toPD'[i].isSCB = TRUE => toPD'[i].sb = "SCS_17"
          /\ Len(toPD'[i].mac) <= Len(sec'.rmac) + 1
    <3>1. \A i \in 1 .. Len(toPD) :
            /\ toPD[i].isSCB = TRUE => toPD[i].sb = "SCS_17"
            /\ Len(toPD[i].mac) <= Len(sec.rmac) + 1 /\ Len(toPD[i].mac) \in Nat
      <4>1. \A i \in 1 .. Len(toPD) : Len(toPD[i].mac) \in Nat
        BY <1>1 DEF Packages, Macs
      <4> QED BY <2>2, <4>1 DEF InStepOf
    <3> SUFFICES ASSUME NEW i \in 1 .. Len(toPD')
                 PROVE  /\ toPD'[i].isSCB = TRUE => toPD'[i].sb = "SCS_17"
                        /\ Len(toPD'[i].mac) <= Len(sec'.rmac) + 1
      OBVIOUS
    <3>2. CASE i \in 1 .. Len(toPD) /\ toPD'[i] = toPD[i]
      <4>1. /\ toPD'[i].isSCB = TRUE => toPD'[i].sb = "SCS_17"
            /\ Len(toPD'[i].mac) <= Len(sec.rmac) + 1 /\ Len(toPD'[i].mac) \in Nat
        BY <3>1, <3>2
      <4>2. Len(toPD'[i].mac) <= Len(sec'.rmac) + 1
        BY <2>1, <2>3, <4>1
      <4> QED BY <4>1, <4>2
    <3>3. CASE toPD'[i].isSCB = FALSE /\ toPD'[i].mac = <<>>
      BY <2>1, <2>3, <3>3
    <3> QED BY <1>3, <3>2, <3>3
  <2>5. \A i \in 1 .. Len(toCP') : toCP'[i].mac # <<>> => Begins(toCP'[i].mac, pd.mac)
    BY <1>2, <2>2 DEF InStepOf
  <2>6. pd.session = sec.session
    BY <2>2 DEF InStepOf
  <2> QED BY <2>3, <2>4, <2>5, <2>6 DEF InStep, InStepOf
<1>10. Counters'
  <2> DEFINE n == Cardinality(Busies(toCP))
  <2>1. /\ n \in Nat /\ n' \in Nat /\ n' <= n
        /\ Head(toCP).type = "BUSY" => n' + 1 <= n
    BY <1>1, BusiesShrink
  <2>2. ticks.wall + n <= pd.busy /\ ticks.wall \in Nat /\ pd.busy \in Nat
    BY DEF IInv, Counters, Typed, Ticks, Devices
  <2> HIDE DEF n
  <2>3. ticks'.wall + n' <= pd'.busy
    BY <2>1, <2>2
  <2>4. (\E i \in 1 .. Len(toPD') : IsChallenge(toPD'[i])) =>
           \E i \in 1 .. Len(toPD) : IsChallenge(toPD[i])
    BY <1>3 DEF IsChallenge
  <2> QED BY <2>3, <2>4 DEF IInv, Counters, n
<1> QED BY <1>5, <1>6, <1>7, <1>8, <1>9, <1>10 DEF IInv

\* A reply whose MAC the panel accepts is the one it has, or the device's.
LEMMA AcceptedMac ==
  ASSUME IInv, toCP # <<>>, ~BadMac(Head(toCP)), Head(toCP).mac # <<>>
  PROVE  /\ sec.rmac # <<>>
         /\ \/ Head(toCP).mac = sec.rmac
            \/ /\ Head(toCP).mac = pd.mac /\ Len(pd.mac) = Len(sec.rmac) + 2
               /\ Len(sec.cmac) = Len(sec.rmac) + 1
<1> DEFINE r == Head(toCP)
<1>1. r \in ReplySet /\ r = toCP[1] /\ 1 \in 1 .. Len(toCP)
  BY Taken DEF IInv, Typed
<1>2. sec.rmac \in Macs /\ sec.cmac \in Macs /\ pd.mac \in Macs /\ r.mac \in Macs
  BY <1>1 DEF IInv, Typed, Secs, Devices, ReplySet
<1>3. /\ Len(sec.rmac) \in Nat /\ Len(sec.cmac) \in Nat /\ Len(pd.mac) \in Nat
      /\ Len(<<>>) = 0
  BY <1>2 DEF Macs
<1>4. WellMade(r)
  BY <1>1 DEF IInv, Device
<1>5. r.mac = Append(sec.cmac, Body(r)) /\ Len(r.mac) >= 3
  BY <1>4 DEF WellMade, BadMac, verifyMAC
<1>6. Len(r.mac) = Len(sec.cmac) + 1
  BY <1>1, <1>2, <1>5, BodyTyped, MacGrows
<1>7. sec.rmac # <<>>
  BY <1>3, <1>5, <1>6 DEF IInv, Calls
<1>8. InStepOf(sec) /\ Begins(r.mac, pd.mac)
  BY <1>1, <1>7 DEF IInv, InStep, InStepOf
<1> HIDE DEF r
<1>9. CASE Len(r.mac) = Len(sec.rmac)
  BY <1>2, <1>7, <1>8, <1>9, BeginsUnique DEF InStepOf, r
<1>10. CASE Len(r.mac) # Len(sec.rmac)
  <2>1. /\ Len(sec.cmac) = Len(sec.rmac) + 1 /\ Len(r.mac) = Len(pd.mac)
        /\ Len(pd.mac) = Len(sec.rmac) + 2
    BY <1>3, <1>6, <1>8, <1>10 DEF InStepOf, Begins
  <2>2. Begins(pd.mac, pd.mac)
    BY <1>3 DEF Begins
  <2> QED BY <1>2, <1>7, <1>8, <2>1, <2>2, BeginsUnique DEF r
<1> QED BY <1>9, <1>10

\* transmit returns with the reply.
LEMMA AcceptReplyKeeps == ASSUME IInv, AcceptReply PROVE IInv'
<1> DEFINE r == Head(toCP)
           m == IF r.mac # <<>> THEN r.mac ELSE sec.rmac
           c == unPackage(r)
<1>1. /\ phase = "wait" /\ toCP # <<>> /\ ~BadMac(r) /\ toCP' = Tail(toCP)
      /\ chan' = [c EXCEPT !.seq = NextSeq(@)] /\ sec' = [sec EXCEPT !.rmac = m]
      /\ phase' = "done" /\ open' = open /\ connected' = connected /\ pc' = pc
      /\ ticks' = ticks /\ toPD' = toPD /\ pd' = pd /\ calls' = calls
  BY DEF AcceptReply
<1>2. /\ r \in ReplySet /\ sec \in Secs /\ chan \in Channels /\ ticks \in Ticks
      /\ ticks.cpu <= ticks.wall
  BY <1>1, Taken DEF IInv, Typed, Counters
<1>3. c \in Channels /\ c.data = r.data
  BY <1>1, <1>2, Unpacked
<1>4. m \in Macs
  BY <1>2 DEF ReplySet, Secs
<1>5. \/ m = sec.rmac
      \/ /\ sec.rmac # <<>> /\ m = pd.mac
         /\ Len(pd.mac) = Len(sec.rmac) + 2 /\ Len(sec.cmac) = Len(sec.rmac) + 1
  BY <1>1, AcceptedMac
<1> HIDE DEF c, m
<1>6. chan' \in Channels /\ chan'.data = r.data
  BY <1>1, <1>3, NextSeqTyped
<1>7. sec' \in Secs /\ sec'.session = sec.session /\ sec'.cmac = sec.cmac /\ sec'.rmac = m
  BY <1>1, <1>2, <1>4 DEF Secs
<1> QED BY <1>1, <1>2, <1>5, <1>6, <1>7, ReplyKeeps

\* The device answers BUSY.
LEMMA BusyKeeps == ASSUME IInv, Busy PROVE IInv'
<1> DEFINE r == Head(toCP)
           c == unPackage(r)
<1>1. /\ phase = "wait" /\ toCP # <<>> /\ ~BadMac(r) /\ r.type = "BUSY"
      /\ toCP' = Tail(toCP) /\ open' = open /\ connected' = connected /\ pc' = pc
      /\ pd' = pd /\ calls' = calls
  BY DEF Busy
<1>2. /\ r \in ReplySet /\ r = toCP[1] /\ 1 \in 1 .. Len(toCP) /\ sec \in Secs
      /\ chan \in Channels /\ ticks \in Ticks /\ ticks.cpu <= ticks.wall
      /\ toPD \in Seq(Packages)
  BY <1>1, Taken DEF IInv, Typed, Counters
<1>3. r.isSCB = FALSE
  BY <1>1, <1>2 DEF IInv, Device, WellMade
<1>4. c \in Channels /\ c.data = r.data /\ c.isSCB = FALSE
  BY <1>1, <1>2, <1>3, Unpacked
<1>5. PICK t \in 0..1 :
        /\ ticks' = [wall |-> ticks.wall + 1, cpu |-> ticks.cpu + t]
        /\ \/ Send(c, sec)
           \/ /\ chan' = [c EXCEPT !.seq = NextSeq(@)]
              /\ phase' = "done" /\ sec' = sec /\ toPD' = toPD
  BY DEF Busy
<1> HIDE DEF c
<1>6. ticks' \in Ticks /\ ticks'.cpu <= ticks'.wall /\ ticks'.wall = ticks.wall + 1
  BY <1>2, <1>5 DEF Ticks
<1>7. CASE Send(c, sec)
  <2> DEFINE p == createPackage(c, sec)
  <2>1. p \in Packages /\ p.isSCB = FALSE /\ p.mac = <<>>
    BY <1>2, <1>4, PackageMade
  <2>2. /\ toPD' = Append(toPD, p) /\ chan' \in Channels /\ sec' \in Secs
        /\ phase' = "wait" /\ sec'.session = sec.session /\ sec'.rmac = sec.rmac
        /\ sec'.cmac = sec.cmac
    BY <1>2, <1>4, <1>7, Sent
  <2> HIDE DEF p
  <2> QED BY <1>1, <1>6, <2>1, <2>2, ReplyKeeps
<1>8. CASE /\ chan' = [c EXCEPT !.seq = NextSeq(@)]
           /\ phase' = "done" /\ sec' = sec /\ toPD' = toPD
  <2>1. chan' \in Channels /\ chan'.data = r.data
    BY <1>4, <1>8, NextSeqTyped
  <2> QED BY <1>1, <1>2, <1>6, <1>8, <2>1, ReplyKeeps
<1> QED BY <1>5, <1>7, <1>8

-----------------------------------------------------------------------------
(* The invariant over the steps of the device and the line.                *)

\* The seconds waited and the BUSY replies on the line are those the device sent,
\* before a reply and from there to the next.
Waited(wall, n, b) ==
  /\ wall \in Nat /\ n \in Nat /\ b \in Nat /\ wall + n <= b /\ b <= MaxBusy

Accounted(n, m, b, c) ==
  /\ m \in Nat /\ c \in Nat
  /\ (m = n /\ c = b) \/ (m <= n + 1 /\ c = b + 1 /\ b < MaxBusy)

\* A BUSY reply adds at most one to both sides of the account.
LEMMA BusyAccount ==
  ASSUME NEW wall, NEW n, NEW m, NEW b, NEW c, Waited(wall, n, b), Accounted(n, m, b, c)
  PROVE  wall + m <= c /\ c <= MaxBusy
BY OSDPAssumption DEF Waited, Accounted

\* The device takes a package and replies r: outside a session it may begin a new
\* one for a challenge, in a session it stays or goes one exchange ahead.
LEMMA DeviceKeeps ==
  ASSUME IInv, toPD # <<>>, toPD' = Tail(toPD), UNCHANGED cpVars,
         NEW r \in ReplySet, toCP' = Append(toCP, r), pd' \in Devices, WellMade(r),
         pd'.st = "secure" => pd'.mac # <<>>, LastReply',
         \/ pd'.session = pd.session
         \/ sec.rmac = <<>> /\ IsChallenge(Head(toPD)) /\ pd'.session = pd.session + 1,
         sec.rmac # <<>> => /\ Begins(pd.mac, pd'.mac)
                            /\ \/ Len(pd'.mac) = Len(pd.mac)
                               \/ /\ Len(pd.mac) = Len(sec.rmac)
                                  /\ Len(pd'.mac) = Len(pd.mac) + 2,
         sec.rmac # <<>> /\ r.mac # <<>> => Begins(r.mac, pd'.mac),
         IsKind(r.data, "ccrypt") => r.data[2] = pd'.session,
         IsKind(r.data, "rmac") =>
           r.data[2] = <<pd'.session>> /\ pd'.mac = <<pd'.session>>,
         \/ r.type # "BUSY" /\ pd'.busy = pd.busy
         \/ pd'.busy = pd.busy + 1 /\ pd.busy < MaxBusy
  PROVE  IInv'
<1>1. /\ toCP \in Seq(ReplySet) /\ toPD \in Seq(Packages) /\ Len(toCP) \in Nat
      /\ sec \in Secs /\ pd \in Devices
  BY DEF IInv, Typed
<1>2. /\ Head(toPD) = toPD[1] /\ Len(toPD) \in Nat \ {0} /\ 1 \in 1 .. Len(toPD)
      /\ toPD' \in Seq(Packages) /\ Len(toPD') = Len(toPD) - 1
      /\ \A i \in 1 .. Len(toPD') : \E j \in 1 .. Len(toPD) : toPD'[i] = toPD[j]
  BY <1>1, Taken
<1>3. /\ toCP' \in Seq(ReplySet) /\ Len(toCP') = Len(toCP) + 1
      /\ \A i \in 1 .. Len(toCP') : (i \in 1 .. Len(toCP) /\ toCP'[i] = toCP[i]) \/ toCP'[i] = r
  BY <1>1
<1>4. /\ open' = open /\ connected' = connected /\ pc' = pc /\ phase' = phase
      /\ chan' = chan /\ sec' = sec /\ ticks' = ticks /\ calls' = calls
  BY DEF cpVars
<1>5. Typed'
  BY <1>2, <1>3, <1>4 DEF IInv, Typed
<1>6. Calls'
  BY <1>4 DEF IInv, Calls, Typed
<1>7. sec.rmac = <<>> =>
        /\ toPD' = <<>> /\ Len(toPD') + Len(toCP') <= 1
        /\ Len(toCP') = 1 /\ toCP'[1] = r
        /\ pc \in Hand => phase = "wait"
        /\ pc = "connPoll" \/ pc = "connCrypt" => ~IsChallenge(Head(toPD))
        /\ pc = "connCrypt" => sec.session = pd.session
  <2> SUFFICES ASSUME sec.rmac = <<>>
               PROVE  /\ toPD' = <<>> /\ Len(toPD') + Len(toCP') <= 1
                      /\ Len(toCP') = 1 /\ toCP'[1] = r
                      /\ pc \in Hand => phase = "wait"
                      /\ pc = "connPoll" \/ pc = "connCrypt" => ~IsChallenge(Head(toPD))
                      /\ pc = "connCrypt" => sec.session = pd.session
    OBVIOUS
  <2>1. /\ Len(toPD) + Len(toCP) <= 1
        /\ pc \in Hand /\ phase = "done" => toPD = <<>>
        /\ pc = "connPoll" => toPD[1].isSCB = FALSE
        /\ pc = "connCrypt" => ~IsChallenge(toPD[1]) /\ sec.session = pd.session
    BY <1>2 DEF IInv, Handshake
  <2>2. Len(toPD) = 1 /\ Len(toCP) = 0
    BY <1>1, <1>2, <2>1
  <2>3. toPD' = <<>> /\ Len(toPD') = 0 /\ Len(toCP') = 1 /\ toCP'[1] = r
    BY <1>1, <1>2, <1>3, <2>2
  <2>4. pc \in Hand => phase = "wait"
    BY <2>1 DEF IInv, Typed
  <2> QED BY <1>2, <2>1, <2>3, <2>4 DEF IsChallenge
<1>8. Handshake'
  <2>1. sec.rmac = <<>> /\ pc = "connCrypt" => pd'.session = pd.session
    BY <1>7
  <2>2. sec.rmac = <<>> =>
          \A i \in 1 .. Len(toCP') :
            /\ IsKind(toCP'[i].data, "ccrypt") => toCP'[i].data[2] = pd'.session
            /\ IsKind(toCP'[i].data, "rmac") =>
                 toCP'[i].data[2] = <<pd'.session>> /\ pd'.mac = <<pd'.session>>
    BY <1>7
  <2> QED BY <1>4, <1>7, <2>1, <2>2 DEF Handshake, AnswersChallenge, AnswersCrypt, Hand
<1>9. Device'
  <2>1. \A i \in 1 .. Len(toCP') : WellMade(toCP'[i])
    BY <1>3 DEF IInv, Device
  <2> QED BY <2>1 DEF Device
<1>10. InStep'
  <2> SUFFICES ASSUME sec.rmac # <<>> PROVE InStep'
    BY <1>4 DEF InStep
  <2>1. InStepOf(sec)
    BY DEF IInv, InStep
  <2>2. /\ sec.rmac \in Macs /\ pd.mac \in Macs /\ pd'.mac \in Macs
        /\ Len(sec.rmac) \in Nat /\ Len(pd.mac) \in Nat /\ Len(pd'.mac) \in Nat
    <3>1. sec.rmac \in Macs /\ pd.mac \in Macs
      BY <1>1 DEF Secs, Devices
    <3>2. pd' \in Devices
      BY <1>5 DEF Typed
    <3>3. pd'.mac \in Macs
      BY <3>2 DEF Devices
    <3>4. \A m \in Macs : Len(m) \in Nat
      BY DEF Macs
    <3> QED BY <3>1, <3>3, <3>4
  <2>3. /\ Begins(sec.rmac, pd'.mac) /\ pd'.session = sec.session
        /\ Len(pd'.mac) = Len(sec.rmac) \/ Len(pd'.mac) = Len(sec.rmac) + 2
    BY <2>1, <2>2, BeginsThrough DEF InStepOf
  <2>4. \A i \in 1 .. Len(toPD') :
          /\ toPD'[i].isSCB = TRUE => toPD'[i].sb = "SCS_17"
          /\ Len(toPD'[i].mac) <= Len(sec.rmac) + 1
    BY <1>2, <2>1 DEF InStepOf
  <2>5. \A i \in 1 .. Len(toCP) : toCP[i].mac # <<>> => Begins(toCP[i].mac, pd'.mac)
    <3>1. \A i \in 1 .. Len(toCP) : toCP[i].mac \in Macs
      <4>1. \A i \in 1 .. Len(toCP) : toCP[i] \in ReplySet
        BY <1>1
      <4>2. \A x \in ReplySet : x.mac \in Macs
        BY DEF ReplySet
      <4> QED BY <4>1, <4>2
    <3> QED BY <2>1, <2>2, <3>1, BeginsThrough DEF InStepOf
  <2>6. \A i \in 1 .. Len(toCP') : toCP'[i].mac # <<>> => Begins(toCP'[i].mac, pd'.mac)
    BY <1>3, <2>5
  <2> QED BY <1>4, <2>1, <2>3, <2>4, <2>6 DEF InStep, InStepOf
<1>11. Counters'
  <2> DEFINE n == Cardinality(Busies(toCP))
  <2>1. n \in Nat /\ n' \in Nat /\ n' <= n + 1 /\ (r.type # "BUSY" => n' = n)
    BY <1>1, <1>3, BusiesGrow, BusiesCounted
  <2>2. /\ ticks.wall + n <= pd.busy /\ ticks.wall \in Nat /\ pd.busy \in Nat
        /\ pd'.busy \in Nat /\ pd.busy <= MaxBusy /\ ticks.cpu <= ticks.wall
    <3>1. /\ ticks.wall + n <= pd.busy /\ pd.busy <= MaxBusy /\ ticks.cpu <= ticks.wall
          /\ ticks \in Ticks /\ pd \in Devices
      BY Zenon DEF IInv, Counters, Typed
    <3>2. ticks.wall \in Nat BY <3>1 DEF Ticks
    <3>3. pd.busy \in Nat /\ pd'.busy \in Nat BY <3>1 DEF Devices
    <3> QED BY <3>1, <3>2, <3>3, Zenon
  <2> HIDE DEF n
  <2>3. ticks.wall + n' <= pd'.busy /\ pd'.busy <= MaxBusy
    <3>1. Waited(ticks.wall, n, pd.busy)
      BY <2>1, <2>2, Zenon DEF Waited
    <3>2. Accounted(n, n', pd.busy, pd'.busy)
      BY <2>1, <2>2, Zenon DEF Accounted
    <3> QED BY <3>1, <3>2, BusyAccount, Zenon
  <2>4. /\ calls \in Nat /\ pd.session \in Nat /\ pd'.session \in Nat
        /\ sec.session \in Nat
        /\ calls <= MaxCalls /\ pd.session <= calls /\ sec.session <= pd.session
        /\ pc = "connPoll" \/ (\E i \in 1 .. Len(toPD) : IsChallenge(toPD[i]))
             => pd.session < calls
    BY DEF IInv, Counters, Typed, Devices, Secs
  <2>5. pd'.session <= calls /\ sec.session <= pd'.session
    <3>1. CASE pd'.session = pd.session
      BY <2>4, <3>1
    <3>2. CASE IsChallenge(Head(toPD)) /\ pd'.session = pd.session + 1
      <4>1. pd.session < calls
        BY <1>2, <2>4, <3>2
      <4> QED BY <2>4, <3>2, <4>1
    <3> QED BY <3>1, <3>2
  <2>6. pc = "connPoll" \/ (\E i \in 1 .. Len(toPD') : IsChallenge(toPD'[i]))
          => pd'.session < calls
    <3>1. CASE pd'.session = pd.session
      BY <1>2, <2>4, <3>1
    <3>2. CASE sec.rmac = <<>> /\ IsChallenge(Head(toPD))
      BY <1>7, <3>2
    <3> QED BY <3>1, <3>2
  <2> QED BY <1>4, <2>2, <2>3, <2>4, <2>5, <2>6 DEF Counters, n
<1> QED BY <1>5, <1>6, <1>8, <1>9, <1>10, <1>11 DEF IInv

\* The device replies r, and remembers it.
LEMMA AnswerKeeps ==
  ASSUME IInv, toPD # <<>>, toPD' = Tail(toPD), UNCHANGED cpVars,
         NEW r \in ReplySet, NEW d \in Devices, Answer(r, d),
         WellMade(r), r.type # "BUSY", d.busy = pd.busy,
         d.st = "secure" => d.mac # <<>>,
         \/ d.session = pd.session
         \/ sec.rmac = <<>> /\ IsChallenge(Head(toPD)) /\ d.session = pd.session + 1,
         \/ d.mac = pd.mac
         \/ sec.rmac = <<>>
         \/ /\ Begins(pd.mac, d.mac) /\ Len(pd.mac) = Len(sec.rmac)
            /\ Len(d.mac) = Len(pd.mac) + 2,
         r.mac # <<>> => r.mac = d.mac,
         IsKind(r.data, "ccrypt") => r.data[2] = d.session,
         IsKind(r.data, "rmac") => r.data[2] = <<d.session>> /\ d.mac = <<d.session>>
  PROVE  IInv'
<1>1. toCP' = Append(toCP, r) /\ pd' = [d EXCEPT !.last = <<r>>]
  BY DEF Answer
<1>2. <<r>> \in Seq(ReplySet) /\ <<r>> # <<>> /\ <<r>>[1] = r
  OBVIOUS
<1>3. /\ pd' \in Devices /\ pd'.last = <<r>> /\ pd'.st = d.st /\ pd'.session = d.session
      /\ pd'.mac = d.mac /\ pd'.busy = d.busy
  BY <1>1, <1>2 DEF Devices
<1>4. LastReply'
  BY <1>2, <1>3 DEF LastReply, AnswersChallenge, AnswersCrypt, WellMade
<1>5. Begins(pd.mac, pd.mac) /\ Begins(d.mac, d.mac)
  BY DEF IInv, Typed, Devices, Macs, Begins
<1> QED BY <1>1, <1>3, <1>4, <1>5, DeviceKeeps

\* What the device answers to the commands of connectToReader, and, if it does not
\* acknowledge APDUs, to these: the answer of the card to the APDU of the package.
Effect(p, type, data, d) ==
  /\ type = "XRD" => data # <<>>
  /\ d.profile \in {pd.profile, 1}
  /\ p.type = "XWR" /\ p.data = <<"getProfile">> =>
       type = "XRD" /\ data = <<"profile", pd.profile>> /\ d.profile = pd.profile
  /\ p.type = "XWR" /\ p.data = <<"setProfile">> => d.profile = 1
  /\ {"ack", "slow"} \cap Faults = {} /\ pd.answers = <<>> =>
       /\ d.answers = <<>>
       /\ IsKind(data, "answer") => p.data # <<>> /\ p.data = <<"apdu", data[2]>>

\* The reply to a command of the session and what the device is then.
Replies(p, type, data, d) ==
  /\ Effect(p, type, data, d)
  /\ type \in {"XRD", "ACK"} /\ data \in Datas /\ d \in Devices
  /\ ~IsKind(data, "ccrypt") /\ ~IsKind(data, "rmac")
  /\ d.st = pd.st /\ d.session = pd.session /\ d.busy = pd.busy
  /\ Answer(SecureReply(p, type, data), [d EXCEPT !.mac = SecureReply(p, type, data).mac])

\* Every command of the session is replied to, and leaves session and state.
LEMMA Executed ==
  ASSUME NEW p \in Packages, pd \in Devices, Execute(p)
  PROVE  \E type, data, d : Replies(p, type, data, d)
<1>1. pd.answers \in Seq(Apdus) /\ pd.profile \in {0, 1}
  BY DEF Devices
<1>2. pd.answers # <<>> => Head(pd.answers) \in Apdus /\ Tail(pd.answers) \in Seq(Apdus)
  BY <1>1
<1>3. p.data \in Datas
  BY DEF Packages
<1>4. /\ <<>> \in Datas /\ ~IsKind(<<>>, "ccrypt") /\ ~IsKind(<<>>, "rmac")
      /\ \A a \in Apdus : /\ <<"answer", a>> \in Datas
                          /\ ~IsKind(<<"answer", a>>, "ccrypt")
                          /\ ~IsKind(<<"answer", a>>, "rmac")
      /\ \A n \in {0, 1} : /\ <<"profile", n>> \in Datas
                           /\ ~IsKind(<<"profile", n>>, "ccrypt")
                           /\ ~IsKind(<<"profile", n>>, "rmac")
  BY PanelData, DeviceData DEF IsKind
<1>5. CASE /\ p.type = "POLL" /\ pd.answers # <<>>
           /\ LET r == SecureReply(p, "XRD", <<"answer", Head(pd.answers)>>)
              IN Answer(r, [[pd EXCEPT !.answers = Tail(@)] EXCEPT !.mac = r.mac])
  <2> DEFINE d == [pd EXCEPT !.answers = Tail(@)]
  <2>1. /\ d \in Devices /\ d.st = pd.st /\ d.session = pd.session /\ d.busy = pd.busy
        /\ d.profile = pd.profile
    BY <1>2, <1>5 DEF Devices
  <2> HIDE DEF d
  <2>2. Effect(p, "XRD", <<"answer", Head(pd.answers)>>, d)
    BY <1>5, <2>1 DEF Effect
  <2>3. Replies(p, "XRD", <<"answer", Head(pd.answers)>>, d)
    BY <1>2, <1>4, <1>5, <2>1, <2>2 DEF Replies, d
  <2> QED BY <2>3
<1>6. CASE /\ p.type \in {"POLL", "LED", "BUZ"} \/ p.data = <<"release">>
           /\ LET r == SecureReply(p, "ACK", <<>>) IN Answer(r, [pd EXCEPT !.mac = r.mac])
  <2>1. Effect(p, "ACK", <<>>, pd)
    BY <1>6 DEF Effect, IsKind
  <2>2. Replies(p, "ACK", <<>>, pd)
    BY <1>4, <1>6, <2>1 DEF Replies
  <2> QED BY <2>2
<1>7. CASE /\ p.data = <<"getProfile">>
           /\ LET r == SecureReply(p, "XRD", <<"profile", pd.profile>>)
              IN Answer(r, [pd EXCEPT !.mac = r.mac])
  <2>1. Effect(p, "XRD", <<"profile", pd.profile>>, pd)
    BY <1>7 DEF Effect, IsKind
  <2>2. Replies(p, "XRD", <<"profile", pd.profile>>, pd)
    BY <1>1, <1>4, <1>7, <2>1 DEF Replies
  <2> QED BY <2>2
<1>8. CASE /\ p.data = <<"setProfile">>
           /\ LET r == SecureReply(p, "ACK", <<>>)
              IN Answer(r, [[pd EXCEPT !.profile = 1] EXCEPT !.mac = r.mac])
  <2> DEFINE d == [pd EXCEPT !.profile = 1]
  <2>1. /\ d \in Devices /\ d.st = pd.st /\ d.session = pd.session /\ d.busy = pd.busy
        /\ d.profile = 1 /\ d.answers = pd.answers
    BY DEF Devices
  <2> HIDE DEF d
  <2>2. Effect(p, "ACK", <<>>, d)
    BY <1>8, <2>1 DEF Effect, IsKind
  <2>3. Replies(p, "ACK", <<>>, d)
    BY <1>4, <1>8, <2>1, <2>2 DEF Replies, d
  <2> QED BY <2>3
<1>9. CASE /\ p.data # <<>> /\ p.data[1] = "apdu"
           /\ LET r == SecureReply(p, "XRD", <<"answer", p.data[2]>>)
              IN Answer(r, [pd EXCEPT !.mac = r.mac])
  <2>1. p.data[2] \in Apdus /\ p.data = <<"apdu", p.data[2]>>
    BY <1>3, <1>9, DataKinds, ApduData
  <2> DEFINE a == p.data[2]
  <2>2. a \in Apdus /\ p.data = <<"apdu", a>>
    BY <2>1
  <2> HIDE DEF a
  <2>3. Effect(p, "XRD", <<"answer", a>>, pd)
    BY <2>2 DEF Effect, IsKind
  <2>4. Replies(p, "XRD", <<"answer", a>>, pd)
    BY <1>4, <1>9, <2>2, <2>3 DEF Replies, a
  <2> QED BY <2>4
<1>10. CASE /\ p.data # <<>> /\ p.data[1] = "apdu" /\ {"ack", "slow"} \cap Faults # {}
            /\ LET r == SecureReply(p, "ACK", <<>>)
               IN Answer(r, [[pd EXCEPT !.answers = Append(@, p.data[2])]
                               EXCEPT !.mac = r.mac])
  <2> DEFINE d == [pd EXCEPT !.answers = Append(@, p.data[2])]
  <2>1. p.data[2] \in Apdus
    BY <1>3, <1>10, DataKinds
  <2>2. Append(pd.answers, p.data[2]) \in Seq(Apdus)
    BY <1>1, <2>1
  <2>3. /\ d \in Devices /\ d.st = pd.st /\ d.session = pd.session /\ d.busy = pd.busy
        /\ d.profile = pd.profile
    BY <2>2 DEF Devices
  <2> HIDE DEF d
  <2>4. Effect(p, "ACK", <<>>, d)
    BY <1>10, <2>3 DEF Effect
  <2>5. Replies(p, "ACK", <<>>, d)
    BY <1>4, <1>10, <2>3, <2>4 DEF Replies, d
  <2> QED BY <2>5
<1> QED BY <1>5, <1>6, <1>7, <1>8, <1>9, <1>10 DEF Execute

\* A command of the session that verifies is chained to the MAC both ends have:
\* the device goes one exchange ahead.
LEMMA ExecuteKeeps ==
  ASSUME IInv, toPD # <<>>, toPD' = Tail(toPD), UNCHANGED cpVars, sec.rmac # <<>>,
         pd.st = "secure", Head(toPD).mac = Append(pd.mac, Body(Head(toPD))),
         Execute(Head(toPD))
  PROVE  IInv'
<1> DEFINE p == Head(toPD)
<1>1. p \in Packages /\ p = toPD[1] /\ 1 \in 1 .. Len(toPD) /\ pd \in Devices
  BY Taken DEF IInv, Typed
<1>2. /\ pd.mac \in Macs /\ Len(pd.mac) \in Nat /\ p.mac \in Macs
      /\ Len(sec.rmac) \in Nat \ {0}
  <2>1. pd.mac \in Macs BY <1>1 DEF Devices
  <2>2. p.mac \in Macs BY <1>1 DEF Packages
  <2>3. sec.rmac \in Macs BY DEF IInv, Typed, Secs
  <2>4. Len(pd.mac) \in Nat BY <2>1 DEF Macs
  <2>5. Len(sec.rmac) \in Nat \ {0} BY <2>3 DEF Macs
  <2> QED BY <2>1, <2>2, <2>4, <2>5
<1>3. /\ Len(p.mac) = Len(pd.mac) + 1 /\ p.mac[Len(pd.mac) + 1] = Body(p)
      /\ Begins(pd.mac, p.mac)
  <2>1. Body(p) \in Elems
    BY <1>1, BodyTyped
  <2> QED BY <1>2, <2>1, MacGrows DEF Begins
<1>4. Len(pd.mac) = Len(sec.rmac)
  <2>1. InStepOf(sec) /\ Len(p.mac) <= Len(sec.rmac) + 1
    BY <1>1 DEF IInv, InStep, InStepOf
  <2> QED BY <1>2, <1>3, <2>1 DEF InStepOf
<1>5. PICK type, data, d0 : Replies(p, type, data, d0)
  BY <1>1, Executed
<1> DEFINE r == SecureReply(p, type, data)
           d == [d0 EXCEPT !.mac = r.mac]
<1>6. /\ type \in Types /\ type # "BUSY" /\ data \in Datas /\ d0 \in Devices
      /\ ~IsKind(data, "ccrypt") /\ ~IsKind(data, "rmac")
      /\ d0.st = pd.st /\ d0.session = pd.session /\ d0.busy = pd.busy
      /\ Answer(r, d)
  BY <1>5 DEF Replies, Types
<1> HIDE DEF p
<1>7. /\ r \in ReplySet /\ r.isSCB = TRUE /\ Macked(r.sb) /\ r.type = type
      /\ r.data = data /\ r.mac = Append(p.mac, Body(r)) /\ r.re = Body(p)
  <2>1. p \in Packages /\ type \in Types /\ data \in Datas
    BY <1>1, <1>6
  <2>2. r = SecureReply(p, type, data)
    OBVIOUS
  <2> HIDE DEF r
  <2>3. /\ r \in ReplySet /\ r.seq = p.seq /\ r.type = type /\ r.data = data
        /\ r.re = Body(p)
    BY <2>1, <2>2, SecureReplyMade
  <2>4. r.isSCB = TRUE /\ Macked(r.sb)
    BY <2>1, <2>2, SecureReplyBlock
  <2>5. r.mac = Append(p.mac, Body(r))
    BY <2>1, <2>2, SecureReplyMac
  <2> QED BY <2>3, <2>4, <2>5
<1> HIDE DEF r
<1>8. r.mac \in Macs
  BY <1>7 DEF ReplySet
<1>9. /\ d \in Devices /\ d.st = pd.st /\ d.session = pd.session /\ d.busy = pd.busy
      /\ d.mac = r.mac
  BY <1>6, <1>8 DEF Devices
<1> HIDE DEF d
<1>10. /\ Len(r.mac) = Len(pd.mac) + 2 /\ r.mac # <<>> /\ Begins(pd.mac, r.mac)
       /\ r.mac[Len(r.mac)] = Body(r) /\ r.mac[Len(r.mac) - 1] = r.re
  <2>1. Body(r) \in Elems
    BY <1>7, BodyTyped
  <2>2. /\ r.mac # <<>> /\ Len(r.mac) = Len(p.mac) + 1 /\ r.mac[Len(p.mac) + 1] = Body(r)
        /\ \A i \in 1 .. Len(p.mac) : r.mac[i] = p.mac[i]
    <3> DEFINE m == Append(p.mac, Body(r))
    <3>1. /\ m # <<>> /\ Len(m) = Len(p.mac) + 1 /\ m[Len(p.mac) + 1] = Body(r)
          /\ \A i \in 1 .. Len(p.mac) : m[i] = p.mac[i]
      BY <1>2, <2>1, MacGrows, Zenon
    <3>2. r.mac = m
      BY <1>7, Zenon
    <3> HIDE DEF m
    <3> QED BY <3>1, <3>2, Zenon
  <2>3. Len(r.mac) = Len(pd.mac) + 2 /\ Len(r.mac) - 1 = Len(pd.mac) + 1
    BY <1>2, <1>3, <2>2
  <2>4. r.mac[Len(r.mac)] = Body(r)
    BY <1>2, <1>3, <2>2
  <2>5. r.mac[Len(r.mac) - 1] = r.re
    <3>1. Len(pd.mac) + 1 \in 1 .. Len(p.mac)
      BY <1>2, <1>3
    <3> QED BY <1>3, <1>7, <2>2, <2>3, <3>1
  <2>6. Begins(pd.mac, r.mac)
    <3>1. \A i \in 1 .. Len(pd.mac) : i \in 1 .. Len(p.mac) /\ pd.mac[i] = p.mac[i]
      BY <1>2, <1>3 DEF Begins
    <3>2. Len(pd.mac) <= Len(r.mac)
      BY <1>2, <2>3
    <3> QED BY <2>2, <3>1, <3>2 DEF Begins
  <2> QED BY <2>2, <2>3, <2>4, <2>5, <2>6
<1>11. WellMade(r)
  BY <1>2, <1>4, <1>6, <1>7, <1>10 DEF WellMade
<1> QED BY <1>4, <1>6, <1>7, <1>9, <1>10, <1>11, AnswerKeeps DEF p

\* A reply outside a session ends the session at the device.
LEMMA ClearKeeps ==
  ASSUME IInv, toPD # <<>>, toPD' = Tail(toPD), UNCHANGED cpVars,
         NEW type \in {"ACK", "NAK"}, NEW data \in {<<>>, <<"error">>},
         Answer(Reply(Head(toPD), "NOSCS", type, data), [pd EXCEPT !.st = "clear"])
  PROVE  IInv'
<1> DEFINE p == Head(toPD)
           r == Reply(p, "NOSCS", type, data)
           d == [pd EXCEPT !.st = "clear"]
<1>1. p \in Packages /\ pd \in Devices
  BY Taken DEF IInv, Typed
<1>2. type \in Types /\ data \in Datas /\ "NOSCS" \in Blocks /\ type # "BUSY"
  BY PanelData DEF Types, Blocks
<1>3. ~IsKind(data, "ccrypt") /\ ~IsKind(data, "rmac")
  BY DEF IsKind
<1>4. Answer(r, d)
  OBVIOUS
<1> HIDE DEF p
<1>5. /\ r \in ReplySet /\ ~r.isSCB /\ r.type = type /\ r.data = data /\ r.mac = <<>>
  BY <1>1, <1>2, ReplyMade
<1> HIDE DEF r
<1>6. WellMade(r)
  BY <1>2, <1>5 DEF WellMade, ReplySet
<1>7. /\ d \in Devices /\ d.st = "clear" /\ d.session = pd.session /\ d.busy = pd.busy
      /\ d.mac = pd.mac
  BY <1>1 DEF Devices
<1> HIDE DEF d
<1> QED BY <1>2, <1>3, <1>4, <1>5, <1>6, <1>7, AnswerKeeps

\* The device begins a new session, which it does for a challenge only.
LEMMA ChallengeKeeps ==
  ASSUME IInv, toPD # <<>>, toPD' = Tail(toPD), UNCHANGED cpVars,
         IsChallenge(Head(toPD)), sec.rmac = <<>>, NEW ok \in BOOLEAN,
         Answer(Reply(Head(toPD), "SCS_12", "CCRYPT", <<"ccrypt", pd.session + 1, ok>>),
                [pd EXCEPT !.st = "challenged", !.session = @ + 1, !.mac = <<>>])
  PROVE  IInv'
<1> DEFINE p == Head(toPD)
           data == <<"ccrypt", pd.session + 1, ok>>
           r == Reply(p, "SCS_12", "CCRYPT", data)
           d == [pd EXCEPT !.st = "challenged", !.session = @ + 1, !.mac = <<>>]
<1>1. p \in Packages /\ pd \in Devices /\ pd.session \in Nat
  BY Taken DEF IInv, Typed, Devices
<1>2. data \in Datas /\ "SCS_12" \in Blocks /\ "CCRYPT" \in Types
  <2>1. pd.session + 1 \in Nat
    BY <1>1
  <2>2. data \in Datas
    BY <2>1, DeviceData
  <2> QED BY <2>2 DEF Blocks, Types
<1>3. ~IsKind(data, "rmac") /\ data[2] = pd.session + 1
  BY DEF IsKind
<1>4. Answer(r, d)
  OBVIOUS
<1> HIDE DEF p, data
<1>5. /\ r \in ReplySet /\ r.sb = "SCS_12" /\ r.type = "CCRYPT" /\ r.data = data
      /\ r.mac = <<>>
  BY <1>1, <1>2, ReplyMade
<1> HIDE DEF r
<1>6. WellMade(r) /\ r.type # "BUSY"
  BY <1>5 DEF WellMade, Macked
<1>7. /\ d \in Devices /\ d.st = "challenged" /\ d.session = pd.session + 1
      /\ d.busy = pd.busy
  <2> DEFINE n == pd.session + 1
  <2>1. n \in Nat /\ <<>> \in Macs
    BY <1>1, FirstMacs
  <2>2. d = [pd EXCEPT !.st = "challenged", !.session = n, !.mac = <<>>]
    OBVIOUS
  <2> HIDE DEF n, d
  <2>3. d \in Devices /\ d.st = "challenged" /\ d.session = n /\ d.busy = pd.busy
    BY <1>1, <2>1, <2>2 DEF Devices
  <2> QED BY <2>3 DEF n
<1> HIDE DEF d
<1> QED BY <1>3, <1>4, <1>5, <1>6, <1>7, AnswerKeeps

\* The device accepts the cryptogram: its first MAC is that of the session.
LEMMA CryptKeeps ==
  ASSUME IInv, toPD # <<>>, toPD' = Tail(toPD), UNCHANGED cpVars, sec.rmac = <<>>,
         Answer(Reply(Head(toPD), "SCS_14", "RMAC_I", <<"rmac", <<pd.session>> >>),
                [pd EXCEPT !.st = "secure", !.mac = <<pd.session>>])
  PROVE  IInv'
<1> DEFINE p == Head(toPD)
           data == <<"rmac", <<pd.session>> >>
           r == Reply(p, "SCS_14", "RMAC_I", data)
           d == [pd EXCEPT !.st = "secure", !.mac = <<pd.session>>]
<1>1. p \in Packages /\ pd \in Devices /\ pd.session \in Nat
  BY Taken DEF IInv, Typed, Devices
<1>2. data \in Datas /\ "SCS_14" \in Blocks /\ "RMAC_I" \in Types
  BY <1>1, DeviceData DEF Blocks, Types
<1>3. ~IsKind(data, "ccrypt") /\ data[2] = <<pd.session>>
  BY DEF IsKind
<1>4. Answer(r, d)
  OBVIOUS
<1> HIDE DEF p, data
<1>5. /\ r \in ReplySet /\ r.sb = "SCS_14" /\ r.type = "RMAC_I" /\ r.data = data
      /\ r.mac = <<>>
  BY <1>1, <1>2, ReplyMade
<1> HIDE DEF r
<1>6. WellMade(r) /\ r.type # "BUSY"
  BY <1>5 DEF WellMade, Macked
<1>7. <<pd.session>> \in Macs /\ <<pd.session>> # <<>>
  BY <1>1, FirstMacs
<1>8. /\ d \in Devices /\ d.session = pd.session /\ d.busy = pd.busy
      /\ d.mac = <<pd.session>>
  BY <1>1, <1>7 DEF Devices
<1> HIDE DEF d
<1> QED BY <1>3, <1>4, <1>5, <1>6, <1>7, <1>8, AnswerKeeps

\* The device handles a package.
LEMMA ProcessKeeps ==
  ASSUME IInv, toPD # <<>>, toPD' = Tail(toPD), UNCHANGED cpVars, Process(Head(toPD))
  PROVE  IInv'
<1> DEFINE p == Head(toPD)
<1>1. p \in Packages /\ p = toPD[1] /\ 1 \in 1 .. Len(toPD) /\ p.isSCB \in BOOLEAN
  <2>1. p \in Packages /\ p = toPD[1] /\ 1 \in 1 .. Len(toPD)
    BY Taken DEF IInv, Typed
  <2> QED BY <2>1 DEF Packages
<1>2. sec.rmac = <<>> /\ p.isSCB => p.sb \in {"SCS_11", "SCS_13"}
  BY <1>1 DEF IInv, Handshake
<1>3. sec.rmac # <<>> /\ p.isSCB => p.sb = "SCS_17"
  BY <1>1 DEF IInv, InStep, InStepOf
<1>4. CASE /\ ~p.isSCB
           /\ Answer(IF p.type = "POLL" THEN Reply(p, "NOSCS", "ACK", <<>>) ELSE Nak(p),
                     [pd EXCEPT !.st = "clear"])
  <2>1. CASE p.type = "POLL"
    BY <1>4, <2>1, ClearKeeps
  <2>2. CASE p.type # "POLL"
    BY <1>4, <2>2, ClearKeeps DEF Nak
  <2> QED BY <2>1, <2>2
<1>5. CASE /\ p.isSCB /\ p.sb = "SCS_11"
           /\ \E ok \in IF "wrongkey" \in Faults THEN BOOLEAN ELSE {TRUE} :
                Answer(Reply(p, "SCS_12", "CCRYPT", <<"ccrypt", pd.session + 1, ok>>),
                       [pd EXCEPT !.st = "challenged", !.session = @ + 1, !.mac = <<>>])
  <2>1. IsChallenge(p) /\ sec.rmac = <<>>
    BY <1>1, <1>3, <1>5 DEF IsChallenge
  <2>2. PICK ok \in BOOLEAN :
          Answer(Reply(p, "SCS_12", "CCRYPT", <<"ccrypt", pd.session + 1, ok>>),
                 [pd EXCEPT !.st = "challenged", !.session = @ + 1, !.mac = <<>>])
    BY <1>5
  <2> QED BY <2>1, <2>2, ChallengeKeeps
<1>6. CASE /\ p.isSCB /\ p.sb = "SCS_13" /\ pd.st = "challenged"
           /\ Answer(Reply(p, "SCS_14", "RMAC_I", <<"rmac", <<pd.session>> >>),
                     [pd EXCEPT !.st = "secure", !.mac = <<pd.session>>])
  <2>1. sec.rmac = <<>>
    BY <1>3, <1>6
  <2> QED BY <1>6, <2>1, CryptKeeps
<1>7. CASE Answer(Nak(p), [pd EXCEPT !.st = "clear"])
  BY <1>7, ClearKeeps DEF Nak
<1>8. CASE /\ p.isSCB /\ Macked(p.sb) /\ pd.st = "secure"
           /\ p.mac = Append(pd.mac, Body(p)) /\ Execute(p)
  <2>1. sec.rmac # <<>>
    BY <1>2, <1>8 DEF Macked
  <2> QED BY <1>8, <2>1, ExecuteKeeps
<1> HIDE DEF p
<1>9. Process(p)
  BY DEF p
<1> QED BY <1>4, <1>5, <1>6, <1>7, <1>8, <1>9 DEF Process

\* The device takes a package: it handles it, is busy, or repeats its last reply.
LEMMA PDReceivesKeeps == ASSUME IInv, PDReceives PROVE IInv'
<1> DEFINE p == Head(toPD)
<1>1. toPD # <<>> /\ toPD' = Tail(toPD) /\ UNCHANGED cpVars
  BY DEF PDReceives
<1>2. p \in Packages /\ pd \in Devices
  BY <1>1, Taken DEF IInv, Typed
<1>3. CASE Process(p)
  BY <1>1, <1>3, ProcessKeeps
<1>4. CASE /\ pd.busy < MaxBusy
           /\ toCP' = Append(toCP, [Reply(p, "NOSCS", "BUSY", <<>>) EXCEPT !.seq = 0])
           /\ pd' = [pd EXCEPT !.busy = @ + 1]
  <2> DEFINE q == Reply(p, "NOSCS", "BUSY", <<>>)
             r == [q EXCEPT !.seq = 0]
  <2>1. "NOSCS" \in Blocks /\ "BUSY" \in Types /\ <<>> \in Datas
    BY PanelData DEF Blocks, Types
  <2> HIDE DEF p
  <2>2. q \in ReplySet /\ ~q.isSCB /\ q.type = "BUSY" /\ q.data = <<>> /\ q.mac = <<>>
    BY <1>2, <2>1, ReplyMade
  <2> HIDE DEF q
  <2>3. /\ r \in ReplySet /\ r.isSCB = FALSE /\ r.type = "BUSY" /\ r.data = <<>>
        /\ r.mac = <<>>
    BY <2>2 DEF ReplySet
  <2>4. /\ pd' \in Devices /\ pd'.busy = pd.busy + 1 /\ pd'.st = pd.st
        /\ pd'.session = pd.session /\ pd'.mac = pd.mac /\ pd'.last = pd.last
    <3> DEFINE n == pd.busy + 1
    <3>1. n \in Nat /\ pd' = [pd EXCEPT !.busy = n]
      BY <1>2, <1>4 DEF Devices
    <3> HIDE DEF n
    <3>2. /\ pd' \in Devices /\ pd'.busy = n /\ pd'.st = pd.st
          /\ pd'.session = pd.session /\ pd'.mac = pd.mac /\ pd'.last = pd.last
      BY <1>2, <3>1 DEF Devices
    <3> QED BY <3>2 DEF n
  <2>5. toCP' = Append(toCP, r)
    BY <1>4 DEF q
  <2> HIDE DEF r
  <2>6. WellMade(r) /\ ~IsKind(r.data, "ccrypt") /\ ~IsKind(r.data, "rmac")
    BY <2>3 DEF WellMade, IsKind
  <2>7. LastReply' /\ (pd'.st = "secure" => pd'.mac # <<>>)
    BY <2>4 DEF IInv, Device, LastReply, AnswersChallenge, AnswersCrypt
  <2>8. Begins(pd.mac, pd'.mac) /\ Len(pd'.mac) = Len(pd.mac)
    BY <1>2, <2>4 DEF Devices, Macs, Begins
  <2> QED BY <1>1, <1>4, <2>3, <2>4, <2>5, <2>6, <2>7, <2>8, DeviceKeeps
<1>5. CASE pd.last # <<>> /\ toCP' = Append(toCP, pd.last[1]) /\ pd' = pd
  <2> DEFINE r == pd.last[1]
  <2>1. r \in ReplySet /\ toCP' = Append(toCP, r)
    BY <1>2, <1>5 DEF Devices
  <2>2. /\ WellMade(r) /\ r.type # "BUSY"
        /\ IsKind(r.data, "ccrypt") => r.data[2] = pd.session
        /\ IsKind(r.data, "rmac") => r.data[2] = <<pd.session>> /\ pd.mac = <<pd.session>>
        /\ r.mac # <<>> => r.mac = pd.mac
    BY <1>5 DEF IInv, Device, LastReply, AnswersChallenge, AnswersCrypt
  <2>3. LastReply' /\ (pd'.st = "secure" => pd'.mac # <<>>)
    BY <1>5 DEF IInv, Device, LastReply, AnswersChallenge, AnswersCrypt
  <2>4. Begins(pd.mac, pd.mac) /\ Len(pd.mac) = Len(pd.mac)
    BY <1>2 DEF Devices, Macs, Begins
  <2> HIDE DEF r
  <2> QED BY <1>1, <1>2, <1>5, <2>1, <2>2, <2>3, <2>4, DeviceKeeps
<1> QED BY <1>3, <1>4, <1>5 DEF PDReceives

\* The line loses a package or a reply.
LEMMA LineLosesKeeps == ASSUME IInv, LineLoses PROVE IInv'
<1>1. /\ open' = open /\ connected' = connected /\ pc' = pc /\ phase' = phase
      /\ chan' = chan /\ sec' = sec /\ ticks' = ticks /\ calls' = calls /\ pd' = pd
      /\ \/ toPD # <<>> /\ toPD' = Tail(toPD) /\ toCP' = toCP
         \/ toCP # <<>> /\ toCP' = Tail(toCP) /\ toPD' = toPD
  BY DEF LineLoses, cpVars
<1>2. toCP \in Seq(ReplySet) /\ toPD \in Seq(Packages) /\ Len(toCP) \in Nat /\ Len(toPD) \in Nat
  BY DEF IInv, Typed
<1>3. /\ toPD' \in Seq(Packages) /\ Len(toPD') <= Len(toPD) /\ Len(toPD') \in Nat
      /\ \A i \in 1 .. Len(toPD') : \E j \in 1 .. Len(toPD) : toPD'[i] = toPD[j]
  <2>1. CASE toPD' = toPD
    BY <1>2, <2>1
  <2>2. CASE toPD # <<>> /\ toPD' = Tail(toPD)
    BY <1>2, <2>2, Taken
  <2> QED BY <1>1, <2>1, <2>2
<1>4. /\ toCP' \in Seq(ReplySet) /\ Len(toCP') <= Len(toCP) /\ Len(toCP') \in Nat
      /\ \A i \in 1 .. Len(toCP') : \E j \in 1 .. Len(toCP) : toCP'[i] = toCP[j]
  <2>1. CASE toCP' = toCP
    BY <1>2, <2>1
  <2>2. CASE toCP # <<>> /\ toCP' = Tail(toCP)
    BY <1>2, <2>2, Taken
  <2> QED BY <1>1, <2>1, <2>2
<1>5. Typed'
  BY <1>1, <1>3, <1>4 DEF IInv, Typed
<1>6. Calls'
  BY <1>1 DEF IInv, Calls
<1>7. Handshake'
  <2> SUFFICES ASSUME sec.rmac = <<>> PROVE Handshake'
    BY <1>1 DEF Handshake
  <2>1. /\ Len(toPD) + Len(toCP) <= 1
        /\ pc \in Hand /\ phase = "done" => toPD = <<>> /\ toCP = <<>>
    BY DEF IInv, Handshake
  <2>2. Len(toPD') + Len(toCP') <= 1
    BY <1>2, <1>3, <1>4, <2>1
  <2>3. \A i \in 1 .. Len(toPD') :
          /\ toPD'[i].isSCB = TRUE => toPD'[i].sb \in {"SCS_11", "SCS_13"}
          /\ pc = "connPoll" => toPD'[i].isSCB = FALSE
          /\ pc = "connCrypt" => ~IsChallenge(toPD'[i])
    BY <1>3 DEF IInv, Handshake
  <2>4. /\ pc = "connChlng" =>
             /\ \A i \in 1 .. Len(toCP') : AnswersChallenge(toCP'[i].data)
             /\ phase = "done" => AnswersChallenge(chan.data)
        /\ pc = "connCrypt" =>
             /\ sec.session = pd.session
             /\ \A i \in 1 .. Len(toCP') : AnswersCrypt(toCP'[i].data)
             /\ phase = "done" => AnswersCrypt(chan.data)
    BY <1>4 DEF IInv, Handshake
  <2> QED BY <1>1, <2>1, <2>2, <2>3, <2>4
      DEF Handshake, AnswersChallenge, AnswersCrypt, IsChallenge
<1>8. Device'
  <2>1. \A i \in 1 .. Len(toCP') : WellMade(toCP'[i])
    BY <1>4 DEF IInv, Device
  <2> QED BY <1>1, <2>1 DEF IInv, Device, LastReply, AnswersChallenge, AnswersCrypt
<1>9. InStep'
  BY <1>1, <1>3, <1>4 DEF IInv, InStep, InStepOf
<1>10. Counters'
  <2> DEFINE n == Cardinality(Busies(toCP))
  <2>1. n' <= n /\ n \in Nat /\ n' \in Nat
    <3>1. n \in Nat
      BY <1>2, BusiesCounted
    <3>2. CASE toCP' = toCP
      BY <3>1, <3>2
    <3>3. CASE toCP # <<>> /\ toCP' = Tail(toCP)
      BY <1>2, <3>1, <3>3, BusiesShrink
    <3> QED BY <1>1, <3>2, <3>3
  <2>2. ticks.wall + n <= pd.busy /\ ticks.wall \in Nat /\ pd.busy \in Nat
    BY DEF IInv, Counters, Typed, Ticks, Devices
  <2> HIDE DEF n
  <2>3. ticks'.wall + n' <= pd'.busy
    BY <1>1, <2>1, <2>2
  <2>4. (\E i \in 1 .. Len(toPD') : IsChallenge(toPD'[i])) =>
           \E i \in 1 .. Len(toPD) : IsChallenge(toPD[i])
    BY <1>3
  <2> QED BY <1>1, <2>3, <2>4 DEF IInv, Counters, n, IsChallenge
<1> QED BY <1>5, <1>6, <1>7, <1>8, <1>9, <1>10 DEF IInv

-----------------------------------------------------------------------------
(* The theorems.                                                           *)

\* The invariant holds before the first call.
LEMMA InitEstablishes == Init => IInv
<1> SUFFICES ASSUME Init PROVE IInv
  OBVIOUS
<1>1. /\ open = FALSE /\ connected = FALSE /\ pc = "idle" /\ phase = "done"
      /\ chan = NewChannel /\ sec = NoSession /\ ticks = [wall |-> 0, cpu |-> 0]
      /\ toPD = <<>> /\ toCP = <<>> /\ calls = 0
      /\ pd = [st |-> "clear", session |-> 0, mac |-> <<>>, profile |-> 0,
               answers |-> <<>>, last |-> <<>>, busy |-> 0]
  BY DEF Init
<1>2. NewChannel \in Channels
  BY PanelData DEF NewChannel, Channels, Blocks, Types
<1>3. NoSession \in Secs /\ sec.rmac = <<>> /\ sec.cmac = <<>> /\ sec.session = 0
  BY <1>1, FirstMacs DEF NoSession, Secs
<1>4. /\ pd \in Devices /\ pd.st = "clear" /\ pd.session = 0 /\ pd.last = <<>>
      /\ pd.busy = 0
  <2>1. <<>> \in Seq(Apdus) /\ <<>> \in Seq(ReplySet)
    OBVIOUS
  <2> QED BY <1>1, <2>1, FirstMacs DEF Devices
<1>5. Typed
  <2>1. toPD \in Seq(Packages) /\ toCP \in Seq(ReplySet) /\ ticks \in Ticks
    BY <1>1 DEF Ticks
  <2> QED BY <1>1, <1>2, <1>3, <1>4, <2>1 DEF Typed, Pcs
<1>6. Calls
  BY <1>1, <1>3 DEF Calls, Hand
<1>7. Handshake
  BY <1>1, <1>3 DEF Handshake, Hand
<1>8. Device
  BY <1>1, <1>4 DEF Device, LastReply
<1>9. InStep
  BY <1>3 DEF InStep
<1>10. Counters
  <2>1. ticks.wall = 0 /\ ticks.cpu = 0 /\ Cardinality(Busies(toCP)) = 0
    BY <1>1, NoBusies
  <2> QED BY <1>1, <1>3, <1>4, <2>1, OSDPAssumption DEF Counters
<1> QED BY <1>5, <1>6, <1>7, <1>8, <1>9, <1>10 DEF IInv

\* Every step keeps the invariant.
LEMMA StepKeeps == IInv /\ [Next]_vars => IInv'
<1> SUFFICES ASSUME IInv, [Next]_vars PROVE IInv'
  OBVIOUS
<1>1. CASE connectToReader \/ disconnectFromReader \/ sendCommand
  BY <1>1, connectToReaderKeeps, disconnectFromReaderKeeps, sendCommandKeeps
<1>2. CASE poll \/ led \/ buz \/ disconnectFromSmartcard
  <2>1. /\ {"POLL", "LED", "BUZ", "XWR"} \subseteq Types
        /\ {<<>>, <<"led">>, <<"buz">>, <<"release">>} \subseteq Datas
    BY PanelData DEF Types
  <2> QED BY <1>2, <2>1, UnitCommandKeeps DEF poll, led, buz, disconnectFromSmartcard
<1>3. CASE RejectReply \/ Busy \/ AcceptReply \/ Timeout
  BY <1>3, RejectReplyKeeps, BusyKeeps, AcceptReplyKeeps, TimeoutKeeps
<1>4. CASE challenge \/ sCrypt \/ ChallengeFails \/ getProfile \/ CryptFails
  BY <1>4, challengeKeeps, sCryptKeeps, ChallengeFailsKeeps, getProfileKeeps,
     CryptFailsKeeps
<1>5. CASE \/ setProfile \/ ConnectDone \/ UnitCommandDone \/ PollForAnswer
           \/ SendCommandDone
  BY <1>5, setProfileKeeps, ConnectDoneKeeps, UnitCommandDoneKeeps,
     PollForAnswerKeeps, SendCommandDoneKeeps
<1>6. CASE PDReceives \/ LineLoses
  BY <1>6, PDReceivesKeeps, LineLosesKeeps
<1>7. CASE UNCHANGED vars
  BY <1>7 DEF vars, cpVars, IInv, Typed, Calls, Handshake, Device, LastReply, InStep,
     InStepOf, Counters, AnswersChallenge, AnswersCrypt
<1> QED BY <1>1, <1>2, <1>3, <1>4, <1>5, <1>6, <1>7 DEF Next, Call, CallStep

\* The inductive invariant, whatever the line loses and the device repeats.
THEOREM InductiveInvariant == Spec => []IInv
BY InitEstablishes, StepKeeps, PTL DEF Spec

\* TypeOK: the channel, the secure channel and the counters of transmit keep their
\* types and their bounds.
THEOREM TypeCorrect == Spec => []TypeOK
<1>1. IInv => TypeOK
  <2> SUFFICES ASSUME IInv PROVE TypeOK
    OBVIOUS
  <2>1. sec.session \in 0..MaxCalls /\ calls \in 0..MaxCalls
    BY OSDPAssumption DEF IInv, Typed, Secs, Devices, Counters
  <2>2. ticks.wall \in 0..MaxBusy /\ ticks.cpu \in 0..MaxBusy
    <3> DEFINE n == Cardinality(Busies(toCP))
    <3>1. n \in Nat
      BY BusiesCounted DEF IInv, Typed
    <3>2. /\ ticks.wall \in Nat /\ ticks.cpu \in Nat /\ pd.busy \in Nat
          /\ ticks.wall + n <= pd.busy /\ pd.busy <= MaxBusy /\ ticks.cpu <= ticks.wall
      BY DEF IInv, Typed, Ticks, Devices, Counters
    <3> HIDE DEF n
    <3> QED BY <3>1, <3>2, OSDPAssumption
  <2> QED BY <2>1, <2>2 DEF TypeOK, IInv, Typed, Pcs, Channels
<1> QED BY <1>1, InductiveInvariant, PTL

\* AtMostOneAhead: while both ends are in the same session, the device has the MAC
\* of the panel, or is one command and its reply ahead.
THEOREM OneExchangeAhead == Spec => []AtMostOneAhead
<1>1. IInv => AtMostOneAhead
  <2> SUFFICES ASSUME IInv, sec.rmac # <<>>
               PROVE  \/ pd.mac = sec.rmac
                      \/ /\ Len(pd.mac) = Len(sec.rmac) + 2
                         /\ IsPrefix(sec.rmac, pd.mac)
    BY DEF AtMostOneAhead
  <2>1. pd.mac \in Macs /\ sec.rmac \in Macs /\ InStepOf(sec)
    BY DEF IInv, Typed, Devices, Secs, InStep
  <2>2. Begins(sec.rmac, pd.mac) /\ Begins(pd.mac, pd.mac)
    BY <2>1 DEF InStepOf, Begins, Macs
  <2>3. CASE Len(pd.mac) = Len(sec.rmac)
    BY <2>1, <2>2, <2>3, BeginsUnique
  <2>4. CASE Len(pd.mac) = Len(sec.rmac) + 2
    <3>1. /\ SubSeq(sec.rmac, 1, Len(sec.rmac)) = sec.rmac
          /\ SubSeq(pd.mac, 1, Len(sec.rmac)) \in Macs
          /\ Len(SubSeq(pd.mac, 1, Len(sec.rmac))) = Len(sec.rmac)
          /\ \A i \in 1 .. Len(sec.rmac) : SubSeq(pd.mac, 1, Len(sec.rmac))[i] = pd.mac[i]
      BY <2>1, <2>4 DEF Macs
    <3>2. Begins(SubSeq(pd.mac, 1, Len(sec.rmac)), pd.mac)
      BY <2>1, <2>4, <3>1 DEF Begins, Macs
    <3>3. SubSeq(pd.mac, 1, Len(sec.rmac)) = sec.rmac
      BY <2>1, <2>2, <3>1, <3>2, BeginsUnique
    <3> QED BY <2>1, <2>4, <3>1, <3>3 DEF IsPrefix, Macs
  <2> QED BY <2>1, <2>3, <2>4 DEF InStepOf
<1> QED BY <1>1, InductiveInvariant, PTL

\* A package that leaves does not change the MAC of the last reply.
LEMMA TransmitKeepsRmac ==
  ASSUME NEW c, NEW s \in Secs, NEW k, Transmit(c, s, k)
  PROVE  sec'.rmac = s.rmac
BY DEF Transmit, Send, Secs

\* The MAC of the last reply changes by a reply, or in the handshake.
LEMMA AcceptedIsTheReply ==
  ASSUME IInv, Next, sec'.rmac # sec.rmac, Len(sec'.rmac) > 1
  PROVE  Head(toCP).re = Last(sec.cmac)
<1>1. sec \in Secs
  BY DEF IInv, Typed
<1>2. CASE AcceptReply
  <2> DEFINE r == Head(toCP)
  <2>1. toCP # <<>> /\ r.mac # <<>> /\ ~BadMac(r)
    BY <1>1, <1>2 DEF AcceptReply, Secs
  <2>2. r \in ReplySet /\ r = toCP[1] /\ 1 \in 1 .. Len(toCP)
    BY <2>1, Taken DEF IInv, Typed
  <2>3. WellMade(r)
    BY <2>2 DEF IInv, Device
  <2>4. /\ r.mac = Append(sec.cmac, Body(r)) /\ Len(r.mac) >= 3
        /\ r.mac[Len(r.mac) - 1] = r.re
    BY <2>1, <2>3 DEF WellMade, BadMac, verifyMAC
  <2>5. sec.cmac \in Macs /\ Body(r) \in Elems
    BY <1>1, <2>2, BodyTyped DEF Secs
  <2> HIDE DEF r
  <2>6. /\ Len(sec.cmac) \in Nat /\ Len(r.mac) = Len(sec.cmac) + 1
        /\ \A i \in 1 .. Len(sec.cmac) : r.mac[i] = sec.cmac[i]
    BY <2>4, <2>5, MacGrows DEF Macs
  <2> QED BY <2>4, <2>6 DEF Last, r
<1>3. CASE connectToReader
  <2>1. NoSession \in Secs /\ NoSession.rmac = <<>> /\ Len(<<>>) = 0
    BY FirstMacs DEF NoSession, Secs
  <2> QED BY <1>3, <2>1, TransmitKeepsRmac DEF connectToReader
<1>4. CASE sCrypt
  <2>1. OSDPSecureChannel.rmac = <<>> /\ Len(<<>>) = 0
    BY FirstMacs DEF OSDPSecureChannel
  <2>2. sec'.rmac = OSDPSecureChannel.rmac
    BY <1>4 DEF sCrypt, Transmit, Send, OSDPSecureChannel
  <2> QED BY <2>1, <2>2
<1>5. CASE getProfile
  <2> DEFINE s == [sec EXCEPT !.rmac = chan.data[2]]
  <2>1. pc = "connCrypt" /\ phase = "done" /\ CryptAnswer /\ Transmit(
          Command([chan EXCEPT !.isSCB = TRUE], "XWR", <<"getProfile">>), s, "connGet")
    BY <1>5 DEF getProfile, Returned
  <2>2. sec.rmac = <<>>
    BY <2>1 DEF IInv, Calls, Hand
  <2>3. chan.data[2] = <<pd.session>> /\ pd.session \in Nat
    BY <2>1, <2>2 DEF IInv, Typed, Devices, Handshake, AnswersCrypt, IsKind, CryptAnswer
  <2>4. <<pd.session>> \in Macs /\ Len(<<pd.session>>) = 1
    BY <2>3, FirstMacs
  <2>5. s \in Secs /\ s.rmac = <<pd.session>>
    BY <1>1, <2>3, <2>4 DEF Secs
  <2> HIDE DEF s
  <2>6. sec'.rmac = s.rmac
    BY <2>1, <2>5, TransmitKeepsRmac
  <2>7. Len(sec'.rmac) = 1
    BY <2>4, <2>5, <2>6
  <2> QED BY <2>7
<1>6. CASE sendCommand \/ poll \/ led \/ buz \/ disconnectFromSmartcard
  BY <1>1, <1>6, TransmitKeepsRmac
  DEF sendCommand, poll, led, buz, disconnectFromSmartcard, UnitCommand
<1>7. CASE challenge \/ setProfile \/ PollForAnswer
  BY <1>1, <1>7, TransmitKeepsRmac DEF challenge, setProfile, PollForAnswer
<1>8. CASE ChallengeFails
  <2>1. OSDPSecureChannel.rmac = <<>> /\ Len(<<>>) = 0
    BY FirstMacs DEF OSDPSecureChannel
  <2> QED BY <1>8, <2>1 DEF ChallengeFails
<1>9. CASE Busy
  BY <1>1, <1>9 DEF Busy, Send, Secs
<1>10. CASE \/ RejectReply \/ Timeout \/ CryptFails \/ ConnectDone \/ UnitCommandDone
            \/ SendCommandDone \/ disconnectFromReader \/ PDReceives \/ LineLoses
  BY <1>10 DEF RejectReply, Timeout, CryptFails, ConnectDone, UnitCommandDone,
     SendCommandDone, disconnectFromReader, PDReceives, LineLoses, cpVars
<1> QED BY <1>2, <1>3, <1>4, <1>5, <1>6, <1>7, <1>8, <1>9, <1>10
    DEF Next, Call, CallStep

\* SecuredReplyMatches: a secured reply is accepted only as the reply to a command
\* with the content of the last one sent, whatever was lost, late or repeated.
THEOREM SecuredReplyIsOfTheCommand == Spec => SecuredReplyMatches
<1>1. IInv /\ [Next]_vars
        => [sec'.rmac # sec.rmac /\ Len(sec'.rmac) > 1
              => Head(toCP).re = Last(sec.cmac)]_vars
  BY AcceptedIsTheReply
<1> QED BY <1>1, InductiveInvariant, PTL DEF Spec, SecuredReplyMatches

-----------------------------------------------------------------------------
(* A line that loses nothing, and a device that is not busy.               *)

NoLoss == "loss" \notin Faults /\ "busy" \notin Faults

\* One package or reply is on the line while transmit waits, none otherwise.
LockStep ==
  /\ phase = "wait" => Len(toPD) + Len(toCP) = 1
  /\ phase = "done" => toPD = <<>> /\ toCP = <<>>
  /\ \A i \in 1 .. Len(toCP) : toCP[i].type # "BUSY"

\* Sequence numbers: what is sent follows the last reply of the device, but for the
\* first poll of a connection.
Numbered ==
  /\ \A i \in 1 .. Len(toPD) :
       IF pc = "connPoll" THEN toPD[i].seq = 0
       ELSE pd.last # <<>> /\ toPD[i].seq = NextSeq(pd.last[1].seq)
  /\ \A i \in 1 .. Len(toCP) : pd.last # <<>> /\ toCP[i].seq = pd.last[1].seq
  /\ phase = "done" /\ (pc # "idle" \/ connected = TRUE) =>
       pd.last # <<>> /\ chan.seq = NextSeq(pd.last[1].seq)

\* connectToReader has the first MAC, or has returned.
InSession == pc \in {"connGet", "connSet"} \/ connected = TRUE

\* In a session the device takes the command on the line, and the panel its reply.
Secured ==
  InSession =>
    /\ pd.st = "secure" /\ chan.isSCB = TRUE
    /\ phase = "done" => pd.mac = sec.rmac
    /\ \A i \in 1 .. Len(toPD) :
         /\ toPD[i].isSCB = TRUE /\ pd.mac = sec.rmac
         /\ toPD[i].mac = Append(pd.mac, Body(toPD[i])) /\ sec.cmac = toPD[i].mac
    /\ \A i \in 1 .. Len(toCP) :
         /\ toCP[i].isSCB = TRUE /\ toCP[i].mac = pd.mac
         /\ toCP[i].mac = Append(sec.cmac, Body(toCP[i]))

\* The answer to getProfile.
GotProfile(type, data) == type = "XRD" /\ data = <<"profile", pd.profile>>

\* The profile of the device, as the panel gets and sets it.
Profiles ==
  /\ connected = TRUE => pd.profile = 1
  /\ pc = "connGet" =>
       /\ \A i \in 1 .. Len(toPD) : toPD[i].type = "XWR" /\ toPD[i].data = <<"getProfile">>
       /\ \A i \in 1 .. Len(toCP) : GotProfile(toCP[i].type, toCP[i].data)
       /\ phase = "done" => GotProfile(chan.type, chan.data)
  /\ pc = "connSet" =>
       /\ \A i \in 1 .. Len(toPD) : toPD[i].type = "XWR" /\ toPD[i].data = <<"setProfile">>
       /\ toPD = <<>> => pd.profile = 1

\* The device that sent the first MAC is in its session.
Crypted ==
  pc = "connCrypt" =>
    /\ \A i \in 1 .. Len(toCP) : IsKind(toCP[i].data, "rmac") => pd.st = "secure"
    /\ phase = "done" /\ IsKind(chan.data, "rmac") => pd.st = "secure"

\* The panel and the device go in lock step.
SInv == LockStep /\ Numbered /\ Secured /\ Profiles /\ Crypted

\* A package leaves on an empty line, with the next sequence number.
LEMMA LockStepTransmit ==
  ASSUME IInv, SInv, NEW c \in Channels, NEW s \in Secs, NEW k \in Pcs \ {"idle"},
         Transmit(c, s, k), phase = "done", connected' = connected,
         k = "connPoll" => c.seq = 0,
         k # "connPoll" => pd.last # <<>> /\ c.seq = NextSeq(pd.last[1].seq),
         k \in {"connGet", "connSet"} \/ connected = TRUE =>
           /\ c.isSCB = TRUE /\ c.sb = "SCS_17" /\ pd.st = "secure" /\ s.rmac = pd.mac,
         k = "connGet" => c.type = "XWR" /\ c.data = <<"getProfile">>,
         k = "connSet" => c.type = "XWR" /\ c.data = <<"setProfile">>
  PROVE  SInv'
<1> DEFINE p == createPackage(c, s)
<1>1. /\ p \in Packages /\ p.seq = c.seq /\ p.isSCB = c.isSCB /\ p.type = c.type
      /\ p.data = c.data /\ Body(p) = Body(c)
      /\ c.isSCB /\ Macked(c.sb) => p.mac = Append(s.rmac, Body(c))
  BY PackageMade
<1>2. Send(c, s) /\ toPD \in Seq(Packages) /\ toPD = <<>> /\ toCP = <<>>
  BY DEF Transmit, IInv, Typed, SInv, LockStep
<1>3. /\ toPD' = Append(toPD, p) /\ phase' = "wait" /\ chan'.isSCB = c.isSCB
      /\ sec'.rmac = s.rmac
      /\ c.isSCB /\ Macked(c.sb) => sec'.cmac = Append(s.rmac, Body(c))
  BY <1>2, Sent
<1>4. pc' = k /\ toCP' = <<>> /\ pd' = pd
  BY <1>2 DEF Transmit
<1> HIDE DEF p
<1>5. Len(toPD') = 1 /\ toPD'[1] = p /\ Len(toCP') = 0 /\ toPD' # <<>>
  BY <1>1, <1>2, <1>3, <1>4
<1>6. LockStep'
  BY <1>3, <1>5 DEF LockStep
<1>7. Numbered'
  BY <1>1, <1>3, <1>4, <1>5 DEF Numbered
<1>8. Secured'
  <2> SUFFICES ASSUME k \in {"connGet", "connSet"} \/ connected = TRUE
               PROVE  Secured'
    BY <1>4 DEF Secured, InSession
  <2>1. /\ c.isSCB = TRUE /\ pd.st = "secure" /\ s.rmac = pd.mac
        /\ p.mac = Append(pd.mac, Body(p)) /\ sec'.cmac = p.mac /\ p.isSCB = TRUE
    BY <1>1, <1>3 DEF Macked
  <2>2. \A i \in 1 .. Len(toPD') : toPD'[i] = p
    BY <1>5
  <2> QED BY <1>3, <1>4, <1>5, <2>1, <2>2 DEF Secured
<1>9. Profiles'
  BY <1>1, <1>3, <1>4, <1>5 DEF Profiles, SInv
<1>10. Crypted'
  BY <1>3, <1>5 DEF Crypted
<1> QED BY <1>6, <1>7, <1>8, <1>9, <1>10 DEF SInv

\* A call ends.
LEMMA LockStepLeaves ==
  ASSUME IInv, SInv, Leave, phase = "done",
         chan' = chan, toPD' = toPD, toCP' = toCP, pd' = pd,
         connected' = TRUE => /\ InSession /\ pc # "idle" /\ sec' = sec
                              /\ pd.profile = 1
  PROVE  SInv'
<1>1. pc' = "idle" /\ phase' = "done" /\ toPD = <<>> /\ toCP = <<>> /\ Len(<<>>) = 0
  BY DEF Leave, SInv, LockStep
<1> QED BY <1>1 DEF SInv, LockStep, Numbered, Secured, InSession, Profiles, Crypted

\* The packages of the handshake.
LEMMA HandshakeInLockStep ==
  ASSUME IInv, SInv, connectToReader \/ challenge \/ sCrypt
  PROVE  SInv'
<1>1. chan \in Channels /\ sec \in Secs
  BY DEF IInv, Typed
<1>2. CASE connectToReader
  <2> DEFINE c == Command(NewChannel, "POLL", <<>>)
  <2>1. NewChannel \in Channels /\ NewChannel.seq = 0
    BY PanelData DEF NewChannel, Channels, Blocks, Types
  <2>2. "POLL" \in Types /\ <<>> \in Datas
    BY PanelData DEF Types
  <2>3. c \in Channels /\ c.seq = 0
    BY <2>1, <2>2, CommandMade
  <2>4. NoSession \in Secs /\ "connPoll" \in Pcs \ {"idle"}
    BY FirstMacs DEF NoSession, Secs, Pcs
  <2>5. /\ Transmit(c, NoSession, "connPoll") /\ connected' = connected
        /\ phase = "done" /\ connected = FALSE
    BY <1>2 DEF connectToReader, Calling, IInv, Calls, Typed
  <2> HIDE DEF c
  <2> QED BY <2>3, <2>4, <2>5, LockStepTransmit
<1>3. CASE challenge
  <2> DEFINE c == [chan EXCEPT !.type = "CHLNG", !.isSCB = TRUE, !.sb = "SCS_11",
                               !.data = <<"rnda">>]
  <2>1. c \in Channels /\ c.seq = chan.seq
    BY <1>1, PanelData DEF Channels, Blocks, Types
  <2>2. /\ pc = "connPoll" /\ phase = "done" /\ connected' = connected
        /\ Transmit(c, sec, "connChlng")
    BY <1>3 DEF challenge, Returned
  <2>3. connected = FALSE /\ pd.last # <<>> /\ chan.seq = NextSeq(pd.last[1].seq)
    BY <2>2 DEF IInv, Calls, Hand, SInv, Numbered
  <2>4. "connChlng" \in Pcs \ {"idle"}
    BY DEF Pcs
  <2> HIDE DEF c
  <2> QED BY <1>1, <2>1, <2>2, <2>3, <2>4, LockStepTransmit
<1>4. CASE sCrypt
  <2> DEFINE c == [chan EXCEPT !.type = "OSCRYPT", !.sb = "SCS_13",
                               !.data = <<"cryptogram">>]
             s == OSDPSecureChannel
  <2>1. c \in Channels /\ c.seq = chan.seq
    BY <1>1, PanelData DEF Channels, Blocks, Types
  <2>2. /\ pc = "connChlng" /\ phase = "done" /\ connected' = connected
        /\ Transmit(c, s, "connCrypt") /\ ChallengeAnswer
    BY <1>4 DEF sCrypt, Returned
  <2>3. connected = FALSE /\ pd.last # <<>> /\ chan.seq = NextSeq(pd.last[1].seq)
    BY <2>2 DEF IInv, Calls, Hand, SInv, Numbered
  <2>4. chan.data \in Datas /\ chan.data # <<>> /\ chan.data[1] = "ccrypt"
    BY <1>1, <2>2 DEF ChallengeAnswer, Channels
  <2>5. s \in Secs
    BY <2>4, DataKinds, FirstMacs DEF OSDPSecureChannel, Secs
  <2>6. "connCrypt" \in Pcs \ {"idle"}
    BY DEF Pcs
  <2> HIDE DEF c, s
  <2> QED BY <2>1, <2>2, <2>3, <2>5, <2>6, LockStepTransmit
<1> QED BY <1>2, <1>3, <1>4

\* The first command of the session.
LEMMA GetProfileInLockStep == ASSUME IInv, SInv, getProfile PROVE SInv'
<1> DEFINE d == [chan EXCEPT !.isSCB = TRUE]
           c == Command(d, "XWR", <<"getProfile">>)
           s == [sec EXCEPT !.rmac = chan.data[2]]
<1>1. d \in Channels /\ d.isSCB = TRUE /\ d.seq = chan.seq
  BY DEF IInv, Typed, Channels
<1>2. /\ pc = "connCrypt" /\ phase = "done" /\ connected' = connected
      /\ Transmit(c, s, "connGet") /\ CryptAnswer
  BY DEF getProfile, Returned
<1> HIDE DEF d
<1>3. /\ c \in Channels /\ c.sb = "SCS_17" /\ c.isSCB = TRUE /\ c.seq = chan.seq
      /\ c.type = "XWR" /\ c.data = <<"getProfile">>
  <2>1. "XWR" \in Types /\ <<"getProfile">> \in Datas
    BY PanelData DEF Types
  <2> QED BY <1>1, <2>1, CommandMade
<1>4. sec.rmac = <<>>
  BY <1>2 DEF IInv, Calls, Hand
<1>5. /\ chan.data[2] = <<pd.session>> /\ pd.mac = <<pd.session>> /\ pd.session \in Nat
  BY <1>2, <1>4 DEF IInv, Typed, Devices, Handshake, AnswersCrypt, IsKind, CryptAnswer
<1>6. s \in Secs /\ s.rmac = pd.mac
  BY <1>5, FirstMacs DEF Secs, IInv, Typed
<1>7. pd.st = "secure" /\ pd.last # <<>> /\ chan.seq = NextSeq(pd.last[1].seq)
  BY <1>2 DEF SInv, Crypted, Numbered, CryptAnswer, IsKind
<1>8. "connGet" \in Pcs \ {"idle"}
  BY DEF Pcs
<1> HIDE DEF c, s
<1> QED BY <1>2, <1>3, <1>6, <1>7, <1>8, LockStepTransmit

\* The other commands of the session.
LEMMA CommandInLockStep ==
  ASSUME IInv, SInv, NEW type \in Types, NEW data \in Datas,
         NEW k \in {"connSet", "unit", "apdu", "apduPoll"}, phase = "done", InSession,
         Transmit(Command(chan, type, data), sec, k), connected' = connected,
         k = "connSet" => type = "XWR" /\ data = <<"setProfile">>
  PROVE  SInv'
<1> DEFINE c == Command(chan, type, data)
<1>1. /\ c \in Channels /\ c.isSCB = chan.isSCB /\ (chan.isSCB => c.sb = "SCS_17")
      /\ c.seq = chan.seq /\ c.type = type /\ c.data = data /\ sec \in Secs
  BY CommandMade DEF IInv, Typed
<1>2. Transmit(c, sec, k)
  OBVIOUS
<1>3. chan.isSCB = TRUE /\ pd.st = "secure" /\ pd.mac = sec.rmac
  BY DEF SInv, Secured
<1>4. pd.last # <<>> /\ chan.seq = NextSeq(pd.last[1].seq)
  BY DEF SInv, Numbered, InSession
<1>5. k \in Pcs \ {"idle"}
  BY DEF Pcs
<1> HIDE DEF c
<1> QED BY <1>1, <1>2, <1>3, <1>4, <1>5, LockStepTransmit

\* setProfile, waitInsertion, waitRemoval and sendCommand send their commands.
LEMMA SessionInLockStep ==
  ASSUME IInv, SInv,
         \/ setProfile \/ PollForAnswer \/ sendCommand
         \/ poll \/ led \/ buz \/ disconnectFromSmartcard
  PROVE  SInv'
<1>1. /\ {"POLL", "LED", "BUZ", "XWR"} \subseteq Types
      /\ {<<>>, <<"led">>, <<"buz">>, <<"release">>, <<"setProfile">>} \subseteq Datas
      /\ \A a \in Apdus : <<"apdu", a>> \in Datas
  BY PanelData DEF Types
<1>2. CASE setProfile
  <2>1. /\ pc = "connGet" /\ phase = "done" /\ connected' = connected
        /\ Transmit(Command(chan, "XWR", <<"setProfile">>), sec, "connSet")
    BY <1>2 DEF setProfile, Returned
  <2> QED BY <1>1, <2>1, CommandInLockStep DEF InSession
<1>3. CASE PollForAnswer
  <2>1. /\ pc = "apdu" /\ phase = "done" /\ connected' = connected
        /\ Transmit(Command(chan, "POLL", <<>>), sec, "apduPoll")
    BY <1>3 DEF PollForAnswer, Returned
  <2>2. connected = TRUE
    BY <2>1 DEF IInv, Calls
  <2> QED BY <1>1, <2>1, <2>2, CommandInLockStep DEF InSession
<1>4. CASE sendCommand
  <2>1. phase = "done" /\ connected = TRUE /\ connected' = connected
    BY <1>4 DEF sendCommand, Calling, IInv, Calls, Typed
  <2>2. PICK a \in Apdus : Transmit(Command(chan, "XWR", <<"apdu", a>>), sec, "apdu")
    BY <1>4 DEF sendCommand
  <2> QED BY <1>1, <2>1, <2>2, CommandInLockStep DEF InSession
<1>5. CASE poll \/ led \/ buz \/ disconnectFromSmartcard
  <2>1. PICK type \in Types, data \in Datas : UnitCommand(type, data)
    BY <1>1, <1>5 DEF poll, led, buz, disconnectFromSmartcard
  <2>2. /\ phase = "done" /\ connected = TRUE /\ connected' = connected
        /\ Transmit(Command(chan, type, data), sec, "unit")
    BY <2>1 DEF UnitCommand, Calling, IInv, Calls, Typed
  <2> QED BY <2>2, CommandInLockStep DEF InSession
<1> QED BY <1>2, <1>3, <1>4, <1>5

\* The calls that return or throw.
LEMMA ReturnsInLockStep ==
  ASSUME IInv, SInv,
         \/ ChallengeFails \/ CryptFails \/ ConnectDone \/ UnitCommandDone
         \/ SendCommandDone
  PROVE  SInv'
<1>1. CASE ChallengeFails \/ CryptFails
  <2>1. /\ Leave /\ phase = "done" /\ pc \in Hand /\ connected' = connected
        /\ chan' = chan /\ toPD' = toPD /\ toCP' = toCP /\ pd' = pd
    BY <1>1 DEF ChallengeFails, CryptFails, Returned, Hand
  <2>2. connected = FALSE
    BY <2>1 DEF IInv, Calls
  <2> QED BY <2>1, <2>2, LockStepLeaves
<1>2. CASE UnitCommandDone \/ SendCommandDone
  <2>1. /\ Leave /\ phase = "done" /\ pc # "idle" /\ connected' = connected
        /\ chan' = chan /\ toPD' = toPD /\ toCP' = toCP /\ pd' = pd /\ sec' = sec
    BY <1>2 DEF UnitCommandDone, SendCommandDone, Returned
  <2>2. connected = TRUE => InSession /\ pd.profile = 1
    BY DEF InSession, SInv, Profiles
  <2> QED BY <2>1, <2>2, LockStepLeaves
<1>3. CASE ConnectDone
  <2>1. /\ Leave /\ phase = "done" /\ chan' = chan /\ toPD' = toPD /\ toCP' = toCP
        /\ pd' = pd /\ sec' = sec
        /\ (pc = "connGet" /\ ~OtherProfile) \/ pc = "connSet"
    BY <1>3 DEF ConnectDone, Returned
  <2>2. InSession /\ pc # "idle"
    BY <2>1 DEF InSession
  <2>3. pd.profile = 1
    <3>1. CASE pc = "connGet" /\ ~OtherProfile
      <4>1. chan.type = "XRD" /\ chan.data = <<"profile", pd.profile>>
        BY <2>1, <3>1 DEF SInv, Profiles, GotProfile
      <4> QED BY <3>1, <4>1 DEF OtherProfile
    <3>2. CASE pc = "connSet"
      BY <2>1, <3>2 DEF SInv, Profiles, LockStep
    <3> QED BY <2>1, <3>1, <3>2
  <2> QED BY <2>1, <2>2, <2>3, LockStepLeaves
<1> QED BY <1>1, <1>2, <1>3

\* While transmit waits with a reply on the line, that is all there is on it.
LEMMA OneReply ==
  ASSUME IInv, SInv, phase = "wait", toCP # <<>>
  PROVE  /\ toPD = <<>> /\ Tail(toCP) = <<>> /\ Len(Tail(toCP)) = 0
         /\ Head(toCP) \in ReplySet /\ Head(toCP) = toCP[1] /\ 1 \in 1 .. Len(toCP)
<1>1. /\ toCP \in Seq(ReplySet) /\ toPD \in Seq(Packages) /\ Len(toPD) \in Nat
      /\ Len(toPD) + Len(toCP) = 1
  BY DEF IInv, Typed, SInv, LockStep
<1>2. /\ Head(toCP) \in ReplySet /\ Head(toCP) = toCP[1] /\ Len(toCP) \in Nat \ {0}
      /\ Tail(toCP) \in Seq(ReplySet) /\ Len(Tail(toCP)) = Len(toCP) - 1
  BY <1>1, Taken
<1>3. Len(toPD) = 0 /\ Len(toCP) = 1 /\ Len(Tail(toCP)) = 0
  BY <1>1, <1>2
<1>4. \A S : \A x \in Seq(S) : Len(x) = 0 => x = <<>>
  BY EmptySeq
<1>5. toPD = <<>> /\ Tail(toCP) = <<>>
  BY <1>1, <1>2, <1>3, <1>4
<1> QED BY <1>2, <1>3, <1>5

\* transmit returns with the reply.
LEMMA AcceptInLockStep == ASSUME IInv, SInv, AcceptReply PROVE SInv'
<1> DEFINE r == Head(toCP)
           c == unPackage(r)
<1>1. /\ phase = "wait" /\ toCP # <<>> /\ ~BadMac(r) /\ toCP' = Tail(toCP)
      /\ chan' = [c EXCEPT !.seq = NextSeq(@)]
      /\ phase' = "done" /\ connected' = connected /\ pc' = pc /\ toPD' = toPD
      /\ pd' = pd
  BY DEF AcceptReply
<1>2. /\ toPD' = <<>> /\ toCP' = <<>> /\ Len(<<>>) = 0
      /\ r \in ReplySet /\ r = toCP[1] /\ 1 \in 1 .. Len(toCP)
  BY <1>1, OneReply
<1>3. sec \in Secs /\ chan \in Channels
  BY DEF IInv, Typed
<1>4. c \in Channels /\ c.seq = r.seq /\ c.isSCB = r.isSCB /\ c.type = r.type /\ c.data = r.data
  BY <1>1, <1>2, <1>3, Unpacked
<1> HIDE DEF c
<1>5. /\ chan'.seq = NextSeq(r.seq) /\ chan'.isSCB = r.isSCB /\ chan'.type = r.type
      /\ chan'.data = r.data
  BY <1>1, <1>4, NextSeqTyped
<1>6. r.mac # <<>> => sec'.rmac = r.mac
  BY <1>3 DEF AcceptReply, Secs
<1>7. LockStep'
  BY <1>1, <1>2 DEF LockStep
<1>8. Numbered'
  <2>1. pd.last # <<>> /\ r.seq = pd.last[1].seq
    BY <1>2 DEF SInv, Numbered
  <2> QED BY <1>1, <1>2, <1>5, <2>1 DEF Numbered
<1>9. Secured'
  <2> SUFFICES ASSUME InSession PROVE Secured'
    BY <1>1 DEF Secured, InSession
  <2>1. pd.st = "secure" /\ r.isSCB = TRUE /\ r.mac = pd.mac
    BY <1>2 DEF SInv, Secured
  <2>2. pd.mac # <<>>
    BY <2>1 DEF IInv, Device
  <2> QED BY <1>1, <1>2, <1>5, <1>6, <2>1, <2>2 DEF Secured
<1>10. Profiles'
  <2>1. pc = "connGet" => GotProfile(r.type, r.data)
    BY <1>2 DEF SInv, Profiles
  <2>2. pc = "connSet" => pd.profile = 1
    BY <1>1, OneReply DEF SInv, Profiles
  <2> QED BY <1>1, <1>2, <1>5, <2>1, <2>2 DEF SInv, Profiles, GotProfile
<1>11. Crypted'
  <2>1. pc = "connCrypt" => (IsKind(r.data, "rmac") => pd.st = "secure")
    BY <1>2 DEF SInv, Crypted
  <2> QED BY <1>1, <1>2, <1>5, <2>1 DEF Crypted
<1> QED BY <1>7, <1>8, <1>9, <1>10, <1>11 DEF SInv

\* A reply is rejected outside a session only.
LEMMA RejectInLockStep == ASSUME IInv, SInv, RejectReply PROVE SInv'
<1> DEFINE r == Head(toCP)
<1>1. /\ phase = "wait" /\ toCP # <<>> /\ BadMac(r) /\ toCP' = Tail(toCP)
      /\ phase' = "done" /\ connected' = connected /\ pc' = "idle" /\ toPD' = toPD
      /\ pd' = pd
  BY DEF RejectReply, Leave
<1>2. toPD' = <<>> /\ toCP' = <<>> /\ Len(<<>>) = 0 /\ r = toCP[1] /\ 1 \in 1 .. Len(toCP)
  BY <1>1, OneReply
<1>3. InSession => r.mac = Append(sec.cmac, Body(r))
  BY <1>2 DEF SInv, Secured
<1>4. connected' = FALSE
  BY <1>1, <1>3 DEF BadMac, verifyMAC, InSession, IInv, Typed
<1> QED BY <1>1, <1>2, <1>4 DEF SInv, LockStep, Numbered, Secured, InSession, Profiles,
    Crypted

\* Where nothing is lost and the device is never busy, these do not happen.
LEMMA NeverWithoutLoss ==
  ASSUME NoLoss, IInv, SInv
  PROVE  ~Timeout /\ ~Busy /\ ~LineLoses
<1>1. ~Timeout
  <2> SUFFICES ASSUME phase = "wait", toPD = <<>>, toCP = <<>> PROVE FALSE
    BY DEF Timeout, NoLoss
  <2>1. Len(toPD) + Len(toCP) = 1 /\ Len(<<>>) = 0
    BY DEF SInv, LockStep
  <2> QED BY <2>1
<1>2. ~Busy
  <2> SUFFICES ASSUME phase = "wait", toCP # <<>>, Head(toCP).type = "BUSY" PROVE FALSE
    BY DEF Busy
  <2> QED BY OneReply DEF SInv, LockStep
<1>3. ~LineLoses
  BY DEF LineLoses, NoLoss
<1> QED BY <1>1, <1>2, <1>3

\* disconnectFromReader, between two calls.
LEMMA DisconnectInLockStep == ASSUME IInv, SInv, disconnectFromReader PROVE SInv'
<1>1. /\ pc = "idle" /\ pc' = pc /\ phase' = phase /\ connected' = FALSE
      /\ toPD' = <<>> /\ toCP' = <<>> /\ Len(<<>>) = 0
  BY DEF disconnectFromReader, Calling
<1>2. phase' = "done"
  BY <1>1 DEF IInv, Calls
<1> QED BY <1>1, <1>2 DEF SInv, LockStep, Numbered, Secured, InSession, Profiles, Crypted

\* The next sequence number is another one, so no command is taken for a repetition.
LEMMA NextSeqDiffers ==
  \A n \in 0..3 : NextSeq(n) # n /\ NextSeq(n) = (n % 3) + 1
BY DEF NextSeq

\* The device replies: its reply is all there is on the line.
LEMMA AnswerInLockStep ==
  ASSUME IInv, SInv, toPD # <<>>, toPD' = Tail(toPD), UNCHANGED cpVars,
         NEW r \in ReplySet, NEW d \in Devices, Answer(r, d),
         r.type # "BUSY", r.seq = Head(toPD).seq
  PROVE  /\ LockStep' /\ Numbered' /\ toPD' = <<>> /\ Len(toPD') = 0
         /\ Len(toCP') = 1 /\ toCP'[1] = r /\ phase' = "wait"
         /\ pd'.st = d.st /\ pd'.mac = d.mac /\ pd'.profile = d.profile
         /\ sec' = sec /\ chan' = chan /\ pc' = pc /\ connected' = connected
<1>1. /\ toCP \in Seq(ReplySet) /\ toPD \in Seq(Packages) /\ Len(toCP) \in Nat
      /\ phase = "wait" /\ Len(toPD) + Len(toCP) = 1
  BY DEF IInv, Typed, SInv, LockStep
<1>2. /\ Len(toPD) \in Nat \ {0} /\ toPD' \in Seq(Packages)
      /\ Len(toPD') = Len(toPD) - 1
  BY <1>1, Taken
<1>3. Len(toPD') = 0 /\ Len(toCP) = 0
  BY <1>1, <1>2
<1>4. toPD' = <<>> /\ toCP' = <<r>> /\ Len(<<r>>) = 1 /\ <<r>>[1] = r
  BY <1>1, <1>2, <1>3 DEF Answer
<1>5. pd' = [d EXCEPT !.last = <<r>>]
  BY DEF Answer
<1>6. /\ pd'.last = <<r>> /\ pd'.st = d.st /\ pd'.mac = d.mac /\ pd'.profile = d.profile
      /\ pd'.last # <<>> /\ pd'.last[1] = r
  BY <1>5 DEF Devices
<1>7. sec' = sec /\ chan' = chan /\ pc' = pc /\ connected' = connected /\ phase' = phase
  BY DEF cpVars
<1>8. LockStep'
  BY <1>1, <1>3, <1>4, <1>7 DEF LockStep
<1>9. Numbered'
  <2>1. \A i \in 1 .. Len(toPD') : FALSE
    <3>1. 1 .. 0 = {}
      OBVIOUS
    <3> QED BY <1>3, <3>1, Zenon
  <2>2. \A i \in 1 .. Len(toCP') : toCP'[i] = r
    BY <1>4
  <2>3. \A i \in 1 .. Len(toCP') : toCP'[i].seq = pd'.last[1].seq
    BY <1>6, <2>2
  <2> QED BY <1>1, <1>6, <1>7, <2>1, <2>3 DEF Numbered
<1> QED BY <1>1, <1>3, <1>4, <1>6, <1>7, <1>8, <1>9

\* A reply outside a session.
LEMMA OutsideInLockStep ==
  ASSUME IInv, SInv, toPD # <<>>, toPD' = Tail(toPD), UNCHANGED cpVars, ~InSession,
         NEW r \in ReplySet, NEW d \in Devices, Answer(r, d),
         r.type # "BUSY", r.seq = Head(toPD).seq,
         IsKind(r.data, "rmac") => d.st = "secure"
  PROVE  SInv'
<1>1. /\ LockStep' /\ Numbered'
      /\ Len(toCP') = 1 /\ toCP'[1] = r /\ phase' = "wait" /\ pd'.st = d.st
      /\ pc' = pc /\ connected' = connected
  BY AnswerInLockStep
<1>2. Secured' /\ Profiles'
  BY <1>1 DEF Secured, Profiles, InSession
<1>3. Crypted'
  BY <1>1 DEF Crypted
<1> QED BY <1>1, <1>2, <1>3 DEF SInv

\* A command of the session is executed, and its reply is the one expected.
LEMMA ExecuteInLockStep ==
  ASSUME IInv, SInv, toPD # <<>>, toPD' = Tail(toPD), UNCHANGED cpVars, InSession,
         Execute(Head(toPD))
  PROVE  SInv'
<1> DEFINE p == Head(toPD)
<1>1. p \in Packages /\ p = toPD[1] /\ 1 \in 1 .. Len(toPD) /\ pd \in Devices
  BY Taken DEF IInv, Typed
<1>2. pd.st = "secure" /\ chan.isSCB = TRUE /\ sec.cmac = p.mac
  BY <1>1 DEF SInv, Secured
<1>3. PICK type, data, d0 : Replies(p, type, data, d0)
  BY <1>1, Executed
<1> DEFINE r == SecureReply(p, type, data)
           d == [d0 EXCEPT !.mac = r.mac]
<1>4. /\ type \in Types /\ type # "BUSY" /\ data \in Datas /\ d0 \in Devices
      /\ d0.st = pd.st /\ Answer(r, d)
  BY <1>3 DEF Replies, Types
<1>5. /\ d0.profile \in {pd.profile, 1}
      /\ p.type = "XWR" /\ p.data = <<"getProfile">> =>
           type = "XRD" /\ data = <<"profile", pd.profile>> /\ d0.profile = pd.profile
      /\ p.type = "XWR" /\ p.data = <<"setProfile">> => d0.profile = 1
  BY <1>3 DEF Replies, Effect
<1>6. /\ connected = TRUE => pd.profile = 1
      /\ pc = "connGet" => p.type = "XWR" /\ p.data = <<"getProfile">>
      /\ pc = "connSet" => p.type = "XWR" /\ p.data = <<"setProfile">>
  BY <1>1 DEF SInv, Profiles
<1> HIDE DEF p
<1>7. /\ r \in ReplySet /\ r.isSCB = TRUE /\ r.type = type /\ r.seq = p.seq
      /\ r.data = data /\ r.mac = Append(p.mac, Body(r))
  <2>1. p \in Packages /\ type \in Types /\ data \in Datas
    BY <1>1, <1>4
  <2>2. r = SecureReply(p, type, data)
    OBVIOUS
  <2> HIDE DEF r
  <2>3. /\ r \in ReplySet /\ r.seq = p.seq /\ r.type = type /\ r.data = data
        /\ r.re = Body(p)
    BY <2>1, <2>2, SecureReplyMade
  <2>4. r.isSCB = TRUE /\ Macked(r.sb)
    BY <2>1, <2>2, SecureReplyBlock
  <2>5. r.mac = Append(p.mac, Body(r))
    BY <2>1, <2>2, SecureReplyMac
  <2> QED BY <2>3, <2>4, <2>5
<1> HIDE DEF r
<1>8. d \in Devices /\ d.st = "secure" /\ d.mac = r.mac /\ d.profile = d0.profile
  BY <1>2, <1>4, <1>7 DEF Devices, ReplySet
<1> HIDE DEF d
<1>9. /\ LockStep' /\ Numbered' /\ Len(toPD') = 0
      /\ Len(toCP') = 1 /\ toCP'[1] = r /\ phase' = "wait"
      /\ pd'.st = d.st /\ pd'.mac = d.mac /\ pd'.profile = d.profile
      /\ sec' = sec /\ chan' = chan /\ pc' = pc /\ connected' = connected
  BY <1>4, <1>7, <1>8, AnswerInLockStep DEF p
<1>10. \A i \in 1 .. Len(toCP') : toCP'[i] = r
  BY <1>9
<1>11. 1 .. Len(toPD') = {}
  <2>1. 1 .. 0 = {}
    OBVIOUS
  <2>2. Len(toPD') = 0
    BY <1>9
  <2> QED BY <2>1, <2>2
<1>12. Secured'
  <2>1. \A i \in 1 .. Len(toCP') :
          /\ toCP'[i].isSCB = TRUE /\ toCP'[i].mac = pd'.mac
          /\ toCP'[i].mac = Append(sec'.cmac, Body(toCP'[i]))
    BY <1>2, <1>7, <1>8, <1>9, <1>10
  <2> QED BY <1>2, <1>8, <1>9, <1>11, <2>1 DEF Secured
<1>13. Profiles'
  <2>2. connected = TRUE => pd'.profile = 1
    BY <1>5, <1>6, <1>8, <1>9
  <2>3. pc = "connGet" => type = "XRD" /\ data = <<"profile", pd'.profile>>
    BY <1>5, <1>6, <1>8, <1>9
  <2>4. pc = "connSet" => pd'.profile = 1
    BY <1>5, <1>6, <1>8, <1>9
  <2> QED BY <1>7, <1>9, <1>10, <1>11, <2>2, <2>3, <2>4 DEF Profiles, GotProfile
<1>14. Crypted'
  <2>1. pc # "connCrypt"
    BY DEF InSession, IInv, Calls, Hand
  <2> QED BY <1>9, <2>1 DEF Crypted
<1> QED BY <1>9, <1>12, <1>13, <1>14 DEF SInv

\* The device handles a package: in a session it executes it.
LEMMA ProcessInLockStep ==
  ASSUME IInv, SInv, toPD # <<>>, toPD' = Tail(toPD), UNCHANGED cpVars,
         Process(Head(toPD))
  PROVE  SInv'
<1> DEFINE p == Head(toPD)
<1>1. p \in Packages /\ p = toPD[1] /\ 1 \in 1 .. Len(toPD) /\ pd \in Devices
  BY Taken DEF IInv, Typed
<1>2. CASE InSession
  <2>1. /\ p.isSCB = TRUE /\ pd.st = "secure" /\ p.mac = Append(pd.mac, Body(p))
    BY <1>1, <1>2 DEF SInv, Secured
  <2>2. sec.rmac # <<>>
    BY <1>2 DEF InSession, IInv, Calls, Hand
  <2>3. p.sb = "SCS_17"
    BY <1>1, <2>1, <2>2 DEF IInv, InStep, InStepOf
  <2>4. Process(p)
    OBVIOUS
  <2> HIDE DEF p
  <2>5. Execute(p)
    BY <2>1, <2>3, <2>4 DEF Process, Macked
  <2> QED BY <1>2, <2>5, ExecuteInLockStep DEF p
<1>3. CASE ~InSession
  <2>2. pc \in Hand /\ connected = FALSE
    <3>1. phase = "wait" /\ connected = FALSE
      BY <1>3 DEF SInv, LockStep, IInv, Typed, InSession
    <3> QED BY <1>3, <3>1 DEF IInv, Calls, Typed, Pcs, Hand, InSession
  <2>3. p.isSCB = TRUE => p.sb \in {"SCS_11", "SCS_13"}
    BY <1>1, <2>2 DEF IInv, Calls, Handshake
  <2>4. p.isSCB \in BOOLEAN
    BY <1>1 DEF Packages
  <2>5. PICK sb \in Blocks, type \in Types, data \in Datas, d \in Devices :
          /\ Answer(Reply(p, sb, type, data), d) /\ type # "BUSY"
          /\ IsKind(data, "rmac") => d.st = "secure"
    <3>1. Process(p)
      OBVIOUS
    <3> HIDE DEF p
    <3>2. /\ {"NOSCS", "SCS_12", "SCS_14"} \subseteq Blocks
          /\ {"ACK", "NAK", "CCRYPT", "RMAC_I"} \subseteq Types
          /\ <<>> \in Datas /\ <<"error">> \in Datas
      BY PanelData DEF Blocks, Types
    <3>3. [pd EXCEPT !.st = "clear"] \in Devices
      BY <1>1 DEF Devices
    <3>4. ~IsKind(<<>>, "rmac") /\ ~IsKind(<<"error">>, "rmac")
      BY DEF IsKind
    <3>5. CASE Answer(Reply(p, "NOSCS", "ACK", <<>>), [pd EXCEPT !.st = "clear"])
      BY <3>2, <3>3, <3>4, <3>5
    <3>6. CASE Answer(Nak(p), [pd EXCEPT !.st = "clear"])
      BY <3>2, <3>3, <3>4, <3>6 DEF Nak
    <3>7. CASE p.isSCB /\ p.sb = "SCS_11"
      <4> DEFINE d == [pd EXCEPT !.st = "challenged", !.session = @ + 1, !.mac = <<>>]
      <4>1. PICK ok \in BOOLEAN :
              Answer(Reply(p, "SCS_12", "CCRYPT", <<"ccrypt", pd.session + 1, ok>>), d)
        BY <3>1, <3>7 DEF Process, Macked
      <4> DEFINE n == pd.session + 1
                 data == <<"ccrypt", n, ok>>
      <4>2. n \in Nat /\ <<>> \in Macs
        BY <1>1, FirstMacs DEF Devices
      <4>3. d = [pd EXCEPT !.st = "challenged", !.session = n, !.mac = <<>>]
        OBVIOUS
      <4>4. Answer(Reply(p, "SCS_12", "CCRYPT", data), d)
        BY <4>1
      <4> HIDE DEF n, d
      <4>5. d \in Devices
        BY <1>1, <4>2, <4>3 DEF Devices
      <4>6. data \in Datas /\ ~IsKind(data, "rmac")
        BY <4>2, DeviceData DEF IsKind
      <4> HIDE DEF data
      <4> QED BY <3>2, <4>4, <4>5, <4>6
    <3>8. CASE /\ p.isSCB /\ p.sb = "SCS_13"
               /\ Answer(Reply(p, "SCS_14", "RMAC_I", <<"rmac", <<pd.session>> >>),
                         [pd EXCEPT !.st = "secure", !.mac = <<pd.session>>])
      <4> DEFINE d == [pd EXCEPT !.st = "secure", !.mac = <<pd.session>>]
                 data == <<"rmac", <<pd.session>> >>
      <4>1. pd.session \in Nat /\ <<pd.session>> \in Macs
        BY <1>1, FirstMacs DEF Devices
      <4>2. d \in Devices /\ d.st = "secure"
        BY <1>1, <4>1 DEF Devices
      <4>3. data \in Datas /\ Answer(Reply(p, "SCS_14", "RMAC_I", data), d)
        BY <3>8, <4>1, DeviceData
      <4> HIDE DEF d, data
      <4> QED BY <3>2, <4>2, <4>3
    <3> QED BY <2>3, <2>4, <3>1, <3>5, <3>6, <3>7, <3>8 DEF Process, Macked
  <2> DEFINE r == Reply(p, sb, type, data)
  <2> HIDE DEF p
  <2>6. r \in ReplySet /\ r.type = type /\ r.seq = p.seq /\ r.data = data
    BY <1>1, ReplyMade
  <2>7. Answer(r, d)
    BY <2>5
  <2> HIDE DEF r
  <2> QED BY <1>3, <2>5, <2>6, <2>7, OutsideInLockStep DEF p
<1> QED BY <1>2, <1>3

\* The device takes a package.
LEMMA PDReceivesInLockStep == ASSUME NoLoss, IInv, SInv, PDReceives PROVE SInv'
<1> DEFINE p == Head(toPD)
<1>1. toPD # <<>> /\ toPD' = Tail(toPD) /\ UNCHANGED cpVars
  BY DEF PDReceives
<1>2. p = toPD[1] /\ 1 \in 1 .. Len(toPD)
  BY <1>1, Taken DEF IInv, Typed
<1>3. ~(p.seq # 0 /\ pd.last # <<>> /\ pd.last[1].seq = p.seq)
  <2> SUFFICES ASSUME p.seq # 0, pd.last # <<>>, pd.last[1].seq = p.seq PROVE FALSE
    OBVIOUS
  <2>1. p.seq = NextSeq(pd.last[1].seq)
    BY <1>2 DEF SInv, Numbered
  <2>2. pd.last[1] \in ReplySet
    BY DEF IInv, Typed, Devices
  <2>3. pd.last[1].seq \in 0..3
    BY <2>2 DEF ReplySet
  <2> QED BY <2>1, <2>3, NextSeqDiffers
<1>4. Process(p)
  BY <1>3 DEF PDReceives, NoLoss
<1> QED BY <1>1, <1>4, ProcessInLockStep

\* Every step keeps the lock step.
LEMMA StepInLockStep == ASSUME NoLoss PROVE IInv /\ SInv /\ [Next]_vars => SInv'
<1> SUFFICES ASSUME IInv, SInv, [Next]_vars PROVE SInv'
  OBVIOUS
<1>1. CASE connectToReader \/ challenge \/ sCrypt
  BY <1>1, HandshakeInLockStep
<1>2. CASE getProfile \/ disconnectFromReader
  BY <1>2, GetProfileInLockStep, DisconnectInLockStep
<1>3. CASE \/ setProfile \/ PollForAnswer \/ sendCommand
           \/ poll \/ led \/ buz \/ disconnectFromSmartcard
  BY <1>3, SessionInLockStep
<1>4. CASE \/ ChallengeFails \/ CryptFails \/ ConnectDone \/ UnitCommandDone
           \/ SendCommandDone
  BY <1>4, ReturnsInLockStep
<1>5. CASE AcceptReply \/ RejectReply
  BY <1>5, AcceptInLockStep, RejectInLockStep
<1>6. CASE Timeout \/ Busy \/ LineLoses
  BY <1>6, NeverWithoutLoss
<1>7. CASE PDReceives
  BY <1>7, PDReceivesInLockStep
<1>8. CASE UNCHANGED vars
  BY <1>8 DEF vars, cpVars, SInv, LockStep, Numbered, Secured, InSession, Profiles,
     GotProfile, Crypted
<1> QED BY <1>1, <1>2, <1>3, <1>4, <1>5, <1>6, <1>7, <1>8 DEF Next, Call, CallStep

\* Over a line that loses nothing the panel and the device go in lock step.
THEOREM InLockStep == ASSUME NoLoss PROVE Spec => []SInv
<1>1. Init => SInv
  <2> SUFFICES ASSUME Init PROVE SInv
    OBVIOUS
  <2>1. /\ pc = "idle" /\ phase = "done" /\ connected = FALSE
        /\ toPD = <<>> /\ toCP = <<>> /\ Len(<<>>) = 0
    BY DEF Init
  <2> QED BY <2>1 DEF SInv, LockStep, Numbered, Secured, InSession, Profiles, Crypted
<1> QED BY <1>1, StepInLockStep, InductiveInvariant, PTL DEF Spec

\* SessionInStep: once connectToReader returned, and between two calls, both ends
\* have the same MAC, the next command will be secured and the profile is 1.
THEOREM SessionKept == ASSUME NoLoss PROVE Spec => []SessionInStep
<1>1. IInv /\ SInv => SessionInStep
  <2> SUFFICES ASSUME IInv, SInv, connected = TRUE, pc = "idle"
               PROVE  /\ pd.st = "secure" /\ pd.session = sec.session
                      /\ pd.mac = sec.rmac /\ chan.isSCB /\ pd.profile = 1
    BY DEF SessionInStep, IInv, Typed
  <2>1. phase = "done" /\ sec.rmac # <<>>
    BY DEF IInv, Calls
  <2>2. pd.session = sec.session
    BY <2>1 DEF IInv, InStep, InStepOf
  <2> QED BY <2>1, <2>2 DEF SInv, Secured, InSession, Profiles
<1> QED BY <1>1, InLockStep, InductiveInvariant, PTL

\* SequenceAdvances: a package has the sequence number after the last reply's, and
\* 0 opens a connection: a device does not take a new command for a repetition.
THEOREM SequenceNumbersAdvance == ASSUME NoLoss PROVE Spec => []SequenceAdvances
<1>1. IInv /\ SInv => SequenceAdvances
  <2> SUFFICES ASSUME IInv, SInv, NEW i \in 1 .. Len(toPD)
               PROVE  IF pc = "connPoll" THEN toPD[i].seq = 0
                      ELSE pd.last # <<>> /\ toPD[i].seq = (pd.last[1].seq % 3) + 1
    BY DEF SequenceAdvances, IInv, Typed
  <2>1. pd.last # <<>> => pd.last[1] \in ReplySet
    BY DEF IInv, Typed, Devices
  <2>2. pd.last # <<>> => pd.last[1].seq \in 0..3
    BY <2>1 DEF ReplySet
  <2> QED BY <2>2, NextSeqDiffers DEF SInv, Numbered
<1> QED BY <1>1, InLockStep, InductiveInvariant, PTL

-----------------------------------------------------------------------------
(* A device that answers an APDU in its reply, over a line that loses.     *)

NoAck == "ack" \notin Faults /\ "slow" \notin Faults

\* An answer of the card is in a secured reply, to the package with its APDU.
OfTheApdu(r) ==
  /\ r.type = "XRD" => r.data # <<>>
  /\ IsKind(r.data, "answer") => r.mac # <<>> /\ r.re[3] = <<"apdu", r.data[2]>>

\* What the device replied.  Outside a session it only replies in clear.
Answers ==
  /\ pd.answers = <<>>
  /\ \A i \in 1 .. Len(toCP) : OfTheApdu(toCP[i])
  /\ pd.last # <<>> => /\ OfTheApdu(pd.last[1])
                       /\ pd.last[1].isSCB = FALSE => pd.st = "clear"

\* The device has ended the session, and does not repeat a secured reply.
Over == pd.st = "clear" /\ (pd.last # <<>> => pd.last[1].mac = <<>>)

\* Once a clear reply is on the line, or was accepted, no secured one follows.
AfterSession ==
  sec.rmac # <<>> =>
    /\ chan.isSCB = FALSE => Over /\ \A i \in 1 .. Len(toCP) : toCP[i].mac = <<>>
    /\ \A i \in 1 .. Len(toCP) :
         toCP[i].isSCB = FALSE => Over /\ \A j \in i .. Len(toCP) : toCP[j].mac = <<>>

\* What sendCommand waits for, and what it has got.
Asked ==
  /\ pc \in {"apdu", "apduPoll"} => \E a \in Apdus : apdu = <<a>>
  /\ pc = "apdu" /\ phase = "wait" /\ chan.isSCB = TRUE =>
       sec.cmac # <<>> /\ Last(sec.cmac)[3] = <<"apdu", apdu[1]>>
  /\ pc = "apduPoll" /\ phase = "wait" /\ chan.isSCB = TRUE =>
       sec.cmac # <<>> /\ Last(sec.cmac)[3] = <<>>
  /\ pc = "apdu" /\ phase = "done" /\ IsKind(chan.data, "answer") =>
       chan.data[2] = apdu[1]
  /\ pc \in {"apdu", "apduPoll"} /\ phase = "done" /\ chan.type = "XRD" =>
       chan.data # <<>>
  /\ pc = "apduPoll" /\ phase = "done" => ~IsKind(chan.data, "answer")

\* As long as the device was not busy, an answer is that of the APDU.
AInv == Answers /\ (pd.busy = 0 => AfterSession /\ Asked /\ AnswerOfTheApdu)

\* A reply is taken or lost at most, and the device does nothing.
LEMMA AnswersKept ==
  ASSUME IInv, Answers, pd' = pd,
         toCP' = toCP \/ toCP' = <<>> \/ (toCP # <<>> /\ toCP' = Tail(toCP))
  PROVE  Answers'
<1>1. \A i \in 1 .. Len(toCP') : \E j \in 1 .. Len(toCP) : toCP'[i] = toCP[j]
  <2>1. CASE toCP' = toCP
    BY <2>1
  <2>2. CASE toCP' = <<>>
    BY <2>2
  <2>3. CASE toCP # <<>> /\ toCP' = Tail(toCP)
    BY <2>3, Taken DEF IInv, Typed
  <2> QED BY <2>1, <2>2, <2>3
<1> QED BY <1>1 DEF Answers

\* The same for the order of the replies.
LEMMA AfterSessionKept ==
  ASSUME IInv, AfterSession, pd' = pd, sec'.rmac # <<>> => sec.rmac # <<>>,
         toCP' = toCP \/ toCP' = <<>> \/ (toCP # <<>> /\ toCP' = Tail(toCP)),
         chan'.isSCB = FALSE =>
           chan.isSCB = FALSE \/ (toCP # <<>> /\ Head(toCP).isSCB = FALSE)
  PROVE  AfterSession'
<1> SUFFICES ASSUME sec.rmac # <<>> PROVE AfterSession'
  BY DEF AfterSession
<1>1. Over' = Over
  BY DEF Over
<1>2. toCP \in Seq(ReplySet) /\ Len(toCP) \in Nat
  BY DEF IInv, Typed
<1>3. /\ chan.isSCB = FALSE => Over /\ \A i \in 1 .. Len(toCP) : toCP[i].mac = <<>>
      /\ \A i \in 1 .. Len(toCP) : toCP[i].isSCB = FALSE =>
           Over /\ \A j \in i .. Len(toCP) : toCP[j].mac = <<>>
  BY DEF AfterSession
<1>4. chan'.isSCB = FALSE => Over /\ \A i \in 1 .. Len(toCP) : toCP[i].mac = <<>>
  <2>1. toCP # <<>> => Head(toCP) = toCP[1] /\ 1 \in 1 .. Len(toCP)
    BY <1>2, Taken
  <2> QED BY <1>3, <2>1
<1>5. CASE toCP' = toCP
  BY <1>1, <1>3, <1>4, <1>5 DEF AfterSession
<1>6. CASE toCP' = <<>>
  <2>1. 1 .. Len(toCP') = {}
    BY <1>6
  <2> QED BY <1>1, <1>4, <2>1 DEF AfterSession
<1>7. CASE toCP # <<>> /\ toCP' = Tail(toCP)
  <2>1. /\ Len(toCP') = Len(toCP) - 1 /\ Len(toCP') \in Nat
        /\ \A i \in 1 .. Len(toCP') : i + 1 \in 1 .. Len(toCP) /\ toCP'[i] = toCP[i + 1]
    BY <1>2, <1>7, Taken
  <2>2. chan'.isSCB = FALSE => Over /\ \A i \in 1 .. Len(toCP') : toCP'[i].mac = <<>>
    BY <1>4, <2>1
  <2>3. ASSUME NEW i \in 1 .. Len(toCP'), toCP'[i].isSCB = FALSE
        PROVE  Over /\ \A j \in i .. Len(toCP') : toCP'[j].mac = <<>>
    <3>1. i + 1 \in 1 .. Len(toCP) /\ toCP[i + 1].isSCB = FALSE
      BY <2>1, <2>3
    <3>2. Over /\ \A j \in i + 1 .. Len(toCP) : toCP[j].mac = <<>>
      BY <1>3, <3>1
    <3>3. ASSUME NEW j \in i .. Len(toCP') PROVE toCP'[j].mac = <<>>
      <4>1. j \in 1 .. Len(toCP') /\ j + 1 \in i + 1 .. Len(toCP)
        BY <2>1
      <4> QED BY <2>1, <3>2, <4>1
    <3> QED BY <3>2, <3>3
  <2> QED BY <1>1, <2>2, <2>3 DEF AfterSession
<1> QED BY <1>5, <1>6, <1>7

\* A package leaves.
LEMMA TransmitAsks ==
  ASSUME IInv, AInv, NEW c \in Channels, NEW s \in Secs, NEW k \in Pcs,
         Transmit(c, s, k),
         s.rmac # <<>> => sec.rmac # <<>> \/ (toCP = <<>> /\ c.isSCB = TRUE),
         s.rmac # <<>> /\ c.isSCB = FALSE => chan.isSCB = FALSE,
         k \in {"apdu", "apduPoll"} => (c.isSCB = TRUE => c.sb = "SCS_17"),
         k = "apdu" => \E a \in Apdus : apdu' = <<a>> /\ c.data = <<"apdu", a>>,
         k = "apduPoll" => (\E a \in Apdus : apdu' = <<a>>) /\ c.data = <<>>,
         result' = <<>> \/ (result' = result /\ apdu' = apdu)
  PROVE  AInv'
<1>1. Send(c, s) /\ toPD \in Seq(Packages) /\ s.rmac \in Macs /\ Body(c) \in Elems
  BY BodyTyped DEF Transmit, IInv, Typed, Secs
<1>2. /\ phase' = "wait" /\ chan'.isSCB = c.isSCB /\ sec'.rmac = s.rmac
      /\ c.isSCB /\ Macked(c.sb) => sec'.cmac = Append(s.rmac, Body(c))
  BY <1>1, Sent
<1>3. pc' = k /\ toCP' = toCP /\ pd' = pd
  BY DEF Transmit
<1>4. Answers'
  BY <1>3, AnswersKept DEF AInv
<1> SUFFICES ASSUME pd.busy = 0 PROVE AfterSession' /\ Asked' /\ AnswerOfTheApdu'
  BY <1>3, <1>4 DEF AInv
<1>5. AfterSession /\ AnswerOfTheApdu
  BY DEF AInv
<1>6. AfterSession'
  <2>1. CASE s.rmac # <<>> => sec.rmac # <<>>
    <3>1. CASE s.rmac = <<>>
      BY <1>2, <3>1 DEF AfterSession
    <3>2. CASE s.rmac # <<>>
      BY <1>2, <1>3, <1>5, <2>1, <3>2, AfterSessionKept
    <3> QED BY <3>1, <3>2
  <2>2. CASE toCP = <<>> /\ c.isSCB = TRUE
    <3>1. 1 .. Len(toCP') = {}
      BY <1>3, <2>2
    <3> QED BY <1>2, <2>2, <3>1 DEF AfterSession
  <2> QED BY <2>1, <2>2
<1>7. Asked'
  <2>1. k \in {"apdu", "apduPoll"} /\ c.isSCB = TRUE =>
          sec'.cmac # <<>> /\ Last(sec'.cmac)[3] = c.data
    <3>1. k \in {"apdu", "apduPoll"} /\ c.isSCB = TRUE => sec'.cmac = Append(s.rmac, Body(c))
      BY <1>2 DEF Macked
    <3>2. Append(s.rmac, Body(c)) # <<>> /\ Last(Append(s.rmac, Body(c))) = Body(c)
      BY <1>1, MacGrows DEF Last
    <3>3. Body(c)[3] = c.data
      BY DEF Body
    <3> QED BY <3>1, <3>2, <3>3
  <2>2. k = "apdu" => apdu'[1] \in Apdus /\ c.data = <<"apdu", apdu'[1]>>
    OBVIOUS
  <2> QED BY <1>2, <1>3, <2>1, <2>2 DEF Asked
<1>8. AnswerOfTheApdu'
  BY <1>3, <1>5 DEF AnswerOfTheApdu
<1> QED BY <1>6, <1>7, <1>8

\* The steps of connectToReader that send.
LEMMA HandshakeAsks ==
  ASSUME IInv, AInv, connectToReader \/ challenge \/ sCrypt
  PROVE  AInv'
<1>1. chan \in Channels /\ sec \in Secs
  BY DEF IInv, Typed
<1>2. {"connPoll", "connChlng", "connCrypt"} \subseteq Pcs
  BY DEF Pcs
<1>3. CASE connectToReader
  <2> DEFINE c == Command(NewChannel, "POLL", <<>>)
  <2>1. NewChannel \in Channels /\ "POLL" \in Types /\ <<>> \in Datas
    BY PanelData DEF NewChannel, Channels, Blocks, Types
  <2>2. c \in Channels
    BY <2>1, CommandMade
  <2>3. NoSession \in Secs /\ NoSession.rmac = <<>>
    BY FirstMacs DEF NoSession, Secs
  <2>4. Transmit(c, NoSession, "connPoll") /\ apdu' = apdu /\ result' = result
    BY <1>3 DEF connectToReader
  <2> HIDE DEF c
  <2> QED BY <1>2, <2>2, <2>3, <2>4, TransmitAsks
<1>4. CASE challenge
  <2> DEFINE c == [chan EXCEPT !.type = "CHLNG", !.isSCB = TRUE, !.sb = "SCS_11",
                               !.data = <<"rnda">>]
  <2>1. c \in Channels
    BY <1>1, PanelData DEF Channels, Blocks, Types
  <2>2. /\ pc = "connPoll" /\ apdu' = apdu /\ result' = result
        /\ Transmit(c, sec, "connChlng")
    BY <1>4 DEF challenge, Returned
  <2>3. sec.rmac = <<>>
    BY <2>2 DEF IInv, Calls, Hand
  <2> HIDE DEF c
  <2> QED BY <1>1, <1>2, <2>1, <2>2, <2>3, TransmitAsks
<1>5. CASE sCrypt
  <2> DEFINE c == [chan EXCEPT !.type = "OSCRYPT", !.sb = "SCS_13",
                               !.data = <<"cryptogram">>]
             s == OSDPSecureChannel
  <2>1. c \in Channels
    BY <1>1, PanelData DEF Channels, Blocks, Types
  <2>2. /\ apdu' = apdu /\ result' = result /\ Transmit(c, s, "connCrypt")
        /\ ChallengeAnswer
    BY <1>5 DEF sCrypt
  <2>3. chan.data \in Datas /\ chan.data # <<>> /\ chan.data[1] = "ccrypt"
    BY <1>1, <2>2 DEF ChallengeAnswer, Channels
  <2>4. s \in Secs /\ s.rmac = <<>>
    BY <2>3, DataKinds, FirstMacs DEF OSDPSecureChannel, Secs
  <2> HIDE DEF c, s
  <2> QED BY <1>2, <2>1, <2>2, <2>4, TransmitAsks
<1> QED BY <1>3, <1>4, <1>5

\* The first command of the session leaves on an empty line.
LEMMA GetProfileAsks == ASSUME IInv, AInv, getProfile PROVE AInv'
<1> DEFINE d == [chan EXCEPT !.isSCB = TRUE]
           c == Command(d, "XWR", <<"getProfile">>)
           s == [sec EXCEPT !.rmac = chan.data[2]]
<1>1. d \in Channels /\ d.isSCB = TRUE
  BY DEF IInv, Typed, Channels
<1>2. /\ pc = "connCrypt" /\ phase = "done" /\ apdu' = apdu /\ result' = result
      /\ Transmit(c, s, "connGet") /\ CryptAnswer
  BY DEF getProfile, Returned
<1> HIDE DEF d
<1>3. c \in Channels /\ c.isSCB = TRUE
  <2>1. "XWR" \in Types /\ <<"getProfile">> \in Datas
    BY PanelData DEF Types
  <2> QED BY <1>1, <2>1, CommandMade
<1>4. sec.rmac = <<>>
  BY <1>2 DEF IInv, Calls, Hand
<1>5. toCP = <<>> /\ chan.data[2] = <<pd.session>> /\ pd.session \in Nat
  BY <1>2, <1>4
  DEF IInv, Typed, Devices, Handshake, Hand, AnswersCrypt, IsKind, CryptAnswer
<1>6. s \in Secs
  BY <1>5, FirstMacs DEF Secs, IInv, Typed
<1>7. "connGet" \in Pcs
  BY DEF Pcs
<1> HIDE DEF c, s
<1> QED BY <1>2, <1>3, <1>5, <1>6, <1>7, TransmitAsks

\* The other commands of the session, and the APDUs.
LEMMA SessionAsks ==
  ASSUME IInv, AInv, NEW type \in Types, NEW data \in Datas,
         NEW k \in {"connSet", "unit", "apdu", "apduPoll"},
         Transmit(Command(chan, type, data), sec, k),
         k = "apdu" => \E a \in Apdus : apdu' = <<a>> /\ data = <<"apdu", a>>,
         k = "apduPoll" => (\E a \in Apdus : apdu' = <<a>>) /\ data = <<>>,
         result' = <<>> \/ (result' = result /\ apdu' = apdu)
  PROVE  AInv'
<1> DEFINE c == Command(chan, type, data)
<1>1. /\ c \in Channels /\ c.isSCB = chan.isSCB /\ (chan.isSCB => c.sb = "SCS_17")
      /\ c.data = data /\ sec \in Secs
  BY CommandMade DEF IInv, Typed
<1>2. Transmit(c, sec, k)
  OBVIOUS
<1>3. k \in Pcs
  BY DEF Pcs
<1> HIDE DEF c
<1> QED BY <1>1, <1>2, <1>3, TransmitAsks

\* setProfile, waitInsertion, waitRemoval and sendCommand send their commands.
LEMMA CommandAsks ==
  ASSUME IInv, AInv, pd.busy = 0,
         \/ setProfile \/ PollForAnswer \/ sendCommand
         \/ poll \/ led \/ buz \/ disconnectFromSmartcard
  PROVE  AInv'
<1>1. /\ {"POLL", "LED", "BUZ", "XWR"} \subseteq Types
      /\ {<<>>, <<"led">>, <<"buz">>, <<"release">>, <<"setProfile">>} \subseteq Datas
      /\ \A a \in Apdus : <<"apdu", a>> \in Datas
  BY PanelData DEF Types
<1>2. CASE setProfile
  <2>1. /\ apdu' = apdu /\ result' = result
        /\ Transmit(Command(chan, "XWR", <<"setProfile">>), sec, "connSet")
    BY <1>2 DEF setProfile
  <2> QED BY <1>1, <2>1, SessionAsks
<1>3. CASE PollForAnswer
  <2>1. /\ pc = "apdu" /\ apdu' = apdu /\ result' = result
        /\ Transmit(Command(chan, "POLL", <<>>), sec, "apduPoll")
    BY <1>3 DEF PollForAnswer, Returned
  <2>2. \E a \in Apdus : apdu' = <<a>>
    BY <2>1 DEF AInv, Asked
  <2> QED BY <1>1, <2>1, <2>2, SessionAsks
<1>4. CASE sendCommand
  <2>1. PICK a \in Apdus : /\ apdu' = <<a>>
                           /\ Transmit(Command(chan, "XWR", <<"apdu", a>>), sec, "apdu")
    BY <1>4 DEF sendCommand
  <2>2. result' = <<>>
    BY <1>4 DEF sendCommand
  <2> QED BY <1>1, <2>1, <2>2, SessionAsks
<1>5. CASE poll \/ led \/ buz \/ disconnectFromSmartcard
  <2>1. PICK type \in Types, data \in Datas : UnitCommand(type, data)
    BY <1>1, <1>5 DEF poll, led, buz, disconnectFromSmartcard
  <2>2. /\ apdu' = apdu /\ result' = result
        /\ Transmit(Command(chan, type, data), sec, "unit")
    BY <2>1 DEF UnitCommand
  <2> QED BY <2>2, SessionAsks
<1> QED BY <1>2, <1>3, <1>4, <1>5

\* A device that was never busy has no BUSY on the line.
LEMMA NotBusy ==
  ASSUME IInv, pd.busy = 0, toCP # <<>>
  PROVE  Head(toCP).type # "BUSY"
<1> DEFINE n == Cardinality(Busies(toCP))
           m == Cardinality(Busies(Tail(toCP)))
<1>1. n \in Nat /\ m \in Nat /\ (Head(toCP).type = "BUSY" => m + 1 <= n)
  BY BusiesShrink DEF IInv, Typed
<1>2. ticks.wall \in Nat /\ ticks.wall + n <= 0
  BY DEF IInv, Typed, Ticks, Counters
<1> HIDE DEF n, m
<1> QED BY <1>1, <1>2

\* A call returns or throws, and a reply is taken at most.
LEMMA LeaveAsks ==
  ASSUME IInv, AInv, pd.busy = 0, Leave, pd' = pd, sec'.rmac # <<>> => sec.rmac # <<>>,
         toCP' = toCP \/ toCP' = <<>> \/ (toCP # <<>> /\ toCP' = Tail(toCP)),
         chan'.isSCB = FALSE => chan.isSCB = FALSE,
         result' = <<>> \/ result' = apdu \/ result' = result, apdu' = apdu
  PROVE  AInv'
<1>1. pc' = "idle"
  BY DEF Leave
<1>2. Answers'
  BY AnswersKept DEF AInv
<1>3. AfterSession'
  BY AfterSessionKept DEF AInv
<1>4. Asked'
  BY <1>1 DEF Asked
<1>5. AnswerOfTheApdu'
  BY DEF AInv, AnswerOfTheApdu
<1> QED BY <1>2, <1>3, <1>4, <1>5 DEF AInv

\* The calls that end, sendCommand with the answer of the card.
LEMMA ReturnsAsk ==
  ASSUME IInv, AInv, pd.busy = 0,
         \/ RejectReply \/ Timeout \/ ChallengeFails \/ CryptFails \/ ConnectDone
         \/ UnitCommandDone \/ SendCommandDone
  PROVE  AInv'
<1>1. CASE Timeout \/ CryptFails \/ ConnectDone \/ UnitCommandDone
  BY <1>1, LeaveAsks DEF Timeout, CryptFails, ConnectDone, UnitCommandDone
<1>2. CASE ChallengeFails
  <2>1. OSDPSecureChannel.rmac = <<>>
    BY DEF OSDPSecureChannel
  <2> QED BY <1>2, <2>1, LeaveAsks DEF ChallengeFails
<1>3. CASE RejectReply
  <2>1. toCP # <<>> /\ Head(toCP) \in ReplySet /\ chan \in Channels
    BY <1>3, Taken DEF RejectReply, IInv, Typed
  <2>2. chan'.isSCB = Head(toCP).isSCB
    BY <1>3, <2>1, Unpacked DEF RejectReply
  <2>3. Head(toCP).isSCB = TRUE
    BY <1>3, <2>1 DEF RejectReply, BadMac, ReplySet
  <2> QED BY <1>3, <2>1, <2>2, <2>3, LeaveAsks DEF RejectReply
<1>4. CASE SendCommandDone
  <2>1. /\ pc \in {"apdu", "apduPoll"} /\ phase = "done" /\ Leave /\ apdu' = apdu
        /\ chan' = chan /\ sec' = sec /\ toCP' = toCP /\ pd' = pd
        /\ result' = IF chan.type = "XRD" /\ chan.data[1] = "answer"
                       THEN <<chan.data[2]>> ELSE <<>>
    BY <1>4 DEF SendCommandDone, Returned
  <2>2. chan.type = "XRD" /\ chan.data[1] = "answer" => <<chan.data[2]>> = apdu
    <3> SUFFICES ASSUME chan.type = "XRD", chan.data[1] = "answer"
                 PROVE  <<chan.data[2]>> = apdu
      OBVIOUS
    <3>1. Asked
      BY DEF AInv
    <3>2. IsKind(chan.data, "answer")
      BY <2>1, <3>1 DEF Asked, IsKind
    <3>3. pc = "apdu" /\ chan.data[2] = apdu[1]
      BY <2>1, <3>1, <3>2 DEF Asked
    <3>4. PICK a \in Apdus : apdu = <<a>>
      BY <2>1, <3>1 DEF Asked
    <3> QED BY <3>3, <3>4
  <2>3. result' = <<>> \/ result' = apdu
    BY <2>1, <2>2
  <2> QED BY <2>1, <2>3, LeaveAsks
<1> QED BY <1>1, <1>2, <1>3, <1>4

\* The reply to an APDU is accepted: a secured one is the reply to that APDU, and a
\* clear one is no answer.
LEMMA AcceptAsks == ASSUME IInv, AInv, pd.busy = 0, AcceptReply PROVE AInv'
<1> DEFINE r == Head(toCP)
           c == unPackage(r)
<1>1. /\ phase = "wait" /\ toCP # <<>> /\ ~BadMac(r) /\ toCP' = Tail(toCP)
      /\ chan' = [c EXCEPT !.seq = NextSeq(@)] /\ phase' = "done" /\ pc' = pc
      /\ apdu' = apdu /\ result' = result /\ pd' = pd
  BY DEF AcceptReply
<1>2. /\ r \in ReplySet /\ r = toCP[1] /\ 1 \in 1 .. Len(toCP) /\ chan \in Channels
      /\ sec \in Secs
  BY <1>1, Taken DEF IInv, Typed
<1>3. c \in Channels /\ c.isSCB = r.isSCB /\ c.type = r.type /\ c.data = r.data
  BY <1>1, <1>2, Unpacked
<1> HIDE DEF c
<1>4. chan'.isSCB = r.isSCB /\ chan'.type = r.type /\ chan'.data = r.data
  BY <1>1, <1>3, NextSeqTyped
<1>5. OfTheApdu(r) /\ AfterSession /\ Asked /\ WellMade(r)
  BY <1>2 DEF AInv, Answers, IInv, Device
<1>6. r.mac # <<>> => sec.rmac # <<>>
  BY <1>1, AcceptedMac
<1>7. Answers'
  BY <1>1, AnswersKept DEF AInv
<1>8. AfterSession'
  <2>1. sec'.rmac # <<>> => sec.rmac # <<>>
    BY <1>2, <1>6 DEF AcceptReply, Secs
  <2> QED BY <1>1, <1>4, <1>5, <2>1, AfterSessionKept
<1>9. r.mac # <<>> => r.re = Last(sec.cmac)
  <2> SUFFICES ASSUME r.mac # <<>> PROVE r.re = Last(sec.cmac)
    OBVIOUS
  <2>1. /\ r.mac = Append(sec.cmac, Body(r)) /\ Len(r.mac) >= 3
        /\ r.mac[Len(r.mac) - 1] = r.re
    BY <1>1, <1>5 DEF WellMade, BadMac, verifyMAC
  <2>2. sec.cmac \in Macs /\ Body(r) \in Elems
    BY <1>2, BodyTyped DEF Secs
  <2> HIDE DEF r
  <2>3. /\ Len(sec.cmac) \in Nat /\ Len(r.mac) = Len(sec.cmac) + 1
        /\ \A i \in 1 .. Len(sec.cmac) : r.mac[i] = sec.cmac[i]
    BY <2>1, <2>2, MacGrows DEF Macs
  <2> QED BY <2>1, <2>3 DEF Last
<1>10. pc \in {"apdu", "apduPoll"} /\ IsKind(r.data, "answer") =>
         /\ chan.isSCB = TRUE /\ Last(sec.cmac)[3] = <<"apdu", r.data[2]>>
  <2> SUFFICES ASSUME pc \in {"apdu", "apduPoll"}, IsKind(r.data, "answer")
               PROVE  /\ chan.isSCB = TRUE
                      /\ Last(sec.cmac)[3] = <<"apdu", r.data[2]>>
    OBVIOUS
  <2>1. r.mac # <<>> /\ r.re[3] = <<"apdu", r.data[2]>>
    BY <1>5 DEF OfTheApdu
  <2>2. chan.isSCB # FALSE
    BY <1>2, <1>5, <1>6, <2>1 DEF AfterSession
  <2>3. chan.isSCB \in BOOLEAN
    BY <1>2 DEF Channels
  <2> QED BY <1>9, <2>1, <2>2, <2>3
<1>11. Asked'
  <2>1. pc = "apdu" /\ IsKind(r.data, "answer") => r.data[2] = apdu[1]
    BY <1>1, <1>5, <1>10 DEF Asked
  <2>2. pc = "apduPoll" => ~IsKind(r.data, "answer")
    <3>1. pc = "apduPoll" /\ chan.isSCB = TRUE => Last(sec.cmac)[3] = <<>>
      BY <1>1, <1>5 DEF Asked
    <3>2. <<"apdu", r.data[2]>> # <<>>
      OBVIOUS
    <3> HIDE DEF r
    <3> QED BY <1>10, <3>1, <3>2
  <2>3. r.type = "XRD" => r.data # <<>>
    BY <1>5 DEF OfTheApdu
  <2>4. pc \in {"apdu", "apduPoll"} => \E a \in Apdus : apdu = <<a>>
    BY <1>5 DEF Asked
  <2> HIDE DEF r
  <2> QED BY <1>1, <1>4, <2>1, <2>2, <2>3, <2>4 DEF Asked
<1>12. AnswerOfTheApdu'
  BY <1>1 DEF AInv, AnswerOfTheApdu
<1> QED BY <1>7, <1>8, <1>11, <1>12 DEF AInv

\* disconnectFromReader and a loss on the line.
LEMMA LineAsks ==
  ASSUME IInv, AInv, pd.busy = 0, disconnectFromReader \/ LineLoses PROVE AInv'
<1>1. /\ pd' = pd /\ sec' = sec /\ chan' = chan /\ pc' = pc /\ phase' = phase
      /\ apdu' = apdu /\ result' = result
      /\ toCP' = toCP \/ toCP' = <<>> \/ (toCP # <<>> /\ toCP' = Tail(toCP))
  BY DEF disconnectFromReader, LineLoses, cpVars
<1>2. Answers'
  BY <1>1, AnswersKept DEF AInv
<1>3. AfterSession'
  BY <1>1, AfterSessionKept DEF AInv
<1>4. Asked' /\ AnswerOfTheApdu'
  BY <1>1 DEF AInv, Asked, AnswerOfTheApdu
<1> QED BY <1>2, <1>3, <1>4 DEF AInv

\* The device replies r, in a session it has not ended or in clear.
LEMMA ReplyAsks ==
  ASSUME IInv, AInv, UNCHANGED cpVars, NEW r \in ReplySet, toCP' = Append(toCP, r),
         Answers', pd.busy = 0, pd'.busy = 0,
         sec.rmac # <<>> /\ (Over \/ r.isSCB = FALSE) => Over' /\ r.mac = <<>>
  PROVE  AInv'
<1>1. /\ sec' = sec /\ chan' = chan /\ pc' = pc /\ phase' = phase /\ apdu' = apdu
      /\ result' = result
  BY DEF cpVars
<1>2. Asked' /\ AnswerOfTheApdu'
  BY <1>1 DEF AInv, Asked, AnswerOfTheApdu
<1>3. AfterSession'
  <2> SUFFICES ASSUME sec.rmac # <<>> PROVE AfterSession'
    BY <1>1 DEF AfterSession
  <2>1. /\ toCP \in Seq(ReplySet) /\ Len(toCP) \in Nat /\ Len(toCP') = Len(toCP) + 1
        /\ \A i \in 1 .. Len(toCP) : toCP'[i] = toCP[i]
        /\ toCP'[Len(toCP) + 1] = r
    BY DEF IInv, Typed
  <2>2. /\ chan.isSCB = FALSE => Over /\ \A i \in 1 .. Len(toCP) : toCP[i].mac = <<>>
        /\ \A i \in 1 .. Len(toCP) : toCP[i].isSCB = FALSE =>
             Over /\ \A j \in i .. Len(toCP) : toCP[j].mac = <<>>
    BY DEF AInv, AfterSession
  <2>3. chan.isSCB = FALSE => Over' /\ \A i \in 1 .. Len(toCP') : toCP'[i].mac = <<>>
    BY <2>1, <2>2
  <2>4. ASSUME NEW i \in 1 .. Len(toCP'), toCP'[i].isSCB = FALSE
        PROVE  Over' /\ \A j \in i .. Len(toCP') : toCP'[j].mac = <<>>
    <3>1. CASE i \in 1 .. Len(toCP)
      <4>1. Over /\ \A j \in i .. Len(toCP) : toCP[j].mac = <<>>
        BY <2>1, <2>2, <2>4, <3>1
      <4>2. ASSUME NEW j \in i .. Len(toCP') PROVE toCP'[j].mac = <<>>
        <5>1. CASE j \in i .. Len(toCP)
          BY <2>1, <3>1, <4>1, <5>1
        <5>2. CASE j = Len(toCP) + 1
          BY <2>1, <4>1, <5>2
        <5> QED BY <2>1, <3>1, <5>1, <5>2
      <4> QED BY <4>1, <4>2
    <3>2. CASE i = Len(toCP) + 1
      <4>1. \A j \in i .. Len(toCP') : j = i
        BY <2>1, <3>2
      <4> QED BY <2>1, <2>4, <3>2, <4>1
    <3> QED BY <2>1, <3>1, <3>2
  <2> QED BY <1>1, <2>3, <2>4 DEF AfterSession
<1> QED BY <1>2, <1>3 DEF AInv

\* The device replies r and remembers it.
LEMMA AnswerAsks ==
  ASSUME IInv, AInv, UNCHANGED cpVars, NEW r \in ReplySet, NEW d \in Devices,
         Answer(r, d), OfTheApdu(r), d.answers = <<>>, d.busy = pd.busy,
         r.isSCB = FALSE => d.st = "clear" /\ r.mac = <<>>,
         sec.rmac # <<>> /\ pd.st = "clear" => r.isSCB = FALSE
  PROVE  /\ Answers' /\ pd'.busy = pd.busy
         /\ pd.busy = 0 => AInv'
<1>1. toCP' = Append(toCP, r) /\ pd' = [d EXCEPT !.last = <<r>>] /\ <<r>>[1] = r
  BY DEF Answer
<1>2. /\ pd'.last = <<r>> /\ pd'.last # <<>> /\ pd'.last[1] = r /\ pd'.st = d.st
      /\ pd'.busy = d.busy /\ pd'.answers = d.answers
  BY <1>1 DEF Devices
<1>3. \A i \in 1 .. Len(toCP') : OfTheApdu(toCP'[i])
  <2>1. \A i \in 1 .. Len(toCP') : (i \in 1 .. Len(toCP) /\ toCP'[i] = toCP[i]) \/ toCP'[i] = r
    BY <1>1 DEF IInv, Typed
  <2> QED BY <2>1 DEF AInv, Answers
<1>4. Answers'
  BY <1>2, <1>3 DEF Answers
<1>5. r.isSCB = FALSE => Over'
  BY <1>2 DEF Over
<1> QED BY <1>1, <1>2, <1>4, <1>5, ReplyAsks DEF Over

\* A command of the session: what is answered in the reply is of its APDU.
LEMMA ExecuteAsks ==
  ASSUME NoAck, IInv, AInv, UNCHANGED cpVars, NEW p \in Packages, pd.st = "secure",
         Execute(p)
  PROVE  /\ Answers' /\ pd'.busy = pd.busy
         /\ pd.busy = 0 => AInv'
<1>1. pd \in Devices /\ pd.answers = <<>>
  BY DEF IInv, Typed, AInv, Answers
<1>2. PICK type, data, d0 : Replies(p, type, data, d0)
  BY <1>1, Executed
<1> DEFINE r == SecureReply(p, type, data)
           d == [d0 EXCEPT !.mac = r.mac]
<1>3. /\ type \in Types /\ data \in Datas /\ d0 \in Devices /\ d0.busy = pd.busy
      /\ Answer(r, d) /\ Effect(p, type, data, d0)
  BY <1>2 DEF Replies, Types
<1>4. {"ack", "slow"} \cap Faults = {}
  BY DEF NoAck
<1>5. /\ d0.answers = <<>> /\ (type = "XRD" => data # <<>>)
      /\ IsKind(data, "answer") => p.data = <<"apdu", data[2]>>
  BY <1>1, <1>3, <1>4 DEF Effect
<1>6. /\ r \in ReplySet /\ r.isSCB = TRUE /\ r.type = type /\ r.data = data
      /\ r.mac = Append(p.mac, Body(r)) /\ r.re = Body(p)
  <2>1. type \in Types /\ data \in Datas
    BY <1>3
  <2>2. r = SecureReply(p, type, data)
    OBVIOUS
  <2> HIDE DEF r
  <2>3. /\ r \in ReplySet /\ r.seq = p.seq /\ r.type = type /\ r.data = data
        /\ r.re = Body(p)
    BY <2>1, <2>2, SecureReplyMade
  <2>4. r.isSCB = TRUE /\ Macked(r.sb)
    BY <2>1, <2>2, SecureReplyBlock
  <2>5. r.mac = Append(p.mac, Body(r))
    BY <2>1, <2>2, SecureReplyMac
  <2> QED BY <2>3, <2>4, <2>5
<1> HIDE DEF r
<1>7. r.mac # <<>> /\ r.mac \in Macs
  BY <1>6, BodyTyped, MacGrows DEF Packages, ReplySet
<1>8. Body(p)[3] = p.data
  BY DEF Body
<1>9. OfTheApdu(r)
  BY <1>5, <1>6, <1>7, <1>8 DEF OfTheApdu
<1>10. d \in Devices /\ d.answers = d0.answers /\ d.busy = d0.busy
  BY <1>3, <1>7 DEF Devices
<1> HIDE DEF d
<1> QED BY <1>3, <1>5, <1>6, <1>9, <1>10, AnswerAsks

\* A reply without a MAC carries no answer of the card.
LEMMA PlainAsks ==
  ASSUME IInv, AInv, UNCHANGED cpVars, NEW p \in Packages, NEW sb \in Blocks,
         NEW type \in Types, NEW data \in Datas, NEW d \in Devices,
         Answer(Reply(p, sb, type, data), d), type # "XRD", ~IsKind(data, "answer"),
         d.answers = pd.answers, d.busy = pd.busy,
         sb = "NOSCS" => d.st = "clear",
         sec.rmac # <<>> => sb = "NOSCS"
  PROVE  /\ Answers' /\ pd'.busy = pd.busy
         /\ pd.busy = 0 => AInv'
<1> DEFINE r == Reply(p, sb, type, data)
<1>1. /\ r \in ReplySet /\ (r.isSCB <=> sb # "NOSCS") /\ r.type = type /\ r.data = data
      /\ r.mac = <<>>
  BY ReplyMade
<1>2. Answer(r, d)
  OBVIOUS
<1> HIDE DEF r
<1>3. OfTheApdu(r)
  BY <1>1 DEF OfTheApdu
<1>4. r.isSCB = FALSE <=> sb = "NOSCS"
  BY <1>1 DEF ReplySet
<1>5. d.answers = <<>>
  BY DEF AInv, Answers
<1> QED BY <1>1, <1>2, <1>3, <1>4, <1>5, AnswerAsks

\* The device handles a package.
LEMMA ProcessAsks ==
  ASSUME NoAck, IInv, AInv, toPD # <<>>, UNCHANGED cpVars, Process(Head(toPD))
  PROVE  /\ Answers' /\ pd'.busy = pd.busy
         /\ pd.busy = 0 => AInv'
<1> DEFINE p == Head(toPD)
<1>1. p \in Packages /\ p = toPD[1] /\ 1 \in 1 .. Len(toPD) /\ pd \in Devices
  BY Taken DEF IInv, Typed
<1>2. sec.rmac # <<>> => (p.isSCB = TRUE => p.sb = "SCS_17")
  BY <1>1 DEF IInv, InStep, InStepOf
<1>3. Process(p)
  OBVIOUS
<1> HIDE DEF p
<1>4. p.isSCB \in BOOLEAN
  BY <1>1 DEF Packages
<1>5. /\ {"NOSCS", "SCS_12", "SCS_14"} \subseteq Blocks
      /\ {"ACK", "NAK", "CCRYPT", "RMAC_I"} \subseteq Types
      /\ <<>> \in Datas /\ <<"error">> \in Datas
  BY PanelData DEF Blocks, Types
<1>6. ~IsKind(<<>>, "answer") /\ ~IsKind(<<"error">>, "answer")
  BY DEF IsKind
<1>7. CASE \/ Answer(Reply(p, "NOSCS", "ACK", <<>>), [pd EXCEPT !.st = "clear"])
           \/ Answer(Nak(p), [pd EXCEPT !.st = "clear"])
  <2> DEFINE d == [pd EXCEPT !.st = "clear"]
  <2>1. d \in Devices /\ d.st = "clear" /\ d.answers = pd.answers /\ d.busy = pd.busy
    BY <1>1 DEF Devices
  <2>2. \/ Answer(Reply(p, "NOSCS", "ACK", <<>>), d)
        \/ Answer(Reply(p, "NOSCS", "NAK", <<"error">>), d)
    BY <1>7 DEF Nak
  <2> HIDE DEF d
  <2>3. CASE Answer(Reply(p, "NOSCS", "ACK", <<>>), d)
    BY <1>1, <1>5, <1>6, <2>1, <2>3, PlainAsks
  <2>4. CASE Answer(Reply(p, "NOSCS", "NAK", <<"error">>), d)
    BY <1>1, <1>5, <1>6, <2>1, <2>4, PlainAsks
  <2> QED BY <2>2, <2>3, <2>4
<1>8. CASE p.isSCB /\ p.sb = "SCS_11"
  <2> DEFINE d == [pd EXCEPT !.st = "challenged", !.session = @ + 1, !.mac = <<>>]
  <2>1. PICK ok \in BOOLEAN :
          Answer(Reply(p, "SCS_12", "CCRYPT", <<"ccrypt", pd.session + 1, ok>>), d)
    BY <1>3, <1>8 DEF Process, Macked
  <2> DEFINE n == pd.session + 1
             data == <<"ccrypt", n, ok>>
  <2>2. n \in Nat /\ <<>> \in Macs
    BY <1>1, FirstMacs DEF Devices
  <2>3. d = [pd EXCEPT !.st = "challenged", !.session = n, !.mac = <<>>]
    OBVIOUS
  <2>4. Answer(Reply(p, "SCS_12", "CCRYPT", data), d)
    BY <2>1
  <2> HIDE DEF n, d
  <2>5. d \in Devices /\ d.answers = pd.answers /\ d.busy = pd.busy
    BY <1>1, <2>2, <2>3 DEF Devices
  <2>6. data \in Datas /\ ~IsKind(data, "answer")
    BY <2>2, DeviceData DEF IsKind
  <2>7. sec.rmac = <<>>
    BY <1>2, <1>4, <1>8
  <2> HIDE DEF data
  <2> QED BY <1>1, <1>5, <2>4, <2>5, <2>6, <2>7, PlainAsks
<1>9. CASE /\ p.isSCB /\ p.sb = "SCS_13"
           /\ Answer(Reply(p, "SCS_14", "RMAC_I", <<"rmac", <<pd.session>> >>),
                     [pd EXCEPT !.st = "secure", !.mac = <<pd.session>>])
  <2> DEFINE d == [pd EXCEPT !.st = "secure", !.mac = <<pd.session>>]
             data == <<"rmac", <<pd.session>> >>
  <2>1. pd.session \in Nat /\ <<pd.session>> \in Macs
    BY <1>1, FirstMacs DEF Devices
  <2>2. d \in Devices /\ d.answers = pd.answers /\ d.busy = pd.busy
    BY <1>1, <2>1 DEF Devices
  <2>3. data \in Datas /\ ~IsKind(data, "answer")
    BY <2>1, DeviceData DEF IsKind
  <2>4. Answer(Reply(p, "SCS_14", "RMAC_I", data), d)
    BY <1>9
  <2>5. sec.rmac = <<>>
    BY <1>2, <1>4, <1>9
  <2> HIDE DEF d, data
  <2> QED BY <1>1, <1>5, <2>2, <2>3, <2>4, <2>5, PlainAsks
<1>10. CASE pd.st = "secure" /\ Execute(p)
  BY <1>1, <1>10, ExecuteAsks
<1> QED BY <1>3, <1>7, <1>8, <1>9, <1>10 DEF Process

\* The device takes a package: it handles it, is busy, or repeats its last reply.
LEMMA PDReceivesAsks == ASSUME NoAck, IInv, AInv, PDReceives PROVE AInv'
<1> DEFINE p == Head(toPD)
<1>1. toPD # <<>> /\ UNCHANGED cpVars
  BY DEF PDReceives
<1>2. p \in Packages /\ pd \in Devices /\ pd.busy \in Nat
  BY <1>1, Taken DEF IInv, Typed, Devices
<1>3. CASE Process(p)
  BY <1>1, <1>3, ProcessAsks DEF AInv
<1>4. CASE /\ toCP' = Append(toCP, [Reply(p, "NOSCS", "BUSY", <<>>) EXCEPT !.seq = 0])
           /\ pd' = [pd EXCEPT !.busy = @ + 1]
  <2> DEFINE q == Reply(p, "NOSCS", "BUSY", <<>>)
             r == [q EXCEPT !.seq = 0]
  <2>1. "NOSCS" \in Blocks /\ "BUSY" \in Types /\ <<>> \in Datas
    BY PanelData DEF Blocks, Types
  <2> HIDE DEF p
  <2>2. q \in ReplySet /\ q.type = "BUSY" /\ q.data = <<>>
    BY <1>2, <2>1, ReplyMade
  <2> HIDE DEF q
  <2>3. r.type = "BUSY" /\ r.data = <<>>
    BY <2>2 DEF ReplySet
  <2>4. toCP' = Append(toCP, r)
    BY <1>4 DEF q
  <2> HIDE DEF r
  <2>5. OfTheApdu(r)
    BY <2>3 DEF OfTheApdu, IsKind
  <2>6. /\ pd'.busy = pd.busy + 1 /\ pd'.st = pd.st /\ pd'.last = pd.last
        /\ pd'.answers = pd.answers
    BY <1>2, <1>4 DEF Devices
  <2>7. \A i \in 1 .. Len(toCP') :
          (i \in 1 .. Len(toCP) /\ toCP'[i] = toCP[i]) \/ toCP'[i] = r
    BY <2>4 DEF IInv, Typed
  <2>8. Answers'
    BY <2>5, <2>6, <2>7 DEF AInv, Answers
  <2> QED BY <1>2, <2>6, <2>8 DEF AInv
<1>5. CASE pd.last # <<>> /\ toCP' = Append(toCP, pd.last[1]) /\ pd' = pd
  <2> DEFINE r == pd.last[1]
  <2>1. r \in ReplySet /\ toCP' = Append(toCP, r) /\ OfTheApdu(r) /\ WellMade(r)
    BY <1>2, <1>5 DEF Devices, AInv, Answers, IInv, Device, LastReply
  <2>2. \A i \in 1 .. Len(toCP') :
          (i \in 1 .. Len(toCP) /\ toCP'[i] = toCP[i]) \/ toCP'[i] = r
    BY <2>1 DEF IInv, Typed
  <2>3. Answers'
    BY <1>5, <2>1, <2>2 DEF AInv, Answers
  <2>4. Over \/ r.isSCB = FALSE => Over' /\ r.mac = <<>>
    BY <1>5, <2>1 DEF AInv, Answers, WellMade, Over
  <2> HIDE DEF r
  <2> QED BY <1>1, <1>5, <2>1, <2>3, <2>4, ReplyAsks DEF AInv
<1> QED BY <1>3, <1>4, <1>5 DEF PDReceives

\* A step of the panel or of the line: the device does nothing, and a reply is taken
\* or lost at most.
LEMMA DeviceRests ==
  ASSUME Call \/ CallStep \/ LineLoses
  PROVE  /\ pd' = pd
         /\ toCP' = toCP \/ toCP' = <<>> \/ (toCP # <<>> /\ toCP' = Tail(toCP))
<1>1. CASE Call
  BY <1>1
  DEF Call, connectToReader, disconnectFromReader, sendCommand, poll, led, buz,
      disconnectFromSmartcard, UnitCommand, Transmit
<1>2. CASE CallStep
  BY <1>2
  DEF CallStep, RejectReply, Busy, AcceptReply, Timeout, challenge, sCrypt,
      ChallengeFails, getProfile, CryptFails, setProfile, ConnectDone,
      UnitCommandDone, PollForAnswer, SendCommandDone, Transmit
<1>3. CASE LineLoses
  BY <1>3 DEF LineLoses
<1> QED BY <1>1, <1>2, <1>3

\* Every step keeps what sendCommand is promised.
LEMMA StepAsks == ASSUME NoAck PROVE IInv /\ AInv /\ [Next]_vars => AInv'
<1> SUFFICES ASSUME IInv, AInv, [Next]_vars PROVE AInv'
  OBVIOUS
<1>1. CASE PDReceives
  BY <1>1, PDReceivesAsks
<1>2. CASE UNCHANGED vars
  BY <1>2
  DEF vars, cpVars, AInv, Answers, OfTheApdu, AfterSession, Over, Asked, AnswerOfTheApdu
<1>3. CASE pd.busy = 0 /\ (Call \/ CallStep \/ LineLoses)
  <2>1. CASE connectToReader \/ challenge \/ sCrypt \/ getProfile
    BY <2>1, HandshakeAsks, GetProfileAsks
  <2>2. CASE \/ setProfile \/ PollForAnswer \/ sendCommand
             \/ poll \/ led \/ buz \/ disconnectFromSmartcard
    BY <1>3, <2>2, CommandAsks
  <2>3. CASE \/ RejectReply \/ Timeout \/ ChallengeFails \/ CryptFails \/ ConnectDone
             \/ UnitCommandDone \/ SendCommandDone
    BY <1>3, <2>3, ReturnsAsk
  <2>4. CASE AcceptReply
    BY <1>3, <2>4, AcceptAsks
  <2>5. CASE Busy
    BY <1>3, <2>5, NotBusy DEF Busy
  <2>6. CASE disconnectFromReader \/ LineLoses
    BY <1>3, <2>6, LineAsks
  <2> QED BY <1>3, <2>1, <2>2, <2>3, <2>4, <2>5, <2>6 DEF Call, CallStep
<1>4. CASE pd.busy # 0 /\ (Call \/ CallStep \/ LineLoses)
  <2>1. Answers' /\ pd' = pd
    BY <1>4, DeviceRests, AnswersKept DEF AInv
  <2> QED BY <1>4, <2>1 DEF AInv
<1> QED BY <1>1, <1>2, <1>3, <1>4 DEF Next

\* AnswerOfTheApdu: if the device answers an APDU in its reply to it, and was not
\* busy, what sendCommand returns is the answer to its own APDU, whatever the line
\* loses, delays or the device repeats, and whichever earlier call timed out.
THEOREM AnswerIsOfTheApdu == ASSUME NoAck PROVE Spec => []AnswerOfTheApdu
<1>1. Init => AInv
  <2> SUFFICES ASSUME Init PROVE AInv
    OBVIOUS
  <2>1. 1 .. Len(toCP) = {} /\ pd.answers = <<>> /\ pd.last = <<>>
    BY DEF Init
  <2>2. sec.rmac = <<>> /\ pc = "idle" /\ result = <<>>
    BY DEF Init, NoSession
  <2> QED BY <2>1, <2>2 DEF AInv, Answers, AfterSession, Asked, AnswerOfTheApdu
<1>2. AInv => AnswerOfTheApdu
  BY DEF AInv, AnswerOfTheApdu
<1> QED BY <1>1, <1>2, StepAsks, InductiveInvariant, PTL DEF Spec

=============================================================================
