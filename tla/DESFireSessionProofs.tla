------------------------ MODULE DESFireSessionProofs ------------------------
(***************************************************************************)
(* Proofs about the DESFire session, for every set of keys, applications   *)
(* and key numbers, every number of sessions and of exceptions and every   *)
(* bound on the initialisation vectors: the types, that the host and the   *)
(* card agree on their session, that the table of keys is true, and that   *)
(* an authentication restores the session.                                 *)
(***************************************************************************)
EXTENDS DESFireSession, TLAPS

(***************************************************************************)
(* The inductive invariant is the conjunction of the three invariants,     *)
(* with the types of the records in full.                                  *)
(***************************************************************************)
Said == {"command", "reply", "joined"}
Items == (Sessions \X Said) \cup {"garbage"}

Hosts == [auth_method : {"LEGACY", "ISO"}, currentAid : Aids, currentKeyNo : KeyNos,
          sessionKey : Sessions, lastIV : Seq(Items), buf : BOOLEAN,
          iks_wrapper : Sessions, keys : [Slots -> Keys]]

Cards == [aid : Aids, apps : SUBSET Aids, auth : {"NONE", "LEGACY", "ISO"},
          keyNo : KeyNos, sessionKey : Sessions, iv : Seq(Items),
          defaultKey : Keys, keys : [Slots -> Keys]]

Fits(h, c) == Len(h.lastIV) <= MaxChain /\ Len(c.iv) <= MaxChain

Types ==
  /\ host \in Hosts /\ card \in Cards /\ Fits(host, card)
  /\ doubt \subseteq Slots
  /\ sessions \in Sessions /\ clean \in BOOLEAN /\ skipped \in BOOLEAN
  /\ keptISO \in BOOLEAN

IInv == Types /\ SessionAgreement /\ KeyTableTrue

-----------------------------------------------------------------------------
(***************************************************************************)
(* What an exchange leaves alone.  The host keeps all but its vector and   *)
(* its buffer; the card keeps its application, its applications, its keys, *)
(* and its session unless it refuses, which the host reports.              *)
(***************************************************************************)
SameHost(h, g) ==
  /\ g.auth_method = h.auth_method /\ g.currentAid = h.currentAid
  /\ g.currentKeyNo = h.currentKeyNo /\ g.sessionKey = h.sessionKey
  /\ g.iks_wrapper = h.iks_wrapper /\ g.keys = h.keys

SameCard(c, d) == d.aid = c.aid /\ d.apps = c.apps /\ d.keys = c.keys

SameSession(c, d) ==
  d.auth = c.auth /\ d.keyNo = c.keyNo /\ d.sessionKey = c.sessionKey

HasRoom(h, c) == Len(h.lastIV) + 2 <= MaxChain /\ Len(c.iv) + 2 <= MaxChain

\* The result r of an exchange that started with h and c.
Exchanged(r, h, c) ==
  /\ r.host \in Hosts /\ r.card \in Cards /\ r.ok \in BOOLEAN
  /\ HasRoom(h, c) => Fits(r.host, r.card)
  /\ SameHost(h, r.host) /\ SameCard(c, r.card)
  /\ r.ok => SameSession(c, r.card)

\* The two sides compute with the same key and vector.
InStep(h, c) == MacKey(h) = c.sessionKey /\ h.lastIV = c.iv

\* Both sides are in the ISO session.
BothISO(h, c) == h.auth_method = "ISO" /\ c.auth = "ISO"

\* An exchange that returns keeps the two sides in step.
StaysInStep(r, h, c) ==
  r.ok /\ BothISO(h, c) /\ InStep(h, c) => InStep(r.host, r.card)

-----------------------------------------------------------------------------
(***************************************************************************)
(* Facts about the operators.                                              *)
(***************************************************************************)

\* A vector grows by one item.
LEMMA CmacType ==
  ASSUME NEW key \in Sessions, NEW iv \in Seq(Items), NEW x \in Said
  PROVE  /\ desfire_cmac(key, iv, x) \in Seq(Items)
         /\ Len(desfire_cmac(key, iv, x)) = Len(iv) + 1
<1>1. <<key, x>> \in Items BY DEF Items
<1>2. QED BY <1>1 DEF desfire_cmac

\* The key that macs is a session's.
LEMMA MacKeyType == ASSUME NEW h \in Hosts PROVE MacKey(h) \in Sessions
BY DEF Hosts, MacKey

\* Chaining changes the vector alone, in an ISO session by one item.
LEMMA ChainFacts ==
  ASSUME NEW h \in Hosts, NEW x \in Said
  PROVE  /\ Chain(h, x) \in Hosts /\ SameHost(h, Chain(h, x))
         /\ Len(Chain(h, x).lastIV) <= Len(h.lastIV) + 1
         /\ h.auth_method = "ISO" =>
              Chain(h, x).lastIV = desfire_cmac(MacKey(h), h.lastIV, x)
         /\ h.auth_method # "ISO" => Chain(h, x) = h
<1> DEFINE v == desfire_cmac(MacKey(h), h.lastIV, x)
<1>1. v \in Seq(Items) /\ Len(v) = Len(h.lastIV) + 1 /\ Len(h.lastIV) \in Nat
  <2>1. h.lastIV \in Seq(Items) /\ MacKey(h) \in Sessions BY MacKeyType DEF Hosts
  <2>2. QED BY <2>1, CmacType
<1> HIDE DEF v
<1>2. CASE h.auth_method = "ISO"
  <2>1. Chain(h, x) = [h EXCEPT !.lastIV = v] BY <1>2 DEF Chain, v
  <2>2. [h EXCEPT !.lastIV = v] \in Hosts /\ [h EXCEPT !.lastIV = v].lastIV = v
    BY <1>1 DEF Hosts
  <2>3. SameHost(h, [h EXCEPT !.lastIV = v]) BY DEF SameHost, Hosts
  <2>4. QED BY <1>1, <1>2, <2>1, <2>2, <2>3 DEF v
<1>3. CASE h.auth_method # "ISO"
  <2>1. Chain(h, x) = h BY <1>3 DEF Chain
  <2>2. QED BY <1>1, <1>3, <2>1 DEF SameHost
<1>4. QED BY <1>2, <1>3

\* A card without its session keeps the rest.
LEMMA UnauthenticatedFacts ==
  ASSUME NEW c \in Cards, BoundsAssumption
  PROVE  /\ Unauthenticated(c) \in Cards /\ SameCard(c, Unauthenticated(c))
         /\ Unauthenticated(c).auth = "NONE" /\ Unauthenticated(c).iv = <<>>
<1>1. NoSession \in Sessions BY BoundsAssumption DEF NoSession, Sessions
<1>2. <<>> \in Seq(Items) OBVIOUS
<1>3. Unauthenticated(c) \in Cards
  BY <1>1, <1>2, SlotsAssumption DEF Unauthenticated, Cards
<1>4. QED BY <1>3 DEF Unauthenticated, Cards, SameCard

\* The card chains the command and its reply, or ends the session.
LEMMA CardRunsFacts ==
  ASSUME NEW c \in Cards, NEW f
  PROVE  /\ CardRuns(c, f) \in Cards /\ SameCard(c, CardRuns(c, f))
         /\ Len(CardRuns(c, f).iv) <= Len(c.iv) + 2
         /\ f = "done" => SameSession(c, CardRuns(c, f))
         /\ f # "done" /\ CardRuns(c, f).auth # "NONE" => SameSession(c, CardRuns(c, f))
         /\ f = "done" /\ c.auth = "ISO" =>
              CardRuns(c, f).iv = desfire_cmac(c.sessionKey,
                                    desfire_cmac(c.sessionKey, c.iv, "command"), "reply")
         /\ c.auth = "NONE" => CardRuns(c, f).auth = "NONE"
<1> DEFINE v == desfire_cmac(c.sessionKey, desfire_cmac(c.sessionKey, c.iv, "command"), "reply")
<1>1. v \in Seq(Items) /\ Len(v) = Len(c.iv) + 2 /\ Len(c.iv) \in Nat
  <2>1. c.iv \in Seq(Items) /\ c.sessionKey \in Sessions BY DEF Cards
  <2>2. "command" \in Said /\ "reply" \in Said BY DEF Said
  <2> DEFINE w == desfire_cmac(c.sessionKey, c.iv, "command")
  <2>3. w \in Seq(Items) /\ Len(w) = Len(c.iv) + 1
    BY <2>1, <2>2, CmacType, Zenon
  <2>6. Len(c.iv) \in Nat BY <2>1
  <2> HIDE DEF w
  <2>4. /\ desfire_cmac(c.sessionKey, w, "reply") \in Seq(Items)
        /\ Len(desfire_cmac(c.sessionKey, w, "reply")) = Len(w) + 1
    BY <2>1, <2>2, <2>3, CmacType, Zenon
  <2>5. v = desfire_cmac(c.sessionKey, w, "reply") BY DEF w
  <2> HIDE DEF v
  <2> QED BY <2>3, <2>4, <2>5, <2>6
<1> HIDE DEF v
<1>2. CASE f = "refused"
  BY <1>1, <1>2, UnauthenticatedFacts, BoundsAssumption DEF CardRuns
<1>3. CASE f \notin {"refused", "noCommand"} /\ c.auth = "ISO"
  <2>1. CardRuns(c, f) = [c EXCEPT !.iv = v] BY <1>3 DEF CardRuns, v
  <2>2. [c EXCEPT !.iv = v] \in Cards /\ [c EXCEPT !.iv = v].iv = v BY <1>1 DEF Cards
  <2>3. SameCard(c, [c EXCEPT !.iv = v]) /\ SameSession(c, [c EXCEPT !.iv = v])
    BY DEF Cards, SameCard, SameSession
  <2>4. QED BY <1>1, <1>3, <2>1, <2>2, <2>3 DEF v
<1>4. CASE f = "noCommand" \/ (f # "refused" /\ c.auth # "ISO")
  <2>1. CardRuns(c, f) = c BY <1>4 DEF CardRuns
  <2>2. QED BY <1>1, <1>4, <2>1 DEF SameCard, SameSession
<1>5. QED BY <1>2, <1>3, <1>4

-----------------------------------------------------------------------------
(***************************************************************************)
(* The ways to send a command.                                             *)
(***************************************************************************)

\* A call that leaves the host as g and the card as it runs with fate f, and that
\* returns only when the exchange was done.
LEMMA ResultFacts ==
  ASSUME NEW h \in Hosts, NEW c \in Cards, NEW f, NEW g \in Hosts, SameHost(h, g),
         HasRoom(h, c) => Len(g.lastIV) <= MaxChain,
         NEW b \in BOOLEAN, b => f = "done",
         NEW r, r = [host |-> g, card |-> CardRuns(c, f), ok |-> b]
  PROVE  /\ Exchanged(r, h, c)
         /\ (b /\ BothISO(h, c) /\ InStep(h, c) => g.lastIV = CardRuns(c, f).iv)
              => StaysInStep(r, h, c)
<1> DEFINE d == CardRuns(c, f)
<1>1. /\ d \in Cards /\ SameCard(c, d) /\ Len(d.iv) <= Len(c.iv) + 2
      /\ f = "done" => SameSession(c, d)
  BY CardRunsFacts
<1>2. Len(d.iv) \in Nat /\ Len(c.iv) \in Nat /\ MaxChain \in Nat
  BY <1>1, BoundsAssumption DEF Cards
<1> HIDE DEF d
<1>3. r.host = g /\ r.card = d /\ r.ok = b BY DEF d
<1>4. HasRoom(h, c) => Fits(g, d) BY <1>1, <1>2 DEF HasRoom, Fits
<1>5. Exchanged(r, h, c) BY <1>1, <1>3, <1>4 DEF Exchanged
<1>6. b => MacKey(g) = MacKey(h) /\ d.sessionKey = c.sessionKey
  BY <1>1 DEF SameHost, SameSession, MacKey
<1>7. QED BY <1>3, <1>5, <1>6 DEF StaysInStep, InStep, d

\* The host's vector after the command, and after the command and the reply.
LEMMA ChainedFacts ==
  ASSUME NEW h \in Hosts, NEW c \in Cards
  PROVE  /\ Chain(h, "command") \in Hosts /\ SameHost(h, Chain(h, "command"))
         /\ HasRoom(h, c) => Len(Chain(h, "command").lastIV) + 1 <= MaxChain
         /\ Chain(Chain(h, "command"), "reply") \in Hosts
         /\ SameHost(h, Chain(Chain(h, "command"), "reply"))
         /\ HasRoom(h, c) => Len(Chain(Chain(h, "command"), "reply").lastIV) <= MaxChain
         /\ BothISO(h, c) /\ InStep(h, c) =>
              Chain(Chain(h, "command"), "reply").lastIV = CardRuns(c, "done").iv
<1> DEFINE h1 == Chain(h, "command")
           h2 == Chain(h1, "reply")
<1>1. "command" \in Said /\ "reply" \in Said BY DEF Said
<1>2. /\ h1 \in Hosts /\ SameHost(h, h1) /\ Len(h1.lastIV) <= Len(h.lastIV) + 1
      /\ h.auth_method = "ISO" => h1.lastIV = desfire_cmac(MacKey(h), h.lastIV, "command")
  BY <1>1, ChainFacts
<1> HIDE DEF h1
<1>3. /\ h2 \in Hosts /\ SameHost(h1, h2) /\ Len(h2.lastIV) <= Len(h1.lastIV) + 1
      /\ h1.auth_method = "ISO" => h2.lastIV = desfire_cmac(MacKey(h1), h1.lastIV, "reply")
  BY <1>1, <1>2, ChainFacts
<1> HIDE DEF h2
<1>4. /\ Len(h.lastIV) \in Nat /\ Len(h1.lastIV) \in Nat /\ Len(h2.lastIV) \in Nat
      /\ MaxChain \in Nat
  BY <1>2, <1>3, BoundsAssumption DEF Hosts
<1>5. /\ HasRoom(h, c) => Len(h1.lastIV) + 1 <= MaxChain
      /\ HasRoom(h, c) => Len(h2.lastIV) <= MaxChain
  BY <1>2, <1>3, <1>4 DEF HasRoom
<1>6. SameHost(h, h2) BY <1>2, <1>3 DEF SameHost
<1>7. MacKey(h1) = MacKey(h) /\ h1.auth_method = h.auth_method
  BY <1>2 DEF SameHost, MacKey
<1>8. BothISO(h, c) /\ InStep(h, c) => h2.lastIV = CardRuns(c, "done").iv
  BY <1>2, <1>3, <1>7, CardRunsFacts DEF BothISO, InStep
<1>9. QED BY <1>2, <1>3, <1>5, <1>6, <1>8 DEF h1, h2

\* Verified chains the reply.
LEMMA VerifiedFacts ==
  ASSUME NEW h \in Hosts, NEW c \in Cards
  PROVE  LET r == Verified(Chain(h, "command"), CardRuns(c, "done"))
         IN  Exchanged(r, h, c) /\ StaysInStep(r, h, c)
<1> DEFINE g == Chain(Chain(h, "command"), "reply")
           b == g.lastIV = CardRuns(c, "done").iv
           r == Verified(Chain(h, "command"), CardRuns(c, "done"))
<1>1. r = [host |-> g, card |-> CardRuns(c, "done"), ok |-> b] BY DEF Verified
<1>2. /\ g \in Hosts /\ SameHost(h, g) /\ (HasRoom(h, c) => Len(g.lastIV) <= MaxChain)
      /\ b \in BOOLEAN
  BY ChainedFacts
<1> HIDE DEF g, b, r
<1>3. Exchanged(r, h, c) /\ ((b => g.lastIV = CardRuns(c, "done").iv) => StaysInStep(r, h, c))
  BY <1>1, <1>2, ResultFacts
<1>4. QED BY <1>3 DEF b, r

\* An exchange does not depend on what is in the host's buffer before it.
LEMMA BufferBefore ==
  ASSUME NEW h, NEW g, NEW c, NEW r, SameHost(h, g), g.lastIV = h.lastIV
  PROVE  /\ Exchanged(r, g, c) => Exchanged(r, h, c)
         /\ StaysInStep(r, g, c) => StaysInStep(r, h, c)
         /\ BothISO(g, c) <=> BothISO(h, c)
<1>1. MacKey(g) = MacKey(h) BY DEF MacKey, SameHost
<1>2. BothISO(g, c) <=> BothISO(h, c) BY DEF BothISO, SameHost
<1>3. HasRoom(g, c) <=> HasRoom(h, c) BY DEF HasRoom
<1>4. SameHost(g, r.host) => SameHost(h, r.host) BY DEF SameHost
<1>5. InStep(g, c) <=> InStep(h, c) BY <1>1 DEF InStep
<1>6. QED BY <1>2, <1>3, <1>4, <1>5 DEF Exchanged, StaysInStep

\* initBuf changes the buffer alone.
LEMMA InitBufFacts ==
  ASSUME NEW h \in Hosts
  PROVE  /\ initBuf(h) \in Hosts /\ SameHost(h, initBuf(h))
         /\ initBuf(h).lastIV = h.lastIV /\ initBuf(h).auth_method = h.auth_method
BY DEF initBuf, Hosts, SameHost

\* verifyMAC succeeds only with an empty buffer, and then as Verified does.
LEMMA VerifyShape ==
  ASSUME NEW h \in Hosts, NEW c, NEW r, r = verifyMAC(h, c)
  PROVE  /\ r = [host |-> r.host, card |-> c, ok |-> r.ok]
         /\ r.host \in Hosts /\ SameHost(h, r.host) /\ r.ok \in BOOLEAN
         /\ Len(r.host.lastIV) <= Len(h.lastIV) + 1
<1>1. "reply" \in Said /\ "joined" \in Said BY DEF Said
<1>2. CASE h.buf
  <2> DEFINE g == Chain(h, "joined")
  <2>1. g \in Hosts /\ SameHost(h, g) /\ Len(g.lastIV) <= Len(h.lastIV) + 1
    BY <1>1, ChainFacts
  <2> HIDE DEF g
  <2>2. /\ initBuf(g) \in Hosts /\ SameHost(h, initBuf(g)) /\ initBuf(g).lastIV = g.lastIV
    BY <2>1, InitBufFacts DEF SameHost
  <2>3. r = [host |-> initBuf(g), card |-> c, ok |-> FALSE]
    BY <1>2 DEF verifyMAC, Throw, g
  <2>4. QED BY <2>1, <2>2, <2>3
<1>3. CASE ~h.buf
  <2> DEFINE g == Chain(h, "reply")
             b == g.lastIV = c.iv
  <2>1. g \in Hosts /\ SameHost(h, g) /\ Len(g.lastIV) <= Len(h.lastIV) + 1
    BY <1>1, ChainFacts
  <2>2. r = [host |-> g, card |-> c, ok |-> b] BY <1>3 DEF verifyMAC, Verified
  <2>3. b \in BOOLEAN OBVIOUS
  <2> HIDE DEF g, b
  <2>4. QED BY <2>1, <2>2, <2>3
<1>4. QED BY <1>2, <1>3

\* verifyMAC after the command.
LEMMA VerifyMACFacts ==
  ASSUME NEW h \in Hosts, NEW c \in Cards
  PROVE  LET r == verifyMAC(Chain(h, "command"), CardRuns(c, "done"))
         IN  Exchanged(r, h, c) /\ StaysInStep(r, h, c)
<1> DEFINE h1 == Chain(h, "command")
           c1 == CardRuns(c, "done")
           r == verifyMAC(h1, c1)
<1>1. /\ h1 \in Hosts /\ SameHost(h, h1)
      /\ HasRoom(h, c) => Len(h1.lastIV) + 1 <= MaxChain
  BY ChainedFacts
<1>2. CASE ~h1.buf
  <2>1. r = Verified(h1, c1) BY <1>2 DEF verifyMAC
  <2>2. QED BY <2>1, VerifiedFacts
<1>3. CASE h1.buf
  <2>1. /\ r = [host |-> r.host, card |-> c1, ok |-> r.ok]
        /\ r.host \in Hosts /\ SameHost(h1, r.host)
        /\ Len(r.host.lastIV) <= Len(h1.lastIV) + 1
    <3> HIDE DEF h1, c1
    <3>1. QED BY <1>1, VerifyShape
  <2>2. r.ok = FALSE BY <1>3 DEF verifyMAC, Throw
  <2> DEFINE g == r.host
  <2> HIDE DEF h1, c1, r, g
  <2>3. SameHost(h, g) BY <1>1, <2>1 DEF SameHost, g
  <2>4. HasRoom(h, c) => Len(g.lastIV) <= MaxChain
    <3>1. Len(g.lastIV) \in Nat /\ Len(h1.lastIV) \in Nat /\ MaxChain \in Nat
      BY <1>1, <2>1, BoundsAssumption DEF Hosts, g
    <3>2. QED BY <1>1, <2>1, <3>1 DEF g
  <2>5. r = [host |-> g, card |-> CardRuns(c, "done"), ok |-> FALSE]
    BY <2>1, <2>2 DEF g, c1
  <2>6. g \in Hosts BY <2>1 DEF g
  <2>7. Exchanged(r, h, c) BY <2>3, <2>4, <2>5, <2>6, ResultFacts
  <2>8. StaysInStep(r, h, c) BY <2>2 DEF StaysInStep
  <2>9. QED BY <2>7, <2>8 DEF r, h1, c1
<1>4. QED BY <1>2, <1>3

\* A call that throws, or returns without a look at the reply.
LEMMA UnverifiedFacts ==
  ASSUME NEW h \in Hosts, NEW c \in Cards, NEW f
  PROVE  /\ Exchanged(Throw(Chain(h, "command"), CardRuns(c, f)), h, c)
         /\ StaysInStep(Throw(Chain(h, "command"), CardRuns(c, f)), h, c)
         /\ Exchanged(Return(Chain(h, "command"), CardRuns(c, "done")), h, c)
         /\ ~BothISO(h, c) =>
              StaysInStep(Return(Chain(h, "command"), CardRuns(c, "done")), h, c)
<1> DEFINE g == Chain(h, "command")
<1>1. g \in Hosts /\ SameHost(h, g) /\ (HasRoom(h, c) => Len(g.lastIV) <= MaxChain)
  <2>1. /\ g \in Hosts /\ SameHost(h, g)
        /\ HasRoom(h, c) => Len(g.lastIV) + 1 <= MaxChain
    BY ChainedFacts
  <2>2. Len(g.lastIV) \in Nat /\ MaxChain \in Nat BY <2>1, BoundsAssumption DEF Hosts
  <2>3. QED BY <2>1, <2>2
<1> HIDE DEF g
<1>2. Throw(g, CardRuns(c, f)) = [host |-> g, card |-> CardRuns(c, f), ok |-> FALSE]
  BY DEF Throw
<1>3. Return(g, CardRuns(c, "done")) = [host |-> g, card |-> CardRuns(c, "done"), ok |-> TRUE]
  BY DEF Return
<1>4. Exchanged(Throw(g, CardRuns(c, f)), h, c) BY <1>1, <1>2, ResultFacts
<1>5. Exchanged(Return(g, CardRuns(c, "done")), h, c) BY <1>1, <1>3, ResultFacts
<1>6. StaysInStep(Throw(g, CardRuns(c, f)), h, c) BY DEF StaysInStep, Throw
<1>7. ~BothISO(h, c) => StaysInStep(Return(g, CardRuns(c, "done")), h, c)
  BY DEF StaysInStep
<1>8. QED BY <1>4, <1>5, <1>6, <1>7 DEF g

\* transmit keeps what an exchange keeps, and the two sides in step.
LEMMA TransmitFacts ==
  ASSUME NEW h \in Hosts, NEW c \in Cards, NEW f, NEW long \in BOOLEAN
  PROVE  /\ Exchanged(transmit(h, c, f, long), h, c)
         /\ StaysInStep(transmit(h, c, f, long), h, c)
<1> DEFINE r == transmit(h, c, f, long)
<1>1. CASE f # "done"
  <2>1. r = Throw(Chain(h, "command"), CardRuns(c, f)) BY <1>1 DEF transmit
  <2>2. QED BY <2>1, UnverifiedFacts
<1>2. CASE f = "done" /\ h.auth_method = "ISO" /\ (c.auth = "ISO" \/ long)
  <2>1. r = Verified(Chain(h, "command"), CardRuns(c, "done")) BY <1>2 DEF transmit
  <2>2. QED BY <2>1, VerifiedFacts
<1>3. CASE f = "done" /\ ~(h.auth_method = "ISO" /\ (c.auth = "ISO" \/ long))
  <2>1. r = Return(Chain(h, "command"), CardRuns(c, "done")) BY <1>3 DEF transmit
  <2>2. ~BothISO(h, c) BY <1>3 DEF BothISO
  <2>3. QED BY <2>1, <2>2, UnverifiedFacts
<1>4. QED BY <1>1, <1>2, <1>3

\* transmitFrames looks at no CMAC.
LEMMA TransmitFramesFacts ==
  ASSUME NEW h \in Hosts, NEW c \in Cards, NEW f
  PROVE  /\ Exchanged(transmitFrames(h, c, f), h, c)
         /\ ~BothISO(h, c) => StaysInStep(transmitFrames(h, c, f), h, c)
<1>1. CASE f # "done"
  <2>1. transmitFrames(h, c, f) = Throw(Chain(h, "command"), CardRuns(c, f))
    BY <1>1 DEF transmitFrames
  <2>2. QED BY <2>1, UnverifiedFacts
<1>2. CASE f = "done"
  <2>1. transmitFrames(h, c, f) = Return(Chain(h, "command"), CardRuns(c, "done"))
    BY <1>2 DEF transmitFrames
  <2>2. QED BY <2>1, UnverifiedFacts
<1>3. QED BY <1>1, <1>2

\* getVersion keeps the two sides in step.
LEMMA GetVersionFacts ==
  ASSUME NEW h \in Hosts, NEW c \in Cards, NEW f
  PROVE  /\ Exchanged(getVersion(h, c, f), h, c)
         /\ StaysInStep(getVersion(h, c, f), h, c)
<1> DEFINE r == getVersion(h, c, f)
<1>1. CASE f # "done"
  <2>1. r = Throw(Chain(h, "command"), CardRuns(c, f)) BY <1>1 DEF getVersion
  <2>2. QED BY <2>1, UnverifiedFacts
<1>2. CASE f = "done" /\ h.auth_method = "ISO"
  <2>1. r = verifyMAC(Chain(h, "command"), CardRuns(c, "done")) BY <1>2 DEF getVersion
  <2>2. QED BY <2>1, VerifyMACFacts
<1>3. CASE f = "done" /\ h.auth_method # "ISO"
  <2>1. r = Return(Chain(h, "command"), CardRuns(c, "done")) BY <1>3 DEF getVersion
  <2>2. ~BothISO(h, c) BY <1>3 DEF BothISO
  <2>3. QED BY <2>1, <2>2, UnverifiedFacts
<1>4. QED BY <1>1, <1>2, <1>3

\* TakeAnswer takes the card's last block for the vector when it deciphers, so
\* that the two sides are then in step whatever they were before.
LEMMA TakeAnswerFacts ==
  ASSUME NEW h \in Hosts, NEW c \in Cards, NEW f, NEW mode \in Modes
  PROVE  /\ Exchanged(TakeAnswer(h, c, f, mode), h, c)
         /\ StaysInStep(TakeAnswer(h, c, f, mode), h, c)
         /\ TakeAnswer(h, c, f, mode).ok /\ mode = "ENCRYPT" /\ BothISO(h, c)
              => TakeAnswer(h, c, f, mode).host.lastIV = TakeAnswer(h, c, f, mode).card.iv
<1> DEFINE r == TakeAnswer(h, c, f, mode)
           h1 == Chain(h, "command")
           c1 == CardRuns(c, "done")
<1>1. CASE f # "done"
  <2>1. r = Throw(h1, CardRuns(c, f)) BY <1>1 DEF TakeAnswer
  <2>2. ~r.ok BY <2>1 DEF Throw
  <2>3. QED BY <2>1, <2>2, UnverifiedFacts
<1>2. CASE f = "done" /\ h.auth_method = "ISO" /\ mode # "ENCRYPT"
  <2>1. r = Verified(h1, c1) BY <1>2 DEF TakeAnswer
  <2>2. QED BY <1>2, <2>1, VerifiedFacts
<1>3. CASE f = "done" /\ h.auth_method = "ISO" /\ mode = "ENCRYPT"
  <2> DEFINE v == IF c.auth = "ISO" THEN c1.iv ELSE Append(h1.lastIV, "garbage")
             h2 == Chain(h1, "reply")
             g == [h2 EXCEPT !.lastIV = v]
             b == h2.lastIV = c1.iv
  <2>1. r = [Verified(h1, c1) EXCEPT !.host.lastIV = v] BY <1>3 DEF TakeAnswer
  <2>2. Verified(h1, c1) = [host |-> h2, card |-> c1, ok |-> b] BY DEF Verified
  <2>3. r = [host |-> g, card |-> c1, ok |-> b]
    <3> HIDE DEF r, v, b, h1, h2, c1
    <3>1. QED BY <2>1, <2>2
  <2>4. /\ h1 \in Hosts /\ (HasRoom(h, c) => Len(h1.lastIV) + 1 <= MaxChain)
        /\ h2 \in Hosts /\ SameHost(h, h2)
    BY ChainedFacts
  <2>5. c1 \in Cards /\ Len(c1.iv) <= Len(c.iv) + 2 BY CardRunsFacts
  <2>6. v \in Seq(Items) /\ (HasRoom(h, c) => Len(v) <= MaxChain)
    <3> HIDE DEF h1, c1
    <3>1. CASE c.auth = "ISO"
      <4>1. /\ c1.iv \in Seq(Items) /\ Len(c1.iv) \in Nat /\ Len(c.iv) \in Nat
            /\ MaxChain \in Nat
        BY <2>5, BoundsAssumption DEF Cards
      <4>2. QED BY <2>5, <3>1, <4>1 DEF HasRoom
    <3>2. CASE c.auth # "ISO"
      <4>1. h1.lastIV \in Seq(Items) /\ "garbage" \in Items BY <2>4 DEF Hosts, Items
      <4>2. v \in Seq(Items) /\ Len(v) = Len(h1.lastIV) + 1 BY <3>2, <4>1
      <4>3. QED BY <2>4, <4>2
    <3>3. QED BY <3>1, <3>2
  <2> HIDE DEF v, h1, h2, c1
  <2>7. g \in Hosts /\ SameHost(h, g) /\ g.lastIV = v BY <2>4, <2>6 DEF Hosts, SameHost
  <2>8. HasRoom(h, c) => Len(g.lastIV) <= MaxChain BY <2>6, <2>7
  <2>9. b \in BOOLEAN OBVIOUS
  <2>10. r.host = g /\ r.card = c1 BY <2>3
  <2> HIDE DEF g, b, r
  <2>11. BothISO(h, c) => g.lastIV = c1.iv BY <2>7 DEF BothISO, v
  <2>12. /\ Exchanged(r, h, c)
         /\ (b /\ BothISO(h, c) /\ InStep(h, c) => g.lastIV = c1.iv)
              => StaysInStep(r, h, c)
    BY <2>3, <2>7, <2>8, <2>9, ResultFacts DEF c1
  <2>13. QED BY <2>10, <2>11, <2>12 DEF r
<1>4. CASE f = "done" /\ h.auth_method # "ISO"
  <2> DEFINE b == mode = "PLAIN" \/ Genuine(h, c)
  <2>1. r = [Return(h1, c1) EXCEPT !.ok = b] BY <1>4 DEF TakeAnswer
  <2>2. r = [host |-> h1, card |-> c1, ok |-> b] BY <2>1 DEF Return
  <2>3. /\ Exchanged(Return(h1, c1), h, c) BY UnverifiedFacts
  <2>4. ~BothISO(h, c) BY <1>4 DEF BothISO
  <2>5. b \in BOOLEAN BY DEF Genuine
  <2> HIDE DEF b, h1, c1
  <2>6. /\ r.host = Return(h1, c1).host /\ r.card = Return(h1, c1).card
        /\ Return(h1, c1).ok /\ r.ok \in BOOLEAN
    BY <2>2, <2>5 DEF Return
  <2>7. Exchanged(r, h, c) BY <2>3, <2>6 DEF Exchanged
  <2>8. QED BY <2>4, <2>7 DEF StaysInStep
<1>5. QED BY <1>1, <1>2, <1>3, <1>4

\* The shape of a result.
LEMMA TakeAnswerShape ==
  ASSUME NEW h, NEW c, NEW f, NEW mode, NEW r, r = TakeAnswer(h, c, f, mode)
  PROVE  r = [host |-> r.host, card |-> r.card, ok |-> r.ok]
<1> DEFINE h1 == Chain(h, "command")
           c1 == CardRuns(c, f)
           v  == IF c.auth = "ISO" THEN c1.iv ELSE Append(h1.lastIV, "garbage")
           b  == mode = "PLAIN" \/ Genuine(h, c)
<1>1. \/ r = Throw(h1, c1) \/ r = Verified(h1, c1)
      \/ r = [Verified(h1, c1) EXCEPT !.host.lastIV = v]
      \/ r = [Return(h1, c1) EXCEPT !.ok = b]
  BY DEF TakeAnswer
<1> HIDE DEF h1, c1, v, b
<1>2. QED BY <1>1 DEF Throw, Return, Verified

\* handleRead does as well, and sets the buffer.
LEMMA HandleReadFacts ==
  ASSUME NEW h \in Hosts, NEW c \in Cards, NEW f, NEW mode \in Modes, NEW some,
         NEW r, r = handleRead(h, c, f, mode, some)
  PROVE  /\ Exchanged(r, h, c) /\ StaysInStep(r, h, c)
         /\ r.ok /\ mode = "ENCRYPT" /\ BothISO(h, c) => r.host.lastIV = r.card.iv
         /\ LET t == TakeAnswer(h, c, f, mode)
            IN  r.ok = t.ok /\ r.host.lastIV = t.host.lastIV /\ r.card = t.card
<1> DEFINE t == TakeAnswer(h, c, f, mode)
           b == mode = "ENCRYPT"
           g == [t.host EXCEPT !.buf = b]
<1>1. /\ Exchanged(t, h, c) /\ StaysInStep(t, h, c)
      /\ t.ok /\ mode = "ENCRYPT" /\ BothISO(h, c) => t.host.lastIV = t.card.iv
  BY TakeAnswerFacts
<1>2. t = [host |-> t.host, card |-> t.card, ok |-> t.ok] BY TakeAnswerShape
<1>3. r = IF some THEN [t EXCEPT !.host.buf = b] ELSE t BY DEF handleRead
<1>4. b \in BOOLEAN OBVIOUS
<1> HIDE DEF t, b
<1>5. g \in Hosts /\ SameHost(t.host, g) /\ g.lastIV = t.host.lastIV
  BY <1>1, <1>4 DEF Exchanged, Hosts, SameHost
<1>6. [t EXCEPT !.host.buf = b] = [host |-> g, card |-> t.card, ok |-> t.ok]
  BY <1>2
<1> HIDE DEF g
<1>7. /\ r.host \in Hosts /\ SameHost(t.host, r.host) /\ r.host.lastIV = t.host.lastIV
      /\ r.card = t.card /\ r.ok = t.ok
  <2>1. CASE r = t BY <1>1, <2>1 DEF Exchanged, SameHost
  <2>2. CASE r = [t EXCEPT !.host.buf = b] BY <1>5, <1>6, <2>2
  <2>3. QED BY <1>3, <2>1, <2>2
<1>8. Exchanged(r, h, c)
  <2>1. SameHost(h, r.host) BY <1>1, <1>7 DEF Exchanged, SameHost
  <2>2. Fits(t.host, t.card) => Fits(r.host, r.card) BY <1>7 DEF Fits
  <2>3. QED BY <1>1, <1>7, <2>1, <2>2 DEF Exchanged
<1>9. MacKey(r.host) = MacKey(t.host) BY <1>7 DEF SameHost, MacKey
<1>10. StaysInStep(r, h, c) BY <1>1, <1>7, <1>9 DEF StaysInStep, InStep
<1>11. QED BY <1>1, <1>7, <1>8, <1>10 DEF t

\* The identifier is read as enciphered data, in one frame.
LEMMA ReadUIDFacts ==
  ASSUME NEW h \in Hosts, NEW c \in Cards, NEW f,
         NEW r, r = getCardUID(h, c, f)
  PROVE  /\ Exchanged(r, h, c) /\ StaysInStep(r, h, c)
         /\ r.ok /\ BothISO(h, c) => r.host.lastIV = r.card.iv
         /\ r.ok = TakeAnswer(h, c, f, "ENCRYPT").ok
         /\ r.host.lastIV = TakeAnswer(h, c, f, "ENCRYPT").host.lastIV
         /\ r.card = TakeAnswer(h, c, f, "ENCRYPT").card
<1>1. "ENCRYPT" \in Modes BY DEF Modes
<1>2. PICK some : some = (f = "done") OBVIOUS
<1>3. r = handleRead(h, c, f, "ENCRYPT", some) BY <1>2, Zenon DEF getCardUID
<1>4. QED BY <1>1, <1>3, HandleReadFacts

\* A host in CM_ISO does not understand the answer of a card in a legacy session.
LEMMA ReadMixed ==
  ASSUME NEW h \in Hosts, NEW c, NEW f, h.auth_method = "ISO", c.auth = "LEGACY", c.iv = <<>>
  PROVE  ~TakeAnswer(h, c, f, "ENCRYPT").ok
<1> DEFINE h1 == Chain(h, "command")
           c1 == CardRuns(c, f)
           v  == IF c.auth = "ISO" THEN c1.iv ELSE Append(h1.lastIV, "garbage")
           h2 == Chain(h1, "reply")
<1>1. "command" \in Said /\ "reply" \in Said BY DEF Said
<1>2. CASE f # "done"
  <2>1. TakeAnswer(h, c, f, "ENCRYPT") = Throw(h1, c1) BY <1>2 DEF TakeAnswer
  <2>2. QED BY <2>1 DEF Throw
<1>3. CASE f = "done"
  <2>1. TakeAnswer(h, c, f, "ENCRYPT") = [Verified(h1, c1) EXCEPT !.host.lastIV = v]
    BY <1>3 DEF TakeAnswer
  <2>2. c1 = c BY <1>3 DEF CardRuns
  <2>3. h1 \in Hosts /\ h1.auth_method = "ISO" BY <1>1, ChainFacts DEF SameHost
  <2> HIDE DEF h1
  <2>4. h2.lastIV = desfire_cmac(MacKey(h1), h1.lastIV, "reply") BY <1>1, <2>3, ChainFacts
  <2>5. /\ desfire_cmac(MacKey(h1), h1.lastIV, "reply") \in Seq(Items)
        /\ Len(desfire_cmac(MacKey(h1), h1.lastIV, "reply")) = Len(h1.lastIV) + 1
    <3>1. h1.lastIV \in Seq(Items) /\ MacKey(h1) \in Sessions BY <2>3, MacKeyType DEF Hosts
    <3>2. QED BY <1>1, <3>1, CmacType
  <2>6. Len(h1.lastIV) \in Nat BY <2>3 DEF Hosts
  <2>7. h2.lastIV # c1.iv BY <2>2, <2>4, <2>5, <2>6
  <2>8. Verified(h1, c1) = [host |-> h2, card |-> c1, ok |-> h2.lastIV = c1.iv]
    BY DEF Verified
  <2> DEFINE w == Verified(h1, c1)
  <2>9. w = [host |-> h2, card |-> c1, ok |-> FALSE] BY <2>7, <2>8, Zenon
  <2> HIDE DEF h2, c1, v, w
  <2>10. [w EXCEPT !.host.lastIV = v].ok = FALSE BY <2>9
  <2>11. QED BY <2>1, <2>10 DEF w
<1>4. QED BY <1>2, <1>3

\* A call that throws before anything is sent.
LEMMA UnsentFacts ==
  ASSUME NEW h \in Hosts, NEW c \in Cards
  PROVE  Exchanged(Throw(initBuf(h), c), h, c) /\ StaysInStep(Throw(initBuf(h), c), h, c)
<1>1. initBuf(h) \in Hosts /\ SameHost(h, initBuf(h)) /\ initBuf(h).lastIV = h.lastIV
  BY InitBufFacts
<1>2. Len(h.lastIV) \in Nat /\ Len(c.iv) \in Nat /\ MaxChain \in Nat
  BY BoundsAssumption DEF Hosts, Cards
<1>3. HasRoom(h, c) => Fits(initBuf(h), c) BY <1>1, <1>2 DEF HasRoom, Fits
<1> DEFINE r == Throw(initBuf(h), c)
<1>4. r.host = initBuf(h) /\ r.card = c /\ r.ok = FALSE BY DEF Throw
<1> HIDE DEF r
<1>5. QED BY <1>1, <1>3, <1>4 DEF Exchanged, StaysInStep, SameCard, r

\* handleWriteData, with whatever the card makes of the MAC.
LEMMA HandleWriteFacts ==
  ASSUME NEW h \in Hosts, NEW c \in Cards, NEW f, NEW mode \in Modes
  PROVE  /\ Exchanged(handleWriteData(h, c, f, mode), h, c)
         /\ StaysInStep(handleWriteData(h, c, f, mode), h, c)
<1> DEFINE r == handleWriteData(h, c, f, mode)
           i == initBuf(h)
           e == Fate(f, mode = "PLAIN" \/ Genuine(h, c))
           sent == mode = "PLAIN" \/ ~Keyless(h)
<1>1. i \in Hosts /\ SameHost(h, i) /\ i.lastIV = h.lastIV /\ i.auth_method = h.auth_method
  BY InitBufFacts
<1>2. CASE ~sent
  <2>1. r = Throw(initBuf(h), c) BY <1>2 DEF handleWriteData
  <2>2. QED BY <2>1, UnsentFacts
<1>3. ASSUME Exchanged(r, i, c), StaysInStep(r, i, c)
      PROVE  Exchanged(r, h, c) /\ StaysInStep(r, h, c)
  <2> HIDE DEF i, r
  <2>1. QED BY <1>1, <1>3, BufferBefore
<1>4. CASE sent /\ e # "done"
  <2>1. r = Throw(Chain(i, "command"), CardRuns(c, e)) BY <1>4 DEF handleWriteData
  <2> HIDE DEF i
  <2>2. QED BY <1>1, <1>3, <2>1, UnverifiedFacts
<1>5. CASE sent /\ e = "done" /\ h.auth_method = "ISO" /\ c.auth = "ISO"
  <2>1. r = verifyMAC(Chain(i, "command"), CardRuns(c, "done"))
    BY <1>5 DEF handleWriteData
  <2> HIDE DEF i
  <2>2. QED BY <1>1, <1>3, <2>1, VerifyMACFacts
<1>6. CASE sent /\ e = "done" /\ ~(h.auth_method = "ISO" /\ c.auth = "ISO")
  <2>1. r = Return(Chain(i, "command"), CardRuns(c, "done"))
    BY <1>6 DEF handleWriteData
  <2>2. ~BothISO(i, c) BY <1>1, <1>6 DEF BothISO
  <2> HIDE DEF i
  <2>3. QED BY <1>1, <1>3, <2>1, <2>2, UnverifiedFacts
<1>7. QED BY <1>2, <1>4, <1>5, <1>6

\* An enciphered command; in step when the reply is verified.
LEMMA EncryptedFacts ==
  ASSUME NEW h \in Hosts, NEW c \in Cards, NEW f, NEW check \in BOOLEAN
  PROVE  /\ Exchanged(encrypted(h, c, f, check), h, c)
         /\ check \/ ~BothISO(h, c) => StaysInStep(encrypted(h, c, f, check), h, c)
<1> DEFINE r == encrypted(h, c, f, check)
           i == initBuf(h)
           e == Fate(f, c.auth # "NONE" /\ Genuine(h, c))
           sent == ~Keyless(h)
<1>1. i \in Hosts /\ SameHost(h, i) /\ i.lastIV = h.lastIV /\ i.auth_method = h.auth_method
  BY InitBufFacts
<1>2. CASE ~sent
  <2>1. r = Throw(initBuf(h), c) BY <1>2 DEF encrypted
  <2>2. QED BY <2>1, UnsentFacts
<1>3. ASSUME Exchanged(r, i, c), check \/ ~BothISO(h, c) => StaysInStep(r, i, c)
      PROVE  Exchanged(r, h, c) /\ (check \/ ~BothISO(h, c) => StaysInStep(r, h, c))
  <2> HIDE DEF i, r
  <2>1. QED BY <1>1, <1>3, BufferBefore
<1>4. CASE sent /\ e # "done"
  <2>1. r = Throw(Chain(i, "command"), CardRuns(c, e)) BY <1>4 DEF encrypted
  <2> HIDE DEF i
  <2>2. QED BY <1>1, <1>3, <2>1, UnverifiedFacts
<1>5. CASE sent /\ e = "done" /\ check /\ h.auth_method = "ISO"
  <2>1. r = verifyMAC(Chain(i, "command"), CardRuns(c, "done")) BY <1>5 DEF encrypted
  <2> HIDE DEF i
  <2>2. QED BY <1>1, <1>3, <2>1, VerifyMACFacts
<1>6. CASE sent /\ e = "done" /\ ~(check /\ h.auth_method = "ISO")
  <2>1. r = Return(Chain(i, "command"), CardRuns(c, "done")) BY <1>6 DEF encrypted
  <2>2. check \/ ~BothISO(h, c) => ~BothISO(i, c) BY <1>1, <1>6 DEF BothISO
  <2> HIDE DEF i
  <2>3. QED BY <1>1, <1>3, <2>1, <2>2, UnverifiedFacts
<1>7. QED BY <1>2, <1>4, <1>5, <1>6

-----------------------------------------------------------------------------
(***************************************************************************)
(* The two properties, for a host h and a card c.                          *)
(***************************************************************************)
Agrees(h, c, skip, kept) ==
  /\ h.currentAid = c.aid
  /\ c.auth # "NONE" =>
       /\ h.auth_method = c.auth \/ (kept /\ c.auth = "LEGACY")
       /\ h.currentKeyNo = c.keyNo
       /\ c.auth = "LEGACY" => h.sessionKey = c.sessionKey
       /\ c.auth = "ISO" =>
            \/ h.iks_wrapper \notin {NoSession, c.sessionKey}
            \/ MacKey(h) = c.sessionKey /\ (skip \/ h.lastIV = c.iv)

TableTrue(h, c, unknown) ==
  \A s \in Slots \ unknown : s[1] \in c.apps => h.keys[s] = c.keys[s]

\* The invariant in these terms.
LEMMA Restated ==
  /\ SessionAgreement <=> (clean => Agrees(host, card, skipped, keptISO))
  /\ KeyTableTrue <=> TableTrue(host, card, doubt)
  /\ SessionAgreement' <=> (clean' => Agrees(host', card', skipped', keptISO'))
  /\ KeyTableTrue' <=> TableTrue(host', card', doubt')
BY DEF SessionAgreement, KeyTableTrue, Agrees, TableTrue

\* An exchange that returns keeps the agreement.
LEMMA AgreesKept ==
  ASSUME NEW h \in Hosts, NEW c \in Cards, NEW r, Exchanged(r, h, c), r.ok,
         NEW s \in BOOLEAN, NEW t \in BOOLEAN, s => t, NEW k, Agrees(h, c, s, k),
         StaysInStep(r, h, c) \/ (c.auth = "ISO" => t)
  PROVE  Agrees(r.host, r.card, t, k)
<1>1. SameHost(h, r.host) /\ SameCard(c, r.card) /\ SameSession(c, r.card)
  BY DEF Exchanged
<1>2. MacKey(r.host) = MacKey(h) BY <1>1 DEF SameHost, MacKey
<1>3. BothISO(h, c) /\ InStep(h, c) /\ ~t => r.host.lastIV = r.card.iv
  BY DEF StaysInStep, BothISO, InStep
<1>4. CASE c.auth # "ISO"
  BY <1>1, <1>4 DEF Agrees, SameHost, SameCard, SameSession
<1>5. CASE c.auth = "ISO"
  <2>1. h.auth_method = "ISO" BY <1>5 DEF Agrees
  <2>2. MacKey(h) = c.sessionKey /\ (s \/ h.lastIV = c.iv) => t \/ r.host.lastIV = r.card.iv
    BY <1>3, <1>5, <2>1 DEF BothISO, InStep
  <2>3. QED BY <1>1, <1>2, <1>5, <2>1, <2>2 DEF Agrees, SameHost, SameCard, SameSession
<1>6. QED BY <1>4, <1>5

\* The agreement does not speak of the keys nor of the applications there are.
LEMMA AgreesWithoutKeys ==
  ASSUME NEW h, NEW g, NEW c, NEW d, NEW s, NEW k,
         g.auth_method = h.auth_method, g.currentAid = h.currentAid,
         g.currentKeyNo = h.currentKeyNo, g.sessionKey = h.sessionKey,
         g.iks_wrapper = h.iks_wrapper, g.lastIV = h.lastIV,
         d.aid = c.aid, SameSession(c, d), d.iv = c.iv
  PROVE  Agrees(h, c, s, k) => Agrees(g, d, s, k)
<1>1. MacKey(g) = MacKey(h) BY DEF MacKey
<1>2. QED BY <1>1 DEF Agrees, SameSession

\* A command that changes neither keys nor applications.
LEMMA ExchangeKeeps ==
  ASSUME IInv, Room, NEW r, Exchanged(r, host, card), Ends("other", r),
         UNCHANGED <<sessions, keptISO, doubt>>, skipped' \in BOOLEAN, skipped => skipped',
         StaysInStep(r, host, card) \/ (r.ok /\ card.auth = "ISO" => skipped')
  PROVE  IInv'
<1>1. /\ host \in Hosts /\ card \in Cards /\ clean \in BOOLEAN /\ skipped \in BOOLEAN
      /\ HasRoom(host, card)
  BY DEF IInv, Types, Room, HasRoom
<1>2. host' = r.host /\ card' = r.card /\ clean' = (r.ok /\ clean) BY DEF Ends
<1>3. Types'
  <2>1. r.host \in Hosts /\ r.card \in Cards /\ Fits(r.host, r.card) /\ r.ok \in BOOLEAN
    BY <1>1 DEF Exchanged
  <2>2. clean' \in BOOLEAN BY <1>2
  <2>3. QED BY <1>2, <2>1, <2>2 DEF IInv, Types, Fits
<1>4. SessionAgreement'
  <2> SUFFICES ASSUME clean' PROVE Agrees(r.host, r.card, skipped', keptISO) BY <1>2, Restated
  <2>1. Agrees(host, card, skipped, keptISO) /\ r.ok BY <1>2, Restated DEF IInv
  <2>2. QED BY <1>1, <2>1, AgreesKept
<1>5. KeyTableTrue'
  <2>1. TableTrue(host, card, doubt) BY Restated DEF IInv
  <2>2. r.host.keys = host.keys /\ r.card.keys = card.keys /\ r.card.apps = card.apps
    BY DEF Exchanged, SameHost, SameCard
  <2>3. TableTrue(r.host, r.card, doubt) BY <2>1, <2>2 DEF TableTrue
  <2>4. QED BY <1>2, <2>3, Restated
<1>6. QED BY <1>3, <1>4, <1>5 DEF IInv

-----------------------------------------------------------------------------
(***************************************************************************)
(* The steps.                                                              *)
(***************************************************************************)

\* Initially there is no session, and every key is the default key.
LEMMA InitInvariant == Init => IInv
<1> SUFFICES ASSUME Init PROVE IInv OBVIOUS
<1>1. 0 \in Sessions /\ <<>> \in Seq(Items) /\ Len(<<>>) <= MaxChain
  BY BoundsAssumption DEF Sessions
<1>2. [s \in Slots |-> DefaultKey] \in [Slots -> Keys] BY KeysAssumption
<1>3. host \in Hosts /\ card \in Cards
  <2> DEFINE table == [s \in Slots |-> DefaultKey]
             entries == [Slots -> Keys]
             vectors == Seq(Items)
  <2>1. table \in entries /\ <<>> \in vectors BY <1>1, <1>2
  <2>2. /\ host = [auth_method |-> "LEGACY", currentAid |-> 0, currentKeyNo |-> 0,
                   sessionKey |-> 0, lastIV |-> <<>>, buf |-> FALSE,
                   iks_wrapper |-> 0, keys |-> table]
        /\ card = [aid |-> 0, apps |-> Aids, auth |-> "NONE", keyNo |-> 0,
                   sessionKey |-> 0, iv |-> <<>>, defaultKey |-> DefaultKey,
                   keys |-> table]
    BY DEF Init, NoSession
  <2>3. /\ Hosts = [auth_method : {"LEGACY", "ISO"}, currentAid : Aids,
                    currentKeyNo : KeyNos, sessionKey : Sessions, lastIV : vectors,
                    buf : BOOLEAN, iks_wrapper : Sessions, keys : entries]
        /\ Cards = [aid : Aids, apps : SUBSET Aids, auth : {"NONE", "LEGACY", "ISO"},
                    keyNo : KeyNos, sessionKey : Sessions, iv : vectors,
                    defaultKey : Keys, keys : entries]
    BY DEF Hosts, Cards
  <2> HIDE DEF table, entries, vectors
  <2>4. host \in Hosts BY <1>1, <2>1, <2>2, <2>3, SlotsAssumption
  <2>5. card \in Cards BY <1>1, <2>1, <2>2, <2>3, SlotsAssumption, KeysAssumption
  <2>6. QED BY <2>4, <2>5
<1>4. Types BY <1>1, <1>3 DEF Init, Types, Fits
<1>5. SessionAgreement /\ KeyTableTrue BY DEF Init, SessionAgreement, KeyTableTrue
<1>6. QED BY <1>4, <1>5 DEF IInv

\* The commands that go through transmit, and the lists in several frames.
LEMMA TransmitsKeeps == ASSUME IInv, Transmits \/ ListInFrames PROVE IInv'
<1>1. host \in Hosts /\ card \in Cards /\ skipped \in BOOLEAN BY DEF IInv, Types
<1>2. CASE Transmits
  <2>1. PICK fate \in Fates, long \in BOOLEAN :
          Ends("other", transmit(host, card, fate, long))
    BY <1>2 DEF Transmits
  <2>2. Room /\ UNCHANGED <<sessions, keptISO, doubt, skipped>> BY <1>2 DEF Transmits, Keep
  <2>3. QED BY <1>1, <2>1, <2>2, TransmitFacts, ExchangeKeeps
<1>3. CASE ListInFrames
  <2>1. PICK fate \in Fates : Ends("other", transmitFrames(host, card, fate))
    BY <1>3 DEF ListInFrames
  <2> DEFINE r == transmitFrames(host, card, fate)
  <2>2. Exchanged(r, host, card) BY <1>1, TransmitFramesFacts
  <2> HIDE DEF r
  <2>3. Room /\ UNCHANGED <<sessions, keptISO, doubt>> BY <1>3 DEF ListInFrames
  <2>4. skipped' = (skipped \/ (thrown' = thrown /\ card.auth = "ISO"))
    BY <1>3 DEF ListInFrames
  <2>5. r.ok => thrown' = thrown BY <2>1 DEF Ends, Counts, r
  <2>6. skipped' \in BOOLEAN /\ (skipped => skipped')
        /\ (r.ok /\ card.auth = "ISO" => skipped')
    BY <1>1, <2>4, <2>5
  <2>7. QED BY <2>1, <2>2, <2>3, <2>6, ExchangeKeeps DEF r
<1>4. QED BY <1>2, <1>3

\* Reading and writing.
LEMMA ReadWriteKeeps == ASSUME IInv, GetVersion \/ Read \/ Write PROVE IInv'
<1>1. host \in Hosts /\ card \in Cards /\ skipped \in BOOLEAN BY DEF IInv, Types
<1>2. Room /\ UNCHANGED <<sessions, keptISO, doubt, skipped>> BY DEF GetVersion, Read, Write, Keep
<1>3. CASE Read
  <2>1. PICK fate \in Fates, mode \in Modes, some \in BOOLEAN :
          Ends("other", handleRead(host, card, fate, mode, some))
    BY <1>3 DEF Read
  <2> DEFINE r == handleRead(host, card, fate, mode, some)
  <2>2. Exchanged(r, host, card) /\ StaysInStep(r, host, card)
    BY <1>1, HandleReadFacts
  <2> HIDE DEF r
  <2>3. QED BY <1>1, <1>2, <2>1, <2>2, ExchangeKeeps DEF r
<1>4. CASE Write
  <2>1. PICK fate \in Fates, mode \in Modes :
          Ends("other", handleWriteData(host, card, fate, mode))
    BY <1>4 DEF Write
  <2>2. QED BY <1>1, <1>2, <2>1, HandleWriteFacts, ExchangeKeeps
<1>5. CASE GetVersion
  <2>1. PICK fate \in Fates : Ends("other", getVersion(host, card, fate))
    BY <1>5 DEF GetVersion
  <2>2. QED BY <1>1, <1>2, <2>1, GetVersionFacts, ExchangeKeeps
<1>6. QED BY <1>3, <1>4, <1>5

\* The settings: enciphered, with the reply verified or not, and in plain.
LEMMA SettingsKeeps ==
  ASSUME IInv, NEW key \in Keys,
         ChangeSettings \/ SetConfiguration(key) \/ ChangeFileSettingsPlain
  PROVE  IInv'
<1>1. host \in Hosts /\ card \in Cards /\ skipped \in BOOLEAN BY DEF IInv, Types
<1>2. CASE ChangeSettings
  <2>1. PICK fate \in Fates : Ends("other", encrypted(host, card, fate, TRUE))
    BY <1>2 DEF ChangeSettings
  <2>2. Room /\ UNCHANGED <<sessions, keptISO, doubt, skipped>> BY <1>2 DEF ChangeSettings, Keep
  <2>3. QED BY <1>1, <2>1, <2>2, EncryptedFacts, ExchangeKeeps
<1>3. ASSUME NEW r, Exchanged(r, host, card), Ends("other", r), Room,
             UNCHANGED <<sessions, keptISO, doubt>>,
             skipped' = (skipped \/ (thrown' = thrown /\ card.auth = "ISO"))
      PROVE  IInv'
  <2>1. r.ok => thrown' = thrown BY <1>3 DEF Ends, Counts
  <2>2. skipped' \in BOOLEAN /\ (skipped => skipped')
        /\ (r.ok /\ card.auth = "ISO" => skipped')
    BY <1>1, <1>3, <2>1
  <2>3. QED BY <1>3, <2>2, ExchangeKeeps
<1>4. CASE SetConfiguration(key)
  <2>1. PICK fate \in Fates :
          LET f == Fate(fate, card.aid = 0)
              q == encrypted(host, card, f, FALSE)
              runs == /\ f \in {"done", "noAnswer"} /\ ~Keyless(host)
                      /\ card.auth # "NONE" /\ Genuine(host, card)
          IN  Ends("other", [q EXCEPT !.card.defaultKey = IF runs THEN key ELSE @])
    BY <1>4 DEF SetConfiguration
  <2> DEFINE f == Fate(fate, card.aid = 0)
             q == encrypted(host, card, f, FALSE)
             runs == /\ f \in {"done", "noAnswer"} /\ ~Keyless(host)
                     /\ card.auth # "NONE" /\ Genuine(host, card)
             r == [q EXCEPT !.card.defaultKey = IF runs THEN key ELSE @]
             d == [q.card EXCEPT !.defaultKey = IF runs THEN key ELSE @]
  <2>2. Exchanged(q, host, card) BY <1>1, EncryptedFacts
  <2>3. q = [host |-> q.host, card |-> q.card, ok |-> q.ok]
    BY DEF encrypted, verifyMAC, Verified, Throw, Return
  <2>4. Ends("other", r) BY <2>1
  <2> HIDE DEF q, runs
  <2>5. r = [host |-> q.host, card |-> d, ok |-> q.ok] BY <2>3
  <2>6. /\ d \in Cards /\ SameCard(q.card, d) /\ SameSession(q.card, d) /\ d.iv = q.card.iv
    BY <2>2 DEF Exchanged, Cards, SameCard, SameSession
  <2> HIDE DEF d
  <2>7. r.host = q.host /\ r.card = d /\ r.ok = q.ok BY <2>5
  <2> HIDE DEF r
  <2>8. Exchanged(r, host, card)
    <3>1. SameCard(card, d) BY <2>2, <2>6 DEF Exchanged, SameCard
    <3>2. q.ok => SameSession(card, d) BY <2>2, <2>6 DEF Exchanged, SameSession
    <3>3. Fits(q.host, q.card) => Fits(q.host, d) BY <2>6 DEF Fits
    <3>4. QED BY <2>2, <2>6, <2>7, <3>1, <3>2, <3>3 DEF Exchanged
  <2>9. QED BY <1>3, <1>4, <2>4, <2>8 DEF SetConfiguration
<1>5. CASE ChangeFileSettingsPlain
  <2>1. PICK fate \in Fates :
          Ends("other", IF fate = "done" THEN Return(host, CardRuns(card, fate))
                                         ELSE Throw(host, CardRuns(card, fate)))
    BY <1>5 DEF ChangeFileSettingsPlain
  <2> DEFINE r == IF fate = "done" THEN Return(host, CardRuns(card, fate))
                                   ELSE Throw(host, CardRuns(card, fate))
  <2>2. r = [host |-> host, card |-> CardRuns(card, fate), ok |-> (fate = "done")]
    BY DEF Return, Throw
  <2>3. SameHost(host, host) /\ Len(host.lastIV) <= MaxChain
    BY DEF SameHost, IInv, Types, Fits
  <2> HIDE DEF r
  <2>4. Exchanged(r, host, card) BY <1>1, <2>2, <2>3, ResultFacts
  <2>5. QED BY <1>3, <1>5, <2>1, <2>4 DEF ChangeFileSettingsPlain, r
<1>6. QED BY <1>2, <1>4, <1>5

\* A card that did not run the command keeps its vector, or has none.
LEMMA NotRun ==
  ASSUME NEW c \in Cards, NEW f \in {"refused", "noCommand"}, Len(c.iv) <= MaxChain
  PROVE  Len(CardRuns(c, f).iv) <= MaxChain
<1>1. Unauthenticated(c).iv = <<>> BY UnauthenticatedFacts, BoundsAssumption
<1>2. MaxChain \in Nat BY BoundsAssumption
<1>3. QED BY <1>1, <1>2 DEF CardRuns

\* The application is selected on both sides, and no session is left; or it is not.
LEMMA SelectKeeps ==
  ASSUME IInv, NEW aid \in Aids, SelectApplication(aid) PROVE IInv'
<1>1. /\ host \in Hosts /\ card \in Cards /\ Len(card.iv) <= MaxChain
      /\ Len(host.lastIV) <= MaxChain /\ clean \in BOOLEAN /\ MaxChain \in Nat
  BY BoundsAssumption DEF IInv, Types, Fits
<1>2. /\ UNCHANGED <<sessions, doubt>> /\ skipped' \in BOOLEAN /\ keptISO' \in BOOLEAN
  BY DEF SelectApplication
<1>3. TableTrue(host, card, doubt) BY Restated DEF IInv
<1> DEFINE d == [Unauthenticated(card) EXCEPT !.aid = aid]
           g == SelectedHost(host, aid)
<1>4. /\ d \in Cards /\ d.aid = aid /\ d.auth = "NONE" /\ d.iv = <<>>
      /\ d.keys = card.keys /\ d.apps = card.apps
  <2>1. /\ Unauthenticated(card) \in Cards /\ SameCard(card, Unauthenticated(card))
        /\ Unauthenticated(card).auth = "NONE" /\ Unauthenticated(card).iv = <<>>
    BY <1>1, UnauthenticatedFacts, BoundsAssumption
  <2>2. QED BY <2>1, SlotsAssumption DEF Cards, SameCard
<1>5. g \in Hosts /\ g.currentAid = aid /\ g.keys = host.keys /\ g.lastIV = <<>>
  <2>1. NoSession \in Sessions /\ <<>> \in Seq(Items)
    BY BoundsAssumption DEF NoSession, Sessions
  <2>2. QED BY <1>1, <2>1, SlotsAssumption DEF SelectedHost, Hosts
<1>6. PICK fate \in Fates :
        LET f  == Fate(fate, aid \in card.apps)
            c1 == IF f \in {"done", "noAnswer"} THEN d ELSE CardRuns(card, f)
        IN  Ends("selectApplication", IF f = "done" THEN Return(g, c1) ELSE Throw(host, c1))
  BY DEF SelectApplication
<1> DEFINE f == Fate(fate, aid \in card.apps)
<1>7. f \in {"done", "refused", "noCommand", "noAnswer"} BY DEF Fates, Fate
<1> HIDE DEF d, g, f
<1>8. CASE f = "done"
  <2>1. Ends("selectApplication", Return(g, d)) BY <1>6, <1>8 DEF f
  <2>2. host' = g /\ card' = d /\ clean' = TRUE BY <1>1, <2>1 DEF Ends, Return
  <2>3. Types' BY <1>1, <1>2, <1>4, <1>5, <2>2 DEF IInv, Types, Fits
  <2>4. Agrees(g, d, skipped', keptISO') BY <1>4, <1>5 DEF Agrees
  <2>5. TableTrue(g, d, doubt) BY <1>3, <1>4, <1>5 DEF TableTrue
  <2>6. QED BY <1>2, <2>2, <2>3, <2>4, <2>5, Restated DEF IInv
<1>9. CASE f # "done"
  <2> DEFINE e == IF f = "noAnswer" THEN d ELSE CardRuns(card, f)
  <2>1. Ends("selectApplication", Throw(host, e)) BY <1>6, <1>7, <1>9 DEF f
  <2>2. e \in Cards /\ Len(e.iv) <= MaxChain /\ e.keys = card.keys /\ e.apps = card.apps
    <3>1. CASE f = "noAnswer" BY <1>1, <1>4, <3>1
    <3>2. CASE f \in {"refused", "noCommand"}
      BY <1>1, <3>2, CardRunsFacts, NotRun DEF SameCard
    <3>3. QED BY <1>7, <1>9, <3>1, <3>2
  <2> HIDE DEF e
  <2>3. host' = host /\ card' = e /\ clean' = FALSE BY <2>1 DEF Ends, Throw
  <2>4. Types' BY <1>1, <1>2, <2>2, <2>3 DEF IInv, Types, Fits
  <2>5. TableTrue(host, e, doubt) BY <1>3, <2>2 DEF TableTrue
  <2>6. QED BY <1>2, <2>3, <2>4, <2>5, Restated DEF IInv
<1>10. QED BY <1>8, <1>9

\* Exceptions are counted.
Counted == thrown \in Nat

\* The end of an operation keeps the count a number.
LEMMA EndsCounts ==
  ASSUME NEW op, NEW r, Ends(op, r)
  PROVE  Counted => Counted'
BY DEF Ends, Counts, Counted

\* A new application has the default keys, which the host's table is given; or its
\* slots are in doubt.
LEMMA CreateKeeps ==
  ASSUME IInv, NEW aid \in Aids, NEW defaults \in BOOLEAN,
         CreateApplication(aid, defaults)
  PROVE  IInv' /\ sessions' = sessions /\ (Counted => Counted')
<1>1. /\ host \in Hosts /\ card \in Cards /\ clean \in BOOLEAN /\ skipped \in BOOLEAN
      /\ HasRoom(host, card) /\ doubt \subseteq Slots
  BY DEF IInv, Types, Room, HasRoom, CreateApplication
<1>2. UNCHANGED <<sessions, keptISO, skipped>> BY DEF CreateApplication
<1>3. TableTrue(host, card, doubt) BY Restated DEF IInv
<1>4. PICK fate \in Fates, long \in BOOLEAN :
        LET f == Fate(fate, card.aid = 0 /\ aid \notin card.apps)
            r == transmit(host, card, f, long)
            made == IF f \in {"done", "noAnswer"}
                    THEN [r.card EXCEPT !.apps = @ \cup {aid},
                            !.keys = [s \in Slots |-> IF s[1] = aid
                                                 THEN card.defaultKey ELSE @[s]]]
                    ELSE r.card
            noted == r.ok /\ defaults
            known == noted /\ card.defaultKey = DefaultKey
        IN  /\ Ends("other", [r EXCEPT !.card = made,
                       !.host = IF noted THEN createApplicationKeys(@, aid) ELSE @])
            /\ doubt' = IF known THEN doubt \ {s \in Slots : s[1] = aid}
                        ELSE IF made.apps # card.apps
                        THEN doubt \cup {s \in Slots : s[1] = aid} ELSE doubt
  BY DEF CreateApplication
<1> DEFINE f == Fate(fate, card.aid = 0 /\ aid \notin card.apps)
           r == transmit(host, card, f, long)
           runs == f \in {"done", "noAnswer"}
           ks == [s \in Slots |-> IF s[1] = aid THEN card.defaultKey ELSE r.card.keys[s]]
           made == IF runs THEN [r.card EXCEPT !.apps = @ \cup {aid}, !.keys = ks] ELSE r.card
           noted == r.ok /\ defaults
           known == noted /\ card.defaultKey = DefaultKey
           hs == [s \in Slots |-> IF s[1] = aid THEN DefaultKey ELSE r.host.keys[s]]
           g == IF noted THEN [r.host EXCEPT !.keys = hs] ELSE r.host
<1>5. /\ Exchanged(r, host, card) /\ StaysInStep(r, host, card)
      /\ r.ok => f = "done"
  <2>1. r.ok => f = "done" BY DEF transmit, Throw
  <2>2. QED BY <1>1, <2>1, TransmitFacts
<1>6. runs => aid \notin card.apps BY DEF Fate
<1>7. /\ Ends("other", [r EXCEPT !.card = made, !.host = g])
      /\ doubt' = IF known THEN doubt \ {s \in Slots : s[1] = aid}
                  ELSE IF made.apps # card.apps
                  THEN doubt \cup {s \in Slots : s[1] = aid} ELSE doubt
  BY <1>4 DEF createApplicationKeys
<1>8. r = [host |-> r.host, card |-> r.card, ok |-> r.ok]
  BY DEF transmit, Throw, Return, Verified
<1> HIDE DEF f, r
<1>20. Counted => Counted'
  <2> HIDE DEF g, made, known
  <2>1. QED BY <1>7, EndsCounts
<1> SUFFICES IInv' /\ sessions' = sessions BY <1>20
<1>9. /\ r.host \in Hosts /\ r.card \in Cards /\ Fits(r.host, r.card) /\ r.ok \in BOOLEAN
      /\ r.host.keys = host.keys /\ r.card.keys = card.keys /\ r.card.apps = card.apps
  BY <1>1, <1>5 DEF Exchanged, SameHost, SameCard
<1>10. /\ made \in Cards /\ made.aid = r.card.aid /\ SameSession(r.card, made)
       /\ made.iv = r.card.iv
  <2>1. ks \in [Slots -> Keys] BY <1>1, <1>9 DEF Cards
  <2> HIDE DEF ks
  <2>2. QED BY <1>9, <2>1 DEF Cards, SameSession
<1>11. /\ g \in Hosts /\ g.auth_method = r.host.auth_method
       /\ g.currentAid = r.host.currentAid /\ g.currentKeyNo = r.host.currentKeyNo
       /\ g.sessionKey = r.host.sessionKey /\ g.iks_wrapper = r.host.iks_wrapper
       /\ g.lastIV = r.host.lastIV
  <2>1. hs \in [Slots -> Keys] BY <1>9, KeysAssumption DEF Hosts
  <2> HIDE DEF hs, noted
  <2>2. QED BY <1>9, <2>1 DEF Hosts
<1>12. /\ host' = g /\ card' = made /\ clean' = (r.ok /\ clean)
       /\ sessions' = sessions
  <2> HIDE DEF g, made
  <2>1. /\ [r EXCEPT !.card = made, !.host = g].host = g
        /\ [r EXCEPT !.card = made, !.host = g].card = made
        /\ [r EXCEPT !.card = made, !.host = g].ok = r.ok
    BY <1>8
  <2>2. QED BY <1>2, <1>7, <2>1 DEF Ends
<1>13. Types'
  <2>1. doubt' \subseteq Slots BY <1>1, <1>7
  <2> HIDE DEF g, made
  <2>2. Fits(g, made) BY <1>9, <1>10, <1>11 DEF Fits
  <2>3. clean' \in BOOLEAN BY <1>1, <1>9, <1>12
  <2>4. QED BY <1>2, <1>10, <1>11, <1>12, <2>1, <2>2, <2>3 DEF IInv, Types, Fits
<1>14. SessionAgreement'
  <2> SUFFICES ASSUME clean' PROVE Agrees(g, made, skipped, keptISO) BY <1>2, <1>12, Restated
  <2>1. Agrees(host, card, skipped, keptISO) /\ r.ok BY <1>12, Restated DEF IInv
  <2>2. Agrees(r.host, r.card, skipped, keptISO) BY <1>1, <1>5, <2>1, AgreesKept
  <2> HIDE DEF g, made
  <2>3. QED BY <1>10, <1>11, <2>2, AgreesWithoutKeys
<1>15. KeyTableTrue'
  <2> SUFFICES TableTrue(g, made, doubt') BY <1>12, Restated
  <2> SUFFICES ASSUME NEW s \in Slots \ doubt', s[1] \in made.apps
               PROVE  g.keys[s] = made.keys[s]
    BY DEF TableTrue
  <2>1. /\ made.keys = IF runs THEN ks ELSE card.keys
        /\ made.apps = IF runs THEN card.apps \cup {aid} ELSE card.apps
    <3> HIDE DEF ks, runs
    <3>1. QED BY <1>9 DEF Cards
  <2>2. g.keys = IF noted THEN hs ELSE host.keys
    <3> HIDE DEF hs, noted
    <3>1. QED BY <1>9 DEF Hosts
  <2>3. known => runs BY <1>5
  <2>4. runs => made.apps # card.apps BY <1>6, <2>1
  <2>5. s \notin doubt => (s[1] \in card.apps => host.keys[s] = card.keys[s])
    BY <1>3 DEF TableTrue
  <2> HIDE DEF g, made
  <2>6. CASE known
    <3>1. s[1] # aid => s \notin doubt /\ s[1] \in card.apps BY <1>7, <2>1, <2>6
    <3>2. QED BY <1>9, <2>1, <2>2, <2>3, <2>5, <2>6, <3>1
  <2>7. CASE ~known /\ runs
    <3>1. s \notin doubt /\ s[1] # aid BY <1>7, <2>4, <2>7
    <3>2. s[1] \in card.apps BY <2>1, <3>1
    <3>3. QED BY <1>9, <2>1, <2>2, <2>5, <2>7, <3>1, <3>2
  <2>8. CASE ~known /\ ~runs
    <3>1. ~noted BY <1>5, <2>8
    <3>2. QED BY <1>7, <2>1, <2>2, <2>5, <2>8, <3>1
  <2>9. QED BY <2>6, <2>7, <2>8
<1>16. QED BY <1>12, <1>13, <1>14, <1>15 DEF IInv

\* Applications are deleted, the one that is selected among them or not.
LEMMA DeleteKeeps ==
  ASSUME IInv, NEW aids, NEW allowed, Delete(aids, allowed) PROVE IInv'
<1>1. /\ host \in Hosts /\ card \in Cards /\ clean \in BOOLEAN /\ skipped \in BOOLEAN
      /\ HasRoom(host, card)
  BY DEF IInv, Types, Room, HasRoom, Delete
<1>2. UNCHANGED <<sessions, keptISO, doubt, skipped>> BY DEF Delete, Keep
<1>3. TableTrue(host, card, doubt) BY Restated DEF IInv
<1> DEFINE e == [Unauthenticated(card) EXCEPT !.aid = 0]
<1>4. PICK fate \in Fates, long \in BOOLEAN :
        LET f == Fate(fate, allowed)
            runs == f \in {"done", "noAnswer"}
            own  == runs /\ card.aid \in aids
            c == IF own THEN e ELSE card
            r == transmit(host, c, f, long)
        IN  /\ host' = r.host
            /\ card' = IF runs THEN [r.card EXCEPT !.apps = @ \ aids] ELSE r.card
            /\ Counts(r.ok)
            /\ clean' = (clean /\ r.ok /\ ~own)
  BY DEF Delete
<1> DEFINE f == Fate(fate, allowed)
           runs == f \in {"done", "noAnswer"}
           own == runs /\ card.aid \in aids
           c == IF own THEN e ELSE card
           r == transmit(host, c, f, long)
           d == IF runs THEN [r.card EXCEPT !.apps = @ \ aids] ELSE r.card
<1>5. /\ e \in Cards /\ e.iv = <<>> /\ e.keys = card.keys /\ e.apps = card.apps
  <2>1. /\ Unauthenticated(card) \in Cards /\ SameCard(card, Unauthenticated(card))
        /\ Unauthenticated(card).iv = <<>>
    BY <1>1, UnauthenticatedFacts, BoundsAssumption
  <2>2. QED BY <2>1, SlotsAssumption DEF Cards, SameCard
<1>6. host' = r.host /\ card' = d /\ clean' = (clean /\ r.ok /\ ~own) BY <1>4
<1> HIDE DEF e
<1>7. /\ c \in Cards /\ HasRoom(host, c) /\ c.keys = card.keys /\ c.apps = card.apps
  BY <1>1, <1>5, BoundsAssumption DEF HasRoom
<1> HIDE DEF c
<1>8. Exchanged(r, host, c) /\ StaysInStep(r, host, c) BY <1>1, <1>7, TransmitFacts
<1> HIDE DEF r, runs
<1>9. /\ r.host \in Hosts /\ r.card \in Cards /\ Fits(r.host, r.card) /\ r.ok \in BOOLEAN
      /\ r.host.keys = host.keys /\ r.card.keys = card.keys /\ r.card.apps = card.apps
  BY <1>7, <1>8 DEF Exchanged, SameHost, SameCard
<1>10. /\ d \in Cards /\ d.aid = r.card.aid /\ SameSession(r.card, d) /\ d.iv = r.card.iv
       /\ d.keys = r.card.keys /\ d.apps \subseteq r.card.apps
  BY <1>9 DEF Cards, SameSession
<1> HIDE DEF d
<1>11. Types'
  <2>1. Fits(r.host, d) BY <1>9, <1>10 DEF Fits
  <2>2. clean' \in BOOLEAN BY <1>1, <1>6, <1>9
  <2>3. QED BY <1>2, <1>6, <1>9, <1>10, <2>1, <2>2 DEF IInv, Types, Fits
<1>12. SessionAgreement'
  <2> SUFFICES ASSUME clean' PROVE Agrees(r.host, d, skipped, keptISO) BY <1>2, <1>6, Restated
  <2>1. Agrees(host, card, skipped, keptISO) /\ r.ok /\ c = card BY <1>6, Restated DEF IInv, c
  <2>2. Agrees(r.host, r.card, skipped, keptISO) BY <1>1, <1>8, <2>1, AgreesKept
  <2>3. QED BY <1>10, <2>2, AgreesWithoutKeys
<1>13. KeyTableTrue'
  <2>1. TableTrue(r.host, d, doubt) BY <1>3, <1>9, <1>10 DEF TableTrue
  <2>2. QED BY <1>2, <1>6, <2>1, Restated
<1>14. QED BY <1>11, <1>12, <1>13 DEF IInv

\* The card is reset: it has no session, which is what clean says.
LEMMA CardResetKeeps == ASSUME IInv, CardReset PROVE IInv'
<1> DEFINE d == [Unauthenticated(card) EXCEPT !.aid = 0]
<1>1. host \in Hosts /\ card \in Cards BY DEF IInv, Types
<1>2. d \in Cards /\ d.iv = <<>> /\ d.keys = card.keys /\ d.apps = card.apps
  <2>1. /\ Unauthenticated(card) \in Cards /\ SameCard(card, Unauthenticated(card))
        /\ Unauthenticated(card).iv = <<>>
    BY <1>1, UnauthenticatedFacts, BoundsAssumption
  <2>2. QED BY <2>1, SlotsAssumption DEF Cards, SameCard
<1>3. host' = host /\ card' = d /\ clean' = FALSE /\ UNCHANGED <<sessions, keptISO, doubt, skipped>>
  BY DEF CardReset
<1> HIDE DEF d
<1>4. Types'
  <2>1. Len(d.iv) <= MaxChain BY <1>2, BoundsAssumption
  <2>2. QED BY <1>2, <1>3, <2>1 DEF IInv, Types, Fits
<1>5. TableTrue(host, card, doubt) BY Restated DEF IInv
<1>6. TableTrue(host, d, doubt) BY <1>2, <1>5 DEF TableTrue
<1>7. QED BY <1>3, <1>4, <1>6, Restated DEF IInv

\* Two macs are equal only with the same key and the same vector.
LEMMA CmacInjective ==
  ASSUME NEW k, NEW l, NEW v \in Seq(Items), NEW w \in Seq(Items), NEW x,
         desfire_cmac(k, v, x) = desfire_cmac(l, w, x)
  PROVE  k = l /\ v = w
<1>1. Append(v, <<k, x>>) = Append(w, <<l, x>>) BY DEF desfire_cmac
<1>2. Len(v) \in Nat /\ Len(w) \in Nat OBVIOUS
<1>3. Len(v) = Len(w)
  <2>1. Len(Append(v, <<k, x>>)) = Len(v) + 1 /\ Len(Append(w, <<l, x>>)) = Len(w) + 1
    OBVIOUS
  <2>2. QED BY <1>1, <1>2, <2>1
<1>4. <<k, x>> = <<l, x>>
  <2>1. /\ Append(v, <<k, x>>)[Len(v) + 1] = <<k, x>>
        /\ Append(w, <<l, x>>)[Len(w) + 1] = <<l, x>>
    OBVIOUS
  <2>2. QED BY <1>1, <1>3, <2>1
<1>5. ASSUME NEW i \in 1 .. Len(v) PROVE v[i] = w[i]
  <2>1. Append(v, <<k, x>>)[i] = v[i] /\ Append(w, <<l, x>>)[i] = w[i] BY <1>3
  <2>2. QED BY <1>1, <2>1
<1>6. v = w BY <1>2, <1>3, <1>5
<1>7. QED BY <1>4, <1>6

\* The host that ciphers for ChangeKey: without the wrapper, when drop.
CipherHost(h, drop) == IF drop THEN [h EXCEPT !.iks_wrapper = NoSession] ELSE h
CipheredHost(h, drop) ==
  [Chain(CipherHost(h, drop), "command") EXCEPT !.iks_wrapper = h.iks_wrapper]

\* The cryptogram changes the vector alone, by one item.  If the card finds it
\* genuine, and there is no wrapper or the wrapper is of the card's session, then
\* the key that was used is the one that macs.
LEMMA CipheredFacts ==
  ASSUME NEW h \in Hosts, NEW drop \in BOOLEAN, NEW o, o = CipheredHost(h, drop)
  PROVE  /\ o \in Hosts /\ SameHost(h, o) /\ Len(o.lastIV) <= Len(h.lastIV) + 1
         /\ \A c \in Cards :
              /\ Genuine(CipherHost(h, drop), c)
              /\ h.iks_wrapper \in {NoSession, c.sessionKey}
              => o = Chain(h, "command")
<1> DEFINE k == CipherHost(h, drop)
           m == Chain(k, "command")
<1>1. "command" \in Said BY DEF Said
<1>2. NoSession \in Sessions BY BoundsAssumption DEF NoSession, Sessions
<1>3. /\ k \in Hosts /\ k.auth_method = h.auth_method /\ k.currentAid = h.currentAid
      /\ k.currentKeyNo = h.currentKeyNo /\ k.sessionKey = h.sessionKey
      /\ k.keys = h.keys /\ k.lastIV = h.lastIV /\ k.buf = h.buf
      /\ k.iks_wrapper = IF drop THEN NoSession ELSE h.iks_wrapper
      /\ [k EXCEPT !.iks_wrapper = h.iks_wrapper] = h
  BY <1>2 DEF CipherHost, Hosts
<1>4. o = [m EXCEPT !.iks_wrapper = h.iks_wrapper] BY DEF CipheredHost
<1> HIDE DEF k
<1>5. /\ m \in Hosts /\ SameHost(k, m) /\ Len(m.lastIV) <= Len(k.lastIV) + 1
  BY <1>1, <1>3, ChainFacts
<1>6. o \in Hosts /\ SameHost(h, o) /\ o.lastIV = m.lastIV
  <2> HIDE DEF m
  <2>1. h.iks_wrapper \in Sessions BY DEF Hosts
  <2>2. QED BY <1>3, <1>4, <1>5, <2>1 DEF Hosts, SameHost
<1>7. ASSUME NEW c \in Cards, Genuine(k, c), h.iks_wrapper \in {NoSession, c.sessionKey}
      PROVE  o = Chain(h, "command")
  <2>1. CASE h.auth_method # "ISO"
    <3>1. m = k /\ Chain(h, "command") = h BY <1>3, <2>1 DEF Chain
    <3>2. QED BY <1>3, <1>4, <3>1
  <2>2. CASE h.auth_method = "ISO"
    <3>1. m = [k EXCEPT !.lastIV = desfire_cmac(MacKey(k), h.lastIV, "command")]
      BY <1>3, <2>2 DEF Chain
    <3>2. Chain(h, "command") = [h EXCEPT !.lastIV = desfire_cmac(MacKey(h), h.lastIV, "command")]
      BY <2>2 DEF Chain
    <3>3. MacKey(k) = MacKey(h)
      <4>1. CASE ~drop \/ h.iks_wrapper = NoSession BY <1>3, <4>1 DEF MacKey
      <4>2. CASE drop /\ h.iks_wrapper # NoSession
        <5>1. c.auth = "ISO" /\ m.lastIV = desfire_cmac(c.sessionKey, c.iv, "command")
          BY <1>3, <1>7, <2>2 DEF Genuine
        <5>2. m.lastIV = desfire_cmac(MacKey(k), h.lastIV, "command")
          BY <1>1, <1>3, <2>2, ChainFacts
        <5>3. h.lastIV \in Seq(Items) /\ c.iv \in Seq(Items) BY DEF Hosts, Cards
        <5>4. MacKey(k) = c.sessionKey BY <5>1, <5>2, <5>3, CmacInjective
        <5>5. QED BY <1>7, <4>2, <5>4 DEF MacKey
      <4>3. QED BY <4>1, <4>2
    <3>4. QED
      <4> DEFINE v == desfire_cmac(MacKey(h), h.lastIV, "command")
      <4>1. o = [[k EXCEPT !.lastIV = v] EXCEPT !.iks_wrapper = h.iks_wrapper]
        BY <1>4, <3>1, <3>3
      <4>2. Chain(h, "command") = [[k EXCEPT !.iks_wrapper = h.iks_wrapper] EXCEPT !.lastIV = v]
        BY <1>3, <3>2
      <4> HIDE DEF v
      <4>3. QED BY <1>3, <4>1, <4>2 DEF Hosts
  <2>3. QED BY <2>1, <2>2
<1>8. QED BY <1>3, <1>5, <1>6, <1>7 DEF k

\* A key is changed: on the card when the card accepts the cryptogram, in the table
\* when the call returns; the slots are in doubt when only one of the two happens.
\* The card leaves its session when the key is the one it was opened with.
LEMMA ChangeKeyKeeps ==
  ASSUME IInv, NEW keyno \in KeyNos, NEW newkey \in Keys, NEW iks \in BOOLEAN,
         ChangeKey(keyno, newkey, iks)
  PROVE  IInv' /\ sessions' = sessions /\ (Counted => Counted')
<1> DEFINE slot == <<host.currentAid, keyno>>
           at == <<card.aid, keyno>>
           k == changeKey_PICC(host, keyno, newkey)
           same == k.same
           drop == ~(host.auth_method = "ISO" /\ (same \/ iks))
           hk == IF host.auth_method = "ISO" /\ (same \/ iks) THEN host
                 ELSE [host EXCEPT !.iks_wrapper = NoSession]
           h1 == [Chain(hk, "command") EXCEPT !.iks_wrapper = host.iks_wrapper]
           unsent == ~iks /\ Keyless(hk)
           accepted == /\ card.auth # "NONE" /\ at \in Slots
                       /\ Genuine(hk, card) /\ (iks => card.auth = "ISO")
                       /\ card.keyNo \in {0, keyno}
                       /\ same = (card.keyNo = keyno)
                       /\ same \/ k.old = card.keys[at]
<1>1. /\ host \in Hosts /\ card \in Cards /\ clean \in BOOLEAN /\ skipped \in BOOLEAN
      /\ HasRoom(host, card) /\ Fits(host, card) /\ doubt \subseteq Slots
  BY DEF IInv, Types, Room, HasRoom, ChangeKey
<1>2. UNCHANGED <<sessions, keptISO, skipped>> /\ slot \in Slots BY DEF ChangeKey
<1>3. TableTrue(host, card, doubt) BY Restated DEF IInv
<1> DEFINE check == host.auth_method = "ISO" /\ ~same /\ keyno # 0
           Card0(f) == CardRuns(card, f)
           Card2(f) == IF same THEN Unauthenticated(Card0(f)) ELSE Card0(f)
           Card1(f) == IF f \notin {"done", "noAnswer"} THEN Card0(f)
                       ELSE [Card2(f) EXCEPT !.keys[at] = newkey]
           Result(f) == IF f # "done" THEN Throw(h1, Card1(f))
                        ELSE IF check THEN verifyMAC(h1, Card1(f)) ELSE Return(h1, Card1(f))
           Outcome(r) ==
             /\ Ends("other", [r EXCEPT !.host = IF r.ok THEN setKey(@, slot, newkey) ELSE @])
             /\ doubt' = IF r.ok /\ slot = at THEN doubt \ {slot}
                         ELSE IF r.ok \/ r.card.keys # card.keys
                         THEN doubt \cup ({slot, at} \cap Slots) ELSE doubt
<1>4. PICK fate \in Fates :
        Outcome(IF unsent THEN Throw(host, card) ELSE Result(Fate(fate, accepted)))
  BY Zenon DEF ChangeKey
<1> DEFINE x == IF unsent THEN Throw(host, card) ELSE Result(Fate(fate, accepted))
<1>5. Outcome(x) BY <1>4, Zenon
<1>20. Counted => Counted'
  <2> HIDE DEF x
  <2>1. QED BY <1>5, EndsCounts
<1> SUFFICES IInv' /\ sessions' = sessions BY <1>20
<1>6. hk = CipherHost(host, drop) /\ h1 = CipheredHost(host, drop)
  BY DEF CipherHost, CipheredHost
<1> HIDE DEF hk, h1
<1>7. CASE unsent
  <2>1. /\ Ends("other", Throw(host, card)) /\ doubt' = doubt
    BY <1>4, <1>7 DEF Throw
  <2>2. host' = host /\ card' = card /\ clean' = FALSE /\ sessions' = sessions
    BY <1>2, <2>1 DEF Ends, Throw
  <2>3. Types' BY <1>2, <2>1, <2>2 DEF IInv, Types, Fits
  <2>4. QED BY <1>2, <1>3, <2>1, <2>2, <2>3, Restated DEF IInv
<1>8. CASE ~unsent
  <2> DEFINE f == Fate(fate, accepted)
             runs == f \in {"done", "noAnswer"}
             c0 == Card0(f)
             c2 == Card2(f)
             c1 == Card1(f)
             r == Result(f)
             b == r.ok
             g == r.host
             new == IF b THEN [g EXCEPT !.keys[slot] = newkey] ELSE g
  <2>1. runs => accepted BY DEF Fate
  <2>2. /\ h1 \in Hosts /\ SameHost(host, h1) /\ Len(h1.lastIV) <= Len(host.lastIV) + 1
        /\ Genuine(hk, card) /\ host.iks_wrapper \in {NoSession, card.sessionKey}
             => h1 = Chain(host, "command")
    <3>1. drop \in BOOLEAN OBVIOUS
    <3> HIDE DEF drop
    <3>2. QED BY <1>1, <1>6, <3>1, CipheredFacts
  <2>3. c1 = IF ~runs THEN c0 ELSE [c2 EXCEPT !.keys[at] = newkey] OBVIOUS
  <2>4. c2 = IF same THEN Unauthenticated(c0) ELSE c0 OBVIOUS
  <2>5. c0 = CardRuns(card, f) OBVIOUS
  <2>6. r = IF f # "done" THEN Throw(h1, c1)
            ELSE IF check THEN verifyMAC(h1, c1) ELSE Return(h1, c1)
    OBVIOUS
  <2>7. /\ Ends("other", [r EXCEPT !.host = IF r.ok THEN setKey(@, slot, newkey) ELSE @])
        /\ doubt' = IF r.ok /\ slot = at THEN doubt \ {slot}
                    ELSE IF r.ok \/ r.card.keys # card.keys
                    THEN doubt \cup ({slot, at} \cap Slots) ELSE doubt
    <3>1. x = r BY <1>8
    <3> HIDE DEF x, r, Outcome
    <3>2. Outcome(r) BY <1>5, <3>1
    <3>3. QED BY <3>2 DEF Outcome
  <2> HIDE DEF x, Outcome
  <2> HIDE DEF Result, Card0, Card1, Card2, accepted, f, c0, c1, c2, h1, hk, same, check
  <2>8. /\ r = [host |-> g, card |-> c1, ok |-> b] /\ b \in BOOLEAN /\ (b => f = "done")
        /\ g \in Hosts /\ SameHost(host, g) /\ Len(g.lastIV) <= MaxChain
    <3>1. /\ Len(host.lastIV) \in Nat /\ Len(h1.lastIV) \in Nat /\ MaxChain \in Nat
          /\ Len(host.lastIV) + 2 <= MaxChain
      BY <1>1, <2>2, BoundsAssumption DEF Hosts, HasRoom
    <3>2. CASE f # "done"
      <4>1. r = [host |-> h1, card |-> c1, ok |-> FALSE] BY <2>6, <3>2 DEF Throw
      <4> HIDE DEF r
      <4>2. QED BY <2>2, <3>1, <4>1
    <3>3. CASE f = "done" /\ check
      <4>1. r = verifyMAC(h1, c1) BY <2>6, <3>3
      <4> HIDE DEF r
      <4>2. /\ r = [host |-> r.host, card |-> c1, ok |-> r.ok]
            /\ r.host \in Hosts /\ SameHost(h1, r.host) /\ r.ok \in BOOLEAN
            /\ Len(r.host.lastIV) <= Len(h1.lastIV) + 1
        BY <2>2, <4>1, VerifyShape
      <4>3. Len(r.host.lastIV) \in Nat BY <4>2 DEF Hosts
      <4>4. SameHost(host, r.host) BY <2>2, <4>2 DEF SameHost
      <4>5. QED BY <2>2, <3>1, <3>3, <4>2, <4>3, <4>4
    <3>4. CASE f = "done" /\ ~check
      <4>1. r = [host |-> h1, card |-> c1, ok |-> TRUE] BY <2>6, <3>4 DEF Return
      <4> HIDE DEF r
      <4>2. QED BY <2>2, <3>1, <3>4, <4>1
    <3>5. QED BY <3>2, <3>3, <3>4
  <2> HIDE DEF r, b, g
  <2>9. /\ host' = new /\ card' = c1 /\ clean' = (b /\ clean) /\ sessions' = sessions
        /\ doubt' = IF b /\ slot = at THEN doubt \ {slot}
                    ELSE IF b \/ c1.keys # card.keys
                    THEN doubt \cup ({slot, at} \cap Slots) ELSE doubt
    <3>1. r.ok = b /\ r.host = g /\ r.card = c1 BY <2>8
    <3>2. [r EXCEPT !.host = IF r.ok THEN setKey(@, slot, newkey) ELSE @]
             = [host |-> new, card |-> c1, ok |-> b]
      <4> HIDE DEF slot
      <4>1. QED BY <2>8, <3>1 DEF setKey
    <3> HIDE DEF new
    <3>3. Ends("other", [host |-> new, card |-> c1, ok |-> b]) BY <2>7, <3>2
    <3>4. host' = new /\ card' = c1 /\ clean' = (b /\ clean) /\ sessions' = sessions
      BY <1>2, <3>3 DEF Ends
    <3>5. QED BY <2>7, <3>1, <3>4
  <2>10. /\ c0 \in Cards /\ SameCard(card, c0) /\ Len(c0.iv) <= MaxChain
         /\ f = "done" => SameSession(card, c0)
    <3>1. /\ c0 \in Cards /\ SameCard(card, c0) /\ Len(c0.iv) <= Len(card.iv) + 2
          /\ f = "done" => SameSession(card, c0)
      BY <1>1, <2>5, CardRunsFacts
    <3>2. Len(c0.iv) \in Nat /\ Len(card.iv) \in Nat /\ MaxChain \in Nat
      BY <1>1, <3>1, BoundsAssumption DEF Cards
    <3>3. QED BY <1>1, <3>1, <3>2 DEF HasRoom
  <2>11. /\ c2 \in Cards /\ c2.keys = card.keys /\ c2.apps = card.apps /\ c2.aid = card.aid
         /\ Len(c2.iv) <= MaxChain /\ (same => c2.auth = "NONE")
    <3>1. /\ Unauthenticated(c0) \in Cards /\ SameCard(c0, Unauthenticated(c0))
          /\ Unauthenticated(c0).iv = <<>> /\ Unauthenticated(c0).auth = "NONE"
      BY <2>10, UnauthenticatedFacts, BoundsAssumption
    <3>2. Len(Unauthenticated(c0).iv) <= MaxChain BY <3>1, BoundsAssumption
    <3>3. QED BY <2>4, <2>10, <3>1, <3>2 DEF SameCard
  <2>12. /\ c1 \in Cards /\ c1.apps = card.apps /\ c1.aid = card.aid /\ Len(c1.iv) <= MaxChain
         /\ c1.keys = IF runs THEN [card.keys EXCEPT ![at] = newkey] ELSE card.keys
         /\ runs => c1.auth = c2.auth /\ c1.keyNo = c2.keyNo
                    /\ c1.sessionKey = c2.sessionKey /\ c1.iv = c2.iv
    <3>1. runs => at \in Slots BY <2>1 DEF accepted
    <3> HIDE DEF runs, at
    <3>2. CASE runs BY <2>3, <2>11, <3>1, <3>2 DEF Cards
    <3>3. CASE ~runs BY <2>3, <2>10, <3>3 DEF SameCard
    <3>4. QED BY <3>2, <3>3
  <2>13. /\ new \in Hosts /\ new.auth_method = g.auth_method
         /\ new.currentAid = g.currentAid /\ new.currentKeyNo = g.currentKeyNo
         /\ new.sessionKey = g.sessionKey /\ new.iks_wrapper = g.iks_wrapper
         /\ new.lastIV = g.lastIV
         /\ new.keys = IF b THEN [host.keys EXCEPT ![slot] = newkey] ELSE host.keys
    <3> HIDE DEF slot
    <3>1. CASE b BY <1>2, <2>8, <3>1 DEF Hosts, SameHost
    <3>2. CASE ~b BY <2>8, <3>2 DEF SameHost
    <3>3. QED BY <3>1, <3>2
  <2> HIDE DEF new
  <2>14. Types'
    <3> HIDE DEF slot, at
    <3>1. doubt' \subseteq Slots BY <1>1, <1>2, <2>9
    <3>2. clean' \in BOOLEAN BY <1>1, <2>8, <2>9
    <3>3. Fits(new, c1) BY <2>8, <2>12, <2>13 DEF Fits
    <3>4. QED BY <1>2, <2>9, <2>12, <2>13, <3>1, <3>2, <3>3 DEF IInv, Types
  <2>15. SessionAgreement'
    <3> SUFFICES ASSUME clean' PROVE Agrees(new, c1, skipped, keptISO)
      BY <1>2, <2>9, Restated
    <3>1. Agrees(host, card, skipped, keptISO) /\ b BY <2>9, Restated DEF IInv
    <3>2. f = "done" /\ runs /\ accepted BY <2>1, <2>8, <3>1
    <3>3. new.currentAid = c1.aid
      BY <2>8, <2>12, <2>13, <3>1 DEF Agrees, SameHost
    <3>4. CASE same
      <4>1. c1.auth = "NONE" BY <2>11, <2>12, <3>2, <3>4
      <4>2. QED BY <3>3, <4>1 DEF Agrees
    <3>5. same \/ (c2 = c0 /\ SameSession(card, c0)) BY <2>4, <2>10, <3>2
    <3>6. CASE ~same /\ host.iks_wrapper \in {NoSession, card.sessionKey}
      <4>1. h1 = Chain(host, "command") BY <2>2, <3>2, <3>6 DEF accepted
      <4>2. keyno # 0 BY <3>2, <3>6 DEF accepted
      <4> DEFINE v == IF check THEN verifyMAC(h1, c0) ELSE Return(h1, c0)
      <4>3. c0 = CardRuns(card, "done") BY <2>5, <3>2
      <4>4. SameSession(c0, c1) /\ c1.iv = c0.iv /\ c1.aid = c0.aid
        BY <2>10, <2>12, <3>2, <3>5, <3>6 DEF SameSession, SameCard
      <4>5. v.host = g /\ v.card = c0 /\ v.ok
        <5>1. r = IF check THEN verifyMAC(h1, c1) ELSE Return(h1, c1) BY <2>6, <3>2
        <5>2. CASE ~check
          <6>1. g = h1 BY <5>1, <5>2 DEF Return, g
          <6>2. QED BY <5>2, <6>1 DEF Return
        <5>3. CASE check
          <6>1. ~h1.buf /\ r = Verified(h1, c1) BY <3>1, <5>1, <5>3 DEF verifyMAC, Throw, b
          <6>2. v = Verified(h1, c0) BY <5>3, <6>1 DEF verifyMAC
          <6> HIDE DEF v
          <6>3. r.host = Chain(h1, "reply") /\ r.ok = (Chain(h1, "reply").lastIV = c1.iv)
            BY <6>1 DEF Verified
          <6>4. v.host = Chain(h1, "reply") /\ v.card = c0
                /\ v.ok = (Chain(h1, "reply").lastIV = c0.iv)
            BY <6>2 DEF Verified
          <6>5. QED BY <3>1, <4>4, <6>3, <6>4 DEF b, g
        <5>4. QED BY <5>2, <5>3
      <4>6. Exchanged(v, host, card) /\ StaysInStep(v, host, card)
        <5>1. CASE check BY <1>1, <4>1, <4>3, <5>1, VerifyMACFacts
        <5>2. CASE ~check
          <6>1. ~BothISO(host, card) BY <3>6, <4>2, <5>2 DEF BothISO, check
          <6>2. QED BY <1>1, <4>1, <4>3, <5>2, <6>1, UnverifiedFacts
        <5>3. QED BY <5>1, <5>2
      <4> HIDE DEF v
      <4>7. Agrees(v.host, v.card, skipped, keptISO)
        BY <1>1, <3>1, <4>5, <4>6, AgreesKept
      <4>8. QED BY <2>13, <4>4, <4>5, <4>7, AgreesWithoutKeys
    <3>7. CASE ~same /\ host.iks_wrapper \notin {NoSession, card.sessionKey}
      <4>1. /\ c1.auth = card.auth /\ c1.keyNo = card.keyNo /\ c1.sessionKey = card.sessionKey
        BY <2>12, <3>2, <3>5, <3>7 DEF SameSession
      <4>2. /\ new.auth_method = host.auth_method /\ new.currentKeyNo = host.currentKeyNo
            /\ new.sessionKey = host.sessionKey /\ new.iks_wrapper = host.iks_wrapper
        BY <2>8, <2>13 DEF SameHost
      <4>3. QED BY <3>1, <3>3, <3>7, <4>1, <4>2 DEF Agrees
    <3>8. QED BY <3>4, <3>6, <3>7
  <2>16. KeyTableTrue'
    <3> SUFFICES TableTrue(new, c1, doubt') BY <2>9, Restated
    <3> SUFFICES ASSUME NEW s \in Slots \ doubt', s[1] \in c1.apps
                 PROVE  new.keys[s] = c1.keys[s]
      BY DEF TableTrue
    <3>1. s[1] \in card.apps BY <2>12
    <3>2. s \notin doubt => host.keys[s] = card.keys[s] BY <1>3, <3>1 DEF TableTrue
    <3>3. b => runs BY <2>8
    <3>4. host.keys \in [Slots -> Keys] /\ card.keys \in [Slots -> Keys]
      BY <1>1 DEF Hosts, Cards
    <3> HIDE DEF runs, slot, at
    <3>5. CASE b /\ slot = at
      <4>1. s # slot => s \notin doubt BY <2>9, <3>5
      <4>2. QED BY <1>2, <2>12, <2>13, <3>2, <3>3, <3>4, <3>5, <4>1
    <3>6. CASE ~(b /\ slot = at) /\ (b \/ c1.keys # card.keys)
      <4>1. s \notin doubt /\ s # slot /\ s # at BY <2>9, <3>6
      <4>2. QED BY <2>12, <2>13, <3>2, <3>4, <3>6, <4>1
    <3>7. CASE ~b /\ c1.keys = card.keys
      <4>1. s \notin doubt BY <2>9, <3>7
      <4>2. QED BY <2>13, <3>2, <3>7, <4>1
    <3>8. QED BY <3>5, <3>6, <3>7
  <2>17. QED BY <2>9, <2>14, <2>15, <2>16 DEF IInv
<1>9. QED BY <1>7, <1>8

-----------------------------------------------------------------------------
(***************************************************************************)
(* Authentication.                                                         *)
(***************************************************************************)

\* The host of a new session: ISO, with an empty vector, and with the session key
\* in the host or in the wrapper of the key server; or legacy.
LEMMA OpenedHostFacts ==
  ASSUME NEW h \in Hosts, NEW kind \in Kinds, NEW keyno \in KeyNos, NEW n \in Sessions,
         NEW o, o = OpenedHost(h, kind, keyno, n)
  PROVE  /\ o \in Hosts /\ o.currentKeyNo = keyno
         /\ o.currentAid = h.currentAid /\ o.keys = h.keys
         /\ kind \in Legacies =>
              /\ o.auth_method = IF kind = "LEGACY" THEN "LEGACY" ELSE h.auth_method
              /\ o.lastIV = IF kind = "LEGACY" THEN <<>> ELSE h.lastIV
              /\ o.sessionKey = n /\ o.iks_wrapper = h.iks_wrapper
         /\ kind \notin Legacies =>
              /\ o.auth_method = "ISO" /\ o.lastIV = <<>>
              /\ \/ o.sessionKey = n /\ o.iks_wrapper = h.iks_wrapper
                 \/ o.iks_wrapper = n
<1>1. NoSession \in Sessions /\ <<>> \in Seq(Items)
  BY BoundsAssumption DEF NoSession, Sessions
<1> DEFINE i == IsoSession(h, keyno, n)
<1>2. /\ i \in Hosts /\ i.currentKeyNo = keyno /\ i.currentAid = h.currentAid
      /\ i.keys = h.keys /\ i.auth_method = "ISO" /\ i.lastIV = <<>>
      /\ i.sessionKey = n /\ i.iks_wrapper = h.iks_wrapper
  BY <1>1 DEF IsoSession, Hosts
<1>3. CASE kind = "LEGACY"
  <2>1. o = authenticate_PICC2(h, keyno, n) BY <1>3 DEF OpenedHost
  <2>2. QED BY <1>1, <1>3, <2>1 DEF authenticate_PICC2, Hosts, Legacies
<1>4. CASE kind = "LEGACY_SAM"
  <2>1. o = sam_authenticate_p2(h, keyno, n) BY <1>4 DEF OpenedHost
  <2>2. QED BY <1>4, <2>1 DEF sam_authenticate_p2, Hosts, Legacies
<1>5. CASE kind = "IKS"
  <2>1. o = iks_iso_authenticate(h, keyno, n) BY <1>5 DEF OpenedHost
  <2>2. o = [i EXCEPT !.sessionKey = NoSession, !.iks_wrapper = n]
    BY <2>1 DEF iks_iso_authenticate
  <2> HIDE DEF i
  <2>3. QED BY <1>1, <1>2, <1>5, <2>2 DEF Hosts, Legacies
<1>6. CASE kind = "AES_IKS"
  <2>1. o = iks_authenticateAES(h, keyno, n) BY <1>6 DEF OpenedHost
  <2>2. o = [i EXCEPT !.sessionKey = h.sessionKey, !.iks_wrapper = n]
    BY <2>1 DEF iks_authenticateAES
  <2>3. h.sessionKey \in Sessions BY DEF Hosts
  <2> HIDE DEF i
  <2>4. QED BY <1>2, <1>6, <2>2, <2>3 DEF Hosts, Legacies
<1>7. CASE kind \in {"ISO", "SAM", "PKCS", "AES", "AES_SAM", "ISO_NATIVE"}
  <2>1. o = i
    BY <1>7 DEF OpenedHost, iso_authenticate, sam_iso_authenticate,
                pkcs_iso_authenticate, authenticateAES, authenticateISO
  <2>2. QED BY <1>2, <1>7, <2>1 DEF Legacies
<1>8. kind \in {"LEGACY", "LEGACY_SAM", "IKS", "AES_IKS", "ISO", "SAM", "PKCS", "AES",
                "AES_SAM", "ISO_NATIVE"}
  BY DEF Kinds, Legacies, Natives, IsoKinds
<1>9. QED BY <1>3, <1>4, <1>5, <1>6, <1>7, <1>8

\* The host of an authentication that failed has no session or the one before.
LEMMA FailedHostFacts ==
  ASSUME NEW h \in Hosts, NEW kind, NEW answered \in BOOLEAN,
         NEW o, o = FailedHost(h, kind, answered)
  PROVE  /\ o \in Hosts /\ o.currentAid = h.currentAid /\ o.keys = h.keys
         /\ o.lastIV \in {h.lastIV, <<>>}
<1>1. NoSession \in Sessions /\ <<>> \in Seq(Items)
  BY BoundsAssumption DEF NoSession, Sessions
<1>2. CASE kind = "LEGACY" BY <1>1, <1>2 DEF FailedHost, Hosts
<1>3. CASE kind \in Natives
  <2>1. kind # "LEGACY" BY <1>3 DEF Natives
  <2>2. QED BY <1>1, <1>3, <2>1 DEF FailedHost, Hosts
<1>4. CASE kind # "LEGACY" /\ kind \notin Natives BY <1>4 DEF FailedHost
<1>5. QED BY <1>2, <1>3, <1>4

\* What the two sides are when a session is opened: with the same number of the key
\* and session key, with empty vectors, and with the same method unless kept.
Opened(h, c, old, kept) ==
  /\ c.auth # "NONE" /\ h.currentKeyNo = c.keyNo
  /\ h.auth_method = c.auth \/ (kept /\ c.auth = "LEGACY" /\ h.auth_method = "ISO")
  /\ c.auth = "LEGACY" => h.sessionKey = c.sessionKey /\ h.iks_wrapper = old
  /\ c.auth = "ISO" => h.lastIV = <<>>
  /\ c.iv = <<>> /\ c.sessionKey # NoSession
  /\ \/ h.sessionKey = c.sessionKey /\ h.iks_wrapper = old
     \/ h.iks_wrapper = c.sessionKey

\* The exchanges of an authentication.
LEMMA HandshakeFacts ==
  ASSUME NEW h \in Hosts, NEW c \in Cards, NEW kind \in Kinds, NEW keyno \in KeyNos,
         NEW key, NEW n \in Sessions, n # NoSession, NEW fate, NEW answered \in BOOLEAN,
         Fits(h, c), NEW r, r = Handshake(h, c, kind, keyno, key, n, fate, answered)
  PROVE  /\ r.host \in Hosts /\ r.card \in Cards /\ r.ok \in BOOLEAN
         /\ Fits(r.host, r.card) /\ SameCard(c, r.card)
         /\ r.host.currentAid = h.currentAid /\ r.host.keys = h.keys
         /\ r.ok => /\ Opened(r.host, r.card, h.iks_wrapper,
                             kind = "LEGACY_SAM" /\ h.auth_method = "ISO")
                    /\ kind = "LEGACY_SAM" => r.host.lastIV = h.lastIV
                    /\ <<c.aid, keyno>> \in Slots /\ c.keys[<<c.aid, keyno>>] = key
<1> DEFINE right == /\ <<c.aid, keyno>> \in Slots
                    /\ c.keys[<<c.aid, keyno>>] = key
                    /\ kind \in IsoKinds =>
                          (keyno = 0 => (h.currentAid = 0) = (c.aid = 0))
           c1 == IF ~answered /\ fate = "noCommand" THEN c ELSE Unauthenticated(c)
           h2 == OpenedHost(h, kind, keyno, n)
           c2 == OpenedCard(c1, kind, keyno, n)
           b  == right /\ fate = "done"
           g  == IF b THEN h2 ELSE FailedHost(h, kind, answered)
           d  == IF b \/ (right /\ fate = "noAnswer" /\ answered) THEN c2 ELSE c1
<1>1. r = [host |-> g, card |-> d, ok |-> b]
  <2> HIDE DEF right, c1, c2, h2
  <2>1. CASE right /\ fate = "done" BY <2>1 DEF Handshake, Return, right, c1, c2, h2
  <2>2. CASE right /\ fate = "noAnswer" /\ answered
    <3>1. r = Throw(FailedHost(h, kind, TRUE), c2)
      BY <2>2 DEF Handshake, right, c1, c2
    <3>2. answered = TRUE BY <2>2
    <3>3. QED BY <2>2, <3>1, <3>2 DEF Throw
  <2>3. CASE ~(right /\ fate = "done") /\ ~(right /\ fate = "noAnswer" /\ answered)
    <3>1. r = Throw(FailedHost(h, kind, answered), c1)
      BY <2>3 DEF Handshake, right, c1
    <3>2. QED BY <2>3, <3>1 DEF Throw
  <2>4. QED BY <2>1, <2>2, <2>3
<1>2. c1 \in Cards /\ SameCard(c, c1) /\ Len(c1.iv) <= MaxChain
  <2>1. /\ Unauthenticated(c) \in Cards /\ SameCard(c, Unauthenticated(c))
        /\ Unauthenticated(c).iv = <<>>
    BY UnauthenticatedFacts, BoundsAssumption
  <2>2. Len(Unauthenticated(c).iv) <= MaxChain BY <2>1, BoundsAssumption
  <2>3. SameCard(c, c) BY DEF SameCard
  <2>4. QED BY <2>1, <2>2, <2>3 DEF Fits
<1> HIDE DEF c1
<1>3. /\ c2 \in Cards /\ SameCard(c, c2) /\ c2.iv = <<>> /\ c2.keyNo = keyno
      /\ c2.sessionKey = n /\ c2.auth = IF kind \in Legacies THEN "LEGACY" ELSE "ISO"
  <2>1. <<>> \in Seq(Items) OBVIOUS
  <2>2. QED BY <1>2, <2>1 DEF OpenedCard, Cards, SameCard
<1>4. Len(c2.iv) <= MaxChain BY <1>3, BoundsAssumption
<1>5. /\ h2 \in Hosts /\ h2.currentKeyNo = keyno
      /\ h2.currentAid = h.currentAid /\ h2.keys = h.keys
      /\ kind \in Legacies =>
           /\ h2.auth_method = IF kind = "LEGACY" THEN "LEGACY" ELSE h.auth_method
           /\ h2.lastIV = IF kind = "LEGACY" THEN <<>> ELSE h.lastIV
           /\ h2.sessionKey = n /\ h2.iks_wrapper = h.iks_wrapper
      /\ kind \notin Legacies =>
           /\ h2.auth_method = "ISO" /\ h2.lastIV = <<>>
           /\ \/ h2.sessionKey = n /\ h2.iks_wrapper = h.iks_wrapper
              \/ h2.iks_wrapper = n
  BY OpenedHostFacts
<1> HIDE DEF c2, h2
<1>6. Len(h2.lastIV) <= MaxChain BY <1>5, BoundsAssumption DEF Fits
<1> DEFINE kept == kind = "LEGACY_SAM" /\ h.auth_method = "ISO"
<1>7. Opened(h2, c2, h.iks_wrapper, kept) /\ (kind = "LEGACY_SAM" => h2.lastIV = h.lastIV)
  <2>1. kind \in Legacies => kind \in {"LEGACY", "LEGACY_SAM"} BY DEF Legacies
  <2>2. kind = "LEGACY_SAM" => kind \in Legacies BY DEF Legacies
  <2>3. h.auth_method \in {"LEGACY", "ISO"} BY DEF Hosts
  <2>4. QED BY <1>3, <1>5, <2>1, <2>2, <2>3 DEF Opened
<1>8. /\ FailedHost(h, kind, answered) \in Hosts
      /\ FailedHost(h, kind, answered).currentAid = h.currentAid
      /\ FailedHost(h, kind, answered).keys = h.keys
      /\ FailedHost(h, kind, answered).lastIV \in {h.lastIV, <<>>}
  BY FailedHostFacts
<1>9. b \in BOOLEAN /\ (b => <<c.aid, keyno>> \in Slots /\ c.keys[<<c.aid, keyno>>] = key)
  OBVIOUS
<1> HIDE DEF right, b
<1>10. /\ g \in Hosts /\ g.currentAid = h.currentAid /\ g.keys = h.keys
       /\ Len(g.lastIV) <= MaxChain
  BY <1>5, <1>6, <1>8, BoundsAssumption DEF Fits
<1>11. d \in Cards /\ SameCard(c, d) /\ Len(d.iv) <= MaxChain BY <1>2, <1>3, <1>4
<1> HIDE DEF kept
<1>12. b => Opened(g, d, h.iks_wrapper, kept) /\ (kind = "LEGACY_SAM" => g.lastIV = h.lastIV)
  BY <1>7
<1> HIDE DEF g, d
<1>13. r.host = g /\ r.card = d /\ r.ok = b BY <1>1
<1>14. QED BY <1>9, <1>10, <1>11, <1>12, <1>13 DEF Fits, kept

\* The identifier is read in a legacy session without a vector.
LEMMA ReadInLegacy ==
  ASSUME NEW h \in Hosts, NEW c \in Cards, NEW f, Fits(h, c),
         h.auth_method # "ISO", c.auth # "ISO",
         NEW r, r = getCardUID(h, c, f)
  PROVE  Fits(r.host, r.card)
<1>1. Chain(h, "command") = h BY DEF Chain
<1>2. r.host.lastIV = h.lastIV /\ r.card = CardRuns(c, f)
  <2> DEFINE t == TakeAnswer(h, c, f, "ENCRYPT")
  <2>1. t.host = h /\ t.card = CardRuns(c, f) BY <1>1 DEF TakeAnswer, Throw, Return
  <2>2. r.host.lastIV = t.host.lastIV /\ r.card = t.card
    BY ReadUIDFacts
  <2>3. QED BY <2>1, <2>2
<1>3. Unauthenticated(c).iv = <<>> BY UnauthenticatedFacts, BoundsAssumption
<1>4. CardRuns(c, f) \in {c, Unauthenticated(c)} BY DEF CardRuns
<1>5. Len(CardRuns(c, f).iv) <= MaxChain BY <1>3, <1>4, BoundsAssumption DEF Fits
<1>6. QED BY <1>2, <1>5 DEF Fits

\* What AuthenticateRestores says of a step.
Restored ==
  (sessions' # sessions /\ thrown' = thrown /\ host.iks_wrapper = NoSession) =>
    /\ \/ host'.auth_method = card'.auth
       \/ keptISO' /\ hasRealUID
    /\ MacKey(host') = card'.sessionKey
    /\ card'.auth = "ISO" => host'.lastIV = card'.iv

\* An authentication, with the identifier that is read after it: the key is in the
\* table before it is tried, and in doubt when it was not found to be the card's.
LEMMA AuthenticateKeeps ==
  ASSUME IInv, thrown \in Nat, NEW kind \in Kinds, NEW keyno \in KeyNos, NEW key \in Keys,
         Authenticate(kind, keyno, key)
  PROVE  IInv' /\ Restored
<1> DEFINE slot == <<host.currentAid, keyno>>
           n == sessions + 1
           h0 == setKey(host, slot, key)
<1>1. /\ host \in Hosts /\ card \in Cards /\ clean \in BOOLEAN /\ skipped \in BOOLEAN
      /\ Fits(host, card) /\ doubt \subseteq Slots /\ sessions \in Sessions
      /\ keptISO \in BOOLEAN
  BY DEF IInv, Types
<1>2. slot \in Slots /\ sessions < MaxSessions BY DEF Authenticate
<1>3. n \in Sessions /\ n # NoSession
  BY <1>1, <1>2, BoundsAssumption DEF Sessions, NoSession
<1>4. TableTrue(host, card, doubt) BY Restated DEF IInv
<1>5. PICK fate \in Fates, answered \in BOOLEAN,
           uidFate \in IF hasRealUID THEN {"done"} ELSE Fates :
        LET r1 == Handshake(h0, card, kind, keyno, key, n, fate, answered)
            r2 == IF kind \in Natives THEN r1 ELSE onAuthenticated(r1, uidFate)
        IN  /\ fate # "done" => uidFate = "done"
            /\ Ends("authenticate", r2)
            /\ hasRealUID' = (hasRealUID \/ (r2.ok /\ kind \notin Natives))
            /\ skipped' = (skipped /\ ~r1.ok)
            /\ keptISO' = IF r1.ok THEN kind = "LEGACY_SAM" /\ host.auth_method = "ISO"
                          ELSE keptISO
            /\ doubt' = IF r1.ok /\ card.aid = host.currentAid THEN doubt \ {slot}
                        ELSE IF key = host.keys[slot] THEN doubt
                        ELSE doubt \cup {slot}
            /\ sessions' = IF r1.card.sessionKey = n THEN n ELSE sessions
  BY DEF Authenticate
<1> DEFINE r1 == Handshake(h0, card, kind, keyno, key, n, fate, answered)
           u  == getCardUID(r1.host, r1.card, uidFate)
           kept == kind = "LEGACY_SAM" /\ host.auth_method = "ISO"
           r2 == IF kind \notin Natives /\ r1.ok /\ ~hasRealUID THEN u ELSE r1
<1>6. /\ Ends("authenticate", r2)
      /\ skipped' = (skipped /\ ~r1.ok)
      /\ keptISO' = IF r1.ok THEN kept ELSE keptISO
      /\ doubt' = IF r1.ok /\ card.aid = host.currentAid THEN doubt \ {slot}
                  ELSE IF key = host.keys[slot] THEN doubt
                  ELSE doubt \cup {slot}
      /\ sessions' = IF r1.card.sessionKey = n THEN n ELSE sessions
  BY <1>5 DEF onAuthenticated
<1>7. /\ h0 \in Hosts /\ h0.keys = [host.keys EXCEPT ![slot] = key]
      /\ h0.currentAid = host.currentAid /\ h0.iks_wrapper = host.iks_wrapper
      /\ h0.lastIV = host.lastIV /\ h0.auth_method = host.auth_method
  <2> HIDE DEF slot
  <2>1. QED BY <1>1, <1>2 DEF setKey, Hosts
<1> HIDE DEF h0, slot, n
<1>8. /\ r1.host \in Hosts /\ r1.card \in Cards /\ r1.ok \in BOOLEAN
      /\ Fits(r1.host, r1.card) /\ SameCard(card, r1.card)
      /\ r1.host.currentAid = host.currentAid /\ r1.host.keys = h0.keys
      /\ r1.ok => /\ Opened(r1.host, r1.card, host.iks_wrapper, kept)
                  /\ kind = "LEGACY_SAM" => r1.host.lastIV = host.lastIV
                  /\ <<card.aid, keyno>> \in Slots /\ card.keys[<<card.aid, keyno>>] = key
  <2>1. Fits(h0, card) BY <1>1, <1>7 DEF Fits
  <2>2. QED BY <1>1, <1>3, <1>7, <2>1, HandshakeFacts
<1> HIDE DEF r1
<1>9. /\ Exchanged(u, r1.host, r1.card) /\ StaysInStep(u, r1.host, r1.card)
      /\ u.ok /\ BothISO(r1.host, r1.card) => u.host.lastIV = u.card.iv
  BY <1>8, ReadUIDFacts
<1>10. r1.ok => Fits(u.host, u.card)
  <2> SUFFICES ASSUME r1.ok PROVE Fits(u.host, u.card) OBVIOUS
  <2>1. Opened(r1.host, r1.card, host.iks_wrapper, kept) BY <1>8
  <2>2. CASE r1.card.auth = "ISO"
    <3>1. r1.host.lastIV = <<>> /\ r1.card.iv = <<>> BY <2>1, <2>2 DEF Opened
    <3>2. HasRoom(r1.host, r1.card) BY <3>1, BoundsAssumption DEF HasRoom
    <3>3. QED BY <1>9, <3>2 DEF Exchanged
  <2>3. CASE r1.card.auth # "ISO" /\ ~kept
    <3>1. r1.host.auth_method # "ISO" BY <2>1, <2>3 DEF Opened
    <3>2. QED BY <1>8, <2>3, <3>1, ReadInLegacy
  <2>4. CASE kept
    <3>1. HasRoom(host, card) BY <2>4 DEF Authenticate, Room, HasRoom
    <3>2. r1.host.lastIV = host.lastIV /\ r1.card.iv = <<>> BY <1>8, <2>1, <2>4 DEF Opened
    <3>3. HasRoom(r1.host, r1.card) BY <3>1, <3>2, BoundsAssumption DEF HasRoom
    <3>4. QED BY <1>9, <3>3 DEF Exchanged
  <2>5. QED BY <2>2, <2>3, <2>4
<1> DEFINE t == TakeAnswer(r1.host, r1.card, uidFate, "ENCRYPT")
<1>11. u.ok = t.ok BY <1>8, ReadUIDFacts
<1> HIDE DEF u
<1>12. /\ r2.host \in Hosts /\ r2.card \in Cards /\ r2.ok \in BOOLEAN
       /\ Fits(r2.host, r2.card) /\ (r2.ok => r1.ok)
       /\ r2.host.keys = h0.keys /\ r2.card.keys = card.keys /\ r2.card.apps = card.apps
  BY <1>8, <1>9, <1>10 DEF Exchanged, SameHost, SameCard
<1>13. host' = r2.host /\ card' = r2.card /\ clean' = (r2.ok /\ clean)
       /\ (thrown' = thrown => r2.ok)
  <2> HIDE DEF r2
  <2>1. QED BY <1>6, <1>12 DEF Ends, Counts
<1>14. Types'
  <2>1. doubt' \subseteq Slots BY <1>1, <1>2, <1>6
  <2>2. sessions' \in Sessions BY <1>1, <1>3, <1>6
  <2>3. clean' \in BOOLEAN /\ skipped' \in BOOLEAN /\ keptISO' \in BOOLEAN
    BY <1>1, <1>6, <1>8, <1>12, <1>13
  <2> HIDE DEF r2
  <2>4. QED BY <1>12, <1>13, <2>1, <2>2, <2>3 DEF Types, Fits
<1>15. SessionAgreement'
  <2> SUFFICES ASSUME clean' PROVE Agrees(r2.host, r2.card, skipped', keptISO')
    BY <1>13, Restated
  <2>1. Agrees(host, card, skipped, keptISO) /\ r2.ok /\ r1.ok
    BY <1>12, <1>13, Restated DEF IInv
  <2>2. skipped' = FALSE /\ keptISO' = kept BY <1>1, <1>6, <2>1
  <2>3. r1.host.currentAid = r1.card.aid BY <1>8, <2>1 DEF Agrees, SameCard
  <2>4. Opened(r1.host, r1.card, host.iks_wrapper, kept) BY <1>8, <2>1
  <2> HIDE DEF kept
  <2>5. Agrees(r1.host, r1.card, FALSE, kept)
    <3>1. CASE r1.host.sessionKey = r1.card.sessionKey
      BY <2>3, <2>4, <3>1 DEF Opened, Agrees, MacKey
    <3>2. CASE r1.host.iks_wrapper = r1.card.sessionKey
      BY <2>3, <2>4, <3>2 DEF Opened, Agrees, MacKey
    <3>3. QED BY <2>4, <3>1, <3>2 DEF Opened
  <2>6. u.ok => Agrees(u.host, u.card, FALSE, kept) BY <1>8, <1>9, <2>5, AgreesKept
  <2>7. QED BY <2>1, <2>2, <2>5, <2>6
<1>16. KeyTableTrue'
  <2> SUFFICES TableTrue(r2.host, r2.card, doubt') BY <1>13, Restated
  <2> SUFFICES ASSUME NEW s \in Slots \ doubt', s[1] \in card.apps
               PROVE  h0.keys[s] = card.keys[s]
    BY <1>12 DEF TableTrue
  <2>1. s \notin doubt => host.keys[s] = card.keys[s] BY <1>4 DEF TableTrue
  <2>2. host.keys \in [Slots -> Keys] BY <1>1 DEF Hosts
  <2>3. CASE r1.ok /\ card.aid = host.currentAid
    <3>1. card.keys[slot] = key BY <1>8, <2>3 DEF slot
    <3>2. s # slot => s \notin doubt BY <1>6, <2>3
    <3>3. QED BY <1>7, <2>1, <2>2, <3>1, <3>2
  <2>4. CASE ~(r1.ok /\ card.aid = host.currentAid) /\ key = host.keys[slot]
    <3>1. s \notin doubt BY <1>6, <2>4
    <3>2. QED BY <1>2, <1>7, <2>1, <2>2, <2>4, <3>1
  <2>5. CASE ~(r1.ok /\ card.aid = host.currentAid) /\ key # host.keys[slot]
    <3>1. s \notin doubt /\ s # slot BY <1>6, <2>5
    <3>2. QED BY <1>7, <2>1, <2>2, <3>1
  <2>6. QED BY <2>3, <2>4, <2>5
<1>17. Restored
  <2> SUFFICES ASSUME thrown' = thrown, host.iks_wrapper = NoSession
               PROVE  /\ r2.host.auth_method = r2.card.auth \/ (kept /\ hasRealUID)
                      /\ MacKey(r2.host) = r2.card.sessionKey
                      /\ r2.card.auth = "ISO" => r2.host.lastIV = r2.card.iv
    BY <1>6, <1>12, <1>13 DEF Restored
  <2>1. r2.ok /\ Opened(r1.host, r1.card, NoSession, kept) BY <1>8, <1>12, <1>13
  <2>2. /\ MacKey(r1.host) = r1.card.sessionKey
        /\ r1.card.auth = "ISO" => r1.host.lastIV = r1.card.iv
    BY <2>1 DEF Opened, MacKey
  <2>3. CASE r2 = r1 /\ (r1.host.auth_method = r1.card.auth \/ hasRealUID)
    BY <2>1, <2>2, <2>3 DEF Opened
  <2>6. ASSUME r1.host.auth_method # r1.card.auth, ~hasRealUID PROVE FALSE
    <3>1. r1.card.auth = "LEGACY" /\ r1.host.auth_method = "ISO" /\ r1.card.iv = <<>>
          /\ kind = "LEGACY_SAM"
      BY <2>1, <2>6 DEF Opened, kept
    <3>2. ~t.ok BY <1>8, <3>1, ReadMixed
    <3>3. kind \notin Natives BY <3>1 DEF Natives
    <3>4. r2 = u BY <1>12, <2>1, <2>6, <3>3
    <3>5. QED BY <1>11, <2>1, <3>2, <3>4
  <2>4. CASE r2 = u /\ ~hasRealUID
    <3>0. r1.host.auth_method = r1.card.auth BY <2>4, <2>6
    <3>1. u.ok /\ SameHost(r1.host, u.host) /\ SameSession(r1.card, u.card)
      BY <1>9, <2>1, <2>4 DEF Exchanged
    <3>2. MacKey(u.host) = MacKey(r1.host) BY <3>1 DEF SameHost, MacKey
    <3>3. u.card.auth = "ISO" => u.host.lastIV = u.card.iv
      BY <1>9, <3>0, <3>1 DEF BothISO, SameSession
    <3>4. QED BY <2>2, <2>4, <3>0, <3>1, <3>2, <3>3 DEF SameHost, SameSession
  <2>5. QED BY <2>3, <2>4, <2>6
<1>18. QED BY <1>14, <1>15, <1>16, <1>17 DEF IInv

-----------------------------------------------------------------------------
(***************************************************************************)
(* The theorems.                                                           *)
(***************************************************************************)

LEMMA ThrownCounted == IInv /\ Counted /\ [Next]_vars => Counted'
<1> SUFFICES ASSUME IInv, Counted, [Next]_vars PROVE Counted' OBVIOUS
<1>1. \A ok : Counts(ok) => Counted' BY DEF Counts, Counted
<1>2. \A op, r : Ends(op, r) => Counted' BY EndsCounts
<1>3. CASE Transmits \/ ListInFrames \/ GetVersion \/ Read \/ Write
  BY <1>2, <1>3 DEF Transmits, ListInFrames, GetVersion, Read, Write
<1>4. ASSUME NEW key, ChangeSettings \/ ChangeFileSettingsPlain \/ SetConfiguration(key)
      PROVE  Counted'
  BY <1>2, <1>4 DEF ChangeSettings, ChangeFileSettingsPlain, SetConfiguration
<1>5. ASSUME NEW aid, SelectApplication(aid) PROVE Counted'
  BY <1>2, <1>5, Zenon DEF SelectApplication
<1>6. ASSUME NEW aids, NEW allowed, Delete(aids, allowed) PROVE Counted'
  BY <1>1, <1>6 DEF Delete
<1>7. ASSUME NEW aid \in Aids, NEW defaults \in BOOLEAN, CreateApplication(aid, defaults)
      PROVE  Counted'
  BY <1>7, CreateKeeps
<1>8. ASSUME NEW keyno \in KeyNos, NEW key \in Keys, NEW iks \in BOOLEAN,
             ChangeKey(keyno, key, iks)
      PROVE  Counted'
  BY <1>8, ChangeKeyKeeps
<1>9. ASSUME NEW kind, NEW keyno, NEW key, Authenticate(kind, keyno, key)
      PROVE  Counted'
  BY <1>2, <1>9 DEF Authenticate
<1>10. CASE CardReset BY <1>1, <1>10 DEF CardReset
<1>11. CASE UNCHANGED vars BY <1>11 DEF vars, Counted
<1>12. QED
  BY <1>3, <1>4, <1>5, <1>6, <1>7, <1>8, <1>9, <1>10, <1>11
     DEF Next, DeleteApplication, Erase

\* Every operation keeps the invariant, and an authentication restores the session.
LEMMA StepKeeps == Counted /\ IInv /\ [Next]_vars => IInv' /\ [Restored]_vars
<1> SUFFICES ASSUME thrown \in Nat, IInv, [Next]_vars PROVE IInv' /\ [Restored]_vars
  BY DEF Counted
<1>1. CASE Transmits
  BY <1>1, TransmitsKeeps DEF Transmits, Keep, Restored
<1>2. CASE ListInFrames
  BY <1>2, TransmitsKeeps DEF ListInFrames, Restored
<1>3. CASE Read
  BY <1>3, ReadWriteKeeps DEF Read, Keep, Restored
<1>4. CASE Write \/ GetVersion
  BY <1>4, ReadWriteKeeps DEF Write, GetVersion, Keep, Restored
<1>5. CASE ChangeSettings
  BY <1>5, KeysAssumption, SettingsKeeps DEF ChangeSettings, Keep, Restored
<1>6. ASSUME NEW key \in Keys, SetConfiguration(key) PROVE IInv' /\ Restored
  BY <1>6, SettingsKeeps DEF SetConfiguration, Restored
<1>7. CASE ChangeFileSettingsPlain
  BY <1>7, KeysAssumption, SettingsKeeps DEF ChangeFileSettingsPlain, Restored
<1>8. ASSUME NEW aid \in Aids, SelectApplication(aid) PROVE IInv' /\ Restored
  BY <1>8, SelectKeeps DEF SelectApplication, Restored
<1>9. ASSUME NEW aid \in Aids, NEW defaults \in BOOLEAN, CreateApplication(aid, defaults)
      PROVE  IInv' /\ Restored
  BY <1>9, CreateKeeps DEF Restored
<1>10. ASSUME NEW aids, NEW allowed, Delete(aids, allowed) PROVE IInv' /\ Restored
  <2>1. sessions' = sessions BY <1>10 DEF Delete, Keep
  <2>2. QED BY <1>10, <2>1, DeleteKeeps DEF Restored
<1>11. ASSUME NEW keyno \in KeyNos, NEW key \in Keys, NEW iks \in BOOLEAN,
              ChangeKey(keyno, key, iks)
       PROVE  IInv' /\ Restored
  BY <1>11, ChangeKeyKeeps DEF Restored
<1>12. CASE CardReset
  <2>1. sessions' = sessions BY <1>12 DEF CardReset
  <2>2. QED BY <1>12, <2>1, CardResetKeeps DEF Restored
<1>13. CASE UNCHANGED vars
  BY <1>13 DEF vars, IInv, Types, Fits, SessionAgreement, KeyTableTrue, MacKey
<1>14. QED
  BY <1>1, <1>2, <1>3, <1>4, <1>5, <1>6, <1>7, <1>8, <1>9, <1>10, <1>11, <1>12, <1>13,
     AuthenticateKeeps
     DEF Next, DeleteApplication, Erase

\* The invariant holds in every state.
THEOREM InductiveInvariant == Spec => []IInv
<1>1. Init => Counted BY DEF Init, Counted
<1>2. QED BY <1>1, InitInvariant, ThrownCounted, StepKeeps, PTL DEF Spec

\* The fields of DESFireCrypto and of the card have their types, and no vector
\* grows past its bound.
THEOREM TypeCorrect == Spec => []TypeOK
<1>1. IInv => TypeOK BY DEF IInv, Types, Fits, Hosts, Cards, TypeOK
<1>2. QED BY <1>1, InductiveInvariant, PTL

\* Until something is thrown or the card is reset, DESFireCrypto and the card agree
\* on the application, the method, the key, the session key and the vector.
THEOREM HostAndCardAgree == Spec => []SessionAgreement
<1>1. IInv => SessionAgreement BY DEF IInv
<1>2. QED BY <1>1, InductiveInvariant, PTL

\* The host's table of keys says what the card has, for every slot that no call
\* left in doubt.
THEOREM KeyTableIsTrue == Spec => []KeyTableTrue
<1>1. IInv => KeyTableTrue BY DEF IInv
<1>2. QED BY <1>1, InductiveInvariant, PTL

\* An authentication that returns leaves both sides in the same session with the
\* same vector, whatever went wrong before.
THEOREM SessionRestored == Spec => AuthenticateRestores
<1>1. Init => Counted BY DEF Init, Counted
<1>2. Spec => [][Restored]_vars
  BY <1>1, InitInvariant, ThrownCounted, StepKeeps, InductiveInvariant, PTL DEF Spec
<1>3. QED BY <1>2 DEF AuthenticateRestores, Restored
=============================================================================
