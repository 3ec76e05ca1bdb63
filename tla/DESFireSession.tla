--------------------------- MODULE DESFireSession ---------------------------
(***************************************************************************)
(* The secure session of a DESFire EV1 card: the state that DESFireCrypto  *)
(* keeps for the host, the commands of DESFireISO7816Commands and          *)
(* DESFireEV1ISO7816Commands that read and change it, and the card, which  *)
(* keeps a state of its own that must stay equal to the host's.            *)
(*                                                                         *)
(* In an ISO session both sides chain the initialisation vector through    *)
(* every command and every reply.  A CMAC is a value that only the same    *)
(* key, the same vector and the same bytes give, so a vector is the        *)
(* sequence of what went into it since the authentication: commands and    *)
(* replies, whose bytes may always be the same, and the keys.              *)
(*                                                                         *)
(* An operation is an action.  Its exchanges with the card are synchronous *)
(* and each has a fate: done, refused by the card, or lost on the way to   *)
(* the card or on the way back, which the reader reports by an exception.  *)
(***************************************************************************)
EXTENDS Naturals, Sequences, FiniteSets

CONSTANTS Keys,          \* values of keys
          DefaultKey,    \* the key of getDefaultKey: zeroes
          Aids,          \* applications; 0 is the card itself
          KeyNos,        \* numbers of keys; 0 is the master key
          MaxSessions,   \* bound: authentications that a card accepts
          MaxChain,      \* bound: items chained in an initialisation vector
          MaxThrown      \* bound: calls that throw, and resets of the card

ASSUME KeysAssumption == DefaultKey \in Keys
ASSUME SlotsAssumption == 0 \in Aids /\ 0 \in KeyNos
\* A vector has room for the identifier that an authentication reads.
ASSUME BoundsAssumption == {MaxSessions, MaxChain, MaxThrown} \subseteq Nat /\ MaxChain >= 2

VARIABLES host,      \* the fields of DESFireCrypto
          hasRealUID,\* DESFireChip::hasRealUID
          card,      \* the card
          sessions,  \* the number of sessions that the card has opened
          thrown,    \* the number of exceptions and resets
          clean,     \* since the last selectApplication nothing was thrown
          skipped,   \* in this session a reply's CMAC was left out
          keptISO,   \* in this session the SAM's legacy authentication left CM_ISO
          doubt      \* the slots whose key the host cannot know

vars == <<host, hasRealUID, card, sessions, thrown, clean, skipped, keptISO,
          doubt>>

Slots == {s \in Aids \X KeyNos : s[1] = 0 => s[2] = 0}
NoSession == 0
Sessions == 0 .. MaxSessions
Modes == {"PLAIN", "MAC", "ENCRYPT"}

\* What may become of an exchange; when the bound is reached it is done.
Fates == IF thrown < MaxThrown
         THEN {"done", "refused", "noCommand", "noAnswer"} ELSE {"done"}
-----------------------------------------------------------------------------
(* DESFireCrypto *)

\* The key that macs and deciphers: the key server's, when there is a wrapper.
MacKey(h) == IF h.iks_wrapper # NoSession THEN h.iks_wrapper ELSE h.sessionKey

desfire_cmac(key, iv, x) == Append(iv, <<key, x>>)

\* The host macs a command or a reply, or enciphers it: the vector becomes the last block.
Chain(h, x) ==
    IF h.auth_method = "ISO"
    THEN [h EXCEPT !.lastIV = desfire_cmac(MacKey(h), @, x)] ELSE h

\* The bytes of an enciphered answer stay in d_buf; initBuf and verifyMAC clear it.
initBuf(h) == [h EXCEPT !.buf = FALSE]

\* The host would have to compute with a session key that is empty: the ciphers throw.
Keyless(h) == h.sessionKey = NoSession /\ (h.auth_method = "ISO" => h.iks_wrapper = NoSession)

\* Mutant: the card's master key is stored under the number that is sent, which
\* has the type of the key in its upper bits.
setKey_WithType(h, slot, key) ==
    LET s == IF slot = <<0, 0>> THEN <<0, 128>> ELSE slot
    IN  [h EXCEPT !.keys = [t \in Slots \cup {s} |-> IF t = s THEN key ELSE @[t]]]

setKey(h, slot, key) == [h EXCEPT !.keys[slot] = key]

\* Mutant: the table is left as it was.
createApplicationKeys_Keeps(h, aid) == h

createApplicationKeys(h, aid) ==
    [h EXCEPT !.keys = [s \in Slots |-> IF s[1] = aid THEN DefaultKey ELSE @[s]]]

\* In CM_LEGACY the vector is not used; initBuf clears it, and what it was is
\* forgotten here as soon as the method is CM_LEGACY.
SelectedHost(h, aid) ==
    [h EXCEPT !.currentAid = aid, !.auth_method = "LEGACY", !.lastIV = <<>>,
              !.currentKeyNo = 0, !.sessionKey = NoSession]

\* What a cryptogram of ChangeKey says: the old key is mixed in, unless the key
\* is the one that the session was opened with.
changeKey_PICC(h, keyno, newkey) ==
    [same |-> keyno = h.currentKeyNo,
     old  |-> h.keys[<<h.currentAid, keyno>>], new |-> newkey]
-----------------------------------------------------------------------------
(* The card, as the commands use it *)

Unauthenticated(c) ==
    [c EXCEPT !.auth = "NONE", !.keyNo = 0, !.sessionKey = NoSession, !.iv = <<>>]

\* It chains the command and its reply; a refusal ends the session.
CardRuns(c, fate) ==
    IF fate = "noCommand" THEN c
    ELSE IF fate = "refused" THEN Unauthenticated(c)
    ELSE IF c.auth = "ISO"
    THEN [c EXCEPT !.iv = desfire_cmac(c.sessionKey,
                              desfire_cmac(c.sessionKey, @, "command"), "reply")]
    ELSE c

\* A command that the card does not accept is refused, if it reaches the card.
Fate(fate, accepted) ==
    IF fate # "noCommand" /\ ~accepted THEN "refused" ELSE fate

\* The card finds that the host maced or enciphered the command in the session it is in.
Genuine(h, c) ==
    /\ h.auth_method = c.auth
    /\ IF c.auth = "ISO"
       THEN Chain(h, "command").lastIV = desfire_cmac(c.sessionKey, c.iv, "command")
       ELSE h.sessionKey = c.sessionKey
-----------------------------------------------------------------------------
(* The ways to send a command.  Each gives the host and the card afterwards *)
(* and whether the call returned.                                           *)

Return(h, c) == [host |-> h, card |-> c, ok |-> TRUE]
Throw(h, c)  == [host |-> h, card |-> c, ok |-> FALSE]

\* The host macs the reply and compares: the end of transmit.
Verified(h, c) ==
    LET h1 == Chain(h, "reply")
    IN  [host |-> h1, card |-> c, ok |-> h1.lastIV = c.iv]

\* The reply is appended to d_buf and the whole of it is maced.
verifyMAC(h, c) ==
    IF h.buf THEN Throw(initBuf(Chain(h, "joined")), c) ELSE Verified(h, c)

\* long: the reply has eight bytes or more though the card adds no CMAC.
transmit(h, c, fate, long) ==
    LET h1 == Chain(h, "command")
        c1 == CardRuns(c, fate)
    IN  CASE fate # "done" -> Throw(h1, c1)
          [] fate = "done" /\ h.auth_method = "ISO" /\ (c.auth = "ISO" \/ long) ->
               Verified(h1, c1)
          [] OTHER -> Return(h1, c1)

\* A list in several frames: no frame's CMAC is looked at.
transmitFrames(h, c, fate) ==
    LET h1 == Chain(h, "command")
        c1 == CardRuns(c, fate)
    IN  IF fate = "done" THEN Return(h1, c1) ELSE Throw(h1, c1)

\* getVersion does not call initBuf.
getVersion(h, c, fate) ==
    LET h1 == Chain(h, "command")
        c1 == CardRuns(c, fate)
    IN  CASE fate # "done" -> Throw(h1, c1)
          [] fate = "done" /\ h.auth_method = "ISO" -> verifyMAC(h1, c1)
          [] OTHER -> Return(h1, c1)

\* The answer to a read is taken: deciphering takes the card's last block for the
\* vector before it looks at the CRC.
TakeAnswer(h, c, fate, mode) ==
    LET h1 == Chain(h, "command")
        c1 == CardRuns(c, fate)
        v  == Verified(h1, c1)
    IN  CASE fate # "done" -> Throw(h1, c1)
          [] fate = "done" /\ h.auth_method = "ISO" /\ mode # "ENCRYPT" -> v
          [] fate = "done" /\ h.auth_method = "ISO" /\ mode = "ENCRYPT" ->
               [v EXCEPT !.host.lastIV =
                    IF c.auth = "ISO" THEN c1.iv ELSE Append(h1.lastIV, "garbage")]
          [] OTHER -> [Return(h1, c1) EXCEPT
                         !.ok = mode = "PLAIN" \/ Genuine(h, c)]

\* handleReadCmd and handleReadData: some says that a frame came, also when
\* one behind it failed.  What was deciphered stays in d_buf.
handleRead(h, c, fate, mode, some) ==
    LET r == TakeAnswer(h, c, fate, mode)
    IN  IF some THEN [r EXCEPT !.host.buf = mode = "ENCRYPT"] ELSE r

\* Mutant: no MAC is computed for data that is sent in plain.
handleWriteData_PlainUnmaced(h, c, fate, mode) ==
    LET h1 == IF mode = "PLAIN" THEN initBuf(h) ELSE Chain(initBuf(h), "command")
        f  == Fate(fate, mode = "PLAIN" \/ Genuine(h, c))
        c1 == CardRuns(c, f)
    IN  IF f # "done" THEN Throw(h1, c1) ELSE Return(Chain(h1, "reply"), c1)

\* handleWriteData: the MAC is computed in every mode, and sent when not plain.
handleWriteData(h, c, fate, mode) ==
    LET h1 == Chain(initBuf(h), "command")
        f  == Fate(fate, mode = "PLAIN" \/ Genuine(h, c))
        c1 == CardRuns(c, f)
    IN  CASE mode # "PLAIN" /\ Keyless(h) -> Throw(initBuf(h), c)
          [] (mode = "PLAIN" \/ ~Keyless(h)) /\ f # "done" -> Throw(h1, c1)
          [] (mode = "PLAIN" \/ ~Keyless(h)) /\ f = "done"
                /\ h.auth_method = "ISO" /\ c.auth = "ISO" -> verifyMAC(h1, c1)
          [] OTHER -> Return(h1, c1)

\* An enciphered command whose reply must carry a CMAC, if check.
encrypted(h, c, fate, check) ==
    LET h1 == Chain(initBuf(h), "command")
        f  == Fate(fate, c.auth # "NONE" /\ Genuine(h, c))
        c1 == CardRuns(c, f)
    IN  CASE Keyless(h) -> Throw(initBuf(h), c)
          [] ~Keyless(h) /\ f # "done" -> Throw(h1, c1)
          [] ~Keyless(h) /\ f = "done" /\ check /\ h.auth_method = "ISO" -> verifyMAC(h1, c1)
          [] OTHER -> Return(h1, c1)
-----------------------------------------------------------------------------
Init ==
    /\ host = [auth_method |-> "LEGACY", currentAid |-> 0, currentKeyNo |-> 0,
               sessionKey |-> NoSession, lastIV |-> <<>>, buf |-> FALSE,
               iks_wrapper |-> NoSession, keys |-> [s \in Slots |-> DefaultKey]]
    /\ hasRealUID = FALSE
    /\ card = [aid |-> 0, apps |-> Aids, auth |-> "NONE", keyNo |-> 0,
               sessionKey |-> NoSession, iv |-> <<>>, defaultKey |-> DefaultKey,
               keys |-> [s \in Slots |-> DefaultKey]]
    /\ sessions = 0
    /\ thrown = 0
    /\ clean = TRUE
    /\ skipped = FALSE
    /\ keptISO = FALSE
    /\ doubt = {}

Counts(ok) ==
    /\ ok \/ thrown < MaxThrown
    /\ thrown' = IF ok THEN thrown ELSE thrown + 1

\* The end of an operation op that had result r.
Ends(op, r) ==
    /\ host' = r.host
    /\ card' = r.card
    /\ Counts(r.ok)
    /\ clean' = (r.ok /\ (clean \/ op = "selectApplication"))

Room == Len(host.lastIV) + 2 <= MaxChain /\ Len(card.iv) + 2 <= MaxChain

Keep == UNCHANGED <<hasRealUID, sessions, skipped, keptISO, doubt>>

\* A command that goes through transmit and changes nothing that is modelled:
\* getFreeMem, getKeySettings, getKeyVersion, getFileSettings, the creation of a
\* file of any type, deleteFile, clearRecordFile, commit and abort of a transaction.
Transmits ==
    /\ Room
    /\ \E fate \in Fates, long \in BOOLEAN :
          Ends("other", transmit(host, card, fate, long))
    /\ Keep

\* The lists of applications, of their names and of ISO file identifiers when
\* the card needs more than one frame.
ListInFrames ==
    /\ Room
    /\ \E fate \in Fates :
          Ends("other", transmitFrames(host, card, fate))
    /\ skipped' = (skipped \/ (thrown' = thrown /\ card.auth = "ISO"))
    /\ UNCHANGED <<hasRealUID, sessions, keptISO, doubt>>

GetVersion ==
    /\ Room
    /\ \E fate \in Fates : Ends("other", getVersion(host, card, fate))
    /\ Keep

\* readData, readRecords, getValue.
Read ==
    /\ Room
    /\ \E fate \in Fates, mode \in Modes, some \in BOOLEAN :
          /\ fate = "done" => some
          /\ Ends("other", handleRead(host, card, fate, mode, some))
    /\ Keep

\* writeData, writeRecord, credit, debit, limitedCredit.
Write ==
    /\ Room
    /\ \E fate \in Fates, mode \in Modes :
          Ends("other", handleWriteData(host, card, fate, mode))
    /\ Keep

\* changeKeySettings, and changeFileSettings enciphered.
ChangeSettings ==
    /\ Room
    /\ \E fate \in Fates :
          Ends("other", encrypted(host, card, fate, TRUE))
    /\ Keep

\* changeFileSettings in plain: neither the command nor the reply is chained.
ChangeFileSettingsPlain ==
    /\ Room
    /\ \E fate \in Fates :
          LET c1 == CardRuns(card, fate)
          IN  Ends("other", IF fate = "done" THEN Return(host, c1)
                                             ELSE Throw(host, c1))
    /\ skipped' = (skipped \/ (thrown' = thrown /\ card.auth = "ISO"))
    /\ UNCHANGED <<hasRealUID, sessions, keptISO, doubt>>

\* setConfiguration: the reply is not verified.  The overload with a key gives the
\* card the key that the slots of later applications start with; the overloads
\* without one leave it, which is key = card.defaultKey.
SetConfiguration(key) ==
    /\ Room
    /\ \E fate \in Fates :
          LET f == Fate(fate, card.aid = 0)
              r == encrypted(host, card, f, FALSE)
              runs == /\ f \in {"done", "noAnswer"} /\ ~Keyless(host)
                      /\ card.auth # "NONE" /\ Genuine(host, card)
          IN  Ends("other", [r EXCEPT !.card.defaultKey = IF runs THEN key ELSE @])
    /\ skipped' = (skipped \/ (thrown' = thrown /\ card.auth = "ISO"))
    /\ UNCHANGED <<hasRealUID, sessions, keptISO, doubt>>

SelectApplication(aid) ==
    /\ \E fate \in Fates :
          LET f  == Fate(fate, aid \in card.apps)
              c1 == IF f \in {"done", "noAnswer"}
                    THEN [Unauthenticated(card) EXCEPT !.aid = aid]
                    ELSE CardRuns(card, f)
          IN  Ends("selectApplication",
                   IF f = "done" THEN Return(SelectedHost(host, aid), c1)
                                 ELSE Throw(host, c1))
    /\ skipped' = (skipped /\ thrown' # thrown)
    /\ keptISO' = (keptISO /\ thrown' # thrown)
    /\ UNCHANGED <<hasRealUID, sessions, doubt>>

\* createApplication: defaults says that the overload with the key type is
\* called, which writes zeroes into the host's table, whatever the card's
\* default key is.
CreateApplication(aid, defaults) ==
    /\ Room
    /\ \E fate \in Fates, long \in BOOLEAN :
          LET f == Fate(fate, card.aid = 0 /\ aid \notin card.apps)
              r == transmit(host, card, f, long)
              made == IF f \in {"done", "noAnswer"}
                      THEN [r.card EXCEPT !.apps = @ \cup {aid},
                             !.keys = [s \in Slots |-> IF s[1] = aid
                                                THEN card.defaultKey ELSE @[s]]]
                      ELSE r.card
              noted == r.ok /\ defaults
              known == noted /\ card.defaultKey = DefaultKey
          IN  /\ Ends("other", [r EXCEPT !.card = made,
                     !.host = IF noted THEN createApplicationKeys(@, aid) ELSE @])
              /\ doubt' = IF known THEN doubt \ {s \in Slots : s[1] = aid}
                          ELSE IF made.apps # card.apps
                          THEN doubt \cup {s \in Slots : s[1] = aid}
                          ELSE doubt
    /\ UNCHANGED <<hasRealUID, sessions, skipped, keptISO>>

\* The card forgets the applications in aids; one that deletes itself leaves
\* its session, which the host does not notice.
Delete(aids, allowed) ==
    /\ Room
    /\ \E fate \in Fates, long \in BOOLEAN :
          LET f == Fate(fate, allowed)
              runs == f \in {"done", "noAnswer"}
              own  == runs /\ card.aid \in aids
              c == IF own THEN [Unauthenticated(card) EXCEPT !.aid = 0] ELSE card
              r == transmit(host, c, f, long)
          IN  /\ host' = r.host
              /\ card' = IF runs THEN [r.card EXCEPT !.apps = @ \ aids] ELSE r.card
              /\ Counts(r.ok)
              /\ clean' = (clean /\ r.ok /\ ~own)
    /\ Keep

DeleteApplication(aid) == Delete({aid}, card.aid \in {0, aid})

Erase == Delete(Aids \ {0}, card.aid = 0 /\ card.auth # "NONE")

\* iks: both keys are in the key server, which makes the cryptogram of an ISO
\* session.  changeKey_PICC ciphers another key than the session's with
\* d_sessionKey, also when there is a wrapper.
ChangeKey(keyno, newkey, iks) ==
    LET slot == <<host.currentAid, keyno>>
        at   == <<card.aid, keyno>>
        k    == changeKey_PICC(host, keyno, newkey)
        hk   == IF host.auth_method = "ISO" /\ (k.same \/ iks) THEN host
                ELSE [host EXCEPT !.iks_wrapper = NoSession]
        h1   == [Chain(hk, "command") EXCEPT !.iks_wrapper = host.iks_wrapper]
        accepted == /\ card.auth # "NONE" /\ at \in Slots
                    /\ Genuine(hk, card) /\ (iks => card.auth = "ISO")
                    /\ card.keyNo \in {0, keyno}
                    /\ k.same = (card.keyNo = keyno)
                    /\ k.same \/ k.old = card.keys[at]
    IN  /\ Room
        /\ slot \in Slots
        /\ \E fate \in Fates :
              LET f  == Fate(fate, accepted)
                  c0 == CardRuns(card, f)
                  c1 == IF f \notin {"done", "noAnswer"} THEN c0
                        ELSE [IF k.same THEN Unauthenticated(c0) ELSE c0
                                 EXCEPT !.keys[at] = newkey]
                  r  == IF ~iks /\ Keyless(hk) THEN Throw(host, card)
                        ELSE IF f # "done" THEN Throw(h1, c1)
                        ELSE IF host.auth_method = "ISO" /\ ~k.same /\ keyno # 0
                        THEN verifyMAC(h1, c1) ELSE Return(h1, c1)
              IN  /\ Ends("other", [r EXCEPT !.host = IF r.ok THEN setKey(@, slot, newkey) ELSE @])
                  /\ doubt' = IF r.ok /\ slot = at THEN doubt \ {slot}
                              ELSE IF r.ok \/ r.card.keys # card.keys
                              THEN doubt \cup ({slot, at} \cap Slots) ELSE doubt
        /\ UNCHANGED <<hasRealUID, sessions, skipped, keptISO>>
-----------------------------------------------------------------------------
(* Authentication *)

\* The host after session n is opened.  iso_authenticate computes the session key
\* with the key at hand, sam_iso_authenticate dumps it from the SAM,
\* pkcs_iso_authenticate computes it from the randoms, and the native
\* authentications derive it in DESFireCrypto.
IsoSession(h, keyno, n) ==
    [h EXCEPT !.currentKeyNo = keyno, !.auth_method = "ISO",
              !.sessionKey = n, !.lastIV = <<>>]

authenticate_PICC2(h, keyno, n) ==
    [h EXCEPT !.currentKeyNo = keyno, !.auth_method = "LEGACY",
              !.sessionKey = n, !.lastIV = <<>>]

\* Mutant: the vector of the session before is kept.
iso_authenticate_KeepsIV(h, keyno, n) ==
    [IsoSession(h, keyno, n) EXCEPT !.lastIV = h.lastIV]
iso_authenticate(h, keyno, n)      == IsoSession(h, keyno, n)
sam_iso_authenticate(h, keyno, n)  == IsoSession(h, keyno, n)
pkcs_iso_authenticate(h, keyno, n) == IsoSession(h, keyno, n)
authenticateAES(h, keyno, n)       == IsoSession(h, keyno, n)
authenticateISO(h, keyno, n)       == IsoSession(h, keyno, n)

\* The key server may give a reference: the wrapper computes with it.  A raw key
\* is what iso_authenticate and authenticateAES have.
iks_iso_authenticate(h, keyno, n) ==
    [IsoSession(h, keyno, n) EXCEPT !.sessionKey = NoSession, !.iks_wrapper = n]

iks_authenticateAES(h, keyno, n) ==
    [IsoSession(h, keyno, n) EXCEPT !.sessionKey = h.sessionKey, !.iks_wrapper = n]

\* The SAM's session key of a legacy authentication: d_auth_method is not set.
sam_authenticate_p2(h, keyno, n) ==
    [h EXCEPT !.currentKeyNo = keyno, !.sessionKey = n]

Legacies == {"LEGACY", "LEGACY_SAM"}    \* DF_INS_AUTHENTICATE
Natives == {"AES", "AES_SAM", "AES_IKS", "ISO_NATIVE"}  \* ..._AES and ..._ISO
IsoKinds == {"ISO", "SAM", "PKCS", "IKS"}   \* external and internal authenticate
Kinds == Legacies \cup Natives \cup IsoKinds

OpenedHost(h, kind, keyno, n) ==
    CASE kind = "LEGACY"     -> authenticate_PICC2(h, keyno, n)
      [] kind = "LEGACY_SAM" -> sam_authenticate_p2(h, keyno, n)
      [] kind = "ISO"        -> iso_authenticate(h, keyno, n)
      [] kind = "SAM"        -> sam_iso_authenticate(h, keyno, n)
      [] kind = "PKCS"       -> pkcs_iso_authenticate(h, keyno, n)
      [] kind = "IKS"        -> iks_iso_authenticate(h, keyno, n)
      [] kind \in {"AES", "AES_SAM"} -> authenticateAES(h, keyno, n)
      [] kind = "AES_IKS"    -> iks_authenticateAES(h, keyno, n)
      [] kind = "ISO_NATIVE" -> authenticateISO(h, keyno, n)

\* The host after a failure: before or after the challenge was answered.
FailedHost(h, kind, answered) ==
    CASE kind = "LEGACY" -> IF answered THEN [h EXCEPT !.sessionKey = NoSession] ELSE h
      [] kind \in Natives ->
           [h EXCEPT !.auth_method = "LEGACY", !.lastIV = <<>>,
                     !.sessionKey = IF answered /\ kind \in {"AES", "ISO_NATIVE"}
                                    THEN NoSession ELSE @]
      [] OTHER -> h

OpenedCard(c, kind, keyno, n) ==
    [c EXCEPT !.auth = IF kind \in Legacies THEN "LEGACY" ELSE "ISO",
              !.keyNo = keyno, !.sessionKey = n, !.iv = <<>>]

\* The exchanges of an authentication with key: answered says whether the one
\* that fails, if any does, comes after the host answered the challenge.
Handshake(h, c, kind, keyno, key, n, fate, answered) ==
    LET right == /\ <<c.aid, keyno>> \in Slots
                 /\ c.keys[<<c.aid, keyno>>] = key
                 /\ kind \in IsoKinds =>
                       (keyno = 0 => (h.currentAid = 0) = (c.aid = 0))
        c1 == IF ~answered /\ fate = "noCommand" THEN c ELSE Unauthenticated(c)
    IN  CASE right /\ fate = "done" ->
               Return(OpenedHost(h, kind, keyno, n), OpenedCard(c1, kind, keyno, n))
          [] right /\ fate = "noAnswer" /\ answered ->
               Throw(FailedHost(h, kind, TRUE), OpenedCard(c1, kind, keyno, n))
          [] OTHER -> Throw(FailedHost(h, kind, answered), c1)

getCardUID(h, c, fate) == handleRead(h, c, fate, "ENCRYPT", fate = "done")

\* onAuthenticated: once per chip, the identifier is read in the new session.
onAuthenticated(r, fate) ==
    IF r.ok /\ ~hasRealUID
    THEN getCardUID(r.host, r.card, fate) ELSE r

\* authenticate(keyno, key) stores the key before it is tried; the native AES
\* and ISO authentications take the key of the table and read no identifier.
Authenticate(kind, keyno, key) ==
    LET slot == <<host.currentAid, keyno>>
        n    == sessions + 1
    IN  /\ sessions < MaxSessions
        /\ kind = "LEGACY_SAM" => Room
        /\ slot \in Slots
        /\ kind \in Natives => key = host.keys[slot]
        /\ \E fate \in Fates, answered \in BOOLEAN,
              uidFate \in IF hasRealUID THEN {"done"} ELSE Fates :
              LET r1 == Handshake(setKey(host, slot, key), card, kind, keyno, key, n,
                                  fate, answered)
                  r2 == IF kind \in Natives THEN r1 ELSE onAuthenticated(r1, uidFate)
              IN  /\ fate # "done" => uidFate = "done"     \* nothing is read
                  /\ Ends("authenticate", r2)
                  /\ hasRealUID' = (hasRealUID \/ (r2.ok /\ kind \notin Natives))
                  /\ skipped' = (skipped /\ ~r1.ok)
                  /\ keptISO' = IF r1.ok THEN kind = "LEGACY_SAM" /\ host.auth_method = "ISO"
                                ELSE keptISO
                  /\ doubt' = IF r1.ok /\ card.aid = host.currentAid THEN doubt \ {slot}
                              ELSE IF key = host.keys[slot] THEN doubt
                              ELSE doubt \cup {slot}
                  /\ sessions' = IF r1.card.sessionKey = n THEN n ELSE sessions
-----------------------------------------------------------------------------
\* The card leaves the field and comes back, without a new chip object.
CardReset ==
    /\ card' = [Unauthenticated(card) EXCEPT !.aid = 0]
    /\ Counts(FALSE)
    /\ clean' = FALSE
    /\ UNCHANGED <<host, hasRealUID, sessions, skipped, keptISO, doubt>>

Next ==
    \/ Transmits \/ ListInFrames \/ GetVersion \/ Read \/ Write
    \/ ChangeSettings \/ ChangeFileSettingsPlain
    \/ \E key \in Keys : SetConfiguration(key)
    \/ \E aid \in Aids : SelectApplication(aid)
    \/ \E aid \in Aids \ {0} :
          \/ \E defaults \in BOOLEAN : CreateApplication(aid, defaults)
          \/ DeleteApplication(aid)
    \/ Erase
    \/ \E keyno \in KeyNos, key \in Keys :
          \/ \E iks \in BOOLEAN : ChangeKey(keyno, key, iks)
          \/ \E kind \in Kinds : Authenticate(kind, keyno, key)
    \/ CardReset

Spec == Init /\ [][Next]_vars
-----------------------------------------------------------------------------
\* Every variable holds a value of its kind: the numbers of the selected application
\* and key are numbers of slots, and the tables of keys have an entry for every slot
\* and for no other, so that getKey finds what setKey stored.
TypeOK ==
    /\ host.auth_method \in {"LEGACY", "ISO"}
    /\ host.currentAid \in Aids /\ host.currentKeyNo \in KeyNos
    /\ host.sessionKey \in Sessions /\ host.iks_wrapper \in Sessions
    /\ host.keys \in [Slots -> Keys] /\ Len(host.lastIV) <= MaxChain
    /\ host.buf \in BOOLEAN
    /\ card.auth \in {"NONE", "LEGACY", "ISO"}
    /\ card.aid \in Aids /\ card.keyNo \in KeyNos /\ card.apps \subseteq Aids
    /\ card.sessionKey \in Sessions /\ Len(card.iv) <= MaxChain
    /\ card.keys \in [Slots -> Keys] /\ card.defaultKey \in Keys
    /\ doubt \subseteq Slots

\* While nothing has been thrown since the application was selected, and the card
\* was not reset, the host and a card that is in a session agree on the
\* application, on the method and the number of the key, on the session key, and
\* on the initialisation vector that the next MAC is computed from.  Excepted are
\* a session after a reply whose CMAC the code leaves out (setConfiguration,
\* changeFileSettings in plain, lists in several frames), one in which the wrapper
\* of an earlier session of the key server is still there, and, for the method
\* only, a legacy session that the SAM authenticated while the host was in CM_ISO.
SessionAgreement ==
    clean =>
      /\ host.currentAid = card.aid
      /\ card.auth # "NONE" =>
            /\ \/ host.auth_method = card.auth
               \/ keptISO /\ card.auth = "LEGACY"
            /\ host.currentKeyNo = card.keyNo
            /\ card.auth = "LEGACY" => host.sessionKey = card.sessionKey
            /\ card.auth = "ISO" =>
                  \/ host.iks_wrapper \notin {NoSession, card.sessionKey}
                  \/ /\ MacKey(host) = card.sessionKey
                     /\ skipped \/ host.lastIV = card.iv

\* The table of keys (setKey, createApplication) says what the card has, for every
\* slot that no call left in doubt: a changeKey whose answer was lost, an
\* authentication that failed with the key it was given, an application that was
\* made again without its keys, or with a default key that setConfiguration gave
\* the card.
KeyTableTrue ==
    \A s \in Slots \ doubt : s[1] \in card.apps => host.keys[s] = card.keys[s]

\* Whatever went wrong before, an authentication that opens a session and returns
\* leaves the host and the card in the same session with the same initialisation
\* vector, when no session of the key server came before.  The method is the card's
\* too, unless the SAM authenticated a host in CM_ISO with a DES key, once the
\* identifier of the card is known; before, reading it throws.
AuthenticateRestores ==
    [][(sessions' # sessions /\ thrown' = thrown /\ host.iks_wrapper = NoSession) =>
          /\ \/ host'.auth_method = card'.auth
             \/ keptISO' /\ hasRealUID
          /\ MacKey(host') = card'.sessionKey
          /\ card'.auth = "ISO" => host'.lastIV = card'.iv]_vars
=============================================================================
