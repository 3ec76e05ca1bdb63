-------------------------------- MODULE OSDP --------------------------------
(***************************************************************************)
(* The OSDP reader plugin as control panel: OSDPCommands, OSDPChannel and  *)
(* OSDPSecureChannel, the handshake of OSDPReaderUnit::connectToReader and *)
(* the transparent APDUs of OSDPReaderCardAdapter, over a line to one      *)
(* peripheral device (PD).                                                 *)
(*                                                                         *)
(* Cryptography is ideal.  A MAC is the sequence of everything it chains:  *)
(* the session it starts from, then the body of every package, so two MACs *)
(* are equal when all of that is.  Data is encrypted under the same vector *)
(* its package's MAC starts from, so a package whose MAC verifies carries  *)
(* the data that was sent.  Payloads are tuples that begin with their kind.*)
(***************************************************************************)
EXTENDS Integers, Sequences, SequencesExt

CONSTANTS
  Apdus,           \* the commands an application sends to the card
  Faults,          \* what the line and the device may do: see FaultKinds
  TicksPerSecond,  \* turns of the BUSY loop in one second
  MaxCalls,        \* bound: calls the application makes
  MaxBusy          \* bound: BUSY replies of the device

FaultKinds == {"loss",      \* packages and replies get lost, replies come late
               "repeat",    \* a device repeats its reply to a known sequence number
               "busy",      \* the device answers BUSY
               "ack",       \* the device may acknowledge an APDU, and have the
                            \* answer of the card at the next poll
               "slow",      \* the same, but a later poll may have it
               "wrongkey"}  \* the device may have another key

ASSUME OSDPAssumption ==
  /\ Apdus # {} /\ Faults \subseteq FaultKinds
  /\ TicksPerSecond \in Nat \ {0} /\ MaxCalls \in Nat /\ MaxBusy \in Nat

VARIABLES
  open,       \* is the data transport connected?
  connected,  \* did connectToReader return after its handshake?
  pc,         \* the call the application's thread is in
  phase,      \* where transmit is: "wait" for a reply, or "done"
  chan,       \* OSDPChannel: m_sequenceNumber, isSCB, m_securityBlockType,
              \* m_reply_type and m_data
  sec,        \* m_secureChannel: m_rmac and m_cmac; session 0 if there is none
  ticks,      \* wall: turns since transmit began; cpu: those clock() counted
  apdu,       \* the argument of the adapter's sendCommand
  result,     \* the APDU whose answer sendCommand returned last, with its own
  toPD, toCP, \* packages on the line
  pd,         \* the device
  calls       \* calls made so far

cpVars == <<open, connected, pc, phase, chan, sec, ticks, apdu, result, calls>>
vars == <<cpVars, toPD, toCP, pd>>

NoSession == [session |-> 0, rmac |-> <<>>, cmac |-> <<>>]

NewChannel ==
  [seq |-> 0, isSCB |-> FALSE, sb |-> "NOSCS", type |-> "NOCMD", data |-> <<>>]

Body(p) == <<p.seq, p.type, p.data>>

Init ==
  /\ open = FALSE /\ connected = FALSE
  /\ pc = "idle" /\ phase = "done"
  /\ chan = NewChannel /\ sec = NoSession
  /\ ticks = [wall |-> 0, cpu |-> 0]
  /\ apdu = <<>> /\ result = <<>>
  /\ toPD = <<>> /\ toCP = <<>>
  /\ pd = [st |-> "clear", session |-> 0, mac |-> <<>>, profile |-> 0,
           answers |-> <<>>, last |-> <<>>, busy |-> 0]
  /\ calls = 0

-----------------------------------------------------------------------------
(* Packages and the secure channel                                          *)

\* Security blocks whose packages carry a MAC.
Macked(sb) == sb \in {"SCS_15", "SCS_16", "SCS_17", "SCS_18"}

\* encryptData and computePacketMAC with secure channel s: the data under the MAC
\* of the last reply, then the package chained to that MAC.
createPackage(c, s) ==
  [seq |-> c.seq, isSCB |-> c.isSCB, sb |-> c.sb, type |-> c.type, data |-> c.data,
   mac |-> IF c.isSCB /\ Macked(c.sb) THEN Append(s.rmac, Body(c)) ELSE <<>>]

\* Mutant: the MAC of a reply is not chained to the command.
VerifyUnchained(r) == Last(r.mac) = Body(r)

\* verifyMAC of a reply that carries a MAC.
verifyMAC(r) == r.mac = Append(sec.cmac, Body(r))

\* Does unPackage throw?  By then it has taken the header of the reply.
BadMac(r) == r.isSCB /\ Macked(r.sb) /\ ~verifyMAC(r)

\* What unPackage leaves in the channel.
unPackage(r) ==
  [seq |-> r.seq, isSCB |-> r.isSCB, type |-> r.type,
   sb |-> IF r.isSCB THEN r.sb ELSE chan.sb,
   data |-> IF BadMac(r) THEN chan.data ELSE r.data]

\* Mutant: the sequence number wraps to 0.
NextSeqModFour(n) == (n + 1) % 4

\* Mutant: the sequence number does not wrap.
NextSeqUnbounded(n) == n + 1

\* The sequence number after an exchange: 0 opens a connection, then 1, 2, 3.
NextSeq(n) == IF n + 1 > 3 THEN 1 ELSE n + 1

-----------------------------------------------------------------------------
(* OSDPCommands                                                             *)

\* The package of channel c leaves; m_data is the ciphertext from now on, and
\* m_cmac the MAC of the package.
Send(c, s) ==
  LET p == createPackage(c, s) IN
  /\ toPD' = Append(toPD, p)
  /\ chan' = [c EXCEPT !.data = IF p.mac # <<>> THEN <<"cipher">> ELSE @]
  /\ sec' = [s EXCEPT !.cmac = IF p.mac # <<>> THEN p.mac ELSE @]
  /\ phase' = "wait"

\* transmit begins, for the call that goes on at k.
Transmit(c, s, k) ==
  /\ Send(c, s)
  /\ pc' = k
  /\ ticks' = [wall |-> 0, cpu |-> 0]
  /\ UNCHANGED <<toCP, pd>>

\* What poll, led, buz, getProfile, setProfile, disconnectFromSmartcard and the
\* adapter do to the channel: secure messages if the channel is secure.
Command(c, type, data) ==
  [c EXCEPT !.type = type, !.data = data, !.sb = IF c.isSCB THEN "SCS_17" ELSE @]

\* The call returns or throws; either way the transport stays connected.
Leave == pc' = "idle" /\ phase' = "done"

\* transmit: the loop ends when clock(), which is CPU time, has counted two seconds.
BusyAgain(cpu) == cpu \div TicksPerSecond < 2

\* unPackage throws: the MAC of the reply is not the expected one.
RejectReply ==
  /\ phase = "wait" /\ toCP # <<>> /\ BadMac(Head(toCP))
  /\ toCP' = Tail(toCP)
  /\ chan' = unPackage(Head(toCP))
  /\ Leave
  /\ UNCHANGED <<open, connected, sec, ticks, apdu, result, toPD, pd, calls>>

\* After BUSY, transmit sleeps and sends what is in the channel now, or gives up.
Busy ==
  /\ phase = "wait" /\ toCP # <<>> /\ ~BadMac(Head(toCP)) /\ Head(toCP).type = "BUSY"
  /\ toCP' = Tail(toCP)
  /\ \E t \in 0..1 :
       /\ ticks' = [wall |-> ticks.wall + 1, cpu |-> ticks.cpu + t]
       /\ \/ BusyAgain(ticks'.cpu) /\ Send(unPackage(Head(toCP)), sec)
          \/ /\ ~BusyAgain(ticks'.cpu)
             /\ chan' = [unPackage(Head(toCP)) EXCEPT !.seq = NextSeq(@)]
             /\ phase' = "done"
             /\ UNCHANGED <<sec, toPD>>
  /\ UNCHANGED <<open, connected, pc, apdu, result, pd, calls>>

\* Mutant: the next command is chained to the last one, not to its reply.
AcceptKeepsCmac ==
  /\ phase = "wait" /\ toCP # <<>> /\ ~BadMac(Head(toCP)) /\ Head(toCP).type # "BUSY"
  /\ toCP' = Tail(toCP)
  /\ chan' = [unPackage(Head(toCP)) EXCEPT !.seq = NextSeq(@)]
  /\ sec' = [sec EXCEPT !.rmac = IF Head(toCP).mac # <<>> THEN sec.cmac ELSE @]
  /\ phase' = "done"
  /\ UNCHANGED <<open, connected, pc, ticks, apdu, result, toPD, pd, calls>>

\* transmit returns with the reply in the channel.
AcceptReply ==
  /\ phase = "wait" /\ toCP # <<>> /\ ~BadMac(Head(toCP)) /\ Head(toCP).type # "BUSY"
  /\ toCP' = Tail(toCP)
  /\ chan' = [unPackage(Head(toCP)) EXCEPT !.seq = NextSeq(@)]
  /\ sec' = [sec EXCEPT !.rmac = IF Head(toCP).mac # <<>> THEN Head(toCP).mac ELSE @]
  /\ phase' = "done"
  /\ UNCHANGED <<open, connected, pc, ticks, apdu, result, toPD, pd, calls>>

\* Mutant: the deadline is looked at when data came only.
TimeoutAfterData ==
  /\ phase = "wait" /\ toCP # <<>>
  /\ "loss" \in Faults
  /\ Leave
  /\ UNCHANGED <<open, connected, chan, sec, ticks, apdu, result, toPD, toCP, pd, calls>>

\* The transport returns nothing in time, and unPackage throws.
Timeout ==
  /\ phase = "wait"
  /\ "loss" \in Faults \/ (toPD = <<>> /\ toCP = <<>>)
  /\ Leave
  /\ UNCHANGED <<open, connected, chan, sec, ticks, apdu, result, toPD, toCP, pd, calls>>

Returned(k) == pc = k /\ phase = "done"

-----------------------------------------------------------------------------
(* OSDPReaderUnit                                                           *)

Calling == pc = "idle" /\ calls < MaxCalls /\ calls' = calls + 1

\* connectToReader does nothing on a transport that is connected already;
\* otherwise initCommands makes a new channel and a first poll goes out.
connectToReader ==
  /\ Calling /\ ~open
  /\ open' = TRUE
  /\ Transmit(Command(NewChannel, "POLL", <<>>), NoSession, "connPoll")
  /\ UNCHANGED <<connected, apdu, result>>

\* challenge(): SCS_11 with a random number.
challenge ==
  /\ Returned("connPoll")
  /\ Transmit([chan EXCEPT !.type = "CHLNG", !.isSCB = TRUE, !.sb = "SCS_11",
                           !.data = <<"rnda">>], sec, "connChlng")
  /\ UNCHANGED <<open, connected, apdu, result, calls>>

\* The answer to a challenge has 32 bytes.
ChallengeAnswer == chan.data # <<>> /\ chan.data[1] = "ccrypt"

\* The secure channel challenge() makes of the answer.
OSDPSecureChannel == [session |-> chan.data[2], rmac |-> <<>>, cmac |-> <<>>]

\* checkPDAuthentication finds the cryptogram of the device right, and sCrypt sends
\* the panel's.
sCrypt ==
  /\ Returned("connChlng") /\ ChallengeAnswer /\ chan.data[3]
  /\ Transmit([chan EXCEPT !.type = "OSCRYPT", !.sb = "SCS_13",
                           !.data = <<"cryptogram">>], OSDPSecureChannel, "connCrypt")
  /\ UNCHANGED <<open, connected, apdu, result, calls>>

\* challenge() or checkPDAuthentication throws.
ChallengeFails ==
  /\ Returned("connChlng") /\ (ChallengeAnswer => ~chan.data[3])
  /\ sec' = IF ChallengeAnswer THEN OSDPSecureChannel ELSE sec
  /\ Leave
  /\ UNCHANGED <<open, connected, chan, ticks, apdu, result, toPD, toCP, pd, calls>>

CryptAnswer == chan.data # <<>> /\ chan.data[1] = "rmac"

\* Mutant: the first R-MAC is not kept.
GetProfileWithoutRmac ==
  /\ Returned("connCrypt") /\ CryptAnswer
  /\ Transmit(Command([chan EXCEPT !.isSCB = TRUE], "XWR", <<"getProfile">>),
              sec, "connGet")
  /\ UNCHANGED <<open, connected, apdu, result, calls>>

\* sCrypt keeps the first R-MAC; connectToReader asks for the profile.
getProfile ==
  /\ Returned("connCrypt") /\ CryptAnswer
  /\ Transmit(Command([chan EXCEPT !.isSCB = TRUE], "XWR", <<"getProfile">>),
              [sec EXCEPT !.rmac = chan.data[2]], "connGet")
  /\ UNCHANGED <<open, connected, apdu, result, calls>>

\* sCrypt throws: the answer is no R-MAC.
CryptFails ==
  /\ Returned("connCrypt") /\ ~CryptAnswer
  /\ Leave
  /\ UNCHANGED <<open, connected, chan, sec, ticks, apdu, result, toPD, toCP, pd, calls>>

OtherProfile == chan.type = "XRD" /\ chan.data[1] = "profile" /\ chan.data[2] # 1

\* A reader in another profile is switched to profile 1.
setProfile ==
  /\ Returned("connGet") /\ OtherProfile
  /\ Transmit(Command(chan, "XWR", <<"setProfile">>), sec, "connSet")
  /\ UNCHANGED <<open, connected, apdu, result, calls>>

\* connectToReader returns, or throws when setProfile is not acknowledged.
ConnectDone ==
  /\ \/ Returned("connGet") /\ ~OtherProfile
     \/ Returned("connSet")
  /\ connected' = (pc = "connSet" => chan.type = "ACK")
  /\ Leave
  /\ UNCHANGED <<open, chan, sec, ticks, apdu, result, toPD, toCP, pd, calls>>

\* disconnectFromReader closes the transport and what was on the line is gone.
disconnectFromReader ==
  /\ Calling /\ open
  /\ open' = FALSE /\ connected' = FALSE
  /\ toPD' = <<>> /\ toCP' = <<>>
  /\ UNCHANGED <<pc, phase, chan, sec, ticks, apdu, result, pd>>

\* One command of waitInsertion or waitRemoval.
UnitCommand(type, data) ==
  /\ Calling /\ open /\ connected
  /\ Transmit(Command(chan, type, data), sec, "unit")
  /\ UNCHANGED <<open, connected, apdu, result>>

poll == UnitCommand("POLL", <<>>)
led == UnitCommand("LED", <<"led">>)
buz == UnitCommand("BUZ", <<"buz">>)
disconnectFromSmartcard == UnitCommand("XWR", <<"release">>)

UnitCommandDone ==
  /\ Returned("unit")
  /\ Leave
  /\ UNCHANGED <<open, connected, chan, sec, ticks, apdu, result, toPD, toCP, pd, calls>>

-----------------------------------------------------------------------------
(* OSDPReaderCardAdapter::sendCommand                                       *)

sendCommand ==
  /\ Calling /\ open /\ connected
  /\ \E a \in Apdus :
       /\ apdu' = <<a>>
       /\ Transmit(Command(chan, "XWR", <<"apdu", a>>), sec, "apdu")
  /\ result' = <<>>
  /\ UNCHANGED <<open, connected>>

\* The device only acknowledged the APDU: poll for the answer, once.
PollForAnswer ==
  /\ Returned("apdu") /\ chan.type = "ACK"
  /\ Transmit(Command(chan, "POLL", <<>>), sec, "apduPoll")
  /\ UNCHANGED <<open, connected, apdu, result, calls>>

\* The answer of the card is returned; anything else throws.
SendCommandDone ==
  /\ Returned("apduPoll") \/ (Returned("apdu") /\ chan.type # "ACK")
  /\ result' = IF chan.type = "XRD" /\ chan.data[1] = "answer"
                 THEN <<chan.data[2]>> ELSE <<>>
  /\ Leave
  /\ UNCHANGED <<open, connected, chan, sec, ticks, apdu, toPD, toCP, pd, calls>>

-----------------------------------------------------------------------------
(* The line and the device                                                  *)

Reply(p, sb, type, data) ==
  [seq |-> p.seq, isSCB |-> sb # "NOSCS", sb |-> sb, type |-> type, data |-> data,
   mac |-> <<>>, re |-> Body(p)]

\* A reply in a secure session, chained to the command.
SecureReply(p, type, data) ==
  LET r == Reply(p, IF data = <<>> THEN "SCS_16" ELSE "SCS_18", type, data)
  IN [r EXCEPT !.mac = Append(p.mac, Body(r))]

Nak(p) == Reply(p, "NOSCS", "NAK", <<"error">>)

Answer(r, newPd) ==
  /\ toCP' = Append(toCP, r)
  /\ pd' = [newPd EXCEPT !.last = <<r>>]

\* The commands of a secure session.
Execute(p) ==
  LET Done(type, data, d) ==
        LET r == SecureReply(p, type, data) IN Answer(r, [d EXCEPT !.mac = r.mac])
  IN \/ /\ p.type = "POLL" /\ pd.answers # <<>>
        /\ Done("XRD", <<"answer", Head(pd.answers)>>,
                [pd EXCEPT !.answers = Tail(@)])
     \/ /\ p.type = "POLL" /\ ("slow" \notin Faults => pd.answers = <<>>)
        /\ Done("ACK", <<>>, pd)
     \/ p.type \in {"LED", "BUZ"} /\ Done("ACK", <<>>, pd)
     \/ p.data = <<"release">> /\ Done("ACK", <<>>, pd)
     \/ p.data = <<"getProfile">> /\ Done("XRD", <<"profile", pd.profile>>, pd)
     \/ p.data = <<"setProfile">> /\ Done("ACK", <<>>, [pd EXCEPT !.profile = 1])
     \/ /\ p.data # <<>> /\ p.data[1] = "apdu"
        /\ \/ Done("XRD", <<"answer", p.data[2]>>, pd)
           \/ /\ {"ack", "slow"} \cap Faults # {}
              /\ Done("ACK", <<>>, [pd EXCEPT !.answers = Append(@, p.data[2])])

\* The device handles a package: clear ones outside a session, the handshake, then
\* commands chained to its last reply; anything else ends the session.
Process(p) ==
  \/ /\ ~p.isSCB
     /\ Answer(IF p.type = "POLL" THEN Reply(p, "NOSCS", "ACK", <<>>) ELSE Nak(p),
               [pd EXCEPT !.st = "clear"])
  \/ /\ p.isSCB /\ p.sb = "SCS_11"
     /\ \E ok \in IF "wrongkey" \in Faults THEN BOOLEAN ELSE {TRUE} :
          Answer(Reply(p, "SCS_12", "CCRYPT", <<"ccrypt", pd.session + 1, ok>>),
                 [pd EXCEPT !.st = "challenged", !.session = @ + 1, !.mac = <<>>])
  \/ /\ p.isSCB /\ p.sb = "SCS_13" /\ pd.st = "challenged"
     /\ Answer(Reply(p, "SCS_14", "RMAC_I", <<"rmac", <<pd.session>> >>),
               [pd EXCEPT !.st = "secure", !.mac = <<pd.session>>])
  \/ /\ p.isSCB /\ p.sb = "SCS_13" /\ pd.st # "challenged"
     /\ Answer(Nak(p), [pd EXCEPT !.st = "clear"])
  \/ /\ p.isSCB /\ Macked(p.sb)
     /\ IF pd.st = "secure" /\ p.mac = Append(pd.mac, Body(p))
          THEN Execute(p)
          ELSE Answer(Nak(p), [pd EXCEPT !.st = "clear"])

PDReceives ==
  /\ toPD # <<>>
  /\ toPD' = Tail(toPD)
  /\ LET p == Head(toPD) IN
     \/ Process(p)
     \/ /\ "busy" \in Faults /\ pd.busy < MaxBusy
        /\ toCP' = Append(toCP, [Reply(p, "NOSCS", "BUSY", <<>>) EXCEPT !.seq = 0])
        /\ pd' = [pd EXCEPT !.busy = @ + 1]
     \/ /\ "repeat" \in Faults /\ p.seq # 0 /\ pd.last # <<>> /\ pd.last[1].seq = p.seq
        /\ toCP' = Append(toCP, pd.last[1])
        /\ UNCHANGED pd
  /\ UNCHANGED cpVars

LineLoses ==
  /\ "loss" \in Faults
  /\ \/ toPD # <<>> /\ toPD' = Tail(toPD) /\ UNCHANGED toCP
     \/ toCP # <<>> /\ toCP' = Tail(toCP) /\ UNCHANGED toPD
  /\ UNCHANGED <<cpVars, pd>>

-----------------------------------------------------------------------------
\* The steps of a call that is under way.
CallStep ==
  \/ RejectReply \/ Busy \/ AcceptReply \/ Timeout
  \/ challenge \/ sCrypt \/ ChallengeFails \/ getProfile \/ CryptFails
  \/ setProfile \/ ConnectDone \/ UnitCommandDone \/ PollForAnswer \/ SendCommandDone

Call ==
  \/ connectToReader \/ disconnectFromReader \/ sendCommand
  \/ poll \/ led \/ buz \/ disconnectFromSmartcard

Next == Call \/ CallStep \/ PDReceives \/ LineLoses

\* Receiving has a deadline, so a call never stops between two steps.  The device
\* is not assumed to answer.
Spec == Init /\ [][Next]_vars /\ WF_vars(CallStep)

-----------------------------------------------------------------------------
Types ==
  {"NOCMD", "POLL", "LED", "BUZ", "CHLNG", "OSCRYPT", "XWR",
   "ACK", "NAK", "BUSY", "XRD", "CCRYPT", "RMAC_I"}
Blocks == {"NOSCS", "SCS_11", "SCS_12", "SCS_13", "SCS_14", "SCS_15", "SCS_16",
           "SCS_17", "SCS_18"}

\* The channel, the secure channel and the counters of transmit keep their types.
TypeOK ==
  /\ open \in BOOLEAN /\ connected \in BOOLEAN
  /\ pc \in {"idle", "connPoll", "connChlng", "connCrypt", "connGet", "connSet",
             "unit", "apdu", "apduPoll"}
  /\ phase \in {"wait", "done"}
  /\ chan.seq \in 0..3 /\ chan.isSCB \in BOOLEAN
  /\ chan.sb \in Blocks /\ chan.type \in Types
  /\ sec.session \in 0..MaxCalls
  /\ \A t \in {ticks.wall, ticks.cpu} : t \in 0..MaxBusy
  /\ calls \in 0..MaxCalls

\* A secured reply is accepted only as the reply to a command with the content of
\* the last one sent, however late it comes and whatever got lost before.
SecuredReplyMatches ==
  [][sec'.rmac # sec.rmac /\ Len(sec'.rmac) > 1 => Head(toCP).re = Last(sec.cmac)]_vars

\* While both ends are in the same session the device is at most one exchange ahead
\* of the panel: no second command of a session takes effect unless the reply to
\* the one before was accepted.
AtMostOneAhead ==
  pd.st = "secure" /\ sec.session = pd.session /\ sec.rmac # <<>> =>
    \/ pd.mac = sec.rmac
    \/ Len(pd.mac) = Len(sec.rmac) + 2 /\ IsPrefix(sec.rmac, pd.mac)

\* readercardadapter.hpp: sendCommand returns "the result of the command": the
\* answer of the card to this APDU, not to an earlier one.  After a BUSY reply it
\* is not promised: the commands that follow are not chained any more.
AnswerOfTheApdu == result # <<>> /\ pd.busy = 0 => result = apdu

\* Once connectToReader returned, and between two calls, both ends are in one
\* session with equal MACs, in profile 1, and the next command will be secured.
SessionInStep ==
  connected /\ pc = "idle" =>
    /\ pd.st = "secure" /\ pd.session = sec.session /\ pd.mac = sec.rmac
    /\ chan.isSCB /\ pd.profile = 1

\* Every package takes the sequence number after the last reply's, and 0 is used
\* for the first package of a connection only: a device does not take a new
\* command for a repetition.
SequenceAdvances ==
  \A i \in DOMAIN toPD :
    IF pc = "connPoll" THEN toPD[i].seq = 0
                       ELSE pd.last # <<>> /\ toPD[i].seq = (pd.last[1].seq % 3) + 1

\* Every call of the application returns or throws: the waits of transmit and the
\* steps after it end, whatever is lost.
CallEnds == pc # "idle" ~> pc = "idle"
=============================================================================
