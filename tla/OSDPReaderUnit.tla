--------------------------- MODULE OSDPReaderUnit ---------------------------
(***************************************************************************)
(* Card detection with an OSDP reader: waitInsertion and waitRemoval of    *)
(* class OSDPReaderUnit, which poll the reader (module OSDP) and count     *)
(* their waiting time in steps of 100 ms.                                  *)
(*                                                                         *)
(* A reader reports a card at every poll while the card is there, except   *)
(* that it takes one poll, or the time between two calls, to detect it     *)
(* again after it was released.  It reports a change of its tamper switch  *)
(* at one poll, and may now and then send an XRD that announces no card,   *)
(* such as the late answer of a card.                                      *)
(***************************************************************************)
EXTENDS Naturals

CONSTANTS
  Waits,      \* values of maxwait, in steps of 100 ms; 0 waits for ever
  MaxEvents,  \* bound: movements of the card and of the switch, stray XRDs
  MaxCalls    \* bound: calls of the application

ASSUME UnitAssumption ==
  Waits \subseteq Nat /\ Waits # {} /\ MaxEvents \in Nat /\ MaxCalls \in Nat

VARIABLES
  pc,            \* "idle", or the call that runs; "announce": its LED and buzzer
  maxwait, currentWait, disconnected,
  ret,           \* how the last call ended: "true", "false", "throw"
  tamperStatus,  \* m_tamperStatus
  reply,         \* the reply to the last poll
  card,          \* is a card on the reader?
  detected,      \* did the reader detect it?
  tamper,        \* the tamper switch
  news,          \* has the switch moved since it was reported?
  away,          \* was there no card at some moment of the call?
  early,         \* did the call begin before a released card was detected again?
  events, calls

unitVars == <<pc, maxwait, currentWait, disconnected, ret, tamperStatus, reply>>
readerVars == <<card, detected, tamper, news>>
vars == <<unitVars, readerVars, away, early, events, calls>>

Replies == {"PRES", "ACK", "LSTATR", "XRD"}

\* The waiting time that waitInsertion and waitRemoval count never passes maxwait.
TypeOK ==
  /\ pc \in {"idle", "insertion", "announce", "removal"}
  /\ maxwait \in Waits /\ currentWait \in 0..maxwait
  /\ ret \in {"none", "true", "false", "throw"} /\ reply \in Replies
  /\ \A b \in {disconnected, tamperStatus, card, detected, tamper, news, away, early} :
       b \in BOOLEAN
  /\ events \in 0..MaxEvents /\ calls \in 0..MaxCalls

Init ==
  /\ pc = "idle" /\ maxwait \in Waits /\ currentWait = 0 /\ disconnected = FALSE
  /\ ret = "none" /\ tamperStatus = FALSE /\ reply = "ACK"
  /\ card = FALSE /\ detected = FALSE /\ tamper = FALSE /\ news = FALSE
  /\ away = TRUE /\ early = FALSE /\ events = 0 /\ calls = 0

-----------------------------------------------------------------------------
(* The reader                                                               *)

CardMoves ==
  /\ events < MaxEvents /\ events' = events + 1
  /\ card' = ~card /\ detected' = card'
  /\ away' = (away \/ ~card')
  /\ UNCHANGED <<unitVars, tamper, news, early, calls>>

TamperMoves ==
  /\ events < MaxEvents /\ events' = events + 1
  /\ tamper' = ~tamper /\ news' = TRUE
  /\ UNCHANGED <<unitVars, card, detected, away, early, calls>>

Redetects ==
  /\ pc = "idle" /\ card /\ ~detected
  /\ detected' = TRUE
  /\ UNCHANGED <<unitVars, card, tamper, news, away, early, events, calls>>

\* A poll is answered r.
Polled(r) ==
  /\ reply' = r /\ detected' = card
  /\ \/ r = "PRES" /\ ~news /\ card /\ detected /\ UNCHANGED <<news, events>>
     \/ r = "ACK" /\ ~news /\ (card => ~detected) /\ UNCHANGED <<news, events>>
     \/ r = "LSTATR" /\ news /\ news' = FALSE /\ UNCHANGED events
     \/ r = "XRD" /\ events < MaxEvents /\ events' = events + 1 /\ UNCHANGED news
  /\ UNCHANGED <<card, tamper>>

-----------------------------------------------------------------------------
(* OSDPReaderUnit                                                           *)

\* The loops count only what they compare: with maxwait = 0 the time is ignored.
Wait(w) == IF maxwait = 0 THEN 0 ELSE w + 1

\* The condition of both loops.
WaitsOn(w) == maxwait = 0 \/ w < maxwait

\* The end of a turn that found nothing, after waiting until w.
NextTurn(w) ==
  /\ currentWait' = w
  /\ pc' = IF WaitsOn(w) THEN pc ELSE "idle"
  /\ ret' = IF WaitsOn(w) THEN ret ELSE "false"

Start(call) ==
  /\ pc = "idle" /\ calls < MaxCalls /\ calls' = calls + 1
  /\ pc' = call /\ maxwait' \in Waits /\ currentWait' = 0
  /\ disconnected' = FALSE /\ ret' = "none"
  /\ away' = ~card /\ early' = (card /\ ~detected)
  /\ UNCHANGED <<tamperStatus, reply, readerVars, events>>

waitInsertion == Start("insertion")
waitRemoval == Start("removal")

\* A command threw.
Fails ==
  /\ pc # "idle"
  /\ pc' = "idle" /\ ret' = "throw"
  /\ UNCHANGED <<maxwait, currentWait, disconnected, tamperStatus, reply, readerVars, away,
                 early, events, calls>>

\* Mutant: a reply that announces a card is ignored.
CardOverlooked ==
  /\ pc = "insertion" /\ Polled("PRES")
  /\ UNCHANGED <<pc, maxwait, currentWait, disconnected, ret, tamperStatus, away, early, calls>>

\* A poll of waitInsertion found a card: LED and buzzer come next.
CardSeen ==
  /\ pc = "insertion" /\ Polled("PRES")
  /\ pc' = "announce"
  /\ UNCHANGED <<maxwait, currentWait, disconnected, ret, tamperStatus, away, early, calls>>

\* led, buz and createChip, then waitInsertion returns true.
Announced ==
  /\ pc = "announce"
  /\ pc' = "idle" /\ ret' = "true"
  /\ UNCHANGED <<maxwait, currentWait, disconnected, tamperStatus, reply, readerVars, away,
                 early, events, calls>>

\* Mutant: the waiting time is never counted.
NoCardCountsNothing ==
  /\ pc = "insertion"
  /\ \E r \in Replies \ {"PRES"} :
       /\ Polled(r)
       /\ tamperStatus' = IF r = "LSTATR" THEN tamper ELSE tamperStatus
  /\ NextTurn(currentWait)
  /\ UNCHANGED <<maxwait, disconnected, away, early, calls>>

\* No card: an XRD goes on at once, any other reply waits, a tamper report is kept.
NoCardSeen ==
  /\ pc = "insertion"
  /\ \E r \in Replies \ {"PRES"} :
       /\ Polled(r)
       /\ tamperStatus' = IF r = "LSTATR" THEN tamper ELSE tamperStatus
       /\ NextTurn(IF r = "XRD" THEN currentWait ELSE Wait(currentWait))
  /\ UNCHANGED <<maxwait, disconnected, away, early, calls>>

\* Mutant: the release is not remembered.
ReleaseForgotten ==
  /\ pc = "removal" /\ ~news /\ card /\ detected
  /\ reply' = "PRES" /\ detected' = FALSE
  /\ disconnected' = FALSE
  /\ NextTurn(Wait(currentWait))
  /\ UNCHANGED <<card, tamper, news, maxwait, tamperStatus, away, early, events, calls>>

\* The card is reported to waitRemoval, and disconnectFromSmartcard releases it.
Release ==
  /\ pc = "removal" /\ ~news /\ card /\ detected
  /\ reply' = "PRES" /\ detected' = FALSE
  /\ disconnected' = TRUE
  /\ NextTurn(Wait(currentWait))
  /\ UNCHANGED <<card, tamper, news, maxwait, tamperStatus, away, early, events, calls>>

\* Any other reply to a poll that follows no release is taken for a removal.
Removed ==
  /\ pc = "removal" /\ ~disconnected
  /\ \E r \in Replies \ {"PRES"} : Polled(r)
  /\ pc' = "idle" /\ ret' = "true" /\ currentWait' = Wait(currentWait)
  /\ UNCHANGED <<maxwait, disconnected, tamperStatus, away, early, calls>>

\* Mutant: the poll after a release changes nothing.
AfterReleaseSticks ==
  /\ pc = "removal" /\ disconnected
  /\ \E r \in Replies \ {"PRES"} :
       /\ Polled(r)
       /\ tamperStatus' = IF r = "LSTATR" THEN tamper ELSE tamperStatus
  /\ NextTurn(Wait(currentWait))
  /\ UNCHANGED <<maxwait, disconnected, away, early, calls>>

\* Any other reply to the poll that follows a release: look once more.
AfterRelease ==
  /\ pc = "removal" /\ disconnected
  /\ \E r \in Replies \ {"PRES"} :
       /\ Polled(r)
       /\ tamperStatus' = IF r = "LSTATR" THEN tamper ELSE tamperStatus
       /\ disconnected' = (r = "LSTATR")
  /\ NextTurn(Wait(currentWait))
  /\ UNCHANGED <<maxwait, away, early, calls>>

Turn == CardSeen \/ Announced \/ NoCardSeen \/ Release \/ Removed \/ AfterRelease

Next ==
  \/ waitInsertion \/ waitRemoval \/ Turn \/ Fails
  \/ CardMoves \/ TamperMoves \/ Redetects

\* A call that runs keeps polling.
Spec == Init /\ [][Next]_vars /\ WF_vars(Turn)

-----------------------------------------------------------------------------
\* waitRemoval returns true for a card that never left only when the reader sent a
\* report of another kind in place of the card's, or when the call before had just
\* released the card: a poll in which the reader looks for a card that this call
\* released is never taken for a removal.
RemovedMeansGone ==
  [][pc = "removal" /\ ret' = "true" => away \/ early \/ reply' \in {"LSTATR", "XRD"}]_vars

\* waitRemoval notices that the card is gone, if it stays away: it returns, also
\* with maxwait = 0, whatever the tamper switch does meanwhile.
RemovalNoticed == (pc = "removal" /\ ~card) ~> (pc # "removal" \/ card)

\* waitInsertion notices a card that stays on the reader, also when the reader is
\* just detecting it again.
InsertionNoticed == (pc = "insertion" /\ card) ~> (pc # "insertion" \/ ~card)

\* waitInsertion with a maxwait other than 0 ends without a card, unless the reader
\* sends XRDs for ever, which do not count.
InsertionTimesOut == (pc = "insertion" /\ maxwait > 0) ~> (pc # "insertion")
=============================================================================
