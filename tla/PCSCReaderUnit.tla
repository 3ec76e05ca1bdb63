--------------------------- MODULE PCSCReaderUnit ---------------------------
(***************************************************************************)
(* A PC/SC reader unit (pcscreaderunit.cpp).  A unit may be made for one   *)
(* reader, for a pattern of names or for all readers; when the reader that *)
(* has the card needs commands of its own, the unit makes a second unit of *)
(* that type, the proxy, and passes every call on to it.  So the state of  *)
(* the unit (the connection, the chip) is in one of two objects.           *)
(*                                                                         *)
(* External: the smart card service, which reports the state of readers    *)
(* (SCardGetStatusChange), connects and disconnects, and the user, who     *)
(* puts cards on readers and takes them away at any time.                  *)
(***************************************************************************)
EXTENDS Integers

CONSTANTS
  Readers,         \* the readers of the service, numbered in the order of the list
  Special,         \* those whose type is not PCSC_RUT_DEFAULT
  Cards,           \* bound: the cards
  Waits,           \* bound: the values of maxwait, in ticks
  MaxLate,         \* bound: ticks the thread may lose between two calls of the service
  MaxCalls,        \* bound: calls of the application
  MaxMoves         \* bound: cards put on or taken off a reader

ASSUME PCSCAssumption ==
  /\ Readers \subseteq Nat \ {0}
  /\ \E last \in Readers : \A r \in Readers : r <= last \* a list: not empty, with an end
  /\ Special \subseteq Readers
  /\ Waits \subseteq Nat /\ {MaxLate, MaxCalls, MaxMoves} \subseteq Nat

NoCard == 0
NoReader == 0                     \* the empty name
Pattern == -1                     \* a name that is a pattern all readers match
Forever == -1                     \* INFINITE, or a difference below zero as an unsigned
NoConnection == [reader |-> NoReader, card |-> NoCard]

VARIABLES
  slot,            \* per reader, the card that lies on it
  d_name, d_connectedName,
  proxy,           \* the name of d_proxyReaderUnit, NoReader when there is none
  connection,      \* connection_ of the unit and of its proxy
  chip,            \* d_insertedChip of the unit and of its proxy: what was seen where
  call,            \* the wait under way: where it is and its variables
  calls, moves,    \* bounds
  seen,            \* history: where the last waitInsertion saw a card
  reused,          \* history: a unit for all readers waited for a card without
                   \* having waited for the removal of the one before
  emptied,         \* history: readers that were empty since the call began
  result           \* history: what the last call returned

unitVars == <<d_name, d_connectedName, proxy, connection, chip>>
history == <<seen, reused, emptied, result>>
vars == <<slot, unitVars, call, calls, moves, history>>

Idle == [pc |-> "idle", max |-> 0, elapsed |-> 0, left |-> 0, late |-> 0,
         watched |-> {}, known |-> {}, wrapped |-> FALSE]
Sights == [reader : Readers \cup {NoReader}, card : Cards \cup {NoCard}]
Both == {"unit", "proxy"}

TypeOK ==
  /\ slot \in [Readers -> Cards \cup {NoCard}]
  /\ d_name \in Readers \cup {NoReader, Pattern}
  /\ d_connectedName \in Readers \cup {NoReader, Pattern}
  /\ proxy \in Readers \cup {NoReader}
  /\ connection \in [Both -> Sights] /\ chip \in [Both -> Sights]
  /\ call.pc \in {"idle", "insCall", "insBlocked", "insTest", "remFirst", "remBlocked"}
  /\ call.watched \subseteq Readers /\ call.known \subseteq Readers
  /\ call.left \in -1 .. call.max
  /\ seen \in Sights /\ emptied \subseteq Readers

Init ==
  /\ slot = [r \in Readers |-> NoCard]
  /\ d_name \in Readers \cup {NoReader, Pattern} /\ d_connectedName = d_name
  /\ proxy = NoReader
  /\ connection = [u \in Both |-> NoConnection]
  /\ chip = [u \in Both |-> NoConnection]
  /\ call = Idle /\ calls = 0 /\ moves = 0
  /\ seen = NoConnection /\ reused = FALSE /\ emptied = {} /\ result = "none"

\* The object that acts: every operation is passed to the proxy if there is one.
Acting == IF proxy # NoReader THEN "proxy" ELSE "unit"
getConnectedName ==
  IF proxy # NoReader THEN proxy
  ELSE IF d_connectedName # NoReader THEN d_connectedName ELSE d_name

Returns(value) == result' = value /\ call' = Idle
Called == calls < MaxCalls /\ calls' = calls + 1 /\ call.pc = "idle"

-----------------------------------------------------------------------------
(* waitInsertion.                                                          *)

\* prepare_poll_parameters: a name that is a pattern becomes the last reader it
\* matches, and setName gives the unit a proxy for it.
AdjustName ==
  IF d_name = Pattern
    THEN LET last == CHOOSE r \in Readers : \A q \in Readers : q <= r IN
         d_name' = last /\ proxy' = last
    ELSE UNCHANGED <<d_name, proxy>>

\* Mutant: only the connection of the proxy is given up.
TeardownProxy == connection' = [connection EXCEPT !.proxy = NoConnection]

\* teardown_pcsc_connection, for the unit and for its proxy.
Teardown == connection' = [u \in Both |-> NoConnection]

\* disconnect: the acting object's connection only.
Disconnected == [connection EXCEPT ![Acting] = NoConnection]

WaitInsertion(max) ==
  /\ Called
  /\ Teardown
  /\ AdjustName
  /\ call' = [Idle EXCEPT !.pc = "insCall", !.max = max, !.watched =
                IF d_name = NoReader THEN Readers ELSE {d_name'}]
  /\ reused' = (reused \/ (d_name = NoReader /\ seen # NoConnection))
  /\ emptied' = {}
  /\ UNCHANGED <<slot, d_connectedName, chip, moves, seen, result>>

\* SCardGetStatusChange is called with maxwait - elapsed(), both unsigned.
InsertionCall ==
  /\ call.pc = "insCall"
  /\ LET left == IF call.max = 0 THEN Forever ELSE call.max - call.elapsed IN
     call' = [call EXCEPT !.pc = "insBlocked", !.late = 0,
                          !.left = IF left < 0 THEN Forever ELSE left,
                          !.wrapped = call.max # 0 /\ left < 0]
  /\ UNCHANGED <<slot, unitVars, calls, moves, history>>

\* waitInsertion_create_proxy and process_insertion, for the reader r.
Proxied(r) ==
  CASE proxy # NoReader /\ proxy \in Special -> proxy
    [] r \in Special -> r
    [] OTHER -> NoReader

\* Mutant: the name of the reader is not recorded.
InsertionUnnamed(r) ==
  /\ proxy' = Proxied(r)
  /\ chip' = [chip EXCEPT ![IF proxy' = NoReader THEN "unit" ELSE "proxy"] =
                [reader |-> r, card |-> slot[r]]]
  /\ UNCHANGED d_connectedName

ProcessInsertion(r) ==
  /\ proxy' = Proxied(r)
  /\ d_connectedName' = IF proxy' = NoReader THEN r ELSE d_connectedName
  /\ chip' = [chip EXCEPT ![IF proxy' = NoReader THEN "unit" ELSE "proxy"] =
                [reader |-> r, card |-> slot[r]]]

\* The service reports readers whose state changed.  The first turn knows of no
\* state; later ones know of readers without card.  The first reader of the list
\* with a card is taken.
InsertionStatus ==
  /\ call.pc = "insBlocked"
  /\ LET present == {r \in call.watched : slot[r] # NoCard} IN
     \/ /\ present # {}
        /\ LET r == CHOOSE r \in present : \A q \in present : r <= q IN
             /\ ProcessInsertion(r)
             /\ seen' = [reader |-> r, card |-> slot[r]]
        /\ Returns("inserted")
        /\ UNCHANGED <<d_name, connection>>
     \/ /\ present = {} /\ call.known # call.watched
        /\ call' = [call EXCEPT !.pc = "insTest", !.known = call.watched]
        /\ UNCHANGED <<unitVars, seen, result>>
  /\ UNCHANGED <<slot, calls, moves, reused, emptied>>

\* SCARD_E_TIMEOUT.
InsertionTimeout ==
  /\ call.pc = "insBlocked" /\ call.left = 0
  /\ \A r \in call.watched : slot[r] = NoCard
  /\ call' = [call EXCEPT !.pc = "insTest"]
  /\ UNCHANGED <<slot, unitVars, calls, moves, history>>

\* Mutant: the loop goes on for as long as no card comes.
EndlessTest ==
  /\ call.pc = "insTest"
  /\ call' = [call EXCEPT !.pc = "insCall"]
  /\ UNCHANGED <<slot, unitVars, calls, moves, history>>

\* The condition of the loop.
InsertionTest ==
  /\ call.pc = "insTest"
  /\ IF call.max = 0 \/ call.elapsed < call.max
       THEN call' = [call EXCEPT !.pc = "insCall"] /\ UNCHANGED result
       ELSE Returns("timeout")
  /\ UNCHANGED <<slot, unitVars, calls, moves, seen, reused, emptied>>

\* Any other answer of the service is thrown as a CardException.
InsertionError ==
  /\ call.pc = "insBlocked"
  /\ Returns("thrown")
  /\ UNCHANGED <<slot, unitVars, calls, moves, seen, reused, emptied>>

-----------------------------------------------------------------------------
(* waitRemoval.                                                            *)

\* The reader of the card is watched, or all readers when no name is known.
WaitRemoval(max) ==
  /\ Called
  /\ connection' = Disconnected
  /\ call' = [Idle EXCEPT !.pc = "remFirst", !.max = max, !.left = max,
                !.watched = IF getConnectedName = NoReader THEN Readers
                            ELSE {getConnectedName} \cap Readers]
  /\ emptied' = {r \in Readers : slot[r] = NoCard}
  /\ UNCHANGED <<slot, d_name, d_connectedName, proxy, chip, moves, seen, reused,
                 result>>

Removed ==
  /\ chip' = [u \in Both |-> IF u = Acting \/ d_name = NoReader THEN NoConnection
                              ELSE chip[u]]
  /\ IF d_name = NoReader THEN proxy' = NoReader ELSE UNCHANGED proxy
  /\ d_connectedName' = IF Acting = "unit" THEN d_name ELSE d_connectedName
  /\ seen' = NoConnection
  /\ Returns("removed")
  /\ UNCHANGED <<d_name, connection>>

\* Mutant: a reader of the list that is empty ends the wait, watched or not.
AnyEmpty == \E r \in Readers : slot[r] = NoCard

WatchedEmpty == \E r \in call.watched : slot[r] = NoCard

\* The first question, which the service answers at once.  A name it does not
\* know, or another error, ends the wait without an exception.
RemovalFirst ==
  /\ call.pc = "remFirst"
  /\ \/ WatchedEmpty /\ Removed
     \/ /\ call.watched = {}
        /\ Returns("timeout")
        /\ UNCHANGED <<unitVars, seen>>
     \/ /\ call.watched # {} /\ ~WatchedEmpty
        /\ call' = [call EXCEPT !.pc = "remBlocked", !.known = call.watched,
                                !.left = IF call.max = 0 THEN Forever ELSE call.max]
        /\ UNCHANGED <<unitVars, seen, result>>
  /\ UNCHANGED <<slot, calls, moves, reused, emptied>>

RemovalStatus ==
  /\ call.pc = "remBlocked" /\ WatchedEmpty
  /\ Removed
  /\ UNCHANGED <<slot, calls, moves, reused, emptied>>

\* Another program uses the card: a change that is no removal.  The known state
\* is not brought up to date, so from here on the service answers at once and
\* the loop spins.  When that program lets go of the card the next question waits
\* again, and for all of maxwait.
RemovalOther ==
  /\ call.pc = "remBlocked" /\ call.max # 0 /\ ~WatchedEmpty
  /\ \/ call.left > 0 /\ call' = [call EXCEPT !.left = Forever]
     \/ /\ call.left = Forever /\ call.elapsed < call.max
        /\ call' = [call EXCEPT !.left = call.max]
  /\ UNCHANGED <<slot, unitVars, calls, moves, history>>

\* Mutant: the loop looks at the time only when maxwait is zero.
EndlessSpin ==
  /\ call.pc = "remBlocked" /\ call.left = Forever /\ ~WatchedEmpty
  /\ call.max = 0 /\ call.elapsed > call.max
  /\ Returns("timeout")
  /\ UNCHANGED <<slot, unitVars, calls, moves, seen, reused, emptied>>

\* The loop spins until maxwait is over.
RemovalSpin ==
  /\ call.pc = "remBlocked" /\ call.left = Forever /\ ~WatchedEmpty
  /\ call.max # 0 /\ call.elapsed >= call.max
  /\ Returns("timeout")
  /\ UNCHANGED <<slot, unitVars, calls, moves, seen, reused, emptied>>

\* SCARD_E_TIMEOUT.
RemovalTimeout ==
  /\ call.pc = "remBlocked" /\ call.left = 0 /\ ~WatchedEmpty
  /\ Returns("timeout")
  /\ UNCHANGED <<slot, unitVars, calls, moves, seen, reused, emptied>>

RemovalError ==
  /\ call.pc = "remBlocked"
  /\ Returns("thrown")
  /\ UNCHANGED <<slot, unitVars, calls, moves, seen, reused, emptied>>

-----------------------------------------------------------------------------
(* connect, reconnect and disconnect, of a chip that was seen.             *)

Connect ==
  /\ Called /\ chip[Acting] # NoConnection
  /\ IF getConnectedName \in Readers /\ slot[getConnectedName] # NoCard
       THEN /\ connection' = [connection EXCEPT ![Acting] =
                 [reader |-> getConnectedName, card |-> slot[getConnectedName]]]
            /\ result' = "connected"
       ELSE /\ connection' = Disconnected
            /\ result' = "thrown"
  /\ UNCHANGED <<slot, d_name, d_connectedName, proxy, chip, call, moves, seen,
                 reused, emptied>>

Disconnect ==
  /\ Called
  /\ connection' = Disconnected
  /\ result' = "disconnected"
  /\ UNCHANGED <<slot, d_name, d_connectedName, proxy, chip, call, moves, seen,
                 reused, emptied>>

-----------------------------------------------------------------------------
(* The user and the time.                                                  *)

Move(r, c) ==
  /\ moves < MaxMoves /\ moves' = moves + 1
  /\ slot[r] # c /\ (slot[r] = NoCard \/ c = NoCard)
  /\ c # NoCard => \A q \in Readers : slot[q] # c
  /\ slot' = [slot EXCEPT ![r] = c]
  /\ emptied' = IF c = NoCard THEN emptied \cup {r} ELSE emptied
  /\ UNCHANGED <<unitVars, call, calls, seen, reused, result>>

\* Time matters to a call with a limit.  The service answers within the tick;
\* the thread may be late by MaxLate ticks between the test and the next call.
Tick ==
  /\ call.max # 0
  /\ call.pc \in {"insCall", "insBlocked", "remBlocked"}
  /\ call.elapsed < call.max + MaxLate \/ (call.pc = "remBlocked" /\ call.left > 0)
  /\ IF call.pc = "insCall"
       THEN /\ call.late < MaxLate
            /\ call' = [call EXCEPT !.elapsed = @ + 1, !.late = @ + 1]
       ELSE /\ call.left # 0
            /\ call.pc = "insBlocked" => call.known = call.watched
            /\ call' = [call EXCEPT !.elapsed = @ + 1,
                                    !.left = IF @ = Forever THEN @ ELSE @ - 1]
  /\ UNCHANGED <<slot, unitVars, calls, moves, history>>

WaitStep ==
  \/ InsertionCall \/ InsertionStatus \/ InsertionTimeout \/ InsertionTest
  \/ RemovalFirst \/ RemovalStatus \/ RemovalSpin \/ RemovalTimeout

Next ==
  \/ \E max \in Waits : WaitInsertion(max) \/ WaitRemoval(max)
  \/ WaitStep \/ RemovalOther \/ InsertionError \/ RemovalError
  \/ Connect \/ Disconnect
  \/ \E r \in Readers, c \in Cards \cup {NoCard} : Move(r, c)
  \/ Tick

\* The service answers, the thread runs and the clock ticks.
Fairness ==
  /\ WF_vars(Tick)
  /\ WF_vars(InsertionCall \/ InsertionTest)
  /\ WF_vars(InsertionStatus) /\ WF_vars(InsertionTimeout)
  /\ WF_vars(RemovalFirst) /\ WF_vars(RemovalStatus)
  /\ WF_vars(RemovalSpin) /\ WF_vars(RemovalTimeout)

Spec == Init /\ [][Next]_vars /\ Fairness

-----------------------------------------------------------------------------
(* Properties.                                                             *)

\* While a wait is under way neither object holds a connection, as the
\* assertions of waitRemoval and setup_pcsc_connection demand: a handle left in
\* the object that does not act would keep the card from everybody else.
NoHandleWhileWaiting ==
  call.pc # "idle" => \A u \in Both : connection[u] = NoConnection

\* connect() reaches the reader on which waitInsertion saw the card, and
\* getPCSCType() is that reader's, through whichever object the calls go: as
\* long as a unit for all readers waits for the removal of a card before it
\* waits for the next one.
ActsWhereSeen ==
  (seen # NoConnection /\ call.pc = "idle" /\ ~reused) =>
    /\ getConnectedName = seen.reader
    /\ (proxy \in Special) = (seen.reader \in Special)
    /\ \A u \in Both : connection[u] # NoConnection => connection[u].reader = seen.reader

\* waitRemoval returns true only when the reader that had the card was empty at
\* some time of the call, whatever happens on the other readers.
RemovedMeansGone ==
  [][(result' = "removed" /\ call.pc \in {"remFirst", "remBlocked"}
        /\ call'.pc = "idle" /\ seen # NoConnection /\ ~reused)
     => seen.reader \in emptied]_vars

\* waitInsertion with a limit returns, unless the remaining time was taken
\* after the limit had passed: the difference then is a wait of weeks.
InsertionTimesOut ==
  (call.pc = "insCall" /\ call.max # 0) ~> (call.pc = "idle" \/ call.wrapped)

\* waitRemoval with a limit returns, also when other programs keep using the
\* card and the service answers every question at once.
RemovalTimesOut ==
  (call.pc = "remBlocked" /\ call.max # 0) ~> (call.pc = "idle")
=============================================================================
