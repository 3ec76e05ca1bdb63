------------------------ MODULE OSDPReaderUnitProofs ------------------------
(***************************************************************************)
(* Proofs about card detection with an OSDP reader: waitRemoval does not   *)
(* take the reader's search for a card that it released itself for a       *)
(* removal, and the time it counts stays within maxwait.                   *)
(***************************************************************************)
EXTENDS OSDPReaderUnit, TLAPS

-----------------------------------------------------------------------------
(* The inductive invariant.                                                *)

States ==
  /\ pc \in {"idle", "insertion", "announce", "removal"}
  /\ ret \in {"none", "true", "false", "throw"} /\ reply \in Replies

Flags ==
  /\ disconnected \in BOOLEAN /\ tamperStatus \in BOOLEAN
  /\ card \in BOOLEAN /\ detected \in BOOLEAN /\ tamper \in BOOLEAN
  /\ news \in BOOLEAN /\ away \in BOOLEAN /\ early \in BOOLEAN

Counts ==
  /\ maxwait \in Waits /\ currentWait \in Nat /\ currentWait <= maxwait
  /\ events \in Nat /\ events <= MaxEvents
  /\ calls \in Nat /\ calls <= MaxCalls

Types == States /\ Flags /\ Counts

\* The loops go round only while there is time left.
TimeLeft ==
  pc \in {"insertion", "removal"} /\ maxwait # 0 =>
    currentWait < maxwait \/ currentWait = 0

\* A card that waitRemoval finds undetected was away, was released by this call,
\* or was released by the call before and is not detected again.
Undetected ==
  pc = "removal" =>
    /\ ret = "none"
    /\ card = FALSE => away = TRUE
    /\ card = TRUE /\ detected = FALSE
         => away = TRUE \/ early = TRUE \/ disconnected = TRUE

IInv == Types /\ TimeLeft /\ Undetected
-----------------------------------------------------------------------------
(* Every action keeps the invariant.                                       *)

\* A call begins and notes whether the card is there and detected.
LEMMA StartKeeps ==
  ASSUME IInv, NEW call \in {"insertion", "removal"}, Start(call)
  PROVE  IInv'
<1>1. Types'
  <2>1. States'
    BY DEF IInv, Types, States, Replies, Start, readerVars
  <2>2. Flags'
    BY DEF IInv, Types, Flags, Start, readerVars
  <2>3. Counts'
    BY UnitAssumption DEF IInv, Types, Counts, TimeLeft, Start, readerVars
  <2> QED BY <2>1, <2>2, <2>3 DEF Types
<1>2. TimeLeft'
  BY UnitAssumption DEF IInv, Types, Counts, TimeLeft, Start, readerVars
<1>3. Undetected'
  BY DEF IInv, Types, States, Flags, Undetected, Replies, Start, readerVars
<1> QED BY <1>1, <1>2, <1>3 DEF IInv

\* A command of the call throws.
LEMMA FailsKeeps ==
  ASSUME IInv, Fails
  PROVE  IInv'
<1>1. Types'
  <2>1. States'
    BY DEF IInv, Types, States, Replies, Fails, readerVars
  <2>2. Flags'
    BY DEF IInv, Types, Flags, Fails, readerVars
  <2>3. Counts'
    BY UnitAssumption DEF IInv, Types, Counts, TimeLeft, Fails, readerVars
  <2> QED BY <2>1, <2>2, <2>3 DEF Types
<1>2. TimeLeft'
  BY UnitAssumption DEF IInv, Types, Counts, TimeLeft, Fails, readerVars
<1>3. Undetected'
  BY DEF IInv, Types, States, Flags, Undetected, Replies, Fails, readerVars
<1> QED BY <1>1, <1>2, <1>3 DEF IInv

\* waitInsertion finds a card.
LEMMA CardSeenKeeps ==
  ASSUME IInv, CardSeen
  PROVE  IInv'
<1>1. Types'
  <2>1. States'
    BY DEF IInv, Types, States, Replies, CardSeen, Polled
  <2>2. Flags'
    BY DEF IInv, Types, Flags, CardSeen, Polled
  <2>3. Counts'
    BY UnitAssumption DEF IInv, Types, Counts, TimeLeft, CardSeen, Polled
  <2> QED BY <2>1, <2>2, <2>3 DEF Types
<1>2. TimeLeft'
  BY UnitAssumption DEF IInv, Types, Counts, TimeLeft, CardSeen, Polled
<1>3. Undetected'
  BY DEF IInv, Types, States, Flags, Undetected, Replies, CardSeen, Polled
<1> QED BY <1>1, <1>2, <1>3 DEF IInv

\* waitInsertion returns true.
LEMMA AnnouncedKeeps ==
  ASSUME IInv, Announced
  PROVE  IInv'
<1>1. Types'
  <2>1. States'
    BY DEF IInv, Types, States, Replies, Announced, readerVars
  <2>2. Flags'
    BY DEF IInv, Types, Flags, Announced, readerVars
  <2>3. Counts'
    BY UnitAssumption DEF IInv, Types, Counts, TimeLeft, Announced, readerVars
  <2> QED BY <2>1, <2>2, <2>3 DEF Types
<1>2. TimeLeft'
  BY UnitAssumption DEF IInv, Types, Counts, TimeLeft, Announced, readerVars
<1>3. Undetected'
  BY DEF IInv, Types, States, Flags, Undetected, Replies, Announced, readerVars
<1> QED BY <1>1, <1>2, <1>3 DEF IInv

\* waitInsertion finds no card and counts the time.
LEMMA NoCardSeenKeeps ==
  ASSUME IInv, NoCardSeen
  PROVE  IInv'
<1>1. Types'
  <2>1. States'
    BY DEF IInv, Types, States, Replies, NoCardSeen, Polled, NextTurn, Wait, WaitsOn
  <2>2. Flags'
    BY DEF IInv, Types, Flags, NoCardSeen, Polled, NextTurn, Wait, WaitsOn
  <2>3. Counts'
    BY UnitAssumption DEF IInv, Types, Counts, TimeLeft, NoCardSeen, Polled, NextTurn, Wait, WaitsOn
  <2> QED BY <2>1, <2>2, <2>3 DEF Types
<1>2. TimeLeft'
  BY UnitAssumption DEF IInv, Types, Counts, TimeLeft, NoCardSeen, Polled, NextTurn, Wait, WaitsOn
<1>3. Undetected'
  BY DEF IInv, Types, States, Flags, Undetected, Replies, NoCardSeen, Polled, NextTurn, Wait, WaitsOn
<1> QED BY <1>1, <1>2, <1>3 DEF IInv

\* waitRemoval releases the card it is told of.
LEMMA ReleaseKeeps ==
  ASSUME IInv, Release
  PROVE  IInv'
<1>1. Types'
  <2>1. States'
    BY DEF IInv, Types, States, Replies, Release, NextTurn, Wait, WaitsOn
  <2>2. Flags'
    BY DEF IInv, Types, Flags, Release, NextTurn, Wait, WaitsOn
  <2>3. Counts'
    BY UnitAssumption DEF IInv, Types, Counts, TimeLeft, Release, NextTurn, Wait, WaitsOn
  <2> QED BY <2>1, <2>2, <2>3 DEF Types
<1>2. TimeLeft'
  BY UnitAssumption DEF IInv, Types, Counts, TimeLeft, Release, NextTurn, Wait, WaitsOn
<1>3. Undetected'
  BY DEF IInv, Types, States, Flags, Undetected, Replies, Release, NextTurn, Wait, WaitsOn
<1> QED BY <1>1, <1>2, <1>3 DEF IInv

\* waitRemoval returns true.
LEMMA RemovedKeeps ==
  ASSUME IInv, Removed
  PROVE  IInv'
<1>1. Types'
  <2>1. States'
    BY DEF IInv, Types, States, Replies, Removed, Polled, Wait
  <2>2. Flags'
    BY DEF IInv, Types, Flags, Removed, Polled, Wait
  <2>3. Counts'
    BY UnitAssumption DEF IInv, Types, Counts, TimeLeft, Removed, Polled, Wait
  <2> QED BY <2>1, <2>2, <2>3 DEF Types
<1>2. TimeLeft'
  BY UnitAssumption DEF IInv, Types, Counts, TimeLeft, Removed, Polled, Wait
<1>3. Undetected'
  BY DEF IInv, Types, States, Flags, Undetected, Replies, Removed, Polled, Wait
<1> QED BY <1>1, <1>2, <1>3 DEF IInv

\* waitRemoval looks once more after a release.
LEMMA AfterReleaseKeeps ==
  ASSUME IInv, AfterRelease
  PROVE  IInv'
<1>1. Types'
  <2>1. States'
    BY DEF IInv, Types, States, Replies, AfterRelease, Polled, NextTurn, Wait, WaitsOn
  <2>2. Flags'
    BY DEF IInv, Types, Flags, AfterRelease, Polled, NextTurn, Wait, WaitsOn
  <2>3. Counts'
    BY UnitAssumption DEF IInv, Types, Counts, TimeLeft, AfterRelease, Polled, NextTurn, Wait, WaitsOn
  <2> QED BY <2>1, <2>2, <2>3 DEF Types
<1>2. TimeLeft'
  BY UnitAssumption DEF IInv, Types, Counts, TimeLeft, AfterRelease, Polled, NextTurn, Wait, WaitsOn
<1>3. Undetected'
  BY DEF IInv, Types, States, Flags, Undetected, Replies, AfterRelease, Polled, NextTurn, Wait, WaitsOn
<1> QED BY <1>1, <1>2, <1>3 DEF IInv

\* The card is put on the reader or taken away.
LEMMA CardMovesKeeps ==
  ASSUME IInv, CardMoves
  PROVE  IInv'
<1>1. Types'
  <2>1. States'
    BY DEF IInv, Types, States, Replies, CardMoves, unitVars
  <2>2. Flags'
    BY DEF IInv, Types, Flags, CardMoves, unitVars
  <2>3. Counts'
    BY UnitAssumption DEF IInv, Types, Counts, TimeLeft, CardMoves, unitVars
  <2> QED BY <2>1, <2>2, <2>3 DEF Types
<1>2. TimeLeft'
  BY UnitAssumption DEF IInv, Types, Counts, TimeLeft, CardMoves, unitVars
<1>3. Undetected'
  BY DEF IInv, Types, States, Flags, Undetected, Replies, CardMoves, unitVars
<1> QED BY <1>1, <1>2, <1>3 DEF IInv

\* The tamper switch moves.
LEMMA TamperMovesKeeps ==
  ASSUME IInv, TamperMoves
  PROVE  IInv'
<1>1. Types'
  <2>1. States'
    BY DEF IInv, Types, States, Replies, TamperMoves, unitVars
  <2>2. Flags'
    BY DEF IInv, Types, Flags, TamperMoves, unitVars
  <2>3. Counts'
    BY UnitAssumption DEF IInv, Types, Counts, TimeLeft, TamperMoves, unitVars
  <2> QED BY <2>1, <2>2, <2>3 DEF Types
<1>2. TimeLeft'
  BY UnitAssumption DEF IInv, Types, Counts, TimeLeft, TamperMoves, unitVars
<1>3. Undetected'
  BY DEF IInv, Types, States, Flags, Undetected, Replies, TamperMoves, unitVars
<1> QED BY <1>1, <1>2, <1>3 DEF IInv

\* The reader detects a released card again, between two calls.
LEMMA RedetectsKeeps ==
  ASSUME IInv, Redetects
  PROVE  IInv'
<1>1. Types'
  <2>1. States'
    BY DEF IInv, Types, States, Replies, Redetects, unitVars
  <2>2. Flags'
    BY DEF IInv, Types, Flags, Redetects, unitVars
  <2>3. Counts'
    BY UnitAssumption DEF IInv, Types, Counts, TimeLeft, Redetects, unitVars
  <2> QED BY <2>1, <2>2, <2>3 DEF Types
<1>2. TimeLeft'
  BY UnitAssumption DEF IInv, Types, Counts, TimeLeft, Redetects, unitVars
<1>3. Undetected'
  BY DEF IInv, Types, States, Flags, Undetected, Replies, Redetects, unitVars
<1> QED BY <1>1, <1>2, <1>3 DEF IInv

\* The invariant holds at the start.
LEMMA InitKeeps == Init => IInv
<1> SUFFICES ASSUME Init PROVE IInv
  OBVIOUS
<1>1. States /\ Flags /\ TimeLeft /\ Undetected
  BY DEF Init, States, Flags, TimeLeft, Undetected, Replies
<1>2. Counts
  BY UnitAssumption DEF Init, Counts
<1> QED BY <1>1, <1>2 DEF IInv, Types

\* Every step of the specification keeps the invariant.
LEMMA StepKeeps == IInv /\ [Next]_vars => IInv'
<1> SUFFICES ASSUME IInv, [Next]_vars PROVE IInv'
  OBVIOUS
<1>1. CASE waitInsertion \/ waitRemoval
  BY <1>1, StartKeeps DEF waitInsertion, waitRemoval
<1>2. CASE Turn
  BY <1>2, CardSeenKeeps, AnnouncedKeeps, NoCardSeenKeeps, ReleaseKeeps, RemovedKeeps,
     AfterReleaseKeeps DEF Turn
<1>3. CASE Fails \/ CardMoves \/ TamperMoves \/ Redetects
  BY <1>3, FailsKeeps, CardMovesKeeps, TamperMovesKeeps, RedetectsKeeps
<1>4. CASE UNCHANGED vars
  BY <1>4 DEF IInv, Types, States, Flags, Counts, TimeLeft, Undetected, vars, unitVars, readerVars
<1> QED BY <1>1, <1>2, <1>3, <1>4 DEF Next

-----------------------------------------------------------------------------
(* The theorems.                                                           *)

\* The invariant holds: the loops have time left, and a card waitRemoval does
\* not find was away or released.
THEOREM InductiveInvariant == Spec => []IInv
<1> QED BY InitKeeps, StepKeeps, PTL DEF Spec

\* TypeOK, and with it that the time waitInsertion and waitRemoval count never
\* passes maxwait.
THEOREM TypeCorrect == Spec => []TypeOK
<1>1. IInv => TypeOK
  BY UnitAssumption DEF IInv, Types, States, Flags, Counts, TypeOK
<1> QED BY <1>1, InductiveInvariant, PTL

\* A step that ends waitRemoval with true.
LEMMA RemovedStep ==
  ASSUME IInv, [Next]_vars, pc = "removal", ret' = "true"
  PROVE  away \/ early \/ reply' \in {"LSTATR", "XRD"}
<1>1. CASE Removed
  BY <1>1 DEF IInv, Types, Flags, Undetected, Removed, Polled, Replies
<1>2. CASE Release \/ AfterRelease
  BY <1>2 DEF IInv, Undetected, Release, AfterRelease, NextTurn
<1>3. CASE Fails \/ waitInsertion \/ waitRemoval
  BY <1>3 DEF Fails, waitInsertion, waitRemoval, Start
<1>4. CASE CardSeen \/ Announced \/ NoCardSeen
  BY <1>4 DEF CardSeen, Announced, NoCardSeen
<1>5. CASE CardMoves \/ TamperMoves \/ Redetects \/ UNCHANGED vars
  BY <1>5 DEF IInv, Undetected, CardMoves, TamperMoves, Redetects, vars, unitVars
<1> QED BY <1>1, <1>2, <1>3, <1>4, <1>5 DEF Next, Turn

\* RemovedMeansGone: waitRemoval returns true for a card that never left only
\* after a report of another kind, or right after the release by an earlier call.
THEOREM RemovalIsReal == Spec => RemovedMeansGone
<1>1. IInv /\ [Next]_vars
        => [pc = "removal" /\ ret' = "true"
              => away \/ early \/ reply' \in {"LSTATR", "XRD"}]_vars
  BY RemovedStep
<1> QED BY <1>1, InductiveInvariant, PTL DEF Spec, RemovedMeansGone

=============================================================================
