------------------------ MODULE PCSCReaderUnitProofs ------------------------
(***************************************************************************)
(* Proofs about the PC/SC reader unit: no handle is held during a wait,    *)
(* connect reaches the reader where the card was seen, and a removal that  *)
(* is reported has happened, for every list of readers, every set of them  *)
(* that needs a proxy and every sequence of calls.                         *)
(***************************************************************************)
EXTENDS PCSCReaderUnit, WellFoundedInduction, TLAPS

-----------------------------------------------------------------------------
(* The inductive invariant.                                                *)

Inserting == {"insCall", "insBlocked", "insTest"}
Removing == {"remFirst", "remBlocked"}
CallRecords ==
  [pc : {"idle"} \cup Inserting \cup Removing, max : Nat, elapsed : Nat,
   left : Int, late : Nat, watched : SUBSET Readers, known : SUBSET Readers,
   wrapped : BOOLEAN]

Types == TypeOK /\ call \in CallRecords /\ reused \in BOOLEAN

\* Only the object that acts holds a connection, and none does during a wait.
Handles ==
  /\ \A u \in Both : u # Acting => connection[u] = NoConnection
  /\ NoHandleWhileWaiting

\* The names a unit for one reader knows are that reader's, or the pattern it was
\* made with until a card was seen.
OneReader ==
  d_name \in Readers =>
    /\ proxy \in {NoReader, d_name} /\ d_connectedName \in {NoReader, Pattern, d_name}
    /\ d_connectedName = Pattern => proxy = d_name
    /\ seen # NoConnection =>
         seen.reader = d_name /\ (d_name \in Special => proxy = d_name)
           /\ (d_name \notin Special => proxy = NoReader)

\* A pattern that was not tried yet stands for no reader.
NotTried ==
  d_name = Pattern =>
    seen = NoConnection /\ proxy = NoReader /\ d_connectedName \in {NoReader, Pattern}

\* A unit for all readers keeps the name where it saw the card in one place:
\* its proxy, if that reader needs one, or d_connectedName.
AllReaders ==
  d_name = NoReader /\ reused = FALSE =>
    /\ seen = NoConnection => proxy = NoReader /\ d_connectedName = NoReader
    /\ seen # NoConnection /\ seen.reader \in Special =>
         proxy = seen.reader /\ d_connectedName = NoReader
    /\ seen # NoConnection /\ seen.reader \notin Special =>
         proxy = NoReader /\ d_connectedName = seen.reader

\* What a wait looks at.
Watches ==
  /\ call.pc \in Inserting =>
       \/ d_name \in Readers /\ call.watched = {d_name}
       \/ d_name = NoReader /\ (reused = FALSE => seen = NoConnection)
  /\ call.pc \in Removing =>
       /\ d_name = Pattern => call.watched = {}
       /\ seen # NoConnection /\ reused = FALSE => call.watched = {seen.reader}
       /\ \A r \in Readers : slot[r] = NoCard => r \in emptied

\* A card that was seen lies on a reader, and a connection is to it.
Sighted ==
  seen # NoConnection =>
    /\ seen.reader \in Readers
    /\ reused = FALSE => \A u \in Both : connection[u] # NoConnection
                           => connection[u].reader = seen.reader

IInv ==
  Types /\ Handles /\ OneReader /\ NotTried /\ AllReaders /\ Watches /\ Sighted

-----------------------------------------------------------------------------
(* Facts about the operators of the model.                                 *)

\* The first reader of the list with a card is one with a card: readers are
\* numbered, so there is a least one.
LEMMA FirstOf ==
  ASSUME NEW P \in SUBSET Readers, P # {}
  PROVE  (CHOOSE r \in P : \A q \in P : r <= q) \in P
<1>1. P \subseteq Nat
  BY PCSCAssumption
<1>2. \E x \in P : \A y \in P : ~(<<y, x>> \in OpToRel(<, Nat))
  BY <1>1, WFMin, NatLessThanWellFounded, Zenon
<1>3. PICK x \in P : \A y \in P : ~(<<y, x>> \in OpToRel(<, Nat))
  BY <1>2
<1>4. ASSUME NEW y \in P PROVE x <= y
  <2>1. <<y, x>> \in Nat \X Nat /\ <<y, x>>[1] = y /\ <<y, x>>[2] = x
    BY <1>1
  <2>2. ~(y < x)
    BY <1>3, <2>1 DEF OpToRel
  <2> QED BY <1>1, <2>2
<1> QED BY <1>4

\* No call under way is a call record.
LEMMA IdleTyped == Idle \in CallRecords
BY DEF Idle, CallRecords, Inserting, Removing

\* The list of readers has a last one.
LEMMA LastReader == (CHOOSE r \in Readers : \A q \in Readers : q <= r) \in Readers
BY PCSCAssumption

\* prepare_poll_parameters leaves the unit a reader's name, or none.
LEMMA AdjustedName ==
  ASSUME IInv, AdjustName
  PROVE  /\ d_name' \in Readers \cup {NoReader} /\ proxy' \in Readers \cup {NoReader}
         /\ d_name = NoReader <=> d_name' = NoReader
         /\ d_name # Pattern => d_name' = d_name /\ proxy' = proxy
         /\ d_name = Pattern => proxy' = d_name'
<1> DEFINE last == CHOOSE r \in Readers : \A q \in Readers : q <= r
<1>1. last \in Readers
  BY LastReader
<1>2. /\ d_name = Pattern => d_name' = last /\ proxy' = last
      /\ d_name # Pattern => d_name' = d_name /\ proxy' = proxy
  BY DEF AdjustName
<1> HIDE DEF last
<1>3. NoReader # Pattern /\ NoReader \notin Readers
  BY PCSCAssumption DEF NoReader, Pattern
<1> QED
  BY <1>1, <1>2, <1>3 DEF IInv, Types, TypeOK

-----------------------------------------------------------------------------
(* Every action keeps the invariant.                                       *)

\* The name the unit acts under is that of the reader where the card was seen.
LEMMA WhereSeen ==
  ASSUME IInv, seen # NoConnection, reused = FALSE
  PROVE  /\ getConnectedName = seen.reader
         /\ (proxy \in Special) = (seen.reader \in Special)
<1>1. d_name \in Readers \/ d_name = NoReader
  BY DEF IInv, Types, TypeOK, NotTried
<1> QED
  BY <1>1, PCSCAssumption
     DEF IInv, OneReader, AllReaders, Sighted, getConnectedName, NoReader

\* A wait that ends without a card, or with an exception, changes nothing else.
LEMMA GivesUpKeeps ==
  ASSUME IInv, call' = Idle, UNCHANGED <<unitVars, seen>>,
         UNCHANGED <<slot, calls, moves, reused, emptied>>
  PROVE  IInv'
<1>1. Types'
  BY IdleTyped DEF IInv, Types, TypeOK, Idle, unitVars
<1>2. Handles' /\ OneReader' /\ NotTried' /\ AllReaders' /\ Sighted' /\ Watches'
  BY DEF IInv, Handles, NoHandleWhileWaiting, OneReader, NotTried, AllReaders, Sighted,
     Watches, Inserting, Removing, Idle, Acting, unitVars
<1> QED BY <1>1, <1>2 DEF IInv

\* waitInsertion gives up both connections and settles the name.
LEMMA WaitInsertionKeeps ==
  ASSUME IInv, NEW max \in Waits, WaitInsertion(max)
  PROVE  IInv'
<1>0. d_name' \in Readers \cup {NoReader} /\ proxy' \in Readers \cup {NoReader}
      /\ (d_name = NoReader <=> d_name' = NoReader)
  BY AdjustedName DEF WaitInsertion
<1>6. /\ call'.pc = "insCall" /\ call'.max = max /\ call'.left = 0 /\ call'.known = {}
      /\ call'.watched = (IF d_name = NoReader THEN Readers ELSE {d_name'})
      /\ call' \in CallRecords
  <2> DEFINE w == IF d_name = NoReader THEN Readers ELSE {d_name'}
  <2>1. w \in SUBSET Readers /\ max \in Nat
    BY <1>0, PCSCAssumption
  <2>2. call' = [Idle EXCEPT !.pc = "insCall", !.max = max, !.watched = w]
    BY DEF WaitInsertion
  <2>3. Idle.left = 0 /\ Idle.known = {}
    BY DEF Idle
  <2> HIDE DEF w
  <2>4. /\ call'.pc = "insCall" /\ call'.max = max /\ call'.left = 0 /\ call'.known = {}
        /\ call'.watched = w /\ call' \in CallRecords
    BY <2>1, <2>2, <2>3, IdleTyped DEF CallRecords, Inserting, Removing
  <2> QED BY <2>4 DEF w
<1>1. Types'
  BY <1>0, <1>6, PCSCAssumption DEF IInv, Types, TypeOK, CallRecords, WaitInsertion, Teardown,
     Sights, NoConnection, NoReader, NoCard
<1>2. Handles'
  BY DEF IInv, Types, TypeOK, CallRecords, Handles, NoHandleWhileWaiting, Acting,
     Idle, Both, WaitInsertion, Called, Teardown, AdjustName
<1>3. OneReader' /\ NotTried' /\ AllReaders'
  BY PCSCAssumption DEF IInv, Types, TypeOK, OneReader, NotTried, AllReaders,
     Watches, Inserting, Removing, NoReader, Pattern, WaitInsertion, Called,
     Teardown, AdjustName
<1>4. Watches'
  BY <1>0, <1>6, PCSCAssumption DEF IInv, Types, TypeOK, Watches, Inserting, Removing,
     NoReader, WaitInsertion
<1>5. Sighted'
  BY PCSCAssumption DEF IInv, Types, TypeOK, OneReader, NotTried, AllReaders,
     Sighted, Handles, NoHandleWhileWaiting, Inserting, Removing, Both, NoReader,
     Pattern, WaitInsertion, Called, Teardown, AdjustName
<1> QED BY <1>1, <1>2, <1>3, <1>4, <1>5 DEF IInv

\* The remaining time is computed, and may be taken for weeks.
LEMMA InsertionCallKeeps ==
  ASSUME IInv, InsertionCall
  PROVE  IInv'
<1>1. Types'
  <2> DEFINE left == IF call.max = 0 THEN Forever ELSE call.max - call.elapsed
             l == IF left < 0 THEN Forever ELSE left
             w == call.max # 0 /\ left < 0
  <2>1. call.max \in Nat /\ call.elapsed \in Nat
    BY DEF IInv, Types, CallRecords
  <2>2. l \in Int /\ l \in -1 .. call.max
    BY <2>1 DEF Forever
  <2>3. w \in BOOLEAN
    OBVIOUS
  <2>4. call' = [call EXCEPT !.pc = "insBlocked", !.late = 0, !.left = l, !.wrapped = w]
    BY DEF InsertionCall
  <2> HIDE DEF l, w
  <2>5. call' \in CallRecords /\ call'.left = l /\ call'.max = call.max /\ call'.pc = "insBlocked"
    BY <2>2, <2>3, <2>4 DEF IInv, Types, CallRecords, Inserting, Removing
  <2> QED
    BY <2>2, <2>5 DEF IInv, Types, TypeOK, CallRecords, InsertionCall, unitVars, history
<1>2. Handles'
  BY DEF IInv, Types, TypeOK, CallRecords, Handles, NoHandleWhileWaiting, Acting,
     Idle, Both, InsertionCall, unitVars, history
<1>3. OneReader' /\ NotTried' /\ AllReaders'
  BY PCSCAssumption DEF IInv, Types, TypeOK, OneReader, NotTried, AllReaders,
     Watches, Inserting, Removing, NoReader, Pattern, InsertionCall, unitVars,
     history
<1>4. Watches'
  BY PCSCAssumption DEF IInv, Types, TypeOK, CallRecords, OneReader, NotTried,
     AllReaders, Watches, Inserting, Removing, NoReader, Pattern, Idle,
     InsertionCall, unitVars, history
<1>5. Sighted'
  BY PCSCAssumption DEF IInv, Types, TypeOK, OneReader, NotTried, AllReaders,
     Sighted, Handles, NoHandleWhileWaiting, Inserting, Removing, Both, NoReader,
     Pattern, InsertionCall, unitVars, history
<1> QED BY <1>1, <1>2, <1>3, <1>4, <1>5 DEF IInv

\* A card is seen on the reader r: the name goes to the proxy or to the unit.
LEMMA InsertedKeeps ==
  ASSUME IInv, call.pc = "insBlocked",
         NEW r \in call.watched, slot[r] # NoCard,
         ProcessInsertion(r), seen' = [reader |-> r, card |-> slot[r]],
         Returns("inserted"), UNCHANGED <<d_name, connection>>,
         UNCHANGED <<slot, calls, moves, reused, emptied>>
  PROVE  IInv'
<1>1. r \in Readers /\ Proxied(r) \in Readers \cup {NoReader}
  BY PCSCAssumption DEF IInv, Types, TypeOK, Proxied
<1>2. seen' \in Sights /\ seen' # NoConnection /\ seen'.reader = r
  BY <1>1, PCSCAssumption DEF IInv, Types, TypeOK, Sights, NoConnection, NoReader
<1>3. /\ \A u \in Both : connection[u] = NoConnection
      /\ d_name \in Readers => r = d_name
      /\ d_name # Pattern
      /\ d_name = NoReader /\ reused = FALSE => seen = NoConnection
  BY PCSCAssumption DEF IInv, Handles, NoHandleWhileWaiting, Watches, Inserting, Pattern, NoReader
<1>4. call' = Idle /\ call' \in CallRecords
  BY IdleTyped DEF Returns
<1>5. Types'
  <2>1. chip' \in [Both -> Sights]
    BY <1>2 DEF IInv, Types, TypeOK, ProcessInsertion
  <2>2. proxy' \in Readers \cup {NoReader} /\ d_connectedName' \in Readers \cup {NoReader, Pattern}
    BY <1>1 DEF IInv, Types, TypeOK, ProcessInsertion
  <2> QED
    BY <1>2, <1>4, <2>1, <2>2 DEF IInv, Types, TypeOK, Idle
<1>6. Handles'
  BY <1>3, <1>4 DEF Handles, NoHandleWhileWaiting, Idle
<1>7. OneReader'
  BY <1>1, <1>2, <1>3, PCSCAssumption
     DEF IInv, OneReader, ProcessInsertion, Proxied, NoReader
<1>8. NotTried' /\ AllReaders'
  BY <1>1, <1>2, <1>3, PCSCAssumption
     DEF IInv, NotTried, AllReaders, ProcessInsertion, Proxied, NoReader
<1>9. Watches' /\ Sighted'
  BY <1>1, <1>2, <1>3, <1>4 DEF Watches, Sighted, Inserting, Removing, Idle
<1> QED BY <1>5, <1>6, <1>7, <1>8, <1>9 DEF IInv

\* The service reports readers that changed.
LEMMA InsertionStatusKeeps ==
  ASSUME IInv, InsertionStatus
  PROVE  IInv'
<1> DEFINE present == {r \in call.watched : slot[r] # NoCard}
           first == CHOOSE r \in present : \A q \in present : r <= q
<1>1. CASE /\ present # {}
           /\ ProcessInsertion(first)
           /\ seen' = [reader |-> first, card |-> slot[first]]
           /\ Returns("inserted")
           /\ UNCHANGED <<d_name, connection>>
  <2>1. present \in SUBSET Readers
    BY DEF IInv, Types, TypeOK
  <2>2. first \in present
    BY <1>1, <2>1, FirstOf
  <2>3. UNCHANGED <<slot, calls, moves, reused, emptied>> /\ call.pc = "insBlocked"
    BY DEF InsertionStatus
  <2> HIDE DEF first
  <2>4. first \in call.watched /\ slot[first] # NoCard
    BY <2>2
  <2> QED
    BY <1>1, <2>3, <2>4, InsertedKeeps
<1>2. CASE /\ call' = [call EXCEPT !.pc = "insTest", !.known = call.watched]
           /\ UNCHANGED <<unitVars, seen, result>>
  <2>1. UNCHANGED <<slot, calls, moves, reused, emptied>> /\ call.pc = "insBlocked"
    BY DEF InsertionStatus
  <2>2. call' \in CallRecords /\ call'.pc = "insTest" /\ call'.watched = call.watched
        /\ call'.left = call.left /\ call'.max = call.max /\ call'.known = call.watched
    BY <1>2 DEF IInv, Types, CallRecords, Inserting, Removing
  <2>3. Types'
    BY <1>2, <2>1, <2>2 DEF IInv, Types, TypeOK, unitVars
  <2>4. Handles' /\ OneReader' /\ NotTried' /\ AllReaders' /\ Sighted'
    BY <1>2, <2>1, <2>2 DEF IInv, Handles, NoHandleWhileWaiting, OneReader, NotTried,
       AllReaders, Sighted, Acting, unitVars
  <2>5. Watches'
    BY <1>2, <2>1, <2>2 DEF IInv, Watches, Inserting, Removing, unitVars
  <2> QED BY <2>3, <2>4, <2>5 DEF IInv
<1> QED BY <1>1, <1>2 DEF InsertionStatus

\* The service reports that the time is over.
LEMMA InsertionTimeoutKeeps ==
  ASSUME IInv, InsertionTimeout
  PROVE  IInv'
<1>1. Types'
  BY PCSCAssumption, IdleTyped DEF IInv, Types, TypeOK, CallRecords, Inserting,
     Removing, Sights, Both, NoConnection, NoReader, NoCard, Pattern, Forever,
     Acting, Idle, InsertionTimeout, unitVars, history
<1>2. Handles'
  BY DEF IInv, Types, TypeOK, CallRecords, Handles, NoHandleWhileWaiting, Acting,
     Idle, Both, InsertionTimeout, unitVars, history
<1>3. OneReader' /\ NotTried' /\ AllReaders'
  BY PCSCAssumption DEF IInv, Types, TypeOK, OneReader, NotTried, AllReaders,
     Watches, Inserting, Removing, NoReader, Pattern, InsertionTimeout, unitVars,
     history
<1>4. Watches'
  BY PCSCAssumption DEF IInv, Types, TypeOK, CallRecords, OneReader, NotTried,
     AllReaders, Watches, Inserting, Removing, NoReader, Pattern, Idle,
     InsertionTimeout, unitVars, history
<1>5. Sighted'
  BY PCSCAssumption DEF IInv, Types, TypeOK, OneReader, NotTried, AllReaders,
     Sighted, Handles, NoHandleWhileWaiting, Inserting, Removing, Both, NoReader,
     Pattern, InsertionTimeout, unitVars, history
<1> QED BY <1>1, <1>2, <1>3, <1>4, <1>5 DEF IInv

\* The loop of waitInsertion goes on or ends.
LEMMA InsertionTestKeeps ==
  ASSUME IInv, InsertionTest
  PROVE  IInv'
<1>1. Types'
  <2>1. call' = Idle \/ call' = [call EXCEPT !.pc = "insCall"]
    BY DEF InsertionTest, Returns
  <2>2. [call EXCEPT !.pc = "insCall"] \in CallRecords
    BY DEF IInv, Types, CallRecords, Inserting, Removing
  <2>3. Idle.left = 0 /\ Idle.max = 0
    BY DEF Idle
  <2>4. call' \in CallRecords
    BY <2>1, <2>2, IdleTyped
  <2>5. call'.left \in -1 .. call'.max
    BY <2>1, <2>3 DEF IInv, Types, TypeOK, CallRecords
  <2> QED
    BY <2>4, <2>5 DEF IInv, Types, TypeOK, CallRecords, Inserting, Removing, InsertionTest,
       unitVars
<1>2. Handles'
  BY DEF IInv, Types, TypeOK, CallRecords, Handles, NoHandleWhileWaiting, Acting,
     Idle, Both, InsertionTest, Returns, unitVars
<1>3. OneReader' /\ NotTried' /\ AllReaders'
  BY PCSCAssumption DEF IInv, Types, TypeOK, OneReader, NotTried, AllReaders,
     Watches, Inserting, Removing, NoReader, Pattern, InsertionTest, Returns,
     unitVars
<1>4. Watches'
  BY PCSCAssumption DEF IInv, Types, TypeOK, CallRecords, OneReader, NotTried,
     AllReaders, Watches, Inserting, Removing, NoReader, Pattern, Idle,
     InsertionTest, Returns, unitVars
<1>5. Sighted'
  BY PCSCAssumption DEF IInv, Types, TypeOK, OneReader, NotTried, AllReaders,
     Sighted, Handles, NoHandleWhileWaiting, Inserting, Removing, Both, NoReader,
     Pattern, InsertionTest, Returns, unitVars
<1> QED BY <1>1, <1>2, <1>3, <1>4, <1>5 DEF IInv

\* The service reports an error, which is thrown.
LEMMA InsertionErrorKeeps ==
  ASSUME IInv, InsertionError
  PROVE  IInv'
BY GivesUpKeeps DEF InsertionError, Returns

\* waitRemoval gives up the connection and watches the reader of the card.
LEMMA WaitRemovalKeeps ==
  ASSUME IInv, NEW max \in Waits, WaitRemoval(max)
  PROVE  IInv'
<1>0. /\ call'.pc = "remFirst" /\ call'.max = max /\ call'.left = max
      /\ call'.watched = (IF getConnectedName = NoReader THEN Readers
                          ELSE {getConnectedName} \cap Readers)
      /\ call' \in CallRecords
  <2>1. max \in Nat /\ max \in Int
    BY PCSCAssumption
  <2> DEFINE w == IF getConnectedName = NoReader THEN Readers
                  ELSE {getConnectedName} \cap Readers
  <2>2. w \in SUBSET Readers
    OBVIOUS
  <2>3. call' = [Idle EXCEPT !.pc = "remFirst", !.max = max, !.left = max, !.watched = w]
    BY DEF WaitRemoval
  <2> HIDE DEF w
  <2>4. /\ call'.pc = "remFirst" /\ call'.max = max /\ call'.left = max
        /\ call'.watched = w /\ call' \in CallRecords
    BY <2>1, <2>2, <2>3, IdleTyped DEF CallRecords, Inserting, Removing
  <2> QED BY <2>4 DEF w
<1>1. Types'
  <2>1. max \in -1 .. max
    BY PCSCAssumption
  <2>2. connection' \in [Both -> Sights]
    BY DEF IInv, Types, TypeOK, WaitRemoval, Disconnected, Sights, NoConnection, NoReader,
       NoCard
  <2> QED
    BY <1>0, <2>1, <2>2 DEF IInv, Types, TypeOK, CallRecords, WaitRemoval
<1>2. Handles'
  BY DEF IInv, Types, TypeOK, CallRecords, Handles, NoHandleWhileWaiting, Acting,
     Idle, Both, WaitRemoval, Called, Disconnected, getConnectedName
<1>3. OneReader' /\ NotTried' /\ AllReaders'
  BY PCSCAssumption DEF IInv, Types, TypeOK, OneReader, NotTried, AllReaders,
     Watches, Inserting, Removing, NoReader, Pattern, WaitRemoval, Called,
     Disconnected, getConnectedName
<1>4. Watches'
  <2>1. d_name = Pattern => call'.watched = {}
    BY <1>0, PCSCAssumption DEF IInv, NotTried, getConnectedName, Pattern, NoReader
  <2>2. seen # NoConnection /\ reused = FALSE => getConnectedName = seen.reader
    BY WhereSeen
  <2>3. seen # NoConnection /\ reused = FALSE => call'.watched = {seen.reader}
    BY <1>0, <2>2, PCSCAssumption DEF IInv, Sighted, NoReader
  <2> QED
    BY <1>0, <2>1, <2>3 DEF Watches, Inserting, Removing, WaitRemoval
<1>5. Sighted'
  BY PCSCAssumption DEF IInv, Types, TypeOK, OneReader, NotTried, AllReaders,
     Sighted, Handles, NoHandleWhileWaiting, Inserting, Removing, Both, NoReader,
     Pattern, WaitRemoval, Called, Disconnected, getConnectedName
<1> QED BY <1>1, <1>2, <1>3, <1>4, <1>5 DEF IInv

\* A reader that is watched is empty: the unit forgets the card.
LEMMA RemovedKeeps ==
  ASSUME IInv, call.pc \in Removing, WatchedEmpty, Removed,
         UNCHANGED <<slot, calls, moves, reused, emptied>>
  PROVE  IInv'
<1>1. call' = Idle /\ call' \in CallRecords /\ seen' = NoConnection
  BY IdleTyped DEF Removed, Returns
<1>2. d_name \in Readers \/ d_name = NoReader
  BY DEF IInv, Types, TypeOK, Watches, WatchedEmpty
<1>3. \A u \in Both : connection'[u] = NoConnection
  BY DEF IInv, Handles, NoHandleWhileWaiting, Removing, Removed
<1>4. Types'
  <2>1. NoConnection \in Sights
    BY DEF NoConnection, Sights, NoReader, NoCard
  <2>2. chip' \in [Both -> Sights]
    BY <2>1 DEF IInv, Types, TypeOK, Removed
  <2> QED
    BY <1>1, <2>1, <2>2 DEF IInv, Types, TypeOK, Idle, Removed
<1>5. Handles'
  BY <1>1, <1>3 DEF Handles, NoHandleWhileWaiting, Idle
<1>6. OneReader' /\ NotTried'
  BY <1>1, <1>2, PCSCAssumption
     DEF IInv, OneReader, NotTried, Removed, Acting, Pattern, NoReader
<1>7. AllReaders'
  BY <1>1, <1>2, PCSCAssumption DEF IInv, AllReaders, Sighted, Removed, Acting, NoReader
<1>8. Watches' /\ Sighted'
  BY <1>1 DEF Watches, Sighted, Inserting, Removing, Idle
<1> QED BY <1>4, <1>5, <1>6, <1>7, <1>8 DEF IInv

\* The first question of waitRemoval.
LEMMA RemovalFirstKeeps ==
  ASSUME IInv, RemovalFirst
  PROVE  IInv'
<1>1. UNCHANGED <<slot, calls, moves, reused, emptied>> /\ call.pc = "remFirst"
  BY DEF RemovalFirst
<1>2. CASE WatchedEmpty /\ Removed
  BY <1>1, <1>2, RemovedKeeps DEF Removing
<1>3. CASE Returns("timeout") /\ UNCHANGED <<unitVars, seen>>
  BY <1>1, <1>3, GivesUpKeeps DEF Returns
<1>4. CASE /\ call' = [call EXCEPT !.pc = "remBlocked", !.known = call.watched,
                                   !.left = IF call.max = 0 THEN Forever ELSE call.max]
           /\ UNCHANGED <<unitVars, seen, result>>
  <2> DEFINE l == IF call.max = 0 THEN Forever ELSE call.max
  <2>1. call.max \in Nat
    BY DEF IInv, Types, CallRecords
  <2>2. l \in Int /\ l \in -1 .. call.max
    BY <2>1 DEF Forever
  <2> HIDE DEF l
  <2>3. call' = [call EXCEPT !.pc = "remBlocked", !.known = call.watched, !.left = l]
    BY <1>4 DEF l
  <2>4. /\ call' \in CallRecords /\ call'.pc = "remBlocked" /\ call'.max = call.max
        /\ call'.watched = call.watched /\ call'.left = l /\ call'.known = call.watched
    BY <2>2, <2>3 DEF IInv, Types, CallRecords, Inserting, Removing
  <2>5. Types'
    BY <1>1, <1>4, <2>2, <2>4 DEF IInv, Types, TypeOK, unitVars
  <2>6. Handles' /\ OneReader' /\ NotTried' /\ AllReaders' /\ Sighted'
    BY <1>1, <1>4, <2>4 DEF IInv, Handles, NoHandleWhileWaiting, OneReader, NotTried,
       AllReaders, Sighted, Acting, unitVars
  <2>7. Watches'
    BY <1>1, <1>4, <2>4 DEF IInv, Watches, Inserting, Removing, unitVars
  <2> QED BY <2>5, <2>6, <2>7 DEF IInv
<1> QED BY <1>2, <1>3, <1>4 DEF RemovalFirst

\* The service reports the removal.
LEMMA RemovalStatusKeeps ==
  ASSUME IInv, RemovalStatus
  PROVE  IInv'
BY RemovedKeeps DEF RemovalStatus, Removing

\* The service reports a change that is no removal.
LEMMA RemovalOtherKeeps ==
  ASSUME IInv, RemovalOther
  PROVE  IInv'
<1>1. Types'
  BY PCSCAssumption, IdleTyped DEF IInv, Types, TypeOK, CallRecords, Inserting,
     Removing, Sights, Both, NoConnection, NoReader, NoCard, Pattern, Forever,
     Acting, Idle, RemovalOther, unitVars, history
<1>2. Handles'
  BY DEF IInv, Types, TypeOK, CallRecords, Handles, NoHandleWhileWaiting, Acting,
     Idle, Both, RemovalOther, unitVars, history
<1>3. OneReader' /\ NotTried' /\ AllReaders'
  BY PCSCAssumption DEF IInv, Types, TypeOK, OneReader, NotTried, AllReaders,
     Watches, Inserting, Removing, NoReader, Pattern, RemovalOther, unitVars,
     history
<1>4. Watches'
  BY PCSCAssumption DEF IInv, Types, TypeOK, CallRecords, OneReader, NotTried,
     AllReaders, Watches, Inserting, Removing, NoReader, Pattern, Idle,
     RemovalOther, unitVars, history
<1>5. Sighted'
  BY PCSCAssumption DEF IInv, Types, TypeOK, OneReader, NotTried, AllReaders,
     Sighted, Handles, NoHandleWhileWaiting, Inserting, Removing, Both, NoReader,
     Pattern, RemovalOther, unitVars, history
<1> QED BY <1>1, <1>2, <1>3, <1>4, <1>5 DEF IInv

\* waitRemoval ends after it spun.
LEMMA RemovalSpinKeeps ==
  ASSUME IInv, RemovalSpin
  PROVE  IInv'
BY GivesUpKeeps DEF RemovalSpin, Returns

\* waitRemoval ends in time.
LEMMA RemovalTimeoutKeeps ==
  ASSUME IInv, RemovalTimeout
  PROVE  IInv'
BY GivesUpKeeps DEF RemovalTimeout, Returns

\* An error of the service is thrown by waitRemoval.
LEMMA RemovalErrorKeeps ==
  ASSUME IInv, RemovalError
  PROVE  IInv'
BY GivesUpKeeps DEF RemovalError, Returns

\* connect reaches the reader of the acting object's name.
LEMMA ConnectKeeps ==
  ASSUME IInv, Connect
  PROVE  IInv'
<1>1. Types'
  <2>1. NoConnection \in Sights /\ \A r \in Readers : [reader |-> r, card |-> slot[r]] \in Sights
    BY DEF IInv, Types, TypeOK, Sights, NoConnection, NoReader, NoCard
  <2>2. connection' \in [Both -> Sights]
    BY <2>1 DEF IInv, Types, TypeOK, Connect, Disconnected
  <2> QED
    BY <2>2 DEF IInv, Types, TypeOK, Connect
<1>2. Handles'
  BY DEF IInv, Types, TypeOK, CallRecords, Handles, NoHandleWhileWaiting, Acting,
     Idle, Both, Connect, Called, Disconnected, getConnectedName
<1>3. OneReader' /\ NotTried' /\ AllReaders'
  BY PCSCAssumption DEF IInv, Types, TypeOK, OneReader, NotTried, AllReaders,
     Watches, Inserting, Removing, NoReader, Pattern, Connect, Called, Disconnected,
     getConnectedName
<1>4. Watches'
  BY PCSCAssumption DEF IInv, Types, TypeOK, CallRecords, OneReader, NotTried,
     AllReaders, Watches, Inserting, Removing, NoReader, Pattern, Idle, Connect,
     Called, Disconnected, getConnectedName
<1>5. Sighted'
  BY PCSCAssumption DEF IInv, Types, TypeOK, OneReader, NotTried, AllReaders,
     Sighted, Handles, NoHandleWhileWaiting, Inserting, Removing, Both, NoReader,
     Pattern, Connect, Called, Disconnected, getConnectedName
<1> QED BY <1>1, <1>2, <1>3, <1>4, <1>5 DEF IInv

\* disconnect gives up the acting object's connection.
LEMMA DisconnectKeeps ==
  ASSUME IInv, Disconnect
  PROVE  IInv'
<1>1. Types'
  <2>1. NoConnection \in Sights
    BY DEF Sights, NoConnection, NoReader, NoCard
  <2>2. connection' \in [Both -> Sights]
    BY <2>1 DEF IInv, Types, TypeOK, Disconnect, Disconnected
  <2> QED
    BY <2>2 DEF IInv, Types, TypeOK, Disconnect
<1>2. Handles'
  BY DEF IInv, Types, TypeOK, CallRecords, Handles, NoHandleWhileWaiting, Acting,
     Idle, Both, Disconnect, Called, Disconnected
<1>3. OneReader' /\ NotTried' /\ AllReaders'
  BY PCSCAssumption DEF IInv, Types, TypeOK, OneReader, NotTried, AllReaders,
     Watches, Inserting, Removing, NoReader, Pattern, Disconnect, Called,
     Disconnected
<1>4. Watches'
  BY PCSCAssumption DEF IInv, Types, TypeOK, CallRecords, OneReader, NotTried,
     AllReaders, Watches, Inserting, Removing, NoReader, Pattern, Idle, Disconnect,
     Called, Disconnected
<1>5. Sighted'
  BY PCSCAssumption DEF IInv, Types, TypeOK, OneReader, NotTried, AllReaders,
     Sighted, Handles, NoHandleWhileWaiting, Inserting, Removing, Both, NoReader,
     Pattern, Disconnect, Called, Disconnected
<1> QED BY <1>1, <1>2, <1>3, <1>4, <1>5 DEF IInv

\* The user puts a card on a reader or takes it away.
LEMMA MoveKeeps ==
  ASSUME IInv, NEW r \in Readers, NEW c \in Cards \cup {NoCard}, Move(r, c)
  PROVE  IInv'
<1>1. Types'
  BY PCSCAssumption, IdleTyped DEF IInv, Types, TypeOK, CallRecords, Inserting,
     Removing, Sights, Both, NoConnection, NoReader, NoCard, Pattern, Forever,
     Acting, Idle, Move, unitVars
<1>2. Handles'
  BY DEF IInv, Types, TypeOK, CallRecords, Handles, NoHandleWhileWaiting, Acting,
     Idle, Both, Move, unitVars
<1>3. OneReader' /\ NotTried' /\ AllReaders'
  BY PCSCAssumption DEF IInv, Types, TypeOK, OneReader, NotTried, AllReaders,
     Watches, Inserting, Removing, NoReader, Pattern, Move, unitVars
<1>4. Watches'
  BY PCSCAssumption DEF IInv, Types, TypeOK, CallRecords, OneReader, NotTried,
     AllReaders, Watches, Inserting, Removing, NoReader, Pattern, Idle, Move,
     unitVars
<1>5. Sighted'
  BY PCSCAssumption DEF IInv, Types, TypeOK, OneReader, NotTried, AllReaders,
     Sighted, Handles, NoHandleWhileWaiting, Inserting, Removing, Both, NoReader,
     Pattern, Move, unitVars
<1> QED BY <1>1, <1>2, <1>3, <1>4, <1>5 DEF IInv

\* Time passes during a call.
LEMMA TickKeeps ==
  ASSUME IInv, Tick
  PROVE  IInv'
<1>0. call' \in CallRecords /\ call'.pc = call.pc /\ call'.watched = call.watched
      /\ call'.known = call.known /\ call'.left \in -1 .. call'.max
  <2>1. CASE call.pc = "insCall"
    <3>1. call' = [call EXCEPT !.elapsed = call.elapsed + 1, !.late = call.late + 1]
      BY <2>1 DEF Tick
    <3>2. call.elapsed + 1 \in Nat /\ call.late + 1 \in Nat
      BY DEF IInv, Types, CallRecords
    <3> QED
      BY <3>1, <3>2 DEF IInv, Types, TypeOK, CallRecords
  <2>2. CASE call.pc # "insCall"
    <3> DEFINE l == IF call.left = Forever THEN call.left ELSE call.left - 1
    <3>1. call' = [call EXCEPT !.elapsed = call.elapsed + 1, !.left = l]
      BY <2>2 DEF Tick
    <3>0. call.elapsed + 1 \in Nat
      BY DEF IInv, Types, CallRecords
    <3>2. l \in Int /\ l \in -1 .. call.max
      BY <2>2 DEF IInv, Types, TypeOK, CallRecords, Forever, Tick
    <3> HIDE DEF l
    <3> QED
      BY <3>0, <3>1, <3>2 DEF IInv, Types, CallRecords
  <2> QED BY <2>1, <2>2
<1>1. Types'
  BY <1>0 DEF IInv, Types, TypeOK, Tick, unitVars, history
<1>2. Handles'
  BY DEF IInv, Types, TypeOK, CallRecords, Handles, NoHandleWhileWaiting, Acting,
     Idle, Both, Tick, unitVars, history
<1>3. OneReader' /\ NotTried' /\ AllReaders'
  BY PCSCAssumption DEF IInv, Types, TypeOK, OneReader, NotTried, AllReaders,
     Watches, Inserting, Removing, NoReader, Pattern, Tick, unitVars, history
<1>4. Watches'
  BY PCSCAssumption DEF IInv, Types, TypeOK, CallRecords, OneReader, NotTried,
     AllReaders, Watches, Inserting, Removing, NoReader, Pattern, Idle, Tick,
     unitVars, history
<1>5. Sighted'
  BY PCSCAssumption DEF IInv, Types, TypeOK, OneReader, NotTried, AllReaders,
     Sighted, Handles, NoHandleWhileWaiting, Inserting, Removing, Both, NoReader,
     Pattern, Tick, unitVars, history
<1> QED BY <1>1, <1>2, <1>3, <1>4, <1>5 DEF IInv

\* The invariant holds at the start.
LEMMA InitKeeps == Init => IInv
<1> SUFFICES ASSUME Init PROVE IInv
  OBVIOUS
<1>1. NoConnection \in Sights
  BY DEF NoConnection, Sights, NoReader, NoCard
<1>2. Types
  <2>1. Idle.pc = "idle" /\ Idle.left \in -1 .. Idle.max /\ Idle.watched = {}
        /\ Idle.known = {}
    BY DEF Idle
  <2> QED
    BY <1>1, <2>1, IdleTyped DEF Init, Types, TypeOK
<1>3. Handles /\ OneReader /\ NotTried /\ AllReaders /\ Watches /\ Sighted
  BY PCSCAssumption DEF Init, Handles, NoHandleWhileWaiting, OneReader, NotTried,
     AllReaders, Watches, Sighted, Inserting, Removing, Idle, Pattern, NoReader
<1> QED BY <1>2, <1>3 DEF IInv

\* Every step of the specification keeps the invariant.
LEMMA StepKeeps == IInv /\ [Next]_vars => IInv'
<1> SUFFICES ASSUME IInv, [Next]_vars PROVE IInv'
  OBVIOUS
<1>1. CASE \E max \in Waits : WaitInsertion(max) \/ WaitRemoval(max)
  BY <1>1, WaitInsertionKeeps, WaitRemovalKeeps
<1>2. CASE InsertionCall \/ InsertionStatus \/ InsertionTimeout \/ InsertionTest
  BY <1>2, InsertionCallKeeps, InsertionStatusKeeps, InsertionTimeoutKeeps,
     InsertionTestKeeps
<1>3. CASE RemovalFirst \/ RemovalStatus \/ RemovalSpin \/ RemovalTimeout
  BY <1>3, RemovalFirstKeeps, RemovalStatusKeeps, RemovalSpinKeeps, RemovalTimeoutKeeps
<1>4. CASE RemovalOther \/ InsertionError \/ RemovalError
  BY <1>4, RemovalOtherKeeps, InsertionErrorKeeps, RemovalErrorKeeps
<1>5. CASE Connect \/ Disconnect \/ Tick
  BY <1>5, ConnectKeeps, DisconnectKeeps, TickKeeps
<1>6. CASE \E r \in Readers, c \in Cards \cup {NoCard} : Move(r, c)
  BY <1>6, MoveKeeps
<1>7. CASE UNCHANGED vars
  BY <1>7 DEF IInv, Types, TypeOK, Handles, NoHandleWhileWaiting, OneReader, NotTried,
     AllReaders, Watches, Sighted, Acting, vars, unitVars, history
<1> QED BY <1>1, <1>2, <1>3, <1>4, <1>5, <1>6, <1>7 DEF Next, WaitStep

-----------------------------------------------------------------------------
(* The theorems.                                                           *)

\* The invariant holds: it relates the two objects that may hold the state of
\* the unit, and the names under which the card was seen.
THEOREM InductiveInvariant == Spec => []IInv
<1> QED BY InitKeeps, StepKeeps, PTL DEF Spec

\* TypeOK, for every list of readers and every bound.
THEOREM TypeCorrect == Spec => []TypeOK
<1>1. IInv => TypeOK
  BY DEF IInv, Types
<1> QED BY <1>1, InductiveInvariant, PTL

\* NoHandleWhileWaiting: neither the unit nor its proxy holds a connection
\* while waitInsertion or waitRemoval is under way.
THEOREM NoHandleHeld == Spec => []NoHandleWhileWaiting
<1>1. IInv => NoHandleWhileWaiting
  BY DEF IInv, Handles
<1> QED BY <1>1, InductiveInvariant, PTL

\* ActsWhereSeen: connect() reaches the reader on which waitInsertion saw the
\* card, through whichever of the two objects it goes.
THEOREM ReachesTheCardSeen == Spec => []ActsWhereSeen
<1>1. IInv => ActsWhereSeen
  <2> SUFFICES ASSUME IInv, seen # NoConnection, reused = FALSE
               PROVE  /\ getConnectedName = seen.reader
                      /\ (proxy \in Special) = (seen.reader \in Special)
                      /\ \A u \in Both : connection[u] # NoConnection
                           => connection[u].reader = seen.reader
    BY DEF IInv, Types, ActsWhereSeen
  <2> QED
    BY WhereSeen DEF IInv, Sighted
<1> QED BY <1>1, InductiveInvariant, PTL

\* A step that ends a waitRemoval with "removed" saw the reader of the card empty.
LEMMA RemovedStep ==
  ASSUME IInv, Next, result' = "removed", call.pc \in Removing, call'.pc = "idle",
         seen # NoConnection, reused = FALSE
  PROVE  seen.reader \in emptied
<1>1. WatchedEmpty => seen.reader \in emptied
  BY DEF IInv, Types, TypeOK, Watches, WatchedEmpty
<1>2. CASE RemovalFirst \/ RemovalStatus
  BY <1>1, <1>2 DEF RemovalFirst, RemovalStatus, Returns, IInv, Types, CallRecords
<1>3. CASE RemovalSpin \/ RemovalTimeout \/ RemovalError
  BY <1>3 DEF RemovalSpin, RemovalTimeout, RemovalError, Returns
<1>4. CASE RemovalOther \/ Tick
  <2>1. call'.pc = call.pc
    BY <1>4 DEF RemovalOther, Tick, IInv, Types, CallRecords
  <2> QED BY <2>1 DEF Removing
<1>5. CASE InsertionCall \/ InsertionStatus \/ InsertionTimeout \/ InsertionTest
             \/ InsertionError
  BY <1>5 DEF InsertionCall, InsertionStatus, InsertionTimeout, InsertionTest,
     InsertionError, Removing
<1>6. CASE \/ \E max \in Waits : WaitInsertion(max) \/ WaitRemoval(max)
           \/ Connect \/ Disconnect
  BY <1>6 DEF WaitInsertion, WaitRemoval, Connect, Disconnect, Called, Removing
<1>7. CASE \E r \in Readers, c \in Cards \cup {NoCard} : Move(r, c)
  BY <1>7 DEF Move, Removing
<1> QED BY <1>2, <1>3, <1>4, <1>5, <1>6, <1>7 DEF Next, WaitStep

\* RemovedMeansGone: waitRemoval returns true only when the reader that had the
\* card was empty at some time of the call, whatever the others did.
THEOREM RemovalIsReal == Spec => RemovedMeansGone
<1>1. IInv /\ [Next]_vars
        => [(result' = "removed" /\ call.pc \in {"remFirst", "remBlocked"}
               /\ call'.pc = "idle" /\ seen # NoConnection /\ ~reused)
            => seen.reader \in emptied]_vars
  BY RemovedStep DEF Removing, IInv, Types
<1> QED BY <1>1, InductiveInvariant, PTL DEF Spec, RemovedMeansGone

=============================================================================
