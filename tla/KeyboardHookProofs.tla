------------------------- MODULE KeyboardHookProofs -------------------------
(***************************************************************************)
(* Proofs about the keyboard hooks: a hook does not take a running library *)
(* for dead, and the keys reach the library once and in order.             *)
(***************************************************************************)
EXTENDS KeyboardHook, TLAPS

-----------------------------------------------------------------------------
(* The inductive invariant.                                                *)

Units == [pc : UnitPcs, op : {"insertion", "removal"}]

\* The types the proofs need.  What was typed is told by its length, and the
\* shared key is the last one typed.
Types ==
  /\ kbdEvent \in BOOLEAN /\ processed \in BOOLEAN /\ overlap \in BOOLEAN
  /\ host \in {"off", "on", "stopping", "ended"}
  /\ watchAge \in Nat /\ hooked \subseteq Sessions /\ active \in Sessions
  /\ proc \in [Sessions -> {"none", "starting", "running", "exited"}]
  /\ check \in [Sessions -> {"wait", "reset"}]
  /\ checkAge \in [Sessions -> Nat]
  /\ key \in [Sessions -> {"idle", "signal", "wait", "reset"}]
  /\ unit \in Units
  /\ typed \in Seq(Nat) /\ read \in Seq(Nat)
  /\ enteredKeyChar = Len(typed)

\* The library knows of every hook that was started, so it starts none twice,
\* and no check thread has waited for longer than the watch thread has slept.
Watched ==
  /\ host = "off" => \A s \in Sessions : proc[s] = "none"
  /\ host = "on" =>
       /\ watchAge <= WatchPeriod + MaxDelay
       /\ \A s \in Sessions :
            /\ proc[s] # "none" => s \in hooked
            /\ proc[s] = "running" /\ check[s] = "wait" => checkAge[s] <= watchAge

\* The n-th key typed is n, and so is the n-th key read.
InOrder ==
  /\ \A i \in 1 .. Len(typed) : typed[i] = i
  /\ ~overlap => \A i \in 1 .. Len(read) : read[i] = i

\* The library is not at a key, and none waits for it.
NoKey == kbdEvent = FALSE /\ unit.pc \in {"idle", "first", "next"}
AllRead == Len(read) = Len(typed)
OneToRead == Len(typed) = Len(read) + 1

\* The steps in which a hook and the library hand over one key.
HandOver ==
  overlap = FALSE =>
    /\ \A s, t \in Sessions : key[s] # "idle" /\ key[t] # "idle" => s = t
    /\ (\A s \in Sessions : key[s] = "idle") => processed = FALSE /\ NoKey /\ AllRead
    /\ \A s \in Sessions :
         /\ key[s] = "signal" => processed = FALSE /\ NoKey /\ OneToRead
         /\ key[s] = "reset" => processed = TRUE /\ NoKey /\ AllRead
         /\ key[s] = "wait" => processed = FALSE /\
              \/ kbdEvent = TRUE /\ unit.pc \in {"idle", "reset"} /\ OneToRead
              \/ kbdEvent = FALSE /\ unit.pc = "read" /\ OneToRead
              \/ kbdEvent = FALSE /\ unit.pc = "ack" /\ AllRead
              \/ kbdEvent = FALSE /\ unit.pc = "idle" /\ host = "ended"
                   /\ (AllRead \/ OneToRead)

IInv == Types /\ Watched /\ InOrder /\ HandOver

-----------------------------------------------------------------------------
(* Every action keeps the invariant.                                       *)

\* getChipInAir begins.
LEMMA BeginReadTyped ==
  /\ BeginRead("insertion") => unit' \in Units
  /\ BeginRead("removal") => unit' \in Units
<1>1. (IF kbdEvent THEN "reset" ELSE "first") \in UnitPcs
  BY DEF UnitPcs
<1> QED BY <1>1 DEF BeginRead, Units

\* startAndWatchOnActiveConsole: the first hook is started and recorded, and no
\* hook ran before it.
LEMMA StartWatchingKeeps == ASSUME IInv, StartWatching PROVE IInv'
<1>1. Types'
  BY DEF IInv, Types, Units, UnitPcs, StartWatching, Launch, SetAlive, chips,
     history
<1>2. Watched'
  BY KeyboardAssumption DEF IInv, Types, Watched, StartWatching, Launch, SetAlive,
     chips, history, WatchPeriod
<1>3. InOrder'
  BY DEF IInv, Types, InOrder, StartWatching, Launch, SetAlive, chips, history
<1>4. HandOver'
  BY DEF IInv, Types, HandOver, NoKey, AllRead, OneToRead, Units, UnitPcs,
     StartWatching, Launch, SetAlive, chips, history
<1> QED BY <1>1, <1>2, <1>3, <1>4 DEF IInv

\* The watch thread turns: a hook is launched only where none is recorded, and
\* every check thread that waits is let go on.
LEMMA WatchTurnKeeps == ASSUME IInv, WatchTurn PROVE IInv'
<1>1. Types'
  <2>1. /\ proc' \in [Sessions -> {"none", "starting", "running", "exited"}]
        /\ hooked' \subseteq Sessions
    BY DEF IInv, Types, WatchTurn, WatchSession, Launch
  <2>2. check' \in [Sessions -> {"wait", "reset"}] /\ checkAge' \in [Sessions -> Nat]
    BY DEF IInv, Types, WatchTurn, SetAlive
  <2>3. /\ watchAge' = 0 /\ host = "on"
        /\ UNCHANGED <<kbdEvent, processed, enteredKeyChar, host, active, key, unit, history>>
    BY DEF WatchTurn
  <2> QED BY <2>1, <2>2, <2>3 DEF IInv, Types, history
<1>2. Watched'
  BY KeyboardAssumption DEF IInv, Types, Watched, WatchTurn, WatchSession, Launch,
     SetAlive, events, library, chips, history, WatchPeriod
<1>3. InOrder'
  BY DEF IInv, Types, InOrder, WatchTurn, WatchSession, Launch, SetAlive, events,
     library, chips, history
<1>4. HandOver'
  BY DEF IInv, Types, HandOver, NoKey, AllRead, OneToRead, Units, UnitPcs,
     WatchTurn, WatchSession, Launch, SetAlive, events, library, chips, history
<1> QED BY <1>1, <1>2, <1>3, <1>4 DEF IInv

\* release closes the library's handles and says nothing to the hooks.
LEMMA ReleaseKeeps == ASSUME IInv, Release PROVE IInv'
<1>1. Types'
  BY DEF IInv, Types, Units, UnitPcs, Release, events, library, checks, chips,
     history
<1>2. Watched'
  BY KeyboardAssumption DEF IInv, Types, Watched, Release, events, library, checks,
     chips, history
<1>3. InOrder'
  BY DEF IInv, Types, InOrder, Release, events, library, checks, chips, history
<1>4. HandOver'
  BY DEF IInv, Types, HandOver, NoKey, AllRead, OneToRead, Units, UnitPcs, Release,
     events, library, checks, chips, history
<1> QED BY <1>1, <1>2, <1>3, <1>4 DEF IInv

\* The library ends, possibly between the reset of the event and the read of
\* the key: the hook at that key is left in its wait.
LEMMA HostEndsKeeps == ASSUME IInv, HostEnds PROVE IInv'
<1>1. Types'
  BY DEF IInv, Types, Units, UnitPcs, HostEnds, IdleUnit, events, checks, history
<1>2. Watched'
  BY KeyboardAssumption DEF IInv, Types, Watched, HostEnds, IdleUnit, events,
     checks, history
<1>3. InOrder'
  BY DEF IInv, Types, InOrder, HostEnds, IdleUnit, events, checks, history
<1>4. HandOver'
  BY DEF IInv, Types, HandOver, NoKey, AllRead, OneToRead, Units, UnitPcs, HostEnds,
     IdleUnit, events, checks, history
<1> QED BY <1>1, <1>2, <1>3, <1>4 DEF IInv

\* A hook starts with a fresh wait.
LEMMA HookStartsKeeps == ASSUME IInv, NEW s \in Sessions, HookStarts(s) PROVE IInv'
<1>1. Types'
  BY DEF IInv, Types, Units, UnitPcs, HookStarts, events, library, chips, history
<1>2. Watched'
  BY KeyboardAssumption DEF IInv, Types, Watched, HookStarts, events, library,
     chips, history
<1>3. InOrder'
  BY DEF IInv, Types, InOrder, HookStarts, events, library, chips, history
<1>4. HandOver'
  BY DEF IInv, Types, HandOver, NoKey, AllRead, OneToRead, Units, UnitPcs,
     HookStarts, events, library, chips, history
<1> QED BY <1>1, <1>2, <1>3, <1>4 DEF IInv

\* CheckThread resets the event and waits afresh.
LEMMA CheckResetKeeps == ASSUME IInv, NEW s \in Sessions, CheckReset(s) PROVE IInv'
<1>1. Types'
  BY DEF IInv, Types, Units, UnitPcs, CheckReset, library, chips, history
<1>2. Watched'
  BY KeyboardAssumption DEF IInv, Types, Watched, CheckReset, library, chips,
     history
<1>3. InOrder'
  BY DEF IInv, Types, InOrder, CheckReset, library, chips, history
<1>4. HandOver'
  BY DEF IInv, Types, HandOver, NoKey, AllRead, OneToRead, Units, UnitPcs,
     CheckReset, library, chips, history
<1> QED BY <1>1, <1>2, <1>3, <1>4 DEF IInv

\* A hook exits; if it was at a key, that is an overlap.
LEMMA CheckExitKeeps == ASSUME IInv, NEW s \in Sessions, CheckExit(s) PROVE IInv'
<1>1. Types'
  BY DEF IInv, Types, Units, UnitPcs, CheckExit, events, library, chips
<1>2. Watched'
  BY KeyboardAssumption DEF IInv, Types, Watched, CheckExit, events, library, chips,
     CheckTimeout
<1>3. InOrder'
  BY DEF IInv, Types, InOrder, CheckExit, events, library, chips
<1>4. HandOver'
  <2> SUFFICES ASSUME overlap' = FALSE PROVE HandOver'
    BY DEF HandOver
  <2>1. overlap = FALSE /\ key[s] = "idle"
    BY DEF IInv, Types, CheckExit
  <2>2. key' = key
    BY <2>1 DEF IInv, Types, CheckExit
  <2> QED
    BY <2>1, <2>2 DEF IInv, Types, HandOver, NoKey, AllRead, OneToRead, CheckExit,
       events, library, chips
<1> QED BY <1>1, <1>2, <1>3, <1>4 DEF IInv

\* A key is written to the shared memory while no hook is at another one, or
\* there is an overlap.
LEMMA KeyDownKeeps == ASSUME IInv, NEW s \in Sessions, KeyDown(s) PROVE IInv'
<1>1. Types'
  BY DEF IInv, Types, Units, UnitPcs, KeyDown, library, checks, chips
<1>2. Watched'
  BY KeyboardAssumption DEF IInv, Types, Watched, KeyDown, library, checks, chips
<1>3. InOrder'
  BY DEF IInv, Types, InOrder, KeyDown, library, checks, chips
<1>4. HandOver'
  <2> SUFFICES ASSUME overlap' = FALSE PROVE HandOver'
    BY DEF HandOver
  <2>1. overlap = FALSE /\ \A t \in Sessions : key[t] = "idle"
    BY DEF IInv, Types, KeyDown
  <2>2. processed' = FALSE /\ NoKey' /\ OneToRead'
    BY <2>1 DEF IInv, Types, HandOver, NoKey, AllRead, OneToRead, KeyDown, library,
       checks, chips
  <2>3. \A t \in Sessions : key'[t] = IF t = s THEN "signal" ELSE "idle"
    BY <2>1 DEF IInv, Types, KeyDown
  <2> QED
    BY <2>2, <2>3 DEF HandOver
<1> QED BY <1>1, <1>2, <1>3, <1>4 DEF IInv

\* The hook signals the key: the unit that waits for it goes on.
LEMMA KeySignalKeeps == ASSUME IInv, NEW s \in Sessions, KeySignal(s) PROVE IInv'
<1>1. Types'
  BY DEF IInv, Types, Units, UnitPcs, KeySignal, library, checks, chips, history
<1>2. Watched'
  BY KeyboardAssumption DEF IInv, Types, Watched, KeySignal, library, checks, chips,
     history
<1>3. InOrder'
  BY DEF IInv, Types, InOrder, KeySignal, library, checks, chips, history
<1>4. HandOver'
  BY DEF IInv, Types, HandOver, NoKey, AllRead, OneToRead, Units, UnitPcs,
     KeySignal, library, checks, chips, history
<1> QED BY <1>1, <1>2, <1>3, <1>4 DEF IInv

\* The hook gives up on the key, which is an overlap.
LEMMA KeyTimeoutKeeps == ASSUME IInv, NEW s \in Sessions, KeyTimeout(s) PROVE IInv'
<1>1. Types'
  BY DEF IInv, Types, Units, UnitPcs, KeyTimeout, events, library, checks, chips
<1>2. Watched'
  BY KeyboardAssumption DEF IInv, Types, Watched, KeyTimeout, events, library,
     checks, chips
<1>3. InOrder'
  BY DEF IInv, Types, InOrder, KeyTimeout, events, library, checks, chips
<1>4. HandOver'
  BY DEF IInv, Types, HandOver, NoKey, AllRead, OneToRead, Units, UnitPcs,
     KeyTimeout, events, library, checks, chips
<1> QED BY <1>1, <1>2, <1>3, <1>4 DEF IInv

\* The hook resets the event by which the library took the key: the key was
\* read by then.
LEMMA KeyResetKeeps == ASSUME IInv, NEW s \in Sessions, KeyReset(s) PROVE IInv'
<1>1. Types'
  BY DEF IInv, Types, Units, UnitPcs, KeyReset, library, checks, chips, history
<1>2. Watched'
  BY KeyboardAssumption DEF IInv, Types, Watched, KeyReset, library, checks, chips,
     history
<1>3. InOrder'
  BY DEF IInv, Types, InOrder, KeyReset, library, checks, chips, history
<1>4. HandOver'
  BY DEF IInv, Types, HandOver, NoKey, AllRead, OneToRead, Units, UnitPcs, KeyReset,
     library, checks, chips, history
<1> QED BY <1>1, <1>2, <1>3, <1>4 DEF IInv

\* waitInsertion begins to read, or takes the chip it has.
LEMMA WaitInsertionKeeps == ASSUME IInv, WaitInsertion PROVE IInv'
<1>1. Types'
  <2>1. BeginRead("insertion") => unit' \in Units
    BY BeginReadTyped
  <2>2. unit' \in Units
    BY <2>1 DEF IInv, Types, WaitInsertion
  <2> QED
    BY <2>2 DEF IInv, Types, WaitInsertion, events, library, checks, history
<1>2. Watched'
  BY KeyboardAssumption DEF IInv, Types, Watched, WaitInsertion, BeginRead, events,
     library, checks, history
<1>3. InOrder'
  BY DEF IInv, Types, InOrder, WaitInsertion, BeginRead, events, library, checks,
     history
<1>4. HandOver'
  BY DEF IInv, Types, HandOver, NoKey, AllRead, OneToRead, Units, UnitPcs,
     WaitInsertion, BeginRead, events, library, checks, history
<1> QED BY <1>1, <1>2, <1>3, <1>4 DEF IInv

\* waitRemoval begins to read, or returns.
LEMMA WaitRemovalKeeps == ASSUME IInv, WaitRemoval PROVE IInv'
<1>1. Types'
  <2>1. BeginRead("removal") => unit' \in Units
    BY BeginReadTyped
  <2>2. unit' \in Units
    BY <2>1 DEF IInv, Types, WaitRemoval
  <2> QED
    BY <2>2 DEF IInv, Types, WaitRemoval, events, library, checks, history
<1>2. Watched'
  BY KeyboardAssumption DEF IInv, Types, Watched, WaitRemoval, BeginRead, events,
     library, checks, history
<1>3. InOrder'
  BY DEF IInv, Types, InOrder, WaitRemoval, BeginRead, events, library, checks,
     history
<1>4. HandOver'
  BY DEF IInv, Types, HandOver, NoKey, AllRead, OneToRead, Units, UnitPcs,
     WaitRemoval, BeginRead, events, library, checks, history
<1> QED BY <1>1, <1>2, <1>3, <1>4 DEF IInv

\* waitInputChar resets the event of the key before it reads it.
LEMMA InputResetKeeps == ASSUME IInv, InputReset PROVE IInv'
<1>1. Types'
  BY DEF IInv, Types, Units, UnitPcs, InputReset, library, checks, chips, history
<1>2. Watched'
  BY KeyboardAssumption DEF IInv, Types, Watched, InputReset, library, checks,
     chips, history
<1>3. InOrder'
  BY DEF IInv, Types, InOrder, InputReset, library, checks, chips, history
<1>4. HandOver'
  BY DEF IInv, Types, HandOver, NoKey, AllRead, OneToRead, Units, UnitPcs,
     InputReset, library, checks, chips, history
<1> QED BY <1>1, <1>2, <1>3, <1>4 DEF IInv

\* waitInputChar reads the shared key: it is the one that was not read yet.
LEMMA InputReadKeeps == ASSUME IInv, InputRead PROVE IInv'
<1>0. enteredKeyChar \in Nat
  BY DEF IInv, Types
<1>1. Types'
  <2>1. unit' \in Units
    BY DEF IInv, Types, Units, UnitPcs, InputRead
  <2>2. read' \in Seq(Nat)
    BY <1>0 DEF IInv, Types, InputRead
  <2> QED
    BY <2>1, <2>2 DEF IInv, Types, InputRead, events, library, checks, chips
<1>2. Watched'
  BY KeyboardAssumption DEF IInv, Types, Watched, InputRead, events, library,
     checks, chips
<1>3. InOrder'
  <2> SUFFICES ASSUME overlap' = FALSE PROVE \A i \in 1 .. Len(read') : read'[i] = i
    BY DEF IInv, Types, InOrder, InputRead, events, library, checks, chips
  <2>1. OneToRead /\ overlap = FALSE
    BY DEF IInv, Types, HandOver, NoKey, InputRead
  <2>2. read \in Seq(Nat) /\ read' = Append(read, Len(read) + 1)
    BY <2>1 DEF IInv, Types, OneToRead, InputRead
  <2> QED
    BY <2>1, <2>2 DEF IInv, InOrder
<1>4. HandOver'
  BY DEF IInv, Types, HandOver, NoKey, AllRead, OneToRead, Units, UnitPcs,
     InputRead, events, library, checks, chips
<1> QED BY <1>1, <1>2, <1>3, <1>4 DEF IInv

\* waitInputChar lets the hook go on, after it read the key.
LEMMA InputAckKeeps == ASSUME IInv, InputAck PROVE IInv'
<1>1. Types'
  BY DEF IInv, Types, Units, UnitPcs, InputAck, library, checks, chips, history
<1>2. Watched'
  BY KeyboardAssumption DEF IInv, Types, Watched, InputAck, library, checks, chips,
     history
<1>3. InOrder'
  BY DEF IInv, Types, InOrder, InputAck, library, checks, chips, history
<1>4. HandOver'
  BY DEF IInv, Types, HandOver, NoKey, AllRead, OneToRead, Units, UnitPcs, InputAck,
     library, checks, chips, history
<1> QED BY <1>1, <1>2, <1>3, <1>4 DEF IInv

\* A call that saw no key ends.
LEMMA FirstTimeoutKeeps == ASSUME IInv, FirstTimeout PROVE IInv'
<1>1. Types'
  BY DEF IInv, Types, Units, UnitPcs, FirstTimeout, IdleUnit, events, library,
     checks, chips, history
<1>2. Watched'
  BY KeyboardAssumption DEF IInv, Types, Watched, FirstTimeout, IdleUnit, events,
     library, checks, chips, history
<1>3. InOrder'
  BY DEF IInv, Types, InOrder, FirstTimeout, IdleUnit, events, library, checks,
     chips, history
<1>4. HandOver'
  BY DEF IInv, Types, HandOver, NoKey, AllRead, OneToRead, Units, UnitPcs,
     FirstTimeout, IdleUnit, events, library, checks, chips, history
<1> QED BY <1>1, <1>2, <1>3, <1>4 DEF IInv

\* A call that saw a badge ends.
LEMMA BadgeCompleteKeeps == ASSUME IInv, BadgeComplete PROVE IInv'
<1>1. Types'
  BY DEF IInv, Types, Units, UnitPcs, BadgeComplete, IdleUnit, events, library,
     checks, chips, history
<1>2. Watched'
  BY KeyboardAssumption DEF IInv, Types, Watched, BadgeComplete, IdleUnit, events,
     library, checks, chips, history
<1>3. InOrder'
  BY DEF IInv, Types, InOrder, BadgeComplete, IdleUnit, events, library, checks,
     chips, history
<1>4. HandOver'
  BY DEF IInv, Types, HandOver, NoKey, AllRead, OneToRead, Units, UnitPcs,
     BadgeComplete, IdleUnit, events, library, checks, chips, history
<1> QED BY <1>1, <1>2, <1>3, <1>4 DEF IInv

\* Another session comes to the console.
LEMMA SwitchSessionKeeps == ASSUME IInv, NEW s \in Sessions,
   SwitchSession(s) PROVE IInv'
<1>1. Types'
  BY DEF IInv, Types, Units, UnitPcs, SwitchSession, events, library, checks, chips,
     history
<1>2. Watched'
  BY KeyboardAssumption DEF IInv, Types, Watched, SwitchSession, events, library,
     checks, chips, history
<1>3. InOrder'
  BY DEF IInv, Types, InOrder, SwitchSession, events, library, checks, chips,
     history
<1>4. HandOver'
  BY DEF IInv, Types, HandOver, NoKey, AllRead, OneToRead, Units, UnitPcs,
     SwitchSession, events, library, checks, chips, history
<1> QED BY <1>1, <1>2, <1>3, <1>4 DEF IInv

\* Time passes alike for the watch thread and the check threads.
LEMMA TickKeeps == ASSUME IInv, Tick PROVE IInv'
<1>1. Types'
  BY DEF IInv, Types, Units, UnitPcs, Tick, events, chips, history
<1>2. Watched'
  BY KeyboardAssumption DEF IInv, Types, Watched, Tick, events, chips, history,
     WatchPeriod, CheckTimeout
<1>3. InOrder'
  BY DEF IInv, Types, InOrder, Tick, events, chips, history
<1>4. HandOver'
  BY DEF IInv, Types, HandOver, NoKey, AllRead, OneToRead, Units, UnitPcs, Tick,
     events, chips, history
<1> QED BY <1>1, <1>2, <1>3, <1>4 DEF IInv

-----------------------------------------------------------------------------
(* The theorems.                                                           *)

\* The invariant holds at the start.
LEMMA InitKeeps == Init => IInv
<1> SUFFICES ASSUME Init PROVE IInv
  OBVIOUS
<1>1. Types
  <2>1. <<>> \in Seq(Nat) /\ Len(<<>>) = 0
    OBVIOUS
  <2>2. unit \in Units
    BY <2>1 DEF Init, IdleUnit, Units, UnitPcs
  <2> QED
    BY <2>1, <2>2 DEF Init, Types, NoChar
<1>2. Watched /\ InOrder /\ HandOver
  BY DEF Init, IdleUnit, Watched, InOrder, HandOver, NoKey, AllRead, OneToRead
<1> QED BY <1>1, <1>2 DEF IInv

\* Every step of the specification keeps the invariant.
LEMMA StepKeeps == IInv /\ [Next]_vars => IInv'
<1> SUFFICES ASSUME IInv, [Next]_vars PROVE IInv'
  OBVIOUS
<1>1. CASE StartWatching \/ WatchTurn \/ Release \/ HostEnds
  BY <1>1, StartWatchingKeeps, WatchTurnKeeps, ReleaseKeeps, HostEndsKeeps
<1>2. CASE \E s \in Sessions : Hook(s)
  BY <1>2, HookStartsKeeps, CheckResetKeeps, CheckExitKeeps DEF Hook
<1>3. CASE \E s \in Sessions : KeyDown(s) \/ KeySignal(s) \/ KeyTimeout(s) \/ KeyReset(s)
  BY <1>3, KeyDownKeeps, KeySignalKeeps, KeyTimeoutKeeps, KeyResetKeeps
<1>4. CASE \/ WaitInsertion \/ WaitRemoval \/ InputReset \/ InputRead \/ InputAck
           \/ FirstTimeout \/ BadgeComplete
  BY <1>4, WaitInsertionKeeps, WaitRemovalKeeps, InputResetKeeps, InputReadKeeps,
     InputAckKeeps, FirstTimeoutKeeps, BadgeCompleteKeeps
<1>5. CASE (\E s \in Sessions : SwitchSession(s)) \/ Tick
  BY <1>5, SwitchSessionKeeps, TickKeeps
<1>6. CASE UNCHANGED vars
  BY <1>6 DEF IInv, Types, Watched, InOrder, HandOver, NoKey, AllRead, OneToRead,
     vars, events, library, checks, chips, history
<1> QED BY <1>1, <1>2, <1>3, <1>4, <1>5, <1>6 DEF Next

\* The invariant holds: the library knows its hooks, no check thread has waited
\* longer than the watch thread slept, and a key is handed over step by step.
THEOREM InductiveInvariant == Spec => []IInv
<1> QED BY InitKeeps, StepKeeps, PTL DEF Spec

\* KeysOnceInOrder, for every number of sessions, keys and delays: while no
\* hook gives up on a key, waitInputChar reads what was typed.
THEOREM KeysReadOnceInOrder == Spec => []KeysOnceInOrder
<1>1. IInv => KeysOnceInOrder
  <2> SUFFICES ASSUME IInv, overlap = FALSE PROVE KeysOnceInOrder
    BY DEF IInv, Types, KeysOnceInOrder
  <2>1. typed \in Seq(Nat) /\ read \in Seq(Nat)
    BY DEF IInv, Types
  <2>2. AllRead \/ OneToRead
    BY DEF IInv, Types, HandOver
  <2>3. Len(read) <= Len(typed) /\ \A i \in 1 .. Len(read) : read[i] = typed[i]
    BY <2>1, <2>2 DEF IInv, InOrder, AllRead, OneToRead
  <2>4. read = SubSeq(typed, 1, Len(read))
    BY <2>1, <2>3
  <2>5. IsPrefix(read, typed)
    BY <2>3, <2>4 DEF IsPrefix
  <2>6. (\A s \in Sessions : key[s] = "idle") => AllRead
    BY DEF IInv, HandOver
  <2> QED
    BY <2>1, <2>2, <2>5, <2>6 DEF KeysOnceInOrder, AllRead, OneToRead
<1> QED BY <1>1, InductiveInvariant, PTL

\* A step from a state of the invariant takes a running hook from no library
\* that runs, provided the watch thread's sleep and its lateness together stay
\* below the two seconds that CheckThread waits.
LEMMA StepStays ==
  ASSUME WatchPeriod + MaxDelay < CheckTimeout, IInv, [Next]_vars,
         NEW s \in Sessions, proc[s] = "running", host = "on"
  PROVE  proc'[s] = "running"
<1>1. CASE StartWatching \/ WatchTurn \/ Release \/ HostEnds
  BY <1>1 DEF IInv, Types, Watched, StartWatching, WatchTurn, WatchSession, Launch,
     Release, HostEnds, checks
<1>2. ASSUME NEW t \in Sessions, HookStarts(t) \/ CheckReset(t)
      PROVE  proc'[s] = "running"
  BY <1>2 DEF IInv, Types, HookStarts, CheckReset
<1>3. ASSUME NEW t \in Sessions, CheckExit(t)
      PROVE  proc'[s] = "running"
  BY <1>3, KeyboardAssumption DEF IInv, Types, Watched, CheckExit, WatchPeriod,
     CheckTimeout
<1>4. CASE \E t \in Sessions : KeyDown(t) \/ KeySignal(t) \/ KeyTimeout(t) \/ KeyReset(t)
  BY <1>4 DEF KeyDown, KeySignal, KeyTimeout, KeyReset, checks
<1>5. CASE \/ WaitInsertion \/ WaitRemoval \/ InputReset \/ InputRead \/ InputAck
           \/ FirstTimeout \/ BadgeComplete
  BY <1>5 DEF WaitInsertion, WaitRemoval, InputReset, InputRead, InputAck,
     FirstTimeout,
     BadgeComplete, checks
<1>6. CASE (\E t \in Sessions : SwitchSession(t)) \/ Tick
  BY <1>6 DEF SwitchSession, Tick, checks
<1>7. CASE UNCHANGED vars
  BY <1>7 DEF vars, checks
<1> QED BY <1>1, <1>2, <1>3, <1>4, <1>5, <1>6, <1>7 DEF Next, Hook

\* HookStays, for every number of sessions: CheckThread exits only when
\* WatchThread no longer turns.  The hypothesis is the margin the periods of the
\* code leave: 500 ms and 2000 ms, so a thread may be late by up to 1000 ms.
THEOREM HooksStay ==
  ASSUME WatchPeriod + MaxDelay < CheckTimeout
  PROVE  Spec => HookStays
<1>1. IInv /\ [Next]_vars
        => [\A s \in Sessions : proc[s] = "running" /\ host = "on"
              => proc'[s] = "running"]_vars
  BY StepStays
<1> QED BY <1>1, InductiveInvariant, PTL DEF Spec, HookStays

=============================================================================
