---------------------------- MODULE KeyboardHook ----------------------------
(***************************************************************************)
(* Keyboard readers.  A badge reader that types is watched by a process of *)
(* its own in every Windows session, the hook (islogkbdhook.cpp).  The     *)
(* library (keyboardreaderprovider.cpp, keyboardreaderunit.cpp) and the    *)
(* hooks share one key in memory and manual-reset events: kbdEvent (a key  *)
(* is there), processed (it was taken) and alive (the library lives).      *)
(*                                                                         *)
(* Setting an event ends every wait on it at once, whoever resets it later *)
(* (external: SetEvent of Windows), so the action that sets an event moves *)
(* the waiting threads.  One Tick is 500 ms, the period of the library's   *)
(* watch thread; no thread is late by more than MaxDelay ticks.            *)
(***************************************************************************)
EXTENDS Naturals, Sequences, SequencesExt

CONSTANTS
  Sessions,        \* the user sessions of the machine, 0 is not one of them
  IsUserSession,   \* TRUE when the library runs in a user session itself
  Chips, NoChip,   \* the identifiers of badges, and that of none
  MaxDelay,        \* bound: ticks a thread may be late
  MaxKeys          \* bound: keys typed

ASSUME KeyboardAssumption ==
  /\ IsUserSession \in BOOLEAN /\ 0 \notin Sessions
  /\ NoChip \notin Chips
  /\ MaxDelay \in Nat /\ MaxKeys \in Nat

Chars == 1 .. MaxKeys \* the keys typed: the n-th is n, so all differ
NoChar == 0           \* the shared memory before the first key
WatchPeriod == 1      \* sleep of the watch thread, 500 ms
CheckTimeout == 4     \* wait of CheckThread, 2000 ms

VARIABLES
  kbdEvent, processed, alive,  \* the events
  enteredKeyChar,                         \* the shared key
  host,          \* the library: "off", "on", "stopping", "ended"
  watchAge,      \* ticks since the watch thread last woke
  hooked,        \* sessions of processHookedSessions
  lastSession,   \* the watch thread's lastSessionId
  active,        \* the session on the console
  proc,          \* per session, the hook process: "none", "starting", "running", "exited"
  check, checkAge,  \* per session, CheckThread: "wait" or "reset", and since how long
  key,           \* per session, where ProcessRawInputMessage is: "idle", "signal", "wait", "reset"
  unit,          \* the reader unit: its pc and its call
  d_insertedChip, d_removalIdentifier,
  typed, read,   \* history: the keys the hooks took up, those the library read
  overlap        \* history: a hook gave up on a key or exited at it, or two hooks were at one

events == <<kbdEvent, processed, alive, enteredKeyChar>>
library == <<host, watchAge, hooked, lastSession>>
checks == <<proc, check, checkAge>>
chips == <<d_insertedChip, d_removalIdentifier>>
history == <<typed, read, overlap>>
vars == <<events, library, active, checks, key, unit, chips, history>>

IdleUnit == [pc |-> "idle", op |-> "insertion"]
UnitPcs == {"idle", "first", "next", "reset", "read", "ack"}

TypeOK ==
  /\ {kbdEvent, processed, alive, overlap} \subseteq BOOLEAN
  /\ enteredKeyChar \in Chars \cup {NoChar}
  /\ host \in {"off", "on", "stopping", "ended"}
  /\ watchAge \in 0 .. WatchPeriod + MaxDelay
  /\ hooked \subseteq Sessions /\ lastSession \in Sessions \cup {0}
  /\ active \in Sessions
  /\ proc \in [Sessions -> {"none", "starting", "running", "exited"}]
  /\ check \in [Sessions -> {"wait", "reset"}]
  /\ checkAge \in [Sessions -> 0 .. CheckTimeout]
  /\ key \in [Sessions -> {"idle", "signal", "wait", "reset"}]
  /\ unit \in [pc : UnitPcs, op : {"insertion", "removal"}]
  /\ {d_insertedChip, d_removalIdentifier} \subseteq Chips \cup {NoChip}
  /\ typed \in Seq(Chars) /\ read \in Seq(Chars)

Init ==
  /\ kbdEvent = FALSE /\ processed = FALSE /\ alive = FALSE
  /\ enteredKeyChar = NoChar
  /\ host = "off" /\ watchAge = 0 /\ hooked = {} /\ lastSession = 0
  /\ active \in Sessions
  /\ proc = [s \in Sessions |-> "none"]
  /\ check = [s \in Sessions |-> "wait"] /\ checkAge = [s \in Sessions |-> 0]
  /\ key = [s \in Sessions |-> "idle"]
  /\ unit = IdleUnit
  /\ d_insertedChip = NoChip /\ d_removalIdentifier = NoChip
  /\ typed = <<>> /\ read = <<>> /\ overlap = FALSE

-----------------------------------------------------------------------------
(* The watch thread of the library.                                        *)

\* launchHook, launchHookIntoDifferentSession and the record of the session, which
\* is made also when there is no token and when the process cannot be created.
Launch(s) ==
  /\ proc' = [proc EXCEPT ![s] = "starting"] \/ UNCHANGED proc
  /\ hooked' = hooked \cup {s}

\* SetEvent(hStillAliveEvent): every CheckThread that waits for it goes on.
SetAlive ==
  /\ alive' = TRUE
  /\ LET waits(s) == proc[s] = "running" /\ check[s] = "wait" IN
       /\ check' = [s \in Sessions |-> IF waits(s) THEN "reset" ELSE check[s]]
       /\ checkAge' = [s \in Sessions |-> IF waits(s) THEN 0 ELSE checkAge[s]]

\* startAndWatchOnActiveConsole and the thread up to its first sleep.  In a
\* user session (the active one) the hook is started here and nowhere else.
StartWatching ==
  /\ host = "off"
  /\ host' = "on"
  /\ watchAge' = 0
  /\ Launch(active)
  /\ lastSession' = IF IsUserSession THEN 0 ELSE active
  /\ SetAlive
  /\ UNCHANGED <<kbdEvent, processed, enteredKeyChar, active,
                 key, unit, chips, history>>

\* A session new on the console gets a hook, unless it was ever given one.
WatchSession ==
  IF ~IsUserSession /\ active # lastSession
    THEN /\ lastSession' = active
         /\ IF active \notin hooked THEN Launch(active)
                                    ELSE UNCHANGED <<proc, hooked>>
    ELSE UNCHANGED <<lastSession, proc, hooked>>

\* One turn of the thread, 500 ms after the last one or later.
WatchTurn ==
  /\ host = "on" /\ watchAge >= WatchPeriod
  /\ watchAge' = 0
  /\ WatchSession
  /\ SetAlive
  /\ UNCHANGED <<kbdEvent, processed, enteredKeyChar, host, active,
                 key, unit, chips, history>>

\* release: the library's handles of the events are closed and watchSessions
\* is reset.  stopWatchingActiveConsole means to end the hooks, but its loop
\* starts from an iterator that was never given a value: it ends no hook, and
\* at worst the library itself.
Release ==
  /\ host = "on"
  /\ host' = "stopping"
  /\ hooked' = {} /\ watchAge' = 0
  /\ UNCHANGED <<events, lastSession, active, checks, key, unit, chips, history>>

\* The watch thread sees watchSessions, or the library's process is killed.
HostEnds ==
  /\ host \in {"on", "stopping"}
  /\ host' = "ended"
  /\ unit' = IdleUnit
  /\ watchAge' = 0 /\ hooked' = {} /\ lastSession' = 0
  /\ d_insertedChip' = NoChip /\ d_removalIdentifier' = NoChip
  /\ UNCHANGED <<events, active, checks, key, history>>

-----------------------------------------------------------------------------
(* The hook process of a session.                                          *)

\* _tWinMain: the mapping, the events, the check thread, the raw input.
HookStarts(s) ==
  /\ proc[s] = "starting"
  /\ proc' = [proc EXCEPT ![s] = "running"]
  /\ check' = [check EXCEPT ![s] = IF alive THEN "reset" ELSE "wait"]
  /\ checkAge' = [checkAge EXCEPT ![s] = 0]
  /\ UNCHANGED <<events, library, active, key, unit, chips, history>>

\* Mutant: CheckThread forgets to reset the event.
NoResetCheck(s) ==
  /\ proc[s] = "running" /\ check[s] = "reset"
  /\ check' = [check EXCEPT ![s] = IF alive THEN "reset" ELSE "wait"]
  /\ checkAge' = [checkAge EXCEPT ![s] = 0]
  /\ UNCHANGED <<events, library, active, proc, key, unit, chips, history>>

\* CheckThread saw the event: it resets it and waits again.
CheckReset(s) ==
  /\ proc[s] = "running" /\ check[s] = "reset"
  /\ alive' = FALSE
  /\ check' = [check EXCEPT ![s] = "wait"]
  /\ checkAge' = [checkAge EXCEPT ![s] = 0]
  /\ UNCHANGED <<kbdEvent, processed, enteredKeyChar, library,
                 active, proc, key, unit, chips, history>>

\* Mutant: the check thread gives the library half of the time.
HastyExit(s) ==
  /\ proc[s] = "running" /\ check[s] = "wait" /\ checkAge[s] >= 2
  /\ proc' = [proc EXCEPT ![s] = "exited"]
  /\ checkAge' = [checkAge EXCEPT ![s] = 0]
  /\ key' = [key EXCEPT ![s] = "idle"]
  /\ overlap' = (overlap \/ key[s] # "idle")
  /\ UNCHANGED <<events, library, active, check, unit, chips,
                 typed, read>>

\* CheckThread waited for 2000 ms in vain: ExitProcess.
CheckExit(s) ==
  /\ proc[s] = "running" /\ check[s] = "wait" /\ checkAge[s] = CheckTimeout
  /\ proc' = [proc EXCEPT ![s] = "exited"]
  /\ checkAge' = [checkAge EXCEPT ![s] = 0]
  /\ key' = [key EXCEPT ![s] = "idle"]
  /\ overlap' = (overlap \/ key[s] # "idle")
  /\ UNCHANGED <<events, library, active, check, unit, chips,
                 typed, read>>

\* ProcessRawInputMessage, a key of the selected keyboard.  A hook works on
\* one message at a time; Return and what is no character are not passed on.
KeyDown(s) ==
  /\ proc[s] = "running" /\ active = s /\ key[s] = "idle"
  /\ Len(typed) < MaxKeys
  /\ enteredKeyChar' = Len(typed) + 1
  /\ key' = [key EXCEPT ![s] = "signal"]
  /\ typed' = Append(typed, Len(typed) + 1)
  /\ overlap' = (overlap \/ \E t \in Sessions : key[t] # "idle")
  /\ UNCHANGED <<kbdEvent, processed, alive, library, active,
                 checks, unit, chips, read>>

\* SetEvent(hKbdEvent), then the wait for hKbdEventProcessed begins.
KeySignal(s) ==
  /\ key[s] = "signal"
  /\ kbdEvent' = TRUE
  /\ unit' = [unit EXCEPT !.pc = IF @ \in {"first", "next"} THEN "reset" ELSE @]
  /\ key' = [key EXCEPT ![s] = IF processed THEN "reset" ELSE "wait"]
  /\ UNCHANGED <<processed, alive, enteredKeyChar, library, active,
                 checks, chips, history>>

\* After a second the hook gives up on the key.
KeyTimeout(s) ==
  /\ key[s] = "wait"
  /\ key' = [key EXCEPT ![s] = "reset"]
  /\ overlap' = TRUE
  /\ UNCHANGED <<events, library, active, checks, unit, chips,
                 typed, read>>

\* ResetEvent(hKbdEventProcessed), taken or not.
KeyReset(s) ==
  /\ key[s] = "reset"
  /\ processed' = FALSE
  /\ key' = [key EXCEPT ![s] = "idle"]
  /\ UNCHANGED <<kbdEvent, alive, enteredKeyChar, library, active,
                 checks, unit, chips, history>>

-----------------------------------------------------------------------------
(* The reader unit in the library.                                         *)

\* What getChipInAir may make of the characters read: an identifier, or none
\* when the prefix or the suffix of the configuration is missing.  Which one, by
\* strtoul in base 16 or digit by digit, is left open.
ChipsRead == Chips \cup {NoChip}

\* getChipInAir begins: waitInputChar on a key that may be there already.
BeginRead(op) ==
  unit' = [pc |-> IF kbdEvent THEN "reset" ELSE "first", op |-> op]

\* waitInsertion: the badge that ended a waitRemoval is taken first, and again
\* until waitRemoval clears it.
WaitInsertion ==
  /\ host = "on" /\ unit.pc = "idle"
  /\ IF d_removalIdentifier # NoChip
       THEN d_insertedChip' = d_removalIdentifier /\ UNCHANGED unit
       ELSE BeginRead("insertion") /\ UNCHANGED d_insertedChip
  /\ UNCHANGED <<events, library, active, checks, key, d_removalIdentifier,
                 history>>

\* waitRemoval, which returns at once when no chip is inserted.
WaitRemoval ==
  /\ host = "on" /\ unit.pc = "idle"
  /\ d_removalIdentifier' = NoChip
  /\ IF d_insertedChip # NoChip
       THEN BeginRead("removal")
       ELSE UNCHANGED unit
  /\ UNCHANGED <<events, library, active, checks, key, d_insertedChip,
                 history>>

\* Mutant: the key is reported as taken before its event is reset.
LateReset ==
  /\ unit.pc = "reset"
  /\ unit' = [unit EXCEPT !.pc = "read"]
  /\ processed' = TRUE
  /\ key' = [s \in Sessions |-> IF key[s] = "wait" THEN "reset" ELSE key[s]]
  /\ UNCHANGED <<kbdEvent, alive, enteredKeyChar, library, active,
                 checks, chips, history>>

\* waitInputChar, once the wait for hKbdEvent ended: ResetEvent,
InputReset ==
  /\ unit.pc = "reset"
  /\ unit' = [unit EXCEPT !.pc = "read"]
  /\ kbdEvent' = FALSE
  /\ UNCHANGED <<processed, alive, enteredKeyChar, library, active,
                 checks, key, chips, history>>

\* the shared key,
InputRead ==
  /\ unit.pc = "read"
  /\ unit' = [unit EXCEPT !.pc = "ack"]
  /\ read' = Append(read, enteredKeyChar)
  /\ UNCHANGED <<events, library, active, checks, key, chips,
                 typed, overlap>>

\* SetEvent(hKbdEventProcessed), and the wait of 250 ms for the next key.
InputAck ==
  /\ unit.pc = "ack"
  /\ processed' = TRUE
  /\ key' = [s \in Sessions |-> IF key[s] = "wait" THEN "reset" ELSE key[s]]
  /\ unit' = [unit EXCEPT !.pc = IF kbdEvent THEN "reset" ELSE "next"]
  /\ UNCHANGED <<kbdEvent, alive, enteredKeyChar, library, active,
                 checks, chips, history>>

\* No key within maxwait: the call ends without a chip.
FirstTimeout ==
  /\ unit.pc = "first"
  /\ unit' = IdleUnit
  /\ UNCHANGED <<events, library, active, checks, key, chips, history>>

\* No further key within 250 ms: the badge is complete, the call ends.
BadgeComplete ==
  /\ unit.pc = "next"
  /\ unit' = IdleUnit
  /\ \E id \in ChipsRead :
       CASE unit.op = "insertion" /\ id # NoChip ->
              d_insertedChip' = id /\ UNCHANGED d_removalIdentifier
         [] unit.op = "removal" /\ id # NoChip /\ id # d_insertedChip ->
              d_insertedChip' = NoChip /\ d_removalIdentifier' = id
         [] OTHER -> UNCHANGED chips
  /\ UNCHANGED <<events, library, active, checks, key, history>>

-----------------------------------------------------------------------------
(* The machine: the user changes the session on the console, time passes.  *)

SwitchSession(s) ==
  /\ active # s
  /\ active' = s
  /\ UNCHANGED <<events, library, checks, key, unit, chips, history>>

\* 500 ms: no thread may be later than MaxDelay, and a wait that timed out
\* is noticed within the tick.
Tick ==
  /\ host = "on" => watchAge < WatchPeriod + MaxDelay
  /\ \A s \in Sessions : proc[s] = "running" =>
       checkAge[s] < (IF check[s] = "reset" THEN MaxDelay ELSE CheckTimeout)
  /\ \E s \in Sessions : proc[s] # "none"
  /\ watchAge' = IF host = "on" THEN watchAge + 1 ELSE watchAge
  /\ checkAge' = [s \in Sessions |->
                    IF proc[s] = "running" THEN checkAge[s] + 1 ELSE checkAge[s]]
  /\ UNCHANGED <<events, host, hooked, lastSession, active, proc, check, key,
                 unit, chips, history>>

Hook(s) == HookStarts(s) \/ CheckReset(s) \/ CheckExit(s)

Next ==
  \/ StartWatching \/ WatchTurn \/ Release \/ HostEnds
  \/ \E s \in Sessions : Hook(s)
  \/ \E s \in Sessions : KeyDown(s) \/ KeySignal(s) \/ KeyTimeout(s) \/ KeyReset(s)
  \/ WaitInsertion \/ WaitRemoval \/ InputReset \/ InputRead \/ InputAck
  \/ FirstTimeout \/ BadgeComplete
  \/ \E s \in Sessions : SwitchSession(s)
  \/ Tick

\* Fairness: time passes and the threads of the hooks are scheduled.
Fairness == WF_vars(Tick) /\ \A s \in Sessions : WF_vars(Hook(s))

Spec == Init /\ [][Next]_vars /\ Fairness

-----------------------------------------------------------------------------
(* Properties.                                                             *)

\* As long as no hook gave up on a key and no two hooks were at one, what
\* waitInputChar read is what was typed: every key once and in order, and none
\* but the one in the shared memory is still to come.
KeysOnceInOrder ==
  ~overlap =>
    /\ IsPrefix(read, typed)
    /\ Len(typed) <= Len(read) + 1
    /\ (\A s \in Sessions : proc[s] # "exited" /\ key[s] = "idle") => Len(read) = Len(typed)

\* A hook never takes a library that runs for dead: however the threads are
\* late (by up to MaxDelay), and although the hooks of all sessions reset the
\* one event, CheckThread exits only when WatchThread no longer turns.
HookStays ==
  [][\A s \in Sessions : proc[s] = "running" /\ host = "on"
       => proc'[s] = "running"]_vars

\* Once the library is gone, by release or by a crash, so are the hooks,
\* though nobody terminates them: a key logger is not left behind.
HooksExit ==
  (host = "ended") ~> (\A s \in Sessions : proc[s] \in {"none", "exited"})

=============================================================================
