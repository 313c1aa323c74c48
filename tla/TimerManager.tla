---------------------------- MODULE TimerManager ----------------------------
(***************************************************************************)
(* cTimerManager: one thread that counts down an array of cyclic timers    *)
(* and calls cTimerHandler::OnTimerEvent for those that expire, while any  *)
(* other thread (or the handler itself, from its callback) creates, kills, *)
(* pauses and reprograms timers.                                           *)
(*                                                                         *)
(* The array is protected by mMutex, but Pulse drops mMutex around the     *)
(* callback and touches the array again before it takes mMutex back: it    *)
(* reads eventInfo for the call and reloads timerVal after it.  The        *)
(* callback runs under mPauseLock instead.  Each of these accesses loads   *)
(* the pointer mTimers first and goes through it later, when Grow may have *)
(* deleted the array it points to; a read then yields what the freed       *)
(* memory holds, and a store is lost.                                      *)
(*                                                                         *)
(* Every call made under mMutex is one action, except the CreateTimer that *)
(* has to Grow the array: the unlocked accesses can fall between the copy  *)
(* of the array, its deletion and its replacement.  KillTimer releases the *)
(* event and then clears the pointer to it; to read the pointer in between *)
(* is to read it before the call.                                          *)
(***************************************************************************)
EXTENDS Integers, FiniteSets

CONSTANTS
  Clients,      \* threads that call the public operations
  TimerThread,  \* the thread that runs ThreadProc
  Handlers,     \* cTimerHandler objects
  Timers,       \* one value per successful CreateTimer, also names its cTEvent
  Periods,      \* values passed as timerVal, in milliseconds
  Precision,    \* mnPrecisionMs
  GrowBy,       \* slots added by Grow (10 in the code)
  MaxSlots,     \* bound on the size of the array
  MaxCalls,     \* bound on the number of calls made by Clients and handlers
  Garbage,      \* values a period may have when it is read from freed memory
  NULL

ASSUME TimerAssumption ==
  /\ TimerThread \notin Clients
  /\ NULL \notin Handlers \cup Timers \cup Clients \cup {TimerThread}
  /\ Periods \subseteq Nat
  /\ Precision \in Nat \ {0}
  /\ GrowBy \in Nat \ {0}
  /\ MaxSlots \in Nat /\ MaxSlots >= GrowBy
  /\ MaxCalls \in Nat
  /\ Garbage \subseteq Nat /\ Garbage # {}

VARIABLES
  mTimers,         \* the array of cTimerEntry
  mnElementCount,  \* its size: the allocated part of mTimers
  newTimerList,    \* the copy Grow has made and not yet installed, or NULL
  freed,           \* whether Grow has deleted mTimers and not yet replaced it
  creating,        \* arguments of the CreateTimer that is growing the array
  mMutex,          \* the thread that holds mMutex, or NULL
  mPauseLock,      \* the thread that holds mPauseLock, or NULL
  mPauseAll,
  pc,              \* where the timer thread is
  index,           \* Pulse's loop index
  thisItem,        \* handler Pulse is about to call or is calling
  callEvent,       \* the event passed to the callback
  pointer,         \* the array, by its size, Pulse goes through without mMutex
  reload,          \* the value Pulse loaded for its reload
  \* History variables: they record what happened and guard no action.
  tid,             \* the timer that lives in each slot
  life,            \* whether a timer is unborn, live or dead (killed)
  ringTid,         \* the timer whose expiry Pulse is handling
  fromFreed,       \* whether callEvent was read from freed memory
  lateCalls,       \* callbacks started for a timer after its KillTimer
  age,             \* ticks counted by each slot since it was last restarted
  raced,           \* slots whose last reload was lost or hit another program
  pauser,          \* the thread that called PauseAll last
  calls            \* calls made so far

array   == <<mTimers, mnElementCount, newTimerList, freed, creating>>
access  == <<pointer, reload, fromFreed>>
thread  == <<pc, index, thisItem, callEvent, ringTid, access>>
history == <<tid, life, age, raced>>
vars == <<array, mMutex, mPauseLock, mPauseAll, thread, history,
          lateCalls, pauser, calls>>

Threads == Clients \cup {TimerThread}
Slots   == 0 .. MaxSlots - 1

Entry == [argument : Handlers \cup {NULL}, timerVal : Nat,
          originalTimerVal : Nat, running : BOOLEAN,
          eventInfo : Timers \cup {NULL}]

\* What memset leaves in a slot, and what KillTimer puts back.
FreeEntry == [argument |-> NULL, timerVal |-> 0, originalTimerVal |-> 0,
              running |-> FALSE, eventInfo |-> NULL]

-----------------------------------------------------------------------------
\* The queries.  None changes the state; the operations start with IsValid.

IsValid(i)  == i < mnElementCount /\ mTimers[i].argument # NULL
IsPaused(i) == IsValid(i) /\ ~mTimers[i].running

FreeSlots == {i \in Slots : i < mnElementCount /\ mTimers[i].argument = NULL}

\* GetSlot when no Grow is needed: the first free slot.
GetSlot == CHOOSE i \in FreeSlots : \A j \in FreeSlots : i <= j

-----------------------------------------------------------------------------
\* The public operations.

\* A client calls when it likes; a handler calls from its callback, on the
\* timer thread.  Nobody calls a destroyed manager.
Caller(t) ==
  /\ calls < MaxCalls
  /\ pc # "dead"
  /\ t = TimerThread => pc = "callback"
  /\ mMutex = NULL
  /\ calls' = calls + 1

\* The state of slot i once timer k has been started in it.
Occupy(list, i, h, v, k, ev) ==
  /\ mTimers' = [list EXCEPT ![i] =
       [argument |-> h, timerVal |-> v, originalTimerVal |-> v,
        running |-> TRUE, eventInfo |-> ev]]
  /\ tid'   = [tid EXCEPT ![i] = k]
  /\ life'  = [life EXCEPT ![k] = "live"]
  /\ age'   = [age EXCEPT ![i] = 0]
  /\ raced' = raced \ {i}

CreateTimer(t, h, v, k, ev) ==
  /\ Caller(t)
  /\ life[k] = "unborn"
  /\ FreeSlots # {}
  /\ Occupy(mTimers, GetSlot, h, v, k, ev)
  /\ UNCHANGED <<mnElementCount, newTimerList, freed, creating, mMutex, mPauseLock,
                 mPauseAll, thread, lateCalls, pauser>>

\* No free slot: Grow allocates and copies, with mMutex held ...
GrowCopy(t, h, v, k, ev) ==
  /\ Caller(t)
  /\ life[k] = "unborn"
  /\ FreeSlots = {}
  /\ mnElementCount + GrowBy <= MaxSlots
  /\ newTimerList' = mTimers
  /\ creating' = [handler |-> h, val |-> v, timer |-> k, event |-> ev]
  /\ mMutex' = t
  /\ UNCHANGED <<mTimers, mnElementCount, freed, mPauseLock, mPauseAll, thread,
                 history, lateCalls, pauser>>

\* ... deletes the old array, that Pulse may be reading ...
GrowDelete(t) ==
  /\ mMutex = t
  /\ newTimerList # NULL
  /\ ~freed
  /\ freed' = TRUE
  /\ UNCHANGED <<mTimers, mnElementCount, newTimerList, creating, mMutex,
                 mPauseLock, mPauseAll, thread, history, lateCalls, pauser,
                 calls>>

\* What GrowInstall leaves behind: the mutex free, no copy.
Grown(t) ==
  /\ mMutex = t
  /\ freed
  /\ freed' = FALSE
  /\ mnElementCount' = mnElementCount + GrowBy
  /\ newTimerList' = NULL
  /\ creating' = NULL
  /\ mMutex' = NULL
  /\ UNCHANGED <<mPauseLock, mPauseAll, thread, lateCalls, pauser, calls>>

\* Mutant of GrowInstall: the new array is cleared after the copy.
GrowInstall_ClearsCopy(t) ==
  /\ Grown(t)
  /\ Occupy([i \in Slots |-> FreeEntry], mnElementCount + GrowBy - 1,
            creating.handler, creating.val, creating.timer, creating.event)

\* Mutant of GrowInstall: the last slot of the old array.
GrowInstall_OldSize(t) ==
  /\ Grown(t)
  /\ Occupy(newTimerList, mnElementCount - 1, creating.handler, creating.val,
            creating.timer, creating.event)

\* ... and installs the copy, of which CreateTimer fills the last slot.
GrowInstall(t) ==
  /\ Grown(t)
  /\ Occupy(newTimerList, mnElementCount + GrowBy - 1, creating.handler,
            creating.val, creating.timer, creating.event)

\* Mutant of KillTimer: it releases the event and forgets the rest.
KillTimer_KeepsArmed(t, i) ==
  /\ Caller(t)
  /\ IsValid(i)
  /\ mTimers' = [mTimers EXCEPT ![i].eventInfo = NULL]
  /\ life' = [life EXCEPT ![tid[i]] = "dead"]
  /\ UNCHANGED <<mnElementCount, newTimerList, freed, creating, mMutex, mPauseLock,
                 mPauseAll, thread, tid, age, raced, lateCalls, pauser>>

KillTimer(t, i) ==
  /\ Caller(t)
  /\ IsValid(i)
  /\ mTimers' = [mTimers EXCEPT ![i] = FreeEntry]
  /\ tid'  = [tid EXCEPT ![i] = NULL]
  /\ life' = [life EXCEPT ![tid[i]] = "dead"]
  /\ age'   = [age EXCEPT ![i] = 0]
  /\ raced' = raced \ {i}
  /\ UNCHANGED <<mnElementCount, newTimerList, freed, creating, mMutex, mPauseLock,
                 mPauseAll, thread, lateCalls, pauser>>

\* Operations that change one entry and leave the allocation alone.
Update(t, i, entry) ==
  /\ Caller(t)
  /\ IsValid(i)
  /\ mTimers' = [mTimers EXCEPT ![i] = entry]
  /\ UNCHANGED <<mnElementCount, newTimerList, freed, creating, mMutex, mPauseLock,
                 mPauseAll, thread, tid, life, lateCalls, pauser>>

Restarted(i) == age' = [age EXCEPT ![i] = 0] /\ raced' = raced \ {i}

Reset(t, i) ==
  /\ Update(t, i, [mTimers[i] EXCEPT !.timerVal = mTimers[i].originalTimerVal,
                                     !.running = TRUE])
  /\ Restarted(i)

\* Mutant of ChangeTimeout: the count in progress keeps its old value.
ChangeTimeout_NextPeriod(t, i, v) ==
  /\ Update(t, i, [mTimers[i] EXCEPT !.originalTimerVal = v])
  /\ Restarted(i)

ChangeTimeout(t, i, v) ==
  /\ Update(t, i, [mTimers[i] EXCEPT !.timerVal = v, !.originalTimerVal = v])
  /\ Restarted(i)

Pause(t, i) ==
  /\ mTimers[i].running
  /\ Update(t, i, [mTimers[i] EXCEPT !.running = FALSE])
  /\ UNCHANGED <<age, raced>>

Resume(t, i) ==
  /\ IsPaused(i)
  /\ Update(t, i, [mTimers[i] EXCEPT !.running = TRUE])
  /\ UNCHANGED <<age, raced>>

\* Mutant of SetPauseAll: the flag is set without mPauseLock.
SetPauseAll_NoLock(t, value) ==
  /\ calls < MaxCalls
  /\ pc # "dead"
  /\ t = TimerThread => pc = "callback"
  /\ mPauseAll' = value
  /\ pauser' = t
  /\ calls' = calls + 1
  /\ UNCHANGED <<array, mMutex, mPauseLock, thread, history, lateCalls>>

\* PauseAll and UnPauseAll take mPauseLock, a critical section the thread
\* that already holds it (a callback) enters again, and not mMutex.
SetPauseAll(t, value) ==
  /\ calls < MaxCalls
  /\ pc # "dead"
  /\ t = TimerThread => pc = "callback"
  /\ mPauseLock \in {NULL, t}
  /\ mPauseAll' = value
  /\ pauser' = t
  /\ calls' = calls + 1
  /\ UNCHANGED <<array, mMutex, mPauseLock, thread, history, lateCalls>>

PauseAll(t)   == SetPauseAll(t, TRUE)
UnPauseAll(t) == SetPauseAll(t, FALSE)

\* The destructor takes mMutex for good, terminates the timer thread where it
\* stands and frees the array.
Destroy(c) ==
  /\ Caller(c)
  /\ mMutex' = c
  /\ pc' = "dead"
  /\ mnElementCount' = 0
  /\ UNCHANGED <<mTimers, newTimerList, freed, creating, mPauseLock, mPauseAll, index,
                 thisItem, callEvent, access, ringTid, history, lateCalls,
                 pauser>>

-----------------------------------------------------------------------------
\* The timer thread: one Pulse per tick of ThreadProc's clock.

Goto(from, to) == pc = from /\ pc' = to

PulseStart ==
  /\ Goto("tick", "scan")
  /\ mMutex = NULL
  /\ mMutex' = TimerThread
  /\ index' = 0
  /\ UNCHANGED <<array, mPauseLock, mPauseAll, thisItem, callEvent, access,
                 ringTid, history, lateCalls, pauser, calls>>

Scanning == pc = "scan" /\ index < mnElementCount
Armed    == IsValid(index) /\ mTimers[index].running

PulseSkip ==
  /\ Scanning
  /\ ~Armed
  /\ index' = index + 1
  /\ UNCHANGED <<array, mMutex, mPauseLock, mPauseAll, pc, thisItem, callEvent,
                 access, ringTid, history, lateCalls, pauser, calls>>

\* Mutant of PulseCountDown: the unsigned count may pass below zero.
PulseCountDown_Underflow ==
  /\ Scanning
  /\ Armed
  /\ mTimers[index].timerVal > 0
  /\ mTimers' = [mTimers EXCEPT ![index].timerVal = @ - Precision]
  /\ age' = [age EXCEPT ![index] = @ + 1]
  /\ index' = index + 1
  /\ UNCHANGED <<mnElementCount, newTimerList, freed, creating, mMutex, mPauseLock,
                 mPauseAll, pc, thisItem, callEvent, access, ringTid, tid,
                 life, raced, lateCalls, pauser, calls>>

PulseCountDown ==
  /\ Scanning
  /\ Armed
  /\ mTimers[index].timerVal > Precision
  /\ mTimers' = [mTimers EXCEPT ![index].timerVal = @ - Precision]
  /\ age' = [age EXCEPT ![index] = @ + 1]
  /\ index' = index + 1
  /\ UNCHANGED <<mnElementCount, newTimerList, freed, creating, mMutex, mPauseLock,
                 mPauseAll, pc, thisItem, callEvent, access, ringTid, tid,
                 life, raced, lateCalls, pauser, calls>>

\* Timer ringing: remember the handler and drop mMutex.
PulseRing ==
  /\ Scanning
  /\ Armed
  /\ mTimers[index].timerVal <= Precision
  /\ pc' = "ring"
  /\ thisItem' = mTimers[index].argument
  /\ ringTid' = tid[index]
  /\ age' = [age EXCEPT ![index] = 0]
  /\ mMutex' = NULL
  /\ UNCHANGED <<array, mPauseLock, mPauseAll, index, callEvent, access, tid,
                 life, raced, lateCalls, pauser, calls>>

PulseLockPause ==
  /\ Goto("ring", "gate")
  /\ mPauseLock = NULL
  /\ mPauseLock' = TimerThread
  /\ UNCHANGED <<array, mMutex, mPauseAll, index, thisItem, callEvent, access,
                 ringTid, history, lateCalls, pauser, calls>>

\* Mutant of PulseGate: mPauseAll is not tested.
PulseGate_IgnoresPauseAll ==
  /\ Goto("gate", "read")
  /\ pointer' = mnElementCount
  /\ UNCHANGED <<array, mMutex, mPauseLock, mPauseAll, index, thisItem,
                 callEvent, reload, ringTid, fromFreed, history, lateCalls,
                 pauser, calls>>

\* The test of mPauseAll, and the pointer to the array of that moment.
PulseGate ==
  /\ Goto("gate", "read")
  /\ ~mPauseAll
  /\ pointer' = mnElementCount
  /\ UNCHANGED <<array, mMutex, mPauseLock, mPauseAll, index, thisItem,
                 callEvent, reload, ringTid, fromFreed, history, lateCalls,
                 pauser, calls>>

\* Whether a pointer loaded when the array had n elements leads to the array.
Allocated(n) == n = mnElementCount /\ ~freed

\* eventInfo, from whatever the slot holds by now, or from freed memory.
PulseReadEvent ==
  /\ Goto("read", "call")
  /\ callEvent' \in IF Allocated(pointer) THEN {mTimers[index].eventInfo}
                    ELSE Timers \cup {NULL}
  /\ fromFreed' = ~Allocated(pointer)
  /\ pointer' = NULL
  /\ UNCHANGED <<array, mMutex, mPauseLock, mPauseAll, index, thisItem, reload,
                 ringTid, history, lateCalls, pauser, calls>>

\* OnTimerEvent starts, with the handler and the event read before.
PulseCall ==
  /\ Goto("call", "callback")
  /\ lateCalls' = IF life[ringTid] = "dead"
                  THEN [lateCalls EXCEPT ![ringTid] = @ + 1] ELSE lateCalls
  /\ UNCHANGED <<array, mMutex, mPauseLock, mPauseAll, index, thisItem,
                 callEvent, access, ringTid, history, pauser, calls>>

PulseSuppress ==
  /\ Goto("gate", "unpause")
  /\ mPauseAll
  /\ UNCHANGED <<array, mMutex, mPauseLock, mPauseAll, index, thisItem,
                 callEvent, access, ringTid, history, lateCalls, pauser, calls>>

\* OnTimerEvent returns, which it does not in the middle of a call of its own.
CallbackReturns ==
  /\ Goto("callback", "unpause")
  /\ mMutex # TimerThread
  /\ callEvent' = NULL
  /\ fromFreed' = FALSE
  /\ UNCHANGED <<array, mMutex, mPauseLock, mPauseAll, index, thisItem, pointer,
                 reload, ringTid, history, lateCalls, pauser, calls>>

PulseUnlockPause ==
  /\ Goto("unpause", "reload")
  /\ mPauseLock' = NULL
  /\ UNCHANGED <<array, mMutex, mPauseAll, index, thisItem, callEvent, access,
                 ringTid, history, lateCalls, pauser, calls>>

\* mTimers[index].timerVal = mTimers[index].originalTimerVal without mMutex:
\* the array pointer of that moment, ...
PulseReload ==
  /\ Goto("reload", "load")
  /\ pointer' = mnElementCount
  /\ UNCHANGED <<array, mMutex, mPauseLock, mPauseAll, index, thisItem,
                 callEvent, reload, ringTid, fromFreed, history, lateCalls,
                 pauser, calls>>

\* ... a load through it ...
PulseReloadLoad ==
  /\ Goto("load", "store")
  /\ reload' \in IF Allocated(pointer) THEN {mTimers[index].originalTimerVal}
                 ELSE Garbage
  /\ UNCHANGED <<array, mMutex, mPauseLock, mPauseAll, index, thisItem,
                 callEvent, pointer, ringTid, fromFreed, history, lateCalls,
                 pauser, calls>>

\* ... and a store through it or, as the compiler likes, through mTimers read
\* again.  The store is lost when Grow has copied or deleted that array.
PulseReloadStore ==
  \E base \in {pointer, mnElementCount} :
    /\ Goto("store", "relock")
    /\ mTimers' = IF Allocated(base)
                  THEN [mTimers EXCEPT ![index].timerVal = reload] ELSE mTimers
    /\ raced' = IF /\ Allocated(base)
                   /\ newTimerList = NULL
                   /\ mTimers[index].originalTimerVal = reload
                THEN raced \ {index} ELSE raced \cup {index}
    /\ pointer' = NULL
    /\ reload' = NULL
    /\ UNCHANGED <<mnElementCount, newTimerList, freed, creating, mMutex,
                   mPauseLock, mPauseAll, index, thisItem, callEvent, ringTid,
                   fromFreed, tid, life, age, lateCalls, pauser, calls>>

\* Mutant of PulseRelock: the scan starts again after a ring.
PulseRelock_Rescan ==
  /\ Goto("relock", "scan")
  /\ mMutex = NULL
  /\ mMutex' = TimerThread
  /\ index' = 0
  /\ thisItem' = NULL
  /\ ringTid' = NULL
  /\ UNCHANGED <<array, mPauseLock, mPauseAll, callEvent, access, history,
                 lateCalls, pauser, calls>>

PulseRelock ==
  /\ Goto("relock", "scan")
  /\ mMutex = NULL
  /\ mMutex' = TimerThread
  /\ index' = index + 1
  /\ thisItem' = NULL
  /\ ringTid' = NULL
  /\ UNCHANGED <<array, mPauseLock, mPauseAll, callEvent, access, history,
                 lateCalls, pauser, calls>>

PulseEnd ==
  /\ pc = "scan"
  /\ index = mnElementCount
  /\ pc' = "tick"
  /\ mMutex' = NULL
  /\ index' = 0
  /\ UNCHANGED <<array, mPauseLock, mPauseAll, thisItem, callEvent, access,
                 ringTid, history, lateCalls, pauser, calls>>

-----------------------------------------------------------------------------
Init ==
  /\ mTimers = [i \in Slots |-> FreeEntry]
  /\ mnElementCount = GrowBy
  /\ newTimerList = NULL
  /\ freed = FALSE
  /\ creating = NULL
  /\ mMutex = NULL
  /\ mPauseLock = NULL
  /\ mPauseAll = FALSE
  /\ pc = "tick"
  /\ index = 0
  /\ thisItem = NULL
  /\ callEvent = NULL
  /\ pointer = NULL
  /\ reload = NULL
  /\ fromFreed = FALSE
  /\ tid = [i \in Slots |-> NULL]
  /\ life = [k \in Timers |-> "unborn"]
  /\ ringTid = NULL
  /\ lateCalls = [k \in Timers |-> 0]
  /\ age = [i \in Slots |-> 0]
  /\ raced = {}
  /\ pauser = NULL
  /\ calls = 0

\* A timer is created with its own event or with none.
Calls ==
  \/ \E t \in Threads, h \in Handlers, v \in Periods, k \in Timers :
       \E ev \in {NULL, k} : CreateTimer(t, h, v, k, ev) \/ GrowCopy(t, h, v, k, ev)
  \/ \E t \in Threads : GrowDelete(t) \/ GrowInstall(t)
  \/ \E t \in Threads, i \in Slots :
       KillTimer(t, i) \/ Reset(t, i) \/ Pause(t, i) \/ Resume(t, i)
  \/ \E t \in Threads, i \in Slots, v \in Periods : ChangeTimeout(t, i, v)
  \/ \E t \in Threads : PauseAll(t) \/ UnPauseAll(t)
  \/ \E c \in Clients : Destroy(c)

Pulse ==
  \/ PulseStart \/ PulseSkip \/ PulseCountDown \/ PulseRing \/ PulseLockPause
  \/ PulseGate \/ PulseReadEvent \/ PulseCall \/ PulseSuppress
  \/ CallbackReturns \/ PulseUnlockPause \/ PulseReload \/ PulseReloadLoad
  \/ PulseReloadStore \/ PulseRelock \/ PulseEnd

Next == Calls \/ Pulse

Spec == Init /\ [][Next]_vars

\* The timer thread runs and callbacks return; a thread that has entered
\* Grow leaves it.  Nothing is assumed of when clients call.
Fairness ==
  /\ WF_vars(Pulse)
  /\ \A t \in Threads : WF_vars(GrowDelete(t) \/ GrowInstall(t))

FairSpec == Spec /\ Fairness

-----------------------------------------------------------------------------
\* Properties.

\* Types of the variables, and what the program counter says of the locks.
TypeOK ==
  /\ mTimers \in [Slots -> Entry]
  /\ mnElementCount \in 0 .. MaxSlots
  /\ newTimerList \in [Slots -> Entry] \cup {NULL}
  /\ freed \in BOOLEAN
  /\ creating \in [handler : Handlers, val : Periods, timer : Timers,
                   event : Timers \cup {NULL}] \cup {NULL}
  /\ mMutex \in Threads \cup {NULL}
  /\ mPauseLock \in {TimerThread, NULL}
  /\ mPauseAll \in BOOLEAN
  /\ pc \in {"tick", "scan", "ring", "gate", "read", "call", "callback",
             "unpause", "reload", "load", "store", "relock", "dead"}
  /\ index \in 0 .. MaxSlots
  /\ thisItem \in Handlers \cup {NULL}
  /\ callEvent \in Timers \cup {NULL}
  /\ pointer \in 0 .. MaxSlots \cup {NULL}
  /\ reload \in Nat \cup {NULL}
  /\ fromFreed \in BOOLEAN
  /\ tid \in [Slots -> Timers \cup {NULL}]
  /\ life \in [Timers -> {"unborn", "live", "dead"}]
  /\ ringTid \in Timers \cup {NULL}
  /\ lateCalls \in [Timers -> Nat]
  /\ age \in [Slots -> Nat]
  /\ raced \in SUBSET Slots
  /\ pauser \in Threads \cup {NULL}
  /\ calls \in Nat

\* Once PauseAll has returned to a client, no callback is running or past the
\* test, and none runs until UnPauseAll: PauseAll waits for the one in progress,
\* and Pulse tests mPauseAll with mPauseLock held.  A callback that calls
\* PauseAll itself goes on.
PauseAllQuiesces ==
  mPauseAll =>
    /\ pc \notin {"read", "call"}
    /\ pauser # TimerThread => pc # "callback"

\* A live timer owns exactly one slot of the current array, which holds its
\* event or none, whatever was created, killed or copied by Grow: no timer
\* is lost or answers to two ids.
LiveTimersKeepTheirSlot ==
  pc # "dead" =>
    /\ \A i \in Slots : mTimers[i].argument # NULL <=> tid[i] # NULL
    /\ \A i \in Slots : tid[i] # NULL =>
         /\ i < mnElementCount
         /\ life[tid[i]] = "live"
         /\ mTimers[i].eventInfo \in {NULL, tid[i]}
    /\ \A k \in Timers : life[k] = "live" => \E i \in Slots : tid[i] = k
    /\ \A i, j \in Slots : tid[i] = tid[j] /\ tid[i] # NULL => i = j

\* The event with which a live timer's callback is about to start, or runs, is
\* that timer's or none.  Another timer's event, or a released one, reaches a
\* handler only when its own timer was killed, and its slot perhaps given away,
\* while Pulse had mMutex released - or when Pulse read eventInfo from an array
\* that Grow had deleted under it.
ForeignEventOnlyAfterKill ==
  pc \in {"call", "callback"} /\ ~fromFreed /\ callEvent \notin {NULL, ringTid}
    => life[ringTid] = "dead"

\* KillTimer does not wait for a callback in flight, but lets through at most
\* the one expiry that Pulse had detected before the kill.
AtMostOneLateCall == TypeOK /\ \A k \in Timers : lateCalls[k] <= 1

\* A timer does not ring before the ticks counted since its last restart
\* add up to its period, unless the reload after its previous ring raced with
\* Grow or with a call that gave the slot another period.
NeverEarly ==
  [][pc = "scan" /\ pc' = "ring" /\ index \notin raced
       => (age[index] + 1) * Precision >= mTimers[index].originalTimerVal]_vars

\* A running timer rings, or is paused, killed or destroyed with the manager:
\* no other timer's callback, and no slot position, starves it.
RunningTimerRings ==
  \A k \in Timers : \A i \in Slots :
    (tid[i] = k /\ mTimers[i].running)
      ~> (ringTid = k \/ tid[i] # k \/ ~mTimers[i].running \/ pc = "dead")

\* The inductive invariant behind these properties, in named parts.

\* What holding the two locks means for the program counter of the thread, and
\* that a deleted array has a copy.
Locks ==
  /\ pc = "scan" => mMutex = TimerThread /\ newTimerList = NULL
  /\ pc \in {"gate", "read", "call", "callback", "unpause"} => mPauseLock = TimerThread
  /\ pc = "scan" => index <= mnElementCount
  /\ pc \in {"ring", "gate", "read", "call", "callback", "unpause", "reload",
             "load", "store", "relock"} => index < mnElementCount
  /\ pc = "store" => reload \in Nat
  /\ freed => newTimerList # NULL

\* Between the steps of Grow the mutex is held, and the copy agrees with
\* the array on all that only the mutex's holder may change.
GrowInProgress ==
  newTimerList # NULL =>
    /\ pc # "dead"
    /\ mMutex # NULL
    /\ mMutex = TimerThread => pc = "callback"
    /\ mnElementCount + GrowBy <= MaxSlots
    /\ newTimerList \in [Slots -> Entry]
    /\ creating \in [handler : Handlers, val : Periods, timer : Timers,
                     event : Timers \cup {NULL}]
    /\ life[creating.timer] = "unborn"
    /\ creating.event \in {NULL, creating.timer}
    /\ \A i \in Slots :
         /\ newTimerList[i].argument = mTimers[i].argument
         /\ newTimerList[i].eventInfo = mTimers[i].eventInfo

\* A slot that no timer owns points to no event.
FreeSlotsHoldNoEvent ==
  pc # "dead" => \A i \in Slots : tid[i] = NULL => mTimers[i].eventInfo = NULL

\* The expiry being handled is of a timer that still has the slot it rang in,
\* or that was killed since.
ExpiryTracked ==
  pc \in {"ring", "gate", "read", "call", "callback"} =>
    /\ ringTid \in Timers
    /\ life[ringTid] = "dead" \/ (life[ringTid] = "live" /\ tid[index] = ringTid)

\* A timer that made its late call is dead, and is not about to ring.
LateCallsSpent ==
  \A k \in Timers :
    /\ lateCalls[k] \in {0, 1}
    /\ lateCalls[k] = 1 =>
         life[k] = "dead" /\ ~(ringTid = k /\ pc \in {"ring", "gate", "read", "call"})

\* From the expiry of a slot to the reload of its count, the count is spent.
Expired(i) ==
  i = index /\ pc \in {"ring", "gate", "read", "call", "callback", "unpause",
                       "reload", "load", "store"}

\* What a slot has still to count and the ticks it has counted make up its
\* period, in the array and, during Grow, in the copy.
CountsComplete ==
  pc # "dead" => \A i \in Slots : i \notin raced /\ ~Expired(i) =>
    /\ mTimers[i].timerVal + age[i] * Precision >= mTimers[i].originalTimerVal
    /\ newTimerList # NULL => newTimerList[i] = mTimers[i]

IInv ==
  /\ TypeOK
  /\ Locks
  /\ GrowInProgress
  /\ LiveTimersKeepTheirSlot
  /\ FreeSlotsHoldNoEvent
  /\ ExpiryTracked
  /\ ForeignEventOnlyAfterKill
  /\ LateCallsSpent
  /\ PauseAllQuiesces
  /\ CountsComplete

Phase ==
  CASE pc \in {"ring", "gate", "read", "call"} -> "pending"
    [] pc = "callback" -> "delivering"
    [] pc \in {"unpause", "reload", "load", "store", "relock"} -> "over"
    [] OTHER -> "none"

Service == INSTANCE TimerService WITH
  expiring <- IF pc = "dead" THEN NULL ELSE ringTid,
  phase <- Phase, suspended <- mPauseAll

\* The manager implements the abstract timer service: what rings was live
\* when it expired, rings once for that expiry and never while suspended.
ServiceSpec == Service!Spec
=============================================================================
