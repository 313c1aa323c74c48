# CSSTools: a TLA+ model

CSSTools is the C++ library of tools of the CSS call-taking products: timers,
threads, event queues, notification between objects, a TCP link with
acknowledgements, and a collection of containers and wrappers around the Win32
API.  It has few algorithms and a great deal of concurrency: nearly every class
starts a thread, is called from the threads of its clients, and calls back
into them.  The models here are about that.  File names below are those of the
repository, under `src/`.

## 1. Inventory

### 1.1 Components that carry state of their own

| component | state | operations | who runs |
|---|---|---|---|
| **cTimerManager** (`cTimerManager.cpp`) | an array of timer entries that grows by ten, `mMutex` for it, `mPauseLock` and `mPauseAll` for callbacks | CreateTimer, KillTimer, Reset, Pause, Resume, ChangeTimeout, PauseAll, UnPauseAll, IsValid, IsPaused, destructor | clients; its own thread, which pulses and calls `OnTimerEvent` |
| **the tick clock** (`cTimerManager::ThreadProc`) | the deadline, an overflow flag | wait for the deadline, pulse | the timer thread, against `GetTickCount`, which wraps |
| **cThread** (`cThread.cpp`) | `_isRunning`, `threadHandle`, a process-wide table of handles with a count of joiners | Run, Stop, Join (with a timeout or not), destructor, self-destruction | owner, joiners, the thread |
| **cCSSReportQ** (`CSSReportQ.cpp`) | queue of events, flush mode, `suspended`, `terminateThread`, two conditions | init, report, start, stop, suspend, resume, terminate | clients, owner, the event thread |
| **cCSSEvent, ReporterList** (`CSSEvent.cpp`) | the list of reporters with their priorities | add, remove | any thread; the event thread iterates |
| **cCSSDualReportQ** (`CSSDualReportQ.cpp`) | two report queues, the second for Low reporters | initDual, report, terminate, signalEvent | two event threads |
| **notification group** (`cNotifierObject`, `cNotifiableObject`, `cHiddenNotifiableObject`, `cEvtThread`, `cLookupThreadTable`, `cTEvent`) | who is registered with whom, on both sides; the queue; the object being called; counts of events and of users of the thread | Register, Unregister, UnregisterAll, Notify, PurgeEvents, RepostEvent, PopEvent, create, destroy | clients, the group's event thread |
| **cTcp, cTcpClient** | queue of messages, ACK status and event, link states, connection | Send, the Tx loop, the Rx loop, heartbeat and silence timers | senders, Tx, Rx, timer thread |
| **cTcpServer** | sessions with a queue each, `mConnected`, the send timer | AcceptNewClient, ReceiveData, SendMsgToClient, OnTimerEvent, destructor | Rx, Tx, timer thread |
| **cTcpMsg** | a buffer that bytes are framed into, a use count | Add, Clear, AddRef, Dismiss | those of cTcp |
| **cCSSTimeout** (`CSSTimeout.cpp`) | a status for each timeout; the timeout thread's message queue, its two maps between timeouts and system timers, its set of void timeouts | constructor, init, start, stop, disable, destructor | clients, and the one timeout thread |
| **cCSSMulticondition** (`CSSMultiCondition.cpp`) | a critical section, an event, the type signalled | wait, signal, setType, resetType | clients, the timeout thread |
| **cTimedQueue, cTimedItem, cLimitedTimeQueue, cTimerQueueManager** | lists of items with an expiry, an event for consumers; the list of all queues, an event for changes | PushBack, PopFront, RemoveAt, Clear, Snooze, WaitIfQueueEmpty, OnEvent | clients, the manager's one thread, the event thread |
| **cTimedStringMap** | a map whose entries each have a timer, `mDataLock` | Insert, Remove, Find, OnTimerEvent, destructor | clients, the thread of its own timer manager |
| **cSharedList** (`cSharedList.cpp`, `cSharedMemory.cpp`) | circular buffers in named memory with a header, one named mutex and one named semaphore for all of them | constructor, registerClient, unregisterClient, put, get, flush | several processes |
| **cTicketPad, cTicketOutlet** | the number of the last ticket, in memory and in a file; the one outlet of a process | GetTicketPad, getTicket | any thread of several processes |
| **SmartPtr, RefCount** | a pointer; a count in the object | copy, assign, release | any thread |
| **cInstanceMap, cInstanceList** | a container, its lock | Insert, Replace, Remove, Clear; GetFirst and GetNext | any thread |
| **MonitorPVFC** | one thread, `mTerminate`, `mWaitEvent` | Start, Stop | the application, the thread |

The rest of the repository keeps no state worth a model: wrappers of kernel
objects (`cMutex`, `cSemaphore`, `cEvent`, `cCritSec`), conversions of text and
dates, access to ini files, the registry, DLLs and diagnostics.
`PROJECT.json` lists every part, modelled or not.

### 1.2 How they interact

* Everything that has a timeout uses **cTimerManager**: cTcp (heartbeat,
  silence, send timer), and cTimedStringMap.  It calls them
  back on its own thread, outside `mMutex`.
* **cCSSReportQ** and **cEvtThread** are threads of their own that take from a
  queue and call application objects.  cCSSDualReportQ derives from one
  cCSSReportQ and owns another, and moves events from the first to the second.
* **cThread** is below them all: terminating a queue joins its thread.
* **cCSSTimeout** does not use cTimerManager: its thread has timers of Windows,
  and signals the **cCSSMulticondition** it was given.
* **cTimerQueueManager** does not use cTimerManager either: it sleeps until the
  first expiry.  Its rings are notifications, delivered by a **cEvtThread**.
* **cTcp** in client mode owns a cTcpClient, in server mode a cTcpServer.  Its
  Rx thread delivers to the application and, with ACKs, to the Tx thread;
  senders wait for the Tx thread.

### 1.3 What is hard

* *Locks released around callbacks.*  The timer thread reads an entry, leaves
  the mutex, calls, and writes to the entry again; the event thread takes an
  event out of the queue before it says whose it is.
* *Counts without locks.*  `cTcpMsg::mUseCnt` is an `int` that three threads
  change.
* *Kernel events as the memory of a condition.*  A signal stays until someone
  waits or resets it, also when it is no longer true.
* *Two lock orders* between notifiers and notifiable objects.
* *Objects destroyed while a thread is about to use them*, and threads that
  destroy their own object.
* *Messages to a thread* that cross, are lost before it has a queue, or come
  when the object they name has been destroyed, and timers killed when due.
* *Order and retries* on a link that is lost, blocks, answers late or twice.
* *Processes that die* with the lock of a shared list, between its index and its
  count.
* *Processes that die* between counting a ticket and writing it.
* *Structures changed between two calls* of an iteration, and objects that an
  assignment deletes while it uses them.
* *Boundaries*: the array that grows under the pulse, the clock that wraps, the
  deadline that is `INFINITE`.

`PROJECT.json` lists each hazard at its line with the properties that cover it.

## 2. Modules

```
TimerService <--implements-- TimerManager <-- TimerManagerProofs
TimerService <--uses-- TcpReceive,  TimedStringMap
ReporterList <--operators-- ReportQ <-- ReportQProofs
ReportQ <--extends, instances-- DualReportQ
Multicondition <--extends-- CSSTimeout <-- CSSTimeoutProofs
CSSTimeout <--extends-- TimeoutsAndMap --instances--> TimedStringMap
Notification      TcpSend      TcpServer      SharedList
TimerClock,  ThreadLife,  TimedQueues,  Tickets,  SmartPtr,  InstanceMap,
    InstanceList,  MonitorPVFC <--instances-- Parts <-- PartsProofs
Notification <-- NotificationProofs,  TcpServer <-- TcpServerProofs,
    SharedList <-- SharedListProofs,  TcpSend <-- TcpSendProofs
```

Each `XMC.tla` extends `X` with the values and symmetry sets its configurations use.  `CSSTimeoutMC` extends `TimeoutsAndMap`,
and so the run of `CSSTimeout` includes the map.  `Parts` and
`TimeoutsAndMap` are sums: a variable, `part` or `subject`, says from the beginning which of several modules a
behaviour is one of, and the variables of the others stay as they are.  Every state of every part is reached,
and its properties are those of the module; what is gained is one start of the checker and shared model values
instead of many, and of `Parts` that what is proved of the sum is what its run checks.  Definitions named `A_Something` are mutants of `A`: the form a plausible bug would give it,
used to see that the properties notice.

In all modules the variables keep the names of the code where it has one, a
variable below the line "History variables" records what happened for the sake
of a property, and an action is a critical section of the code, or the step
between two of them.  An unlocked read-modify-write is split into its load and
its store where another thread can come in between.

| module | code | state and actions |
|---|---|---|
| `TimerService` | the promise of `cTimerManager.h` and the comments of `CreateTimer`, `KillTimer`, `PauseAll` | A timer is unborn, live or dead; one expiry at a time is pending, delivering or over; nothing begins to be delivered while suspended. |
| `TimerManager` | `cTimerManager.cpp` but for the clock | One action per public operation, `Grow` in three steps (copy, deletion of the old array, the new pointer), `Pulse` step by step: start, skip, count down, ring, lock for the callback, test of `mPauseAll`, read of `eventInfo`, call or suppress, return, unlock, load and store of the reload, relock, end.  An unlocked access to the array is two steps, the load of `mTimers` and the access through it, which `Grow` may have deleted meanwhile: what is then read is any event, or any of `Garbage`. |
| `TimerClock` | `ThreadProc` | True time `now`; `GetTickCount` is `now % 2^Width`; the code's variables are `Width` bits wide; any delay up to `MaxDelay` before each step. |
| `ReporterList` | `cCSSEvent::ReporterList` | Operators: what `add` and `remove` make of the list. |
| `ReportQ` | `CSSReportQ.cpp` | The public operations, the edits of the reporters' list, and the event thread's loop with its two waits. |
| `DualReportQ` | `CSSDualReportQ.cpp` | The first queue has the variables and actions of `ReportQ`, but for what its thread does in `signalEvent`; `mReportQ` is an instance of `ReportQ` with the same events and list of reporters.  `initDual` and `terminate` act on the one and then on the other.  The model is the code up to the first use of a deleted event. |
| `ThreadLife` | `cThread.cpp` | One object, the threads its `Run`s create, the table entry that outlives it, joiners. |
| `Notification` | the six files of notification | Each call as the sequence of its locks; the event thread between its lock, its pop, its announcement, its call. |
| `TcpSend` | `cTcp.cpp` in client mode | `Send` to its end, `SendQueuedMsg` with its retries, `Update` and what it receives.  `cTcpClient::Send` calls `send()`, which transmits or fails, and judges by `iResult`, which the Rx thread writes: its verdict and what went on the wire are two things. |
| `TcpReceive` | `cTcpMsg::Add`, `receiveFromServer`, `KickRxTimer`, `OnTimerEvent` and `StopRxTimer` of `cTcp.cpp` | Reads of any length; `Add` as an operator on what is gathered and what was read; the Rx thread and the timer thread one access to `mRxTimerId` at a time.  The timers are `TimerService`'s, each with the number of the slot the code knows it by. |
| `TcpServer` | `cTcpServer.cpp`, server half of `cTcp.cpp` | `Update` in three steps, `SendMsgToClient` one session at a time with every outcome of `send`, the last `Dismiss` as load, store and test. |
| `Multicondition` | `CSSMultiCondition.cpp` | The variables and operations of one object; `wait` in three steps, since the section is left between the reset and the wait. |
| `CSSTimeout` | `CSSTimeout.cpp` | A method of a client is the change of `mStatus` and, later, the posted message; the destructor also the wait for the answer. The thread handles one message or one `WM_TIMER` at a time, whose expiry is three steps: the maps, the status, the signal. A system timer comes due at any time and stays due when it is killed. |
| `TimedQueues` | `TimedQueue.cpp`, `TimedItem.cpp`, `cLimitedTimeQueue.cpp`, `TimerQueueManager.cpp` | A method of a queue is one action, under the queue's lock.  The manager goes queue by queue: what has expired and when the rest will, the rings, then the minimum as a `long`, then the wait with the clock subtracted as it begins.  Times are true; the code sees `Width` bits. |
| `TimedStringMap` | `TimedStringMap.cpp` | An insertion is known by its timer, one of `TimerService`, with the slot it got.  A call holds `mDataLock` from its first action to its last; the timer thread has its argument before it takes the lock. |
| `TimeoutsAndMap` | | `CSSTimeout` or `TimedStringMap`, in one run. |
| `Tickets` | `TicketPad.cpp`, `TicketOutlet.cpp` | `GetTicketPad` as test, creation and use of `ourTicketOutlet`; `getTicket` as read, count, write and return; the death of a process between any two. |
| `SmartPtr` | `SmartPtr.h` | A call is the sequence of its accesses to memory, and a thread has the rest of it to do: compare, set, count up, count down, delete, where a count that reaches zero puts the object's member and its deletion in front. |
| `InstanceMap`, `InstanceList` | `cInstanceMap.h`, `cInstanceList.h` | Each method is one action; one iteration is followed from `GetFirst` on, with what it has visited. |
| `MonitorPVFC` | `MonitorPVFC.cpp` with the `cThread` and `cEvent` it uses | Start; Stop as flag, signal and join; the threads its Starts create, each step of their loop. |
| `SharedList` | `cSharedList.cpp`, what it uses of `cSharedMemory.cpp`, `cMutex.cpp`, `cSemaphore.cpp` | The constructor in two steps, `put` in three, `get` in two, `flush` record by record, and the end or death of a process between any two. |

## 3. Runs

Every property of a passing run has a mutant that breaks it (`PROJECT.json`).
The type invariant of a module is the first conjunct of one of its safety
invariants; in `TimerManager` it is that of `AtMostOneLateCall`.

| run | shows | bounds, and why they are enough |
|---|---|---|
| `TimerManager` | Under all interleavings: no underflow and right types; PauseAll waits for the callback in progress and prevents later ones; a live timer keeps its slot through Grow; the event passed is the timer's own, or none, unless the timer was killed since it rang or the array was deleted under the read (`ForeignEventOnlyAfterKill`); at most one late call; no timer rings early; the manager implements `TimerService`; with a fair timer thread running timers ring again and again. | Two clients and the handler make four calls.  Two timers, periods 2 and 3 with precision 2, so that one is no multiple; an array that begins with no slot and grows by one, twice, so that Grow happens under a running timer.  Slot reuse needs kill and create: two calls.  Freed memory reads as a period, none of them, or zero, and as any event. |
| `ReportQ` | Where each event is until it is deleted, once; order; a reporter that unregisters is signalled no more, and is before the cursor exactly if it has the event; Normal before Low; suspension; events are served and `terminate` returns (`QueueServes`). | Two clients, two events, a reporter of each priority, five calls besides two `init`s: suspend, resume, report, terminate and init again fit. |
| `DualReportQ` | The violation: an event of the two queues is deleted twice, or while the second queue has it (section 5). | Two events and four calls; the shortest behaviour needs one event.  With the deletion at `CSSReportQ.cpp:248` left out of the first thread, the property holds of all 14 000 states. |
| `Notification` | Events live while queued, delivered or being sent; nothing is queued for an object that has purged, and a callback's object waits for it (`DestroyedObjectLeftAlone`); order. | Two clients, one notifier, two objects, two events, one repost per object: one client destroys what the other uses. |
| `NotificationLive` | `NotificationProgresses`: a destruction ends, unless two threads wait for each other over the two lock orders; the queue drains. | One event suffices: both properties are about objects and locks. |
| `TcpSend` | With `waitForAckP`: every success of `Send` has an ACK of its own, received since the Tx thread took the message, and a call of `send()`; no message is sent more often than the retries allow (`VerdictsAreAnswered`).  Not that the message was transmitted, nor that the ACK is its own and not a late one: section 5.  Counts without `waitForAckP`. | A client and the heartbeat as senders, two messages, one retry, two connections: each sender can empty the queue of the other's message, a late answer meets a later message, a `send()` fails, a link is lost and found.  States are told apart by all but `mTXstate`, which no guard reads (`VIEW`). |
| `TcpReceive` | Wherever reads cut the stream, the callback gets its messages (`Frames`, a definition of its own, is the reference), but for two recorded mishaps; silence decides (`SilenceDecides`): a link that is up has its silence timer running, and goes down if the peer is silent, and does not after a message in time, unless timers share a number. | Four ways to frame, two messages per connection among short, empty, skipped ones and ones with an ACK's code inside, every way to cut them, two connections; two messages on each restart the silence timer: four timers, and three slots for the one in use, one left behind and a free one. |
| `TcpServer` | Counts equal references; order per client, and every client the message is for is served or queued for (`ClientsServedInOrder`); the status reported matches the sessions. | Three clients, so that an erase in the middle skips one and leaves one; two messages; one other cTcp. |
| `SharedList` | Order and number of the records over writers, readers and deaths, and that the semaphore counts the unread records of all lists (`ListsAndCountsAgree`); a record whose address a reader has is not written to.  They hold until one of the recorded mishaps, where the run stops. | Two lists on one semaphore, three processes, so that one may die between two others; three slots, the fullest being two records, a semaphore that reaches its maximum with two, four puts: the index goes round. |
| `CSSTimeout`, the timeouts | A waiter gets the first signal and no earlier one; a destroyed timeout leaves nothing with the thread that could be used, and a timeout expires by the timer of its last start (`TimersServeTheirStart`), but for the recorded mishaps: once a timeout was restarted with a `WM_TIMER` due (`late`), the one left over may wake it, or its successor at the same address, and that is not caught; a timeout that is started and not stopped expires, and a destructor returns, unless messages were lost or crossed or its caller holds the section. | Two clients, four calls, one address with two lives, three system timers: restart with a timer due, destroy on the thread, create anew. One timeout is enough for its own maps; its rivals are its earlier starts and its earlier life. |
| `CSSTimeout`, the map | `EntriesGoByTheirTimer`: an entry has a live timer of its own and no other timer is live, and goes when a timer rings only if that was its timer, or had been killed and replaced while it rang; `EntriesExpire`: in the end no entry is left whose key is not empty. | One client, since a call holds the lock throughout, three keys of which one is empty, three insertions: a key inserted anew while its first timer rings, and a third timer in the slot of one that was killed. |
| `Parts` | See the next table. | |
| `MonitorPVFC` | The violation: Start, Stop, Start, and nothing monitors (section 5). | Three Starts; two do. |

The parts of `Parts`, none of which acts on another:

| part | shows | bounds, and why they are enough |
|---|---|---|
| clock | `PulsesAtDeadlines`: never an early pulse across wraps; the deadline stays within a period; a sleep longer than a period has one cause only. | 5 bits, precision 4, delays up to 9, times up to 100: three wraps, met by every phase and delay. |
| thread | `HandlesClosedOnce`: no handle is closed twice or left open; `JoinMeansFinished`: Join says "finished" only of a thread that is, unless one of three recorded mishaps came before. | Two runs, three joiners, four joins: the third joins while another's timeout removes the entry. |
| queues | `ConsumersServed`: a queue with items has its event signalled or a consumer woken for it; `UsedWhileAlive`: an item is in one place, and is destroyed twice, or the manager at a dead queue, only in the circumstances of section 5; `RingsInTime`: a wait of the manager does not outlast the next expiry, and what is found expired is. | A plain and a limited queue, two items, two consumers, four calls: construct both, insert in both; insert twice, wait, take.  Three bits of clock, begun so that it wraps after some steps. |
| tickets | `TicketsUnique`: no number twice until they begin anew, and the file not behind the last ticket, unless two pads counted or a write failed. | Two processes, one with two threads, two deaths, numbers up to 3 that begin anew twice. |
| pointers | `CountsAreReferences`: counts are the references counted, the last one deletes, nothing deleted is used, as long as no pointer is assigned while another thread uses it. | Two objects, each with a member, two variables, two threads, four calls: an object referred to by the member of one that is released. |
| monitor | `StopEndsMonitoring`: the signal of a Stop is not lost, no thread monitors after it and never two do, unless Start came twice before the thread had begun. | Three Starts. |
| map, list | `IterationsComplete`: an iteration visits each element that was there and stayed, and none twice, however others change the container between its calls, unless it was cut short by the removal of its current element (or, in the list, an instance was in it twice or was moved). | Three keys or instances: one before, at and after the iteration's place; the list up to four long. |

Deadlock is not checked where the system may stop: queues are terminated,
objects are destroyed, bounded calls run out.

### Fairness

* `TimerManager`: weak fairness of `Pulse` as a whole, the timer thread being
  scheduled and callbacks returning, and of the later steps of a `Grow`, which
  runs with `mMutex` held.  None on what clients decide to do.
* `ReportQ`: weak fairness of the event thread and of the return of `Join`; and
  a client that suspended resumes, which is what `cSuspendReporting`'s destructor
  does.
* `Notification`: weak fairness of the event thread; a client in the middle of
  a call goes on, strongly fair because it waits for critical sections and
  spins with `Sleep(0)` that the scheduler ends.
* `TcpReceive`: weak fairness of `KickRxTimer` once begun and of the timer
  thread's callback; strong fairness of the expiry of a live timer, which is
  what `RunningTimerRings` shows of the manager.
* `CSSTimeout`: weak fairness of the timeout thread and of each system timer
  that runs; a client goes on in a method it began, and leaves the section it
  is in.  That it enters the section or calls anything is not assumed.
* `TimedStringMap`: while there are entries with keys, timers of such entries expire
  (strong fairness of all of them together, which is less than what
  `RunningTimerRings` shows of each); weak fairness of the timer thread and of whoever holds `mDataLock`, which
  nobody waits in; strong fairness of the timer thread's taking it, a critical
  section that others enter and leave meanwhile.
* The other modules state no liveness: a `Send` ends by a timeout, a `Join`
  may wait forever by design.

## 4. Proofs

`TimerManagerProofs` proves, for every number of clients, handlers, timers and
slots, any set of periods and any precision, from `TimerAssumption` alone:

| theorem | says |
|---|---|
| `Invariance` | `IInv` always holds |
| `TypeCorrect` | `TypeOK`: in particular no count goes below zero |
| `PauseAllSafe` | `PauseAllQuiesces` |
| `SlotsSafe` | `LiveTimersKeepTheirSlot` |
| `EventsSafe` | `ForeignEventOnlyAfterKill`: from the read of `eventInfo` to the end of the callback |
| `LateCallsBounded` | `AtMostOneLateCall` |
| `TimersNotEarly` | `NeverEarly` |
| `Refinement` | `Spec => Service!Spec` |

`TimerAssumption` says that the timer thread is no client, that `NULL` is
nothing else, that periods are naturals, the precision and the growth positive.

No property is inductive by itself.  The inductive invariant `IInv` adds what
the locks mean for the program counter (`Locks`); that between the steps of a
`Grow` the mutex is held and the copy agrees with the array on everything only
the mutex protects, though not on the count the pulse may reload
(`GrowInProgress`); that a free slot points to no event (`FreeSlotsHoldNoEvent`,
which is why a slot that was killed during a callback passes none); that the
expiry in progress is of a timer that still has its slot or is dead
(`ExpiryTracked`); that a late call is spent (`LateCallsSpent`); and that what
a slot has still to count and what it has counted make a period
(`CountsComplete`, from which `NeverEarly` follows).  The proof goes action by
action: one lemma per part of `IInv` says that a step of the pulse, of a call
or of `Grow` keeps it, and the refinement maps each step to one of the service's
or to a stutter.

Further modules prove what the runs show on small instances:

| theorem | says | assumes |
|---|---|---|
| `ClockPulsesAtDeadlines` of `PartsProofs` | `PulsesAtDeadlines`, for any width, precision, delays and number of wraps | `ClockAssumption`: the precision is above zero, and a period and a delay together are less than the clock's round |
| `HandlesAreClosedOnce` of `PartsProofs` | `HandlesClosedOnce`, for any number of runs and joins | of `PartsAssumption`: the joiners are a finite set |
| `JoinsTellTheTruth` of `PartsProofs` | `JoinMeansFinished` | the same |
| `TicketsAreUnique` of `PartsProofs` | `TicketsUnique`, for any threads, processes, outlets and deaths | of `PartsAssumption`, the `Parameters` of `Tickets`: a greatest ticket above zero, what the file may hold, and that 0 is no thread and no process |
| `IterationsAreComplete` of `PartsProofs` | `IterationsComplete`, for any keys and values, any instances, lists of any length and any changes in between | of `PartsAssumption`, the `Parameters` of `InstanceMap`: keys are integers, that is, ordered |
| `CountsAreTheReferences` of `PartsProofs` | `CountsAreReferences`, for any objects, each with its member, any variables, threads and number of calls, in every interleaving of their accesses | of `PartsAssumption`, the `Parameters` of `SmartPtr`: a name is that of one pointer, and `NULL` of none |
| `StopEndsIt` of `PartsProofs` | `StopEndsMonitoring`, for any number of Starts | nothing |
| `WaitersGetFirstSignals` of `CSSTimeoutProofs` | `WaiterGetsFirstSignal`, for any threads that use one object in any order (`ConditionSpec`, of which the threads of `CSSTimeout` are a case) | nothing |
| `FirstSignals` of `CSSTimeoutProofs` | the same of `CSSTimeout`, for any threads, timeouts and timer ids | `TimeoutAssumption`: the timeout thread is a thread, `NULL` is nothing else, the bounds are naturals |
| `TimersServe` of `CSSTimeoutProofs` | `TimersServeTheirStart` | the same |
| `AllEventsAccounted` of `ReportQProofs` | `EventsAccounted`, for any clients, events, reporters, priorities and numbers of calls | `ReportQAssumption`: every reporter has a priority, the bounds are naturals, and `NULL` is no event, no client and not the event thread |
| `AllSignalledInOrder` of `ReportQProofs` | `SignalledInOrder`, with Normal before Low | the same |
| `SuspensionsHold` of `ReportQProofs` | `SuspensionHolds` | the same |
| `AllEventsAlive` of `NotificationProofs` | `EventsAlive`, with `TypeOK`, for any clients, notifiers, objects and events | `NotificationAssumption`: `NULL` is no client and no object |
| `DestroyedLeftAlone` of `NotificationProofs` | `DestroyedObjectLeftAlone` | the same |
| `AllDeliveredInOrder` of `NotificationProofs` | `DeliveredInOrder` | the same |
| `LinksAsReported` of `TcpServerProofs` | `StatusMatchesSessions`, for any clients, any messages and any number of other objects constructed | `TcpServerAssumption`: the clients are a finite set, the bound of the others a natural |
| `ReferencesCounted` of `TcpServerProofs` | `CountsReferences`, with `TypeOK` | the same |
| `AllServedInOrder` of `TcpServerProofs` | `ClientsServedInOrder` | the same |
| `NoneUsedAfterDelete` of `TcpSendProofs` | `NoUseAfterDelete`, for any senders, messages and connections | `TcpSendAssumption`: the bounds are naturals, the heartbeat is configured or not, the Rx thread is no client |
| `VerdictsAnswered` of `TcpSendProofs` | `VerdictsAreAnswered`, with `TypeOK`, for any number of retries and late answers, and whatever `send()` does | the same |
| `ListsAndCounts` of `SharedListProofs` | `ListsAndCountsAgree`, for any lists, processes, slots, deaths and bounds | `SharedListAssumption`: a list has two slots or more, the bounds are naturals, lists and processes are finite sets |
| `RecordsKept` of `SharedListProofs` | `RecordKeptForReader` | the same |

* *Clock*: the code compares numbers of `Width` bits; lemma `DWORDCompares` says what
  that means of the true times.  `bOverflow` is clear at the top of the loop and at a
  pulse, and in the inner loop a deadline that is still to come has as many wraps
  as the clock, unless `bOverflow` says otherwise (`ClockIInv`).  So the test of the
  numbers is the test of the times; when the clock has wrapped past a deadline
  that was not served, it is not, and that is the one long sleep.
* *Threads*: the handles of all threads but the last are closed, and the last
  one's unless the entry of `gThreadInstances` is there (`ClosedWithoutEntry`);
  the entry counts the joins in progress, all of which wait for its handle
  (`JoinsCounted`), and that of a deleted object is there for a join
  (`EntryForJoins`).  All this until a Run replaces the entry of a thread being
  joined.  `NoEntryIsFinished` is what a Join without an entry relies on.
* *Tickets*: only one pad counts, and only the thread that holds its lock is in
  `getTicket` (`OnePad`, `Locked`); the file is at or after the last ticket
  (`FileNotBehind`), the pad's number at or after the file unless a round
  begins (`NumberNotBehind`), and a number that was counted after the last
  ticket (`NumberIsNew`), wherever a process dies.
* *Monitor*: the only thread that is not over is the entry of
  `gThreadInstances`, which the Join of a Stop waits for (`OneThread`); a thread
  in the loop has set `isRunning`, so that a Start finds none (`RunningIsKnown`);
  the signal stays until the last wait (`SignalKept`).
* *Containers*: an iteration by `GetFirst` and `GetNext` keeps nothing but its current
  element, so the invariant says what the others may do to the rest.  In the
  map (`MapIInv`), where `GetNext` takes the least key above the current one, the
  keys returned ascend (`Ascending`), and a key that was there from the beginning and
  stayed has been returned if it is up to the current one (`NonePassedBy`).  That
  there is a least key at all is part of the invariant (`Bounded`), because the keys
  are any integers.  In the list (`ListIInv`), where `GetNext` looks the current instance
  up and takes the one after it, the instances kept from the beginning stand in the
  order they had, whatever is put at the ends or taken out between them; those
  returned do not stand after the current one (`OnceReturned`), and those kept that do
  not stand after it have been returned (`NoneSkipped`).  A removal is the first
  occurrence, found as the least of the positions by a minimal counterexample
  (`WFMin`).
* *Pointers*: the code of a call is a sequence of accesses to memory, which the
  model keeps as the thread's remaining steps.  `InCall` says what such a
  sequence can be: a rest of the plan of one of the calls (`Copies`, `Constructs`,
  `AssignsNew`, `Releases`), before which the destructions may stand that it has set off,
  each with the release of the object's member (`Follows`, `Destroys`).  As long as no
  pointer is assigned while another thread uses it, what a thread assigns and what it
  destroys is nobody else's (`Apart`).  So a pointer that is set and not yet counted, or
  discounted and not yet set, is the thread's temporary, the one it assigns or the
  member of an object it destroys; `CountIsRight` counts the others.  `NoReference` is about the two moments at which an
  object has no reference and yet is not lost: after the count went to zero and before
  the deletion, and after the construction and before the first
  pointer has counted it.  The hard step is a count that goes to zero, which puts the destruction of the
  object and the release of its member before everything that is left of the call;
  the lemmas say that what was left keeps its form behind it.
* *Multicondition*: the property is inductive as it stands.
* *Timeouts*: a client that destroys a timeout is alone with it (`UsersKnown`),
  which is what the code asks of its users; so nobody posts for it after the
  destructor, and the destructor's stop is the last message about it
  (`Answered`).  When that is answered the thread has no message, timer or expiry
  of the timeout, and the next one at the same address begins with nothing.
  `TimersKnown` says that a system timer that runs is in both maps; a due
  `WM_TIMER` whose timer was killed finds a timeout in `mSystemTimerMap` only if a
  start had replaced that timer, whose entry stays, and that timeout is then
  recorded as `late`.  `Numbered` compares the number of the
  last start posted with that of the last start queued, of the timer that runs
  and of the timer by which a timeout expires; only a start that is still coming,
  or one that was lost or refused, makes them differ.
* *Event queue* (`ReportQProofs`): everything is said by positions in the
  sequence of accepted events.  What is queued is the end of that sequence
  (`QueueIsSuffix`) and the event the thread has is the last one before it
  (`CurrentIsLast`), so that what the thread takes next was accepted later than
  everything it has signalled; each event before that was deleted once or
  dropped by an `init` (`TakenAccounted`).  `DeliveredOK` says of each reporter's
  events that they are accepted ones in their order and, while the thread is in
  its loop over the reporters, which of them have the event: those before the
  cursor.  It is inductive only because `ReporterList::add` and `remove` keep the
  list without repetitions and move the cursor with the list; the lemmas about
  `InsertAt`, `RemoveAt` and `Min` in that module are for this.  `WakeIsRelease`
  counts, for a thread that waits for `mpReportSuspended` and would be woken,
  one `resume` or `terminate` more than the events that slipped through.
* *Notification* (`NotificationProofs`): who is registered with whom is the same on
  both sides, under the notifier's lock, and only of living objects that have not
  yet purged the queue (`Registered`); from that, a client that has checked
  `mbObsolete` without a lock and queues afterwards, which holds the notifier's
  lock all the while, cannot queue for an object that is past its purge.
  `Counted` says that the thread is counted for every living object, so that it
  is there when it must be.  `LeftAlone` is about the queue and about what the
  thread holds: a callback is only of an object whose destructor has not come
  past the wait for it (`Waits`), which is the inductive form of "the callback
  keeps its object".  `Referenced` counts the uses of an event, which has one
  sender at a time; a purge only takes uses away.  `Ordered` compares positions in
  the sequence of what was queued for an object, of the delivered events, the
  one the thread has taken, and the queued ones.  Queues after a purge, a
  `PopEvent` or a `RepostEvent` are compared with the ones before by a map between
  their positions (`Embeds`, `Inserts`); `Purged` is defined by ranks for this,
  because `SelectSeq` is recursive and says nothing to the prover.
* *Server* (`TcpServerProofs`): `TypeInv` is `TypeOK` and the types of what it
  does not mention, but for the bound on `client_id`, which follows from `Numbered`: no more ids are given than
  clients were accepted, and each new one is above those in use, but for the
  recorded renumbering.  `Status` is what is reported, at each step of an
  `Update` and not only between two.  `Placed` says where the Tx thread's message
  is: the last one taken, in no queue of `cTcp`, and only once anywhere.
  `Ordered` is about the stream of a session, what was sent to its client
  followed by what is queued for it: some of the messages taken, in their order
  (`InOrder`).  A socket that takes k messages and blocks moves the limit between
  the two halves and leaves the stream, with the new message at its end
  (`Lengthened`), as it is; so order does not depend on what the sockets do.
  `Served` adds that the stream of a session the loop has not come to yet lacks
  the message, which is why it may be put at the end, and that a session passed
  has it, unless it was skipped.  `Counted` says that a count is the number of
  the queues that have the message and of what the Tx thread still has to
  dismiss; a client that goes gives back one for each message in its queue, and
  only one, because no stream has a message twice.
  Writing this proof showed a mistake in the model: after a session had been
  skipped, no action let the Tx thread begin its next message
  (`EnterSend` both reset and kept `skipped`).  It was corrected, and the run
  repeated.

* *Transmit side* (`TcpSendProofs`): a message is queued once, taken once and
  never again, because a `Dismiss` that leaves no reference deletes, so that none is
  new afterwards (`QueuedOnce`, `Dismissed`).  `Tries` weighs the calls of `send()`
  against the retries that are left, at each step of the loop; `Verdicts` says that
  a wait for an answer has such a call behind it, and that the ACK the Tx thread
  finds came after it reset the status.  `Answered` counts: the messages whose
  senders were told of an ACK, and one more if an ACK has come since the present
  one was taken, are no more than the ACKs received.  A message is told once, as
  it is then gone from the queue and from the loop, so that an ACK pays for one
  success.  Nothing of this needs the counts to be right, and with `waitForAckP`
  they are not.  Without it no sender holds a
  message, and `SendersAway` gives its count at each step.  `CountsBounded` is
  there for the type of the count: what a sender has read and will write back is at most 2
  while the Tx thread has still to add its reference.

* *Shared list* (`SharedListProofs`): the slots are a ring, whose arithmetic is lemma
  `Ring`.  All of the invariant but the types and what the lock means for the
  program counters is about behaviours without a mishap.  `Accounted` says slot by
  slot that what was put is what was taken and then what is in the list, less the
  record a writer has still to copy, which goes to the slot written last
  (`CopiesToLast`).  That slot is not the one read last, and so not the one whose
  address a reader has (`Kept`).  `Counted` takes the unread records as slots: a
  put adds one, a get or flush takes one away, and a death leaves them.  A list
  that nobody uses is empty (`EmptyIfUnused`), so that nothing is left when the
  semaphore goes with the last process.

Stating the parts' properties of their sum showed another: in `TimedQueues` the
items that a round of the manager finds expired were a set, and rang in an order
that no variable held; they are now the sequence of the code's `std::list`, and
the symmetry of the run is sound.

What only TLC shows: liveness and fairness; everything in the other modules,
`ConsumersServed`, `UsedWhileAlive` and
`RingsInTime` of the timed queues, and `MessagesAsFramed` of the receive side among it; and what the
library's operators on sequences and sets compute by folds or recursion.

## 5. Where the code does otherwise

The properties hold because they name the circumstances in which the code does
otherwise than its comments, its names or its release notes say:

* `KillTimer` "Stop the timer": the handler may be called once more after it
  has returned (`AtMostOneLateCall`).
* `Pulse` reads `eventInfo` at `cTimerManager.cpp:519` with no lock, and calls.  A
  `KillTimer` before the call frees the event that is passed, and a `CreateTimer`
  may have given the slot another: the handler of a killed timer gets a freed event
  or another timer's.
* `Grow` deletes the array (`cTimerManager.cpp:412`) before it sets `mTimers` to the new
  one (415).  `Pulse`, which has loaded the pointer, reads the event (519) or the
  period (521) from freed memory, and passes any event without a kill (`fromFreed`),
  or reloads any count (`raced`).  Its store to the old array is lost, or goes to
  freed memory: what that does to the heap is not followed.
* The reload at `cTimerManager.cpp:521` is unlocked: after a kill and a create
  it gives a new timer in the same slot a count that is not its period
  (`raced` in `NeverEarly`).
* `ThreadProc` can still sleep for nearly 2^32 ms if the clock wraps while a
  deadline is overdue (`LongSleepNeedsMissedWrap`; `ReleaseNotes.txt:97` says
  it was fixed).
* `ReporterList::add` puts a High reporter behind Normal ones when no Normal
  follows it, so High reporters can stand behind Low ones and be signalled by
  the wrong queue: "the list is always kept sorted by priority" holds of Normal and
  Low ones (`Sorted`).
* "set the pointer to NULL to avoid double-deletion" (`CSSDualReportQ.cpp:89`):
  the pointer is `signalEvent`'s own parameter.  The thread that called it deletes
  the event again (`CSSReportQ.cpp:248`), and also one that `mReportQ` has got
  meanwhile, will signal and will delete (`CSSDualReportQ.cpp:80`: "mReportQ will
  delete the event when it is done").  So every event that the two queues take is
  deleted twice (run `DualReportQ`, a violation of `DeletedWhenDone`), and nothing
  can be said of order or delivery in a `cCSSDualReportQ`: the model stops being
  the program where freed memory is used.
* `disable()` leaves the status Expired and not Disable, because it ends with
  `stop()`; the comment at `OkToExpire` expects Disable.  A `stop` that crosses
  another client's `start` leaves the status Set with no timer to come
  (`crossed`).  A timeout restarted while its `WM_TIMER` is due expires at once
  (`late`), and `mSystemTimerMap` keeps the numbers of the timers before.  A start
  still to be handled when the timeout is destroyed on the thread reads the
  destroyed object's name (`torn`).  What is posted before the thread has called
  `GetMessage` is lost, and the destructor then waits for ever (`lost`).
* The destructor of a timeout, called with the multicondition's section held,
  waits for the thread while the thread waits for the section (`Deadlocked`).
* A second thread in `wait()`, or a `setType`, takes away the signal of the first
  waiter (`disturbed`), though it is woken or will be.
* A `Join` that timed out removes the running thread from the table, and the
  next one says it has finished; `Run` closes the handle of a thread that is
  being joined; `_isRunning` is false until the thread starts (`mishaps` in
  `ThreadLife`).
* An event is in nobody's hands between the pop and
  `SetCurrHiddenNotifiableObject` (`cEvtThread.cpp:174-180`): an object
  destroyed there is called afterwards.  A `RepostEvent` after the purge puts an
  event of a destroyed object in the queue (`PurgedForGood`).  Events that
  `Purge` removes keep a reference and are never deleted.
* `cTcpClient::Send` does not look at the result of `send()` (`cTcpClient.cpp:207`)
  but at `iResult`, which the Rx thread sets, and at the last error: a message that
  was not transmitted is reported as sent, and the late ACK of an earlier one then
  makes it a success.  An ACK carries no number, so that of an earlier message, if
  it arrives after the next was taken, counts as the next one's: what
  `VerdictsAreAnswered` leaves is that no ACK counts twice.
* `mAckNakEvent` is not reset with `mAckNakStatus`, so an old answer ends the
  wait for a new one and brings the TX link up.
* The number of a timer is that of its slot, which the next timer may get.  A
  silence timer whose expiry is pending is killed and created anew by a message,
  in the same slot, and the pending call then takes the link down
  (`DownOnlyAfterSilence` is about timers in different slots; `cTcp.cpp:289`
  says "since a message has been received, reset Rx timer").
* `StopRxTimer` on the timer thread reads `mRxTimerId` again, and may kill the
  timer that the Rx thread has just created, or forget it while it runs; it
  then rings on as an unknown timer.
* `cTcpMsg::Add` looks for an answer wherever a read begins: a read that begins
  with 6 or 21 in the middle of a message, or in its count, discards what was
  gathered (`misread`).  A message torn by the loss of the connection is joined
  to the next connection's first (`torn`); in count mode the count may then be
  less than 3, and `Add` erases more characters than there are.
* With an ETX and an end string, `Add` looks for the end string at the position
  of the ETX, not behind it as `cTcpMsg.h:22` has it, so no message ends but
  one whose last characters come in a later read.  An end string of several
  characters is copied up to its first and removed in its length; one that is
  split over two reads is not found; with `RemoveEndStr` off a message keeps
  whatever was read behind it.  Whatever `RxCarEndP` is, 3 is looked for.  The
  configurations of the run are those in which framing works.
* "make sure message cannot be deleted until we complete since it may need to
  be resent" (`cTcp.cpp:517`): `SendMsg` dismisses the message each time
  (`cTcpClient.cpp:232`), the resend of line 548 once more than `AddRef` took, so
  that with `waitForAckP` and a retry the message is deleted while the Tx thread
  and its sender use it.  `NoUseAfterDelete` is about the other mode.
* A `Send` that fails empties the queue of the other senders' messages, which
  are then neither sent nor freed (`cTcp.cpp:457`).
* `IsCreated` is always true (`cSharedMemory.cpp:73`), so each process that
  attaches itself to a shared list resets it, without the lock: unread records
  are gone while the semaphore still counts them, and so is the number of
  clients, after which `put` refuses everything (mishap `reset`).
* `FillMemory` begins at 20 bytes, the records at 10: the first bytes of the first
  record keep their contents and ten bytes behind the list are cleared.
* All shared lists have one mutex and one semaphore ("SMMutex", "SMSemaphore"): a
  reader of one list is woken by a record of another and reads a slot that
  holds none (mishap `foreign count`).
* `flush` holds the mutex in a wait without end for one more record, which needs
  the mutex to be put: it never returns.
* A process that dies between an index and the semaphore leaves records that no
  reader is woken for (`uncounted`), and so does a `Release` at the maximum
  of 2048, whose result is ignored.
* `StartMonitorForPVFC` "starts a thread that will monitor ... and exit current
  process" (`MonitorPVFC.h:6`).  `mTerminate` is set by Stop and reset by nothing:
  a monitor that is started again returns at once, though Start returned true
  (run `MonitorPVFC`, a violation of `StartedMonitors`).  A Start before the thread of
  the one before has begun creates a second thread, and the one signal of a Stop
  wakes only one of them (`twice`); a Stop at that moment returns false.
* The minimum over the queues is a `long` that begins as `INFINITE`, -1: an expiry in
  the lower half of the clock is never below it, and the manager sleeps until
  the clock is about to wrap, or a queue changes.  A deadline that passes
  between the round and the wait makes `nextWakeup - GetTickCount()` wrap, and
  the wait lasts 49 days.  An expiry beyond the wrap rings at once.  `Snooze` and
  `Remove` do not tell the manager.  `WaitCoversDeadlines` names the waits that end
  in time.
* An item that rang can be taken by a consumer before the event thread destroys
  it, or ring twice first: it is destroyed under its user, or twice
  (`takenRinging`, `rings`).  The list of queues has no lock: the manager may be
  at a queue that leaves (`unjoined`).
* `OnTimerEvent` of `cTimedStringMap` waits for `mDataLock` with an event that
  `KillTimer` frees meanwhile (`readFreed`).  A late call of a killed timer
  removes the entry whose timer has got its slot.  An entry under the empty key
  never goes by itself (`TimedStringMap.cpp:93`).
* "une seule instance et pour toujours" (`TicketPad.cpp:339`): `ourTicketOutlet` is
  tested and set without a lock, so two threads can create one each, with a
  pad each that counts for itself; so do two processes (`two pads`).
  `setConfigKey` tests the `BOOL` of `WritePrivateProfileString` with `>= 0`, so a
  number that was not written counts as written (`not written`).
  `VerifyAndCreate` asks `bad()` of a file that would not open, which is not set.
* Objects that refer to each other are never deleted by `SmartPtr`; a pointer
  that is copied while another thread assigns it can be counted when its object
  is gone (`raced`); `operator=(int)` sets the pointer to NULL after the release,
  so a destructor that reads it finds the old object.
* `GetNext` says there is no next element when the current one has been removed
  (`cut`), and `cInstanceList::GetNext` goes by the first occurrence of an
  instance, so that one that is in the list twice makes the iteration go round
  for ever.  `FindElement` returns the last match, not "the first matching
  element found" (`cInstanceMap.h:307`).  `operator==` of `cInstanceList` locks only
  one of the two lists.
* In the server, the send timer calls `SendMsgToClient(NULL)` "to send any
  remaining message" (`cTcpServer.cpp:555`), which dereferences the pointer:
  `alive` becomes `crashed` in `TcpServer`.
* In the server: the session after one that was closed by a send is passed over
  (`skipped`), `client_id` is static and reset by any other cTcp
  (`renumbered`), a dismissal without a lock can leak or delete twice
  (`raced`), what a send closes between updates is not reported
  (`closed by send`).

## 6. What is not modelled

* The heartbeat timer of `cTcp`; other users of its timer manager, whose timers
  a stale number could kill.
* Partial sends: the code takes them for whole ones.
* The failure of `KillTimer` in `HandleStopTimer` (`CSSTimeout.cpp:281-291`): the maps
  lead there only to timers that run, of which Windows can kill each.
* Arrays deleted under the timer thread, as `TcpReceive` and `TimedStringMap` might
  meet them: they rest on `TimerService`, which knows nothing of arrays, and so
  speak of managers with no more than ten timers at a time.
* A reporter that unregisters itself from its callback, and an object destroyed
  in its own callback: the first is undefined behaviour of the standard
  library, the second waits for itself forever.
* Tokens and several groups of notification.
* `cMonitor`, which loads a library, calls it and hides its window, one call after
  the other: `Show` twice loads it twice, nothing unloads it.
* Two first queues that construct the timer queue manager at a time; `Remove` of
  a timed queue called by a client, who would own the item.
* Copies and comparisons of `cInstanceMap` and `cInstanceList`: two locks, taken in
  the order of the arguments.
* `cHandledObject`, `CtxId`, `SimpleList`, `LockableStlContainers`: nothing is shared
  but what their users lock.
* The limit of 10 000 posted messages, and `SetTimer` giving the number of a
  timer whose `WM_TIMER` is still due.
* Pure input and output and conversions (see the list in `PROJECT.json`).

## 7. Plan

Every component with state of its own has a module.  What is left, the most
important first:

1. **Proofs**: of the timed queues, `UsedWhileAlive` and `ConsumersServed`, then
   `RingsInTime`; `MessagesAsFramed` of `TcpReceive`, whose parser is a recursion over bytes.
2. **The heartbeat** of `cTcp`, in one model with the silence timer.
3. **Copies** of `cInstanceMap`, with their two locks.
